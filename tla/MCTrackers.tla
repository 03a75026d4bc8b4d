------------------------------ MODULE MCTrackers ------------------------------
EXTENDS Trackers
CONSTANTS p4
UDPOrHTTP == {{"udp"}, {"http"}}
===============================================================================
