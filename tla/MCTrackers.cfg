\* Two families, one peer that comes and goes; answers may be errors, lost or duplicated once.
SPECIFICATION FairSpec
CONSTANTS
  IPv4Peers = {p4}
  IPv6Peers = {}
  TRACKER_RESP = 1
  Ids = {1, 2, 3}
  NetFaults = {"error", "lose", "duplicate"}
  MaxCopies = 1
  Torrents <- UDPOrHTTP
  p4 = p4
  NoId = 0
INVARIANTS TypeOK NothingStale BacklogBounded
PROPERTIES UDPImplementsAnnouncer HTTPImplementsAnnouncer AnnounceEnds
