\* Two accept loops, one torrent that can be added twice, one foreign info hash, channels of one.
SPECIFICATION FairSpec
CONSTANTS
  Listeners = {v4, v6}
  Torrents = {t1}
  Foreign = {f1}
  MaxAdds = 2
  CLIENT = 1
  SESSION = 1
  TRACKER_RESP = 1
  SCHEDULER_EVENT = 1
CHECK_DEADLOCK FALSE
INVARIANTS TypeOK PeersOfOwnTorrent
PROPERTIES ReplacedGetsNoPeers ClientIsServed TrackersAreHeard
