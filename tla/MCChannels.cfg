\* Two peers, every channel at its smallest, as many pieces as the disk task's two channels hold.
SPECIFICATION FairSpec
CONSTANTS
  Peers = {1, 2}
  Tracked = {1}
  Incoming = {2}
  Hanging = {1}
  NumPieces = 2
  SCHEDULER_EVENT = 1
  PEER_EVENT = 1
  PEER_COMMAND = 1
  DISK_EVENT = 1
  DISK_RESPONSE = 1
CHECK_DEADLOCK FALSE
INVARIANTS TypeOK DiskNeverJammed
PROPERTIES SchedulerReturns SessionIsServed
