\* Two clients, two requests each, every fragmentation.
SPECIFICATION FairSpec
CONSTANTS
  c1 = "c1"
  c2 = "c2"
  Clients = {"c1", "c2"}
  BodyLen <- MCBodyLen
  ReplyLen = 2
  Misread = {0, 3}
  HidErrors = TRUE
  BeaconErrors = TRUE
  MaxAccepted = 2
ACTION_CONSTRAINT c1First
INVARIANTS
  WholePackets
  RepliesToAsker
PROPERTIES
  RequestsAnswered
  ClientsServed
\* bridge_mode() may return or be aborted.
CHECK_DEADLOCK FALSE
