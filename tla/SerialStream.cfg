\* Every fragmentation in both directions, lines that end, failing writes,
\* reopening.
SPECIFICATION FairSpec
CONSTANTS
  Base = 2
  Requests <- MCRequests
  ListBody <- MCListBody
  Replies <- MCReplies
  count = 2
  MaxWrites = 2
  MaxUnread = 1
INVARIANTS
  FramedAsWritten
PROPERTIES
  ImplementsChannel
  ReadsReturn
