SPECIFICATION Spec
CONSTANTS
  CHUNK_SIZE = 2
  UDP_MAX_FORWARD_BYTES = 5
  UDP_RESEND = 2
  WireCapacity = 3
  MaxLost = 1
  d1 = d1
  d2 = d2
  d3 = d3
  d4 = d4
  Datagrams = {d1, d2, d3, d4}
  Bytes = {1, 2, 3, 4, 5, 11, 12, 13, 14, 15, 21}
  Content <- MCContent
  Fragments <- MCFragments
  NoId = NoId
  SendOutcomes = {TRUE}
INVARIANTS
  FlowIsPrefix
  OnlyWholeDatagrams
  RefusedOnlyAfterLoss
PROPERTIES
  LostOnlyIfRefused
  StaleFlowGivesWay
CHECK_DEADLOCK FALSE
