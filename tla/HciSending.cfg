CONSTANTS
  h1 = h1
  h2 = h2
  c1 = c1
  c2 = c2
  c3 = c3
  None = None
  Handles = {h1}
  Channels = {c1, c2}
  HandleOf <- OneLinkHandles
  acl_packets_total_num = 2
  HCI_HOST_ACL_PACKET_NUM = 1
  MaxFragments = 2
  InitCommands = 1
  MaxIncidents = 1
SPECIFICATION FairSpec
CHECK_DEADLOCK FALSE
INVARIANTS CreditsAccounted PacketsStayWhole
PROPERTIES WaitingIsAsked HostCompletedReported
