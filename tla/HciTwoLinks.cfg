CONSTANTS
  h1 = h1
  h2 = h2
  c1 = c1
  c2 = c2
  c3 = c3
  None = None
  Handles = {h1, h2}
  Channels = {c1, c3}
  HandleOf <- TwoLinkHandles
  acl_packets_total_num = 2
  HCI_HOST_ACL_PACKET_NUM = 1
  MaxFragments = 2
  InitCommands = 1
  MaxIncidents = 1
SPECIFICATION Spec
CHECK_DEADLOCK FALSE
INVARIANTS TypeOK CreditsAccounted PacketsStayWhole
