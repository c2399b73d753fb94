CONSTANTS
  HCI_HOST_ACL_PACKET_NUM = 1
  HCI_HOST_SCO_PACKET_NUM = 0
  MAX_NR_HOST_EVENT_PACKETS = 1
  AclSize = 3
  ScoSize = 0
  EventSize = 2
  Packets <- MixedPackets
  EventBurst = 3
  MaxPackets = 4
  MaxOpens = 1
SPECIFICATION Spec
INVARIANTS PacketsInOrder
