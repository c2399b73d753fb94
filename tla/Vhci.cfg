CONSTANTS
  HCI_HOST_ACL_PACKET_NUM = 1
  HCI_HOST_SCO_PACKET_NUM = 0
  MAX_NR_HOST_EVENT_PACKETS = 1
  AclSize = 2
  ScoSize = 0
  EventSize = 6
  Packets <- EvenPackets
  EventBurst = 2
  MaxPackets = 3
  MaxOpens = 2
SPECIFICATION FairSpec
INVARIANTS MutexHeldWhereUsed SleepsOnlyWhenDrained RoomForEveryPacket
PROPERTIES ImplementsChannel AcceptedIsDelivered SendAvailableIsReported CallbackReturns
