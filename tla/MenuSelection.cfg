CONSTANTS
  phone = phone
  laptop = laptop
  headset = headset
  NoDevice = NoDevice
  Devices <- ThreeDevices
  MAX_DEVICES = 2
SPECIFICATION Spec
SYMMETRY Symmetry
INVARIANTS SelectionInRange
CHECK_DEADLOCK FALSE
