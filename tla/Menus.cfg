CONSTANTS
  phone = phone
  laptop = laptop
  headset = headset
  NoDevice = NoDevice
  Devices <- ThreeDevices
  MAX_DEVICES = 2
SPECIFICATION Spec
SYMMETRY Symmetry
INVARIANTS StorageSound ListsAgreeWithStorage MenuIsShown
PROPERTIES ForgetsTheDeviceShown
CHECK_DEADLOCK FALSE
