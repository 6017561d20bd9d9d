SPECIFICATION Spec
CONSTANTS
  Image = {i1, i2, i3}
  NULL = NULL
  SettleFrames = 1
  MaxKills = 1
PROPERTIES GuestNeverPublishes
