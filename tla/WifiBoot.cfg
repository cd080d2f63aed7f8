SPECIFICATION Spec
CONSTANTS
  Refused = refused
  SsidMax = 32
  PasswordMin = 8
  PasswordMax = 64
  Huge = 100000
  MaxTemp = 2
PROPERTIES AcceptedWifiBoots
