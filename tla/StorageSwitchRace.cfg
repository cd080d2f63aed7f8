SPECIFICATION Spec
CONSTANTS
  Name = {n1, n2}
  None = none
  Partition = {pt}
  ConfigText = ct
  MaxFiles = 2
  LastWriteFails = FALSE
  MaxDelete = 1
  MaxFault = 2
PROPERTY SwitchedWhenStopped
CHECK_DEADLOCK FALSE
