SPECIFICATION Spec
CONSTANTS
  Name = {n1, n2}
  None = none
  Partition = {pt}
  ConfigText = ct
  MaxFiles = 2
  LastWriteFails = FALSE
  MaxDelete = 1
  MaxFault = 2
SYMMETRY Names
INVARIANTS Kept OpenLogKept PagesCover
CHECK_DEADLOCK FALSE
