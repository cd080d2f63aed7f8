SPECIFICATION Spec
CONSTANTS
  Saver = {s1, s2}
  Value = {0, 1}
  NvsFails = FALSE
  MaxCrash = 0
  None = none
  Torn = torn
SYMMETRY Symmetric
INVARIANT RolledBack
