SPECIFICATION Spec
CONSTANTS
  NameLengths = {1, 6}
  StringLengths = {4}
  NumberLengths = {1}
INVARIANT NoSilentLoss
