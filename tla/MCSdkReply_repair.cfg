SPECIFICATION Spec
CONSTANTS
  NameLengths = {1, 5, 6, 7}
  StringLengths = {1, 7, 8}
  NumberLengths = {1}
INVARIANTS LongNamesRepaired ErrorCodeSurvives SessionKeyRecovered SealedShowsOneDoor
