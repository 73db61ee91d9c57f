SPECIFICATION Spec
CONSTANTS
  Unit = 4
  Grain = 2
  MaxUint = 5
  OutOfRange = "wraps"
  Inputs <- MCInputs
  Configurations <- ShortConfigurations
  Words <- MCWords
  Gaps = {1}
  Garbage = {0}
  MaxValues = 2
  MaxChanges = 0
INVARIANT SuppressedIsNotSent
CHECK_DEADLOCK FALSE
