SPECIFICATION Spec
CONSTANTS
  Unit = 4
  Grain = 2
  MaxUint = 5
  OutOfRange = "wraps"
  Inputs <- MCInputs
  Configurations <- MCConfigurations
  Words <- MCWords
  Gaps = {0, 1}
  Garbage = {0, 9}
  MaxValues = 3
  MaxChanges = 1
INVARIANTS WorkerIsSound TestAgreesWithWorker ProgramAgreesWithWorker
CHECK_DEADLOCK FALSE
