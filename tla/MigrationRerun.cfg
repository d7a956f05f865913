\* One operator, two files.
CONSTANTS
  Operators = {o1}
  Directories <- MCDirectory
  RequiredMigrations = {1, 2}
  MaxUps = 2
SPECIFICATION MigrationSpec
CHECK_DEADLOCK FALSE
INVARIANTS
  RerunSafe
