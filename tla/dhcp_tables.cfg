SPECIFICATION TablesSpec
CONSTANTS
  MaxNumber = 3
  MaxRestarts = 1
  MaxTouched = 2
  Aliases <- MCAliases
  Tags <- MCTags
  Settings = {1, 2, 3}
  Default = 1
  BadTimers = {3}
CONSTRAINT Small
INVARIANTS FreshV6Numbers OptionsAgree ShowsWhatIsKept RunsAsCommitted TagsDistinct ErouterStands
PROPERTY RestartKeeps
CHECK_DEADLOCK FALSE
