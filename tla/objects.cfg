SPECIFICATION ObjectsSpec
CONSTANTS
  IfaceCount = 2
  Types = {1, 2}
  Priorities = {0, 1}
  Pairs <- MCPairs
  Varied = {"SelectionTimeout", "PPP.Enable", "Discovery-Offer"}
  Threads = {t1, t2}
  NoThread = none
  Blank = blank
  MaxIfRestarts = 1
  Runnable = {2, 4}
  OtherPolicies = {5}
  MaxPowerLosses = 1
  MarkAliases <- MCMarkAliases
  MarkPriorities = {1}
  MarkLimit = 2
  MaxMarkStarts = 1
  Answers = {1, 2}
  Leases = {1, 2}
  Interval = 3
CONSTRAINT Small
INVARIANTS RunsShownPolicy PortsMatchNumbers RecordsAgree WholeObjectAgrees ShowsOneAnswer
PROPERTIES SetsKeepApart CommittedComesBack SetsEnd PolicyTakesEffect ShowsNothingOlder
CHECK_DEADLOCK FALSE
