CONSTANTS
  Root = "app"
  Names = {"a", "b", "u"}
  Commits = {"a1", "a2", "b1", "b2"}
  Urls = {"ua", "ub", "ub2"}
  DepsOf <- MCDepsOf
  Rank <- MCRank
  Upstreams <- MCUpstreams
  Adds <- MCAdds
  Types = {"A", "B"}
  SessionNames = {"x", "n", "f", "g", "h"}
  Holds <- MCHolds
  Method <- MCMethod
  Prefixed <- MCUnder
  Nullables = {"p", "g"}
  GlobalVars = {"g"}
  Scalars = {"x"}
  MaxCommands = 3
  MaxFaults = 1
  Scripts <- MCScripts
  Inputs <- MCInputs
  Limit = 4
  Files <- MCFiles
  FilesNamed <- MCFilesNamed
  Functions <- MCFunctions
  Jobs <- MCJobs
SPECIFICATION Invocation
INVARIANTS
  CacheComplete LockCloses InputsAsWritten LinkedToLatest LayoutAgrees PreprocessedAsC ConstantsAsC ParsesAsWritten AsyncAsWritten
  CleanupsAsWritten CaughtByInnermost CheckerSound FieldsAsC PassedAsC
PROPERTIES LockPins FailureChangesNothing CrashesHeal StateKept
CHECK_DEADLOCK FALSE
