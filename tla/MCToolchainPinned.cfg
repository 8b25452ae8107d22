CONSTANTS
  Root = "app"
  Names = {"a", "b", "u"}
  Commits = {"a1", "a2", "b1", "b2"}
  Urls = {"ua", "ub", "ub2"}
  DepsOf <- MCDepsOf
  Rank <- MCRank
  Upstreams <- MCUpstreams
  Adds <- MCAdds
  Types = {"A", "B"}
  SessionNames = {"x", "n", "f", "g", "h"}
  Holds <- MCHolds
  Method <- MCMethod
  Prefixed <- MCUnder
  Nullables = {"p", "g"}
  GlobalVars = {"g"}
  Scalars = {"x"}
  MaxCommands = 4
  MaxFaults = 0
  Scripts = {}
  Inputs <- MCInputs
  Limit = 0
  Files = {}
  FilesNamed <- MCFilesNamed
  Functions = {}
  Jobs = {}
SPECIFICATION Invocation
PROPERTY PinnedBuilds
CHECK_DEADLOCK FALSE
