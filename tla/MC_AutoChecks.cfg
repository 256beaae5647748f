CONSTANTS
  Names = {"auto", "shared"}
  YamlNames = {"shared"}
  Defs = {"d1", "d2"}
  YamlDef = "yaml"
  None = None
SPECIFICATION LiveSpec
INVARIANTS LoopPerCheck NoZombieEntry
PROPERTY FollowsTarget
