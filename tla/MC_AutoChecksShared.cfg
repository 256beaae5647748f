CONSTANTS
  Names = {"auto", "shared"}
  YamlNames = {"shared"}
  Defs = {"d1", "d2"}
  YamlDef = "yaml"
  None = None
SPECIFICATION Spec
PROPERTY YamlNeverRemoved
