CONSTANTS
  Schemas = {"missing", "valid", "malformed"}
SPECIFICATION Spec
PROPERTY BridgeTerminates
