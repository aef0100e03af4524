CONSTANTS
  Names <- MCNames
  MaxList = 3
SPECIFICATION Spec
INVARIANTS
  DocumentedKeysSerialised
