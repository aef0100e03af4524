CONSTANTS
  Names <- MCNames
  MaxList = 3
SPECIFICATION Spec
INVARIANT
  SerialisedTypesDocumented
