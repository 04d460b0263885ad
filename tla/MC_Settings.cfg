CONSTANTS
  NULL = NULL
  sa = sa
  sz = sz
  Strings <- MCStrings
  Keys <- MCKeys
  SchemaKeys <- MCSchemaKeys
  KeyType <- MCKeyType
  Range <- MCRange
  Schemas <- MCSchemas
  SchemaPath <- MCSchemaPath
  Instances <- MCInstances
  Default <- MCDefault
SPECIFICATION Spec
INVARIANTS
  AnnouncedStateCurrent
  ProjectLayersMirror
