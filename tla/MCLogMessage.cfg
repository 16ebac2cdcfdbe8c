SPECIFICATION Spec
CONSTANTS
  Key <- MCKey
  Reserved <- MCReserved
  Value <- MCValue
  Own = "own"
  Absent = "absent"
  MaxExtra = 2
INVARIANTS
  BaseIsLatest
PROPERTIES
  FieldsKeepTheirPlace
  JsonPrecedence
