CONSTANTS
  c1 = c1
  c2 = c2
  empty = empty
  NoCode = NoCode
  EmptyCode <- empty
  DataSize <- MC_DataSize
  StartValue <- MC_StartValue
  NumValues <- MC_NumValues
  Bytes <- MC_Bytes
  Uids <- MC_Uids
  Codes <- MC_Codes
  MaxFailures <- MC_MaxFailures
SPECIFICATION Spec
INVARIANT NoDumpOnRepeat
