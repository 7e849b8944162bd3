CONSTANTS
  u1 = u1
  u2 = u2
  Objs <- MC_Objs
  DataSize <- MC_DataSize
  StartValue <- MC_StartValue
  NumValues <- MC_NumValues
  Bytes <- MC_Bytes
SPECIFICATION Spec
INVARIANT HashConsistentWithEq
