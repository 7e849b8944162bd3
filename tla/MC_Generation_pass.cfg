CONSTANTS
  a = a
  nul = nul
  NoCode = NoCode
  Nul <- nul
  EmptyCode <- MC_Empty
  DataSize <- MC_DataSize
  StartValue <- MC_StartValue
  NumValues <- MC_NumValues
  Bytes <- MC_Bytes
  Uids <- MC_Uids
  Codes <- MC_Codes
  MaxFailures <- MC_MaxFailures
  Chars <- MC_Chars
  Outputs <- MC_Outputs
  Capacity <- MC_Capacity
SPECIFICATION GenSpec
INVARIANT GenTypeOK
INVARIANT IndexMatchesMap
INVARIANT DumpOldIsRealShader
INVARIANT SubmittedTextIsGenerated
PROPERTY VariantCacheRefined
PROPERTY TextBufferRefined
