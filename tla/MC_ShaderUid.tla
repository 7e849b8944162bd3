--------------------------- MODULE MC_ShaderUid ---------------------------
EXTENDS ShaderUid, TLC

CONSTANTS u1, u2

MC_Objs == {u1, u2}
\* one leading byte outside the identifying range, two identifying bytes
MC_DataSize == 3
MC_StartValue == 1
MC_NumValues == 2
MC_Bytes == {0, 1}
=============================================================================
