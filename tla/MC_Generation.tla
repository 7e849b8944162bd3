--------------------------- MODULE MC_Generation ---------------------------
EXTENDS Generation, TLC

CONSTANTS a, nul

\* uid_data of one u32: a leading version byte and three identifying bytes
MC_DataSize == 4
MC_StartValue == 1
MC_NumValues == 3
MC_Bytes == {0, 1}
\* UA and UB differ only in the excluded leading byte; UC differs in the range
MC_Uids == {<<0, 0, 0, 1>>, <<1, 0, 0, 1>>, <<0, 1, 0, 0>>}
MC_MaxFailures == 3
\* a program is one or two writes of one or two characters, in four bytes
MC_Chars == {a}
MC_Outputs == {<<a>>, <<a, a>>}
MC_Capacity == 4
\* std::string(): the empty text
MC_Empty == <<>>
\* every text a C string in the storage can be
MC_Codes == UNION {[1..n -> MC_Chars] : n \in 1..MC_Capacity - 1}
=============================================================================
