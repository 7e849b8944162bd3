-------------------------- MODULE MC_UidChecker --------------------------
EXTENDS UidChecker, TLC

CONSTANTS c1, c2, empty

\* uid_data of one u32: a leading version byte and three identifying bytes
MC_DataSize == 4
MC_StartValue == 1
MC_NumValues == 3
MC_Bytes == {0, 1}
\* UA and UB differ only in the excluded leading byte; UC differs in the range
MC_Uids == {<<0, 0, 0, 1>>, <<1, 0, 0, 1>>, <<0, 1, 0, 0>>}
MC_Codes == {c1, c2}
MC_MaxFailures == 3
=============================================================================
