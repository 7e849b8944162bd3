---------------------------- MODULE ShaderUidOps ----------------------------
(***************************************************************************)
(* The pure operators of ShaderUid<uid_data> (ShaderGenCommon.h): the raw  *)
(* byte view of a uid, its meaningful range [StartValue, StartValue +      *)
(* NumValues), the memcmp-based comparisons and the Adler-32 hash.         *)
(* A uid's bytes are a tuple <<b_1, ..., b_DataSize>>; the C++ offset o    *)
(* is tuple index o + 1.                                                   *)
(***************************************************************************)
EXTENDS Naturals, Sequences, SequencesExt

CONSTANTS
    DataSize,    \* sizeof(uid_data) in bytes
    StartValue,  \* uid_data::StartValue(): first byte that identifies a shader
    NumValues,   \* uid_data::NumValues(): number of identifying bytes
    Bytes        \* the byte values a generator writes into uid_data fields

ASSUME /\ DataSize \in Nat \ {0}
       /\ StartValue \in Nat /\ NumValues \in Nat \ {0}
       /\ StartValue + NumValues <= DataSize
       /\ Bytes \subseteq 0..255

UidRecord == [1..DataSize -> Bytes]

\* values + data.StartValue(), data.NumValues(): the bytes memcmp and the hash read
Meaningful(v) == [i \in 1..NumValues |-> v[StartValue + i]]

\* operator == and operator != : memcmp(...) == 0 over the meaningful range
UidEq(u, w) == Meaningful(u) = Meaningful(w)

\* Mutant of operator <: memcmp from values instead of values + StartValue().
UidLessWhole(u, w) ==
    \E i \in 1..DataSize : u[i] < w[i] /\ \A j \in 1..(i - 1) : u[j] = w[j]

\* operator < : memcmp(...) < 0, the lexicographic order of unsigned bytes
UidLess(u, w) ==
    LET a == Meaningful(u)
        b == Meaningful(w)
    IN \E i \in 1..NumValues : a[i] < b[i] /\ \A j \in 1..(i - 1) : a[j] = b[j]

(***************************************************************************)
(* HashAdler32 (Common/Hash, outside the sources): sum1 starts at 1, sum2  *)
(* at 0, both mod 65521; the C++ value is (sum2 << 16) | sum1, kept here   *)
(* as the pair so that it stays within TLC's integers.  It is 0 exactly    *)
(* when both sums are 0.                                                   *)
(***************************************************************************)
MOD_ADLER == 65521
NoHash == [a |-> 0, b |-> 0]
HashValue == [a : 0..(MOD_ADLER - 1), b : 0..(MOD_ADLER - 1)]

HashAdler32(data) ==
    LET step(acc, x) == LET a2 == (acc.a + x) % MOD_ADLER
                        IN [a |-> a2, b |-> (acc.b + a2) % MOD_ADLER]
    IN FoldLeft(step, [a |-> 1, b |-> 0], data)
=============================================================================
