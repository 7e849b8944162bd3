----------------------------- MODULE ShaderUid -----------------------------
(***************************************************************************)
(* ShaderUid<uid_data> (ShaderGenCommon.h): a union of a uid_data record   *)
(* and its raw bytes, with a hash memoised in HASH, 0 meaning "not yet     *)
(* computed".  A set of uid objects is modelled, each driven through the   *)
(* lifecycle the shader generators follow: ClearUID, field writes,         *)
(* CalculateUIDHash, then use as a key (copied into containers).  phase is *)
(* that lifecycle, kept by the callers, not by ShaderUid itself.           *)
(***************************************************************************)
EXTENDS ShaderUidOps

CONSTANT Objs   \* the ShaderUid objects

VARIABLES
    values,  \* values[o]: the union's bytes
    HASH,    \* HASH[o]: the memoised Adler-32, NoHash when not computed
    phase    \* phase[o]: "building" while a generator writes fields, "frozen" once hashed

vars == <<values, HASH, phase>>

TypeOK ==
    /\ values \in [Objs -> UidRecord]
    /\ HASH \in [Objs -> HashValue]
    /\ phase \in [Objs -> {"building", "frozen"}]

\* ShaderUid() : HASH(0) {} leaves the union uninitialised: any bytes.
Init ==
    /\ values \in [Objs -> UidRecord]
    /\ HASH = [o \in Objs |-> NoHash]
    /\ phase = [o \in Objs |-> "building"]

\* Mutant of ClearUID: memset one byte past sizeof(uid_data).
ClearUIDPastEnd(o) ==
    /\ values' = [values EXCEPT ![o] = [i \in 1..(DataSize + 1) |-> 0]]
    /\ phase' = [phase EXCEPT ![o] = "building"]
    /\ UNCHANGED HASH

\* ClearUID: memset(values, 0, sizeof(uid_data)); HASH is left as it is.
ClearUID(o) ==
    /\ values' = [values EXCEPT ![o] = [i \in 1..DataSize |-> 0]]
    /\ phase' = [phase EXCEPT ![o] = "building"]
    /\ UNCHANGED HASH

\* A generator writes a uid_data field through GetUidData<T>().
SetField(o, i, v) ==
    /\ phase[o] = "building"
    /\ values' = [values EXCEPT ![o][i] = v]
    /\ UNCHANGED <<HASH, phase>>

\* CalculateUIDHash: if (HASH == 0) HASH = HashAdler32(values + StartValue(), NumValues());
CalculateUIDHash(o) ==
    /\ HASH' = IF HASH[o] = NoHash
                  THEN [HASH EXCEPT ![o] = HashAdler32(Meaningful(values[o]))]
                  ELSE HASH
    /\ phase' = [phase EXCEPT ![o] = "frozen"]
    /\ UNCHANGED values

\* The implicit copy assignment (m_uids.push_back, map insertion): union and HASH.
CopyUid(dst, src) ==
    /\ dst # src
    /\ values' = [values EXCEPT ![dst] = values[src]]
    /\ HASH' = [HASH EXCEPT ![dst] = HASH[src]]
    /\ phase' = [phase EXCEPT ![dst] = phase[src]]

Next ==
    \E o \in Objs :
        \/ ClearUID(o)
        \/ \E i \in 1..DataSize, v \in Bytes : SetField(o, i, v)
        \/ CalculateUIDHash(o)
        \/ \E src \in Objs : CopyUid(o, src)

Spec == Init /\ [][Next]_vars

(***************************************************************************)
(* Properties                                                              *)
(***************************************************************************)

\* ShaderUidHasher returns HASH, and operator == decides equality: two hashed
\* uids that compare equal must carry the same hash, or an unordered container
\* keyed by ShaderUid misses an entry that is present.
HashConsistentWithEq ==
    \A o1, o2 \in Objs :
        (phase[o1] = "frozen" /\ phase[o2] = "frozen" /\ UidEq(values[o1], values[o2]))
            => HASH[o1] = HASH[o2]
=============================================================================
