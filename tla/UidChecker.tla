---------------------------- MODULE UidChecker ----------------------------
(***************************************************************************)
(* UidChecker<UidT, CodeT> (ShaderGenCommon.h): an index of the uids seen  *)
(* (std::vector m_uids, searched with operator ==) and of the code each    *)
(* produced (std::map m_shaders, ordered by operator <).  A uid seen again *)
(* with different code is reported in a numbered dump file; the counter    *)
(* num_failures is a function-local static, so it survives Invalidate.     *)
(* Shader code is abstracted to a model value: strcmp compares equality.   *)
(***************************************************************************)
EXTENDS ShaderUidOps, FiniteSets

CONSTANTS
    Uids,         \* the uids the shader generators submit
    Codes,        \* the shader texts they submit
    EmptyCode,    \* std::string(): the value operator[] inserts for a missing key
    MaxFailures,  \* bound on num_failures, to keep the model finite
    NoCode        \* lastCall.prev when no code was submitted for the key before

ASSUME /\ Uids \subseteq UidRecord
       /\ EmptyCode \notin Codes
       /\ MaxFailures \in Nat
       /\ NoCode \notin Codes \cup {EmptyCode}

VARIABLES
    m_uids,        \* std::vector<UidT>: the indexed uids, in insertion order
    m_shaders,     \* std::map<UidT, std::string>: stored key -> code
    num_failures,  \* static int num_failures
    dumps,         \* the suid_mismatch_NNNN.txt files written, in order
    lastCode,      \* history: meaningful bytes -> code most recently submitted for them
    lastCall       \* history: the most recent AddToIndexAndCheck call

vars == <<m_uids, m_shaders, num_failures, dumps, lastCode, lastCall>>

DumpRecord == [file : Nat, old : Codes \cup {EmptyCode}, new : Codes, words : SUBSET Nat]

TypeOK ==
    /\ m_uids \in Seq(Uids)
    /\ DOMAIN m_shaders \subseteq Uids
    /\ \A k \in DOMAIN m_shaders : m_shaders[k] \in Codes \cup {EmptyCode}
    /\ num_failures \in 0..MaxFailures
    /\ dumps \in Seq(DumpRecord)
    /\ lastCall \in [code : Codes \cup {NoCode}, prev : Codes \cup {NoCode}, dumped : BOOLEAN]

(***************************************************************************)
(* std::map lookup: the stored key k with !(k < u) && !(u < k).            *)
(***************************************************************************)
MapKeys(m, u) == {k \in DOMAIN m : ~UidLess(k, u) /\ ~UidLess(u, k)}

\* m[u] = c: assign to the equivalent stored key, or insert u.
MapAssign(m, u, c) ==
    IF MapKeys(m, u) # {}
       THEN [m EXCEPT ![CHOOSE k \in MapKeys(m, u) : TRUE] = c]
       ELSE (u :> c) @@ m

\* auto& x = m[u]: the map after operator[] (a missing key is inserted with
\* std::string()), and the value it refers to.
MapSubscript(m, u) ==
    IF MapKeys(m, u) # {} THEN m ELSE (u :> EmptyCode) @@ m
MapValue(m, u) == MapSubscript(m, u)[CHOOSE k \in MapKeys(MapSubscript(m, u), u) : TRUE]

\* Mutant of IsIndexed: std::find comparing the whole record, header included.
IsIndexedWhole(uid) == \E i \in 1..Len(m_uids) : m_uids[i] = uid

\* std::find(m_uids.begin(), m_uids.end(), new_uid) != m_uids.end()
IsIndexed(uid) == \E i \in 1..Len(m_uids) : UidEq(m_uids[i], uid)

\* The u32 words the dump loop reads: i from 0 while i < GetUidDataSize(),
\* which is sizeof(uid_data) in bytes.
DumpWords == 0..(DataSize - 1)

\* Mutant of NextDumpNumber: the counter advanced twice (num_failures++ then ++num_failures).
NextDumpNumberTwice == num_failures + 2

\* ++num_failures, the number in the dump's file name
NextDumpNumber == num_failures + 1

AddToIndexAndCheck(code, uid) ==
    /\ num_failures < MaxFailures
    /\ LET prev == IF Meaningful(uid) \in DOMAIN lastCode
                      THEN lastCode[Meaningful(uid)] ELSE NoCode
       IN IF ~IsIndexed(uid)
          THEN /\ m_uids' = Append(m_uids, uid)
               /\ m_shaders' = MapAssign(m_shaders, uid, code)
               /\ lastCall' = [code |-> code, prev |-> prev, dumped |-> FALSE]
               /\ UNCHANGED <<num_failures, dumps>>
          ELSE LET old == MapValue(m_shaders, uid)
               IN /\ m_shaders' = MapSubscript(m_shaders, uid)
                  /\ IF old # code
                     THEN /\ num_failures' = NextDumpNumber
                          /\ dumps' = Append(dumps, [file |-> NextDumpNumber, old |-> old,
                                                     new |-> code, words |-> DumpWords])
                     ELSE UNCHANGED <<num_failures, dumps>>
                  /\ lastCall' = [code |-> code, prev |-> prev, dumped |-> old # code]
                  /\ UNCHANGED m_uids
    /\ lastCode' = (Meaningful(uid) :> code) @@ lastCode

\* Mutant of Invalidate: m_shaders.clear() left out.
InvalidateUidsOnly ==
    /\ m_uids' = <<>>
    /\ lastCode' = <<>>
    /\ UNCHANGED <<m_shaders, num_failures, dumps, lastCall>>

Invalidate ==
    /\ m_shaders' = <<>>
    /\ m_uids' = <<>>
    /\ lastCode' = <<>>
    /\ UNCHANGED <<num_failures, dumps, lastCall>>

Init ==
    /\ m_uids = <<>>
    /\ m_shaders = <<>>
    /\ num_failures = 0
    /\ dumps = <<>>
    /\ lastCode = <<>>
    /\ lastCall = [code |-> NoCode, prev |-> NoCode, dumped |-> FALSE]

Next ==
    \/ \E code \in Codes, uid \in Uids : AddToIndexAndCheck(code, uid)
    \/ Invalidate

Spec == Init /\ [][Next]_vars

(***************************************************************************)
(* Properties                                                              *)
(***************************************************************************)

\* The vector (searched with ==) and the map (ordered by <) index the same
\* uids, each once: every indexed uid has its code in m_shaders, no key is
\* in m_shaders that is not indexed, and Invalidate empties both together.
IndexMatchesMap ==
    /\ \A i, j \in 1..Len(m_uids) : i # j => ~UidEq(m_uids[i], m_uids[j])
    /\ DOMAIN m_shaders = {m_uids[i] : i \in 1..Len(m_uids)}

\* A mismatch dump always compares against code that a generator produced,
\* never against the empty string operator[] inserts for a missing key.
DumpOldIsRealShader ==
    \A i \in 1..Len(dumps) : dumps[i].old \in Codes

\* Cache idempotence (spec, 8; the cache keeps the text a uid most recently
\* produced, 3): a call that submits for a uid the same code as the previous
\* call for that uid writes no dump.
NoDumpOnRepeat ==
    lastCall.dumped => lastCall.code # lastCall.prev

\* The dump prints the uid's raw 32-bit words: it reads only words that lie
\* inside the uid_data record.
DumpReadsInBounds ==
    \A i \in 1..Len(dumps) : \A w \in dumps[i].words : 4 * (w + 1) <= DataSize

(***************************************************************************)
(* Refinement: UidChecker implements the variant cache of spec.md 4.3.     *)
(* The abstract fingerprint is a uid's meaningful bytes; the abstract      *)
(* entry is the code stored under the map key with those bytes; a report   *)
(* is a dump's old and new code.                                           *)
(***************************************************************************)
CachedCode ==
    [f \in {Meaningful(k) : k \in DOMAIN m_shaders} |->
        m_shaders[CHOOSE k \in DOMAIN m_shaders : Meaningful(k) = f]]

Reports == [i \in 1..Len(dumps) |-> [old |-> dumps[i].old, new |-> dumps[i].new]]

VC == INSTANCE VariantCache WITH
        Fingerprints <- {Meaningful(u) : u \in Uids},
        Texts <- Codes,
        cache <- CachedCode,
        reports <- Reports

\* AddToIndexAndCheck and Invalidate, with std::find over == and std::map
\* over <, behave as the fingerprint-keyed cache: a new fingerprint is
\* stored, a seen one is compared with what is stored and a difference is
\* reported once with the stored and the new code, and Invalidate forgets
\* every entry.
VariantCacheRefined == VC!Spec

=============================================================================
