---------------------------- MODULE VariantCache ----------------------------
(***************************************************************************)
(* What the variant cache promises (spec.md, 4.3), stated over             *)
(* fingerprints rather than uid objects: a fingerprint is the content of   *)
(* the meaningful byte range, so uids equal under == are one fingerprint.  *)
(*                                                                         *)
(*  - recordAndCheck(text, fp): an unseen fingerprint is stored with its   *)
(*    text; a seen one is compared with the stored text, and a difference  *)
(*    is reported (old text, new text) without touching the entry.         *)
(*  - invalidate(): forgets every entry; reports already written stay.     *)
(***************************************************************************)
EXTENDS Sequences, TLC

CONSTANTS
    Fingerprints,  \* the distinct fingerprints callers submit
    Texts          \* the generated texts they submit

VARIABLES
    cache,    \* fingerprint -> the text stored for it
    reports   \* the collision reports written, oldest first

vars == <<cache, reports>>

Init ==
    /\ cache = <<>>
    /\ reports = <<>>

RecordAndCheck(text, fp) ==
    \/ /\ fp \notin DOMAIN cache
       /\ cache' = (fp :> text) @@ cache
       /\ UNCHANGED reports
    \/ /\ fp \in DOMAIN cache
       /\ cache[fp] = text
       /\ UNCHANGED vars
    \/ /\ fp \in DOMAIN cache
       /\ cache[fp] # text
       /\ reports' = Append(reports, [old |-> cache[fp], new |-> text])
       /\ UNCHANGED cache

Invalidate ==
    /\ cache' = <<>>
    /\ UNCHANGED reports

Next ==
    \/ \E text \in Texts, fp \in Fingerprints : RecordAndCheck(text, fp)
    \/ Invalidate

Spec == Init /\ [][Next]_vars
=============================================================================
