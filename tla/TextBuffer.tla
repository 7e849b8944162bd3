----------------------------- MODULE TextBuffer -----------------------------
(***************************************************************************)
(* What the text buffer promises (spec.md, 4.1): bind(storage) resets the  *)
(* text to empty; write(format, args) appends the formatted string; the    *)
(* text is what was appended since the last bind.  The caller guarantees   *)
(* the storage is large enough; Capacity is that storage, one byte of it   *)
(* kept for the terminator.                                                *)
(***************************************************************************)
EXTENDS Naturals, Sequences

CONSTANTS
    Outputs,   \* the strings one write may format
    Capacity   \* bytes of backing storage

VARIABLES
    bound,     \* bind has been called
    content    \* the text appended since the last bind

vars == <<bound, content>>

Init ==
    /\ bound = FALSE
    /\ content = <<>>

Bind ==
    /\ bound' = TRUE
    /\ content' = <<>>

Write(s) ==
    /\ bound
    /\ Len(content) + Len(s) < Capacity
    /\ content' = content \o s
    /\ UNCHANGED bound

Next ==
    \/ Bind
    \/ \E s \in Outputs : Write(s)

Spec == Init /\ [][Next]_vars
=============================================================================
