----------------------------- MODULE ShaderCode -----------------------------
(***************************************************************************)
(* ShaderCode (ShaderGenCommon.h): two pointers into storage the caller    *)
(* supplies.  SetBuffer points both at the storage; Write appends with     *)
(* vsprintf, which stores the formatted string and a terminating NUL and   *)
(* returns the length without it; GetBuffer returns the start, which       *)
(* readers (UidChecker's std::string and strcmp) read up to the first NUL. *)
(* The storage is one static scratch region, addresses 0..Capacity-1,      *)
(* zero-filled at start and reused by every generation.                    *)
(***************************************************************************)
EXTENDS Integers, Sequences

CONSTANTS
    Chars,     \* the characters formatted text is made of
    Nul,       \* '\0'
    Outputs,   \* the strings one Write may format (vsprintf's result)
    Capacity   \* bytes of storage

ASSUME /\ Nul \notin Chars
       /\ Capacity \in Nat \ {0}
       /\ \A s \in Outputs : s \in Seq(Chars)

VARIABLES
    mem,        \* the storage's bytes
    buf,        \* char* buf
    write_ptr   \* char* write_ptr

codeVars == <<mem, buf, write_ptr>>

Null == -1     \* NULL
Addr == 0..Capacity - 1

TypeOK ==
    /\ mem \in [Addr -> Chars \cup {Nul}]
    /\ buf \in {Null, 0}
    /\ write_ptr \in {Null} \cup Addr

Init ==
    /\ mem = [a \in Addr |-> Nul]
    /\ buf = Null
    /\ write_ptr = Null

\* SetBuffer(buffer): buf = buffer; write_ptr = buffer; (buffer is the storage's start)
SetBuffer ==
    /\ buf' = 0
    /\ write_ptr' = 0
    /\ UNCHANGED mem

\* mem after vsprintf stored s at p, with or without its terminating NUL
Stored(s, p, nul) ==
    [a \in Addr |-> IF a \in p..p + Len(s) - 1 THEN s[a - p + 1]
                    ELSE IF nul /\ a = p + Len(s) THEN Nul
                    ELSE mem[a]]

\* Mutant of Write: the formatted bytes are copied without the terminator.
WriteUnterminated(s) ==
    /\ write_ptr # Null
    /\ write_ptr + Len(s) < Capacity
    /\ mem' = Stored(s, write_ptr, FALSE)
    /\ write_ptr' = write_ptr + Len(s)
    /\ UNCHANGED buf

\* Mutant of Write: the cursor also steps over the terminator
\* (write_ptr += vsprintf(...) + 1).
WriteCountingNul(s) ==
    /\ write_ptr # Null
    /\ write_ptr + Len(s) < Capacity
    /\ mem' = Stored(s, write_ptr, TRUE)
    /\ write_ptr' = write_ptr + Len(s) + 1
    /\ UNCHANGED buf

\* write_ptr += vsprintf(write_ptr, fmt, arglist).  Writing through NULL
\* (no SetBuffer yet) or past the storage is undefined behaviour; the
\* storage bound is the caller's (spec 4.1), checked by the canary.
Write(s) ==
    /\ write_ptr # Null
    /\ write_ptr + Len(s) < Capacity
    /\ mem' = Stored(s, write_ptr, TRUE)
    /\ write_ptr' = write_ptr + Len(s)
    /\ UNCHANGED buf

GetBuffer == buf

BufferSize == write_ptr - buf

\* The C string at p: the bytes up to the first NUL.
CString(p) ==
    LET end == CHOOSE e \in p..Capacity - 1 :
                   mem[e] = Nul /\ \A a \in p..e - 1 : mem[a] # Nul
    IN  [i \in 1..end - p |-> mem[p + i - 1]]

Next ==
    \/ SetBuffer
    \/ \E s \in Outputs : Write(s)

Spec == Init /\ [][Next]_codeVars
-----------------------------------------------------------------------------
\* The bytes between buf and write_ptr: the text written since SetBuffer.
Written == IF buf = Null THEN <<>> ELSE [i \in 1..BufferSize |-> mem[buf + i - 1]]

TB == INSTANCE TextBuffer WITH bound <- buf # Null, content <- Written

\* SetBuffer and Write behave as the text buffer of spec 4.1: BufferSize
\* counts, and the storage from GetBuffer holds, exactly what was appended
\* since the last SetBuffer, even when an earlier, longer text was written
\* into the same storage.
TextBufferRefined == TB!Spec
=============================================================================
