----------------------------- MODULE Generation -----------------------------
(***************************************************************************)
(* A shader generator and the uid checker together (spec.md, 2 and 4.5):  *)
(* each generation binds the one scratch storage to a ShaderCode, writes   *)
(* the program into it, and submits the code object with the uid to        *)
(* AddToIndexAndCheck, which reads the text through new_code.GetBuffer()   *)
(* as a C string (the std::string it stores, and strcmp).  The storage is *)
(* reused, so each program is written over the bytes of the one before.   *)
(***************************************************************************)
EXTENDS UidChecker

CONSTANTS Chars, Nul, Outputs, Capacity

VARIABLES
    mem, buf, write_ptr,   \* the ShaderCode object and its storage
    phase                  \* the generator: "idle" or "writing" a program

genVars == <<vars, mem, buf, write_ptr, phase>>

SC == INSTANCE ShaderCode

GenInit ==
    /\ Init
    /\ SC!Init
    /\ phase = "idle"

\* code.SetBuffer(scratch) at the start of a generation
BeginGeneration ==
    /\ phase = "idle"
    /\ SC!SetBuffer
    /\ phase' = "writing"
    /\ UNCHANGED vars

\* one code.Write(...) of the program
Emit(s) ==
    /\ phase = "writing"
    /\ SC!Write(s)
    /\ UNCHANGED <<vars, phase>>

\* checker.AddToIndexAndCheck(code, uid, ...) once the program is written
Submit(uid) ==
    /\ phase = "writing"
    /\ SC!BufferSize > 0
    /\ AddToIndexAndCheck(SC!CString(SC!GetBuffer), uid)
    /\ phase' = "idle"
    /\ UNCHANGED <<mem, buf, write_ptr>>

GenNext ==
    \/ BeginGeneration
    \/ \E s \in Outputs : Emit(s)
    \/ \E uid \in Uids : Submit(uid)
    \/ Invalidate /\ UNCHANGED <<mem, buf, write_ptr, phase>>

GenSpec == GenInit /\ [][GenNext]_genVars
-----------------------------------------------------------------------------
GenTypeOK ==
    /\ TypeOK
    /\ SC!TypeOK
    /\ phase \in {"idle", "writing"}

\* The text the checker stores and compares is the program just written:
\* the C string read through GetBuffer ends where this generation's last
\* Write ended, although the scratch storage still holds the bytes of
\* earlier, longer programs behind it.
SubmittedTextIsGenerated ==
    phase = "idle" /\ lastCall.code # NoCode => lastCall.code = SC!Written

\* ShaderCode, driven by the generator, implements the text buffer of 4.1.
TextBufferRefined == SC!TextBufferRefined
=============================================================================
