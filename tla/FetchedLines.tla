---------------------------- MODULE FetchedLines ----------------------------
(***************************************************************************)
(* The two generated float lines that act on a value the GPU fetched from  *)
(* an 8-bit or 24-bit unorm texture and must give back an integer:         *)
(* WriteToBitDepth's floor(src * <literal>f) (Quantize) and the depth      *)
(* encoders' depth *= 16777215.0f (DepthScale).  Both rely on the same     *)
(* fetch, within TolNum/TolDen ULP of the exact value.  A behaviour runs   *)
(* one of the two lines.                                                   *)
(***************************************************************************)
EXTENDS Integers

CONSTANTS MantissaBits, TolNum, TolDen, Depths, DepthValues

VARIABLES
    line,                      \* which generated line this pixel runs
    k, depth, sample, level,   \* Quantize
    stored, fetched, scaled    \* DepthScale

qvars == <<k, depth, sample, level>>
zvars == <<stored, fetched, scaled>>
vars == <<line, qvars, zvars>>

Q == INSTANCE Quantize
Z == INSTANCE DepthScale

Init ==
    \/ /\ line = "quantize" /\ Q!Init
       /\ stored = 0 /\ fetched = Z!NoFloat /\ scaled = Z!NoFloat
    \/ /\ line = "depthscale" /\ Z!Init
       /\ k = 0 /\ depth = 0 /\ sample = Q!NoFloat /\ level = -1

Next ==
    \/ line = "quantize" /\ Q!Next /\ UNCHANGED <<line, zvars>>
    \/ line = "depthscale" /\ Z!Next /\ UNCHANGED <<line, qvars>>

Spec == Init /\ [][Next]_vars
-----------------------------------------------------------------------------
\* The line's state is well formed: a level of depth bits, a float in [0, 1].
TypeOK == IF line = "quantize" THEN Q!TypeOK ELSE Z!TypeOK

\* floor(src * <literal>f) gives k >> (8 - depth) (Quantize).
QuantizeTruncates == line = "quantize" => Q!QuantizeTruncates

\* depth *= 16777215.0f gives back the stored depth (DepthScale).
ScaledDepthExact == line = "depthscale" => Z!ScaledDepthExact

\* Spec 4.4: quantisation "must be reproduced exactly", and the depth
\* formats extract the depth's byte digits: every float line run on a
\* fetched unorm value yields exactly the integer that value encodes.
FetchedLinesExact == QuantizeTruncates /\ ScaledDepthExact
=============================================================================
