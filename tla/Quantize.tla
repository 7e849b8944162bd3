------------------------------ MODULE Quantize ------------------------------
(***************************************************************************)
(* WriteToBitDepth (TextureConversionShader.cpp): the generator computes   *)
(*     float result = 255 / pow(2.0f, (8 - depth));                        *)
(* prints it with "%ff" into the line                                      *)
(*     dest = floor(src * <result>f);                                      *)
(* and the GPU then runs that line on a channel sampled from an 8-bit      *)
(* unorm texture.  The hardware store format keeps the top depth bits of   *)
(* the 8-bit value, so the line must yield k >> (8 - depth) for the        *)
(* channel value k.                                                         *)
(*                                                                         *)
(* Numbers are exact rationals over the integers.  A binary float is       *)
(* [m, q], the value m / 2^q, with MantissaBits bits of mantissa.  The     *)
(* binary expansion of k/255 repeats every 8 bits (2^8 = 1 mod 255), so    *)
(* every rounding below comes out the same for any mantissa width that is *)
(* a multiple of 8: 16 bits rounds exactly as float32's 24 do, and keeps  *)
(* the products inside TLC's 32-bit integers.                              *)
(*                                                                         *)
(* How far a texture fetch may land from k/255 is the GPU's choice, given  *)
(* as TolNum/TolDen of a unit in the last place: 1/2 is a correctly        *)
(* rounded conversion, 3/5 the 0.6 ULP that Direct3D 10+ allows for        *)
(* UNORM-to-float.  The multiply is correctly rounded (to nearest even).   *)
(***************************************************************************)
EXTENDS Integers, Bitwise

CONSTANTS
    MantissaBits,   \* bits of float mantissa, hidden bit included
    TolNum, TolDen, \* the fetch may be off by TolNum/TolDen ULP
    Depths          \* the depths the encoders pass to WriteToBitDepth

ASSUME /\ MantissaBits \in Nat /\ MantissaBits % 8 = 0 /\ MantissaBits <= 16
       /\ TolNum \in Nat /\ TolDen \in Nat \ {0} /\ TolNum < TolDen
       /\ Depths \subseteq 1..8

VARIABLES
    k,       \* the 8-bit channel value stored in the texture
    depth,   \* the depth argument of this WriteToBitDepth call
    sample,  \* the float the shader fetched for k ([m, q]), NoFloat before
    level    \* dest after the generated line ran, -1 before

vars == <<k, depth, sample, level>>

NoFloat == [m |-> -1, q |-> 0]

RECURSIVE GCD(_, _)
GCD(a, b) == IF b = 0 THEN a ELSE GCD(b, a % b)

\* log2 of a power of two; the largest e with 2^e <= num/den otherwise
FloorLog2(num, den) ==
    CHOOSE e \in -16..29 :
        IF e >= 0 THEN num >= den * 2^e /\ num < den * 2^(e+1)
                  ELSE num < den /\ num * 2^(-e) >= den /\ num * 2^(-e) < 2 * den

\* n / 2^d rounded to the nearest integer, ties to even
RoundNearestEven(n, d) ==
    IF d <= 0 THEN n * 2^(-d)
    ELSE LET quot == n \div 2^d
             rem  == n % 2^d
             half == 2^(d-1)
         IN  quot + (IF rem > half \/ (rem = half /\ quot % 2 = 1) THEN 1 ELSE 0)

\* printf("%f", x): x = num/den rounded to 6 decimals, as millionths
PrintF(num, den) ==
    LET scaled == (num * 1000000) \div den
        rem    == (num * 1000000) % den
    IN  scaled + (IF 2 * rem > den \/ (2 * rem = den /\ scaled % 2 = 1) THEN 1 ELSE 0)

\* 255 / pow(2.0f, (8 - depth)), printed with %f and read back by the
\* shader compiler: the literal as a reduced fraction
LiteralNum256(d) ==
    LET micros == PrintF(256, 2^(8 - d))
        g == GCD(micros, 1000000)
    IN  [num |-> micros \div g, den |-> 1000000 \div g]

LiteralDepthShift(d) ==
    LET micros == PrintF(255, 2^d)
        g == GCD(micros, 1000000)
    IN  [num |-> micros \div g, den |-> 1000000 \div g]

Literal(d) ==
    LET micros == PrintF(255, 2^(8 - d))
        g == GCD(micros, 1000000)
    IN  [num |-> micros \div g, den |-> 1000000 \div g]

\* The literals of the depths the encoders use are dyadic, so the product
\* below is again m / 2^q.
ASSUME \A d \in Depths : 2^FloorLog2(Literal(d).den, 1) = Literal(d).den

\* The floats within TolNum/TolDen ULP of k/255: what the texture fetch of
\* an 8-bit unorm channel may return.
UnormToFloat(v) ==
    IF v = 0 THEN {[m |-> 0, q |-> 0]}
    ELSE LET q     == MantissaBits - 1 - FloorLog2(v, 255)
             exact == v * 2^q          \* k/255 = exact / (255 * 2^q)
             down  == exact \div 255
         IN  {[m |-> c, q |-> q] : c \in {c \in down-1..down+2 :
                 c > 0 /\ TolDen * (IF c * 255 >= exact THEN c * 255 - exact
                                                        ELSE exact - c * 255)
                          <= TolNum * 255}}

\* The float product x * Literal(d), rounded to MantissaBits
FloatMul(x, d) ==
    LET n    == x.m * Literal(d).num
        t    == x.q + FloorLog2(Literal(d).den, 1)
        bits == IF n = 0 THEN 0 ELSE FloorLog2(n, 1) + 1
        drop == bits - MantissaBits
    IN  IF drop <= 0 THEN [m |-> n, q |-> t]
        ELSE [m |-> RoundNearestEven(n, drop), q |-> t - drop]

FloorF(x) == x.m \div 2^x.q
-----------------------------------------------------------------------------
Init ==
    /\ k \in 0..255
    /\ depth \in Depths
    /\ sample = NoFloat
    /\ level = -1

\* The texture fetch of the channel (GPU, not generator code)
Fetch ==
    /\ sample = NoFloat
    /\ sample' \in UnormToFloat(k)
    /\ UNCHANGED <<k, depth, level>>

\* The generated line dest = floor(src * <literal>f) runs once
RunQuantizeLine ==
    /\ sample # NoFloat /\ level = -1
    /\ level' = FloorF(FloatMul(sample, depth))
    /\ UNCHANGED <<k, depth, sample>>

Next == Fetch \/ RunQuantizeLine

Spec == Init /\ [][Next]_vars
-----------------------------------------------------------------------------
\* The quantised level fits in depth bits (it is stored in a depth-bit field).
TypeOK ==
    /\ k \in 0..255 /\ depth \in Depths
    /\ level \in -1..(2^depth - 1)

\* WriteToBitDepth's line reproduces the hardware's truncation exactly:
\* for every stored 8-bit value the level is k >> (8 - depth), never one
\* below it because the float product landed just under an integer.
QuantizeTruncates ==
    level # -1 => level = shiftR(k, 8 - depth)
=============================================================================
