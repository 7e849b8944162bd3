----------------------------- MODULE DepthScale -----------------------------
(***************************************************************************)
(* The first line of every depth expansion (TextureConversionShader.cpp,   *)
(* WriteZ16Encoder, WriteZ16LEncoder, WriteZ24Encoder):                    *)
(*     WriteSampleColor(p, "b", "depth");   depth *= 16777215.0f;          *)
(* The texture holds a 24-bit depth D; the fetch returns a float32 near    *)
(* D / 16777215, and the line multiplies it back.  The floor and subtract  *)
(* steps after it (DepthEncoders' Expand) are exact only if the product is *)
(* the integer D again.                                                    *)
(*                                                                         *)
(* Floats are float32 exactly: [m, q] is m / 2^q with a 24-bit mantissa.   *)
(* The product m * 16777215 is formed as m * 2^24 - m, split at bit 24, so *)
(* nothing leaves TLC's 32-bit integers.  The fetch may land TolNum/TolDen *)
(* of a unit in the last place from the exact value (1/2: correctly        *)
(* rounded); the multiply rounds to nearest even.                          *)
(***************************************************************************)
EXTENDS Integers

CONSTANTS
    TolNum, TolDen,  \* the fetch may be off by TolNum/TolDen ULP
    DepthValues      \* the 24-bit depths the texture may hold

MaxDepth == 16777215   \* 2^24 - 1: the literal, and the depth read as 1.0

ASSUME /\ TolNum \in Nat /\ TolDen \in Nat \ {0} /\ TolNum < TolDen
       /\ DepthValues \subseteq 0..MaxDepth

VARIABLES
    stored,   \* the depth D in the texture
    fetched,  \* the float the sample returned ([m, q]), NoFloat before
    scaled    \* depth after depth *= 16777215.0f, NoFloat before

vars == <<stored, fetched, scaled>>

NoFloat == [m |-> -1, q |-> 0]

\* the number of bits of n >= 0
Bits(n) == CHOOSE b \in 0..25 : n < 2^b /\ (b = 0 \/ n >= 2^(b - 1))

\* the floats within TolNum/TolDen ULP of D / MaxDepth.  For 0 < D < MaxDepth
\* take r with A = D * 2^r in [2^23, 2^24): then D * 2^(24+r) / MaxDepth is
\* A + A / MaxDepth, so candidate c / 2^(24+r) is off by
\* |(c - A) * MaxDepth - A| / MaxDepth ULP.
DepthToFloat(D) ==
    IF D = 0 THEN {[m |-> 0, q |-> 0]}
    ELSE IF D = MaxDepth THEN {[m |-> 2^23, q |-> 23]}
    ELSE LET r == 24 - Bits(D)
             A == D * 2^r
             off(c) == (c - A) * MaxDepth - A
         IN  {[m |-> c, q |-> 24 + r] :
                c \in {c \in A - 1..A + 2 :
                         /\ c >= 2^23 /\ c < 2^24
                         /\ TolDen * (IF off(c) >= 0 THEN off(c) ELSE -off(c))
                              <= TolNum * MaxDepth}}

\* quot + rem / 2^d rounded to the nearest integer, ties to even
RoundHalfEven(quot, rem, d) ==
    quot + (IF d > 0 /\ (2 * rem > 2^d \/ (2 * rem = 2^d /\ quot % 2 = 1))
            THEN 1 ELSE 0)

\* Mutant of MulMaxDepth: the literal 16777216.0f (2^24) in place of 2^24 - 1.
MulPow24(x) == [m |-> x.m, q |-> x.q - 24]

\* x * 16777215.0f rounded to 24 bits.  n = m * 2^24 - m
\* = (m - 1) * 2^24 + (2^24 - m) has 24 + Bits(m - 1) bits, so the
\* rounding drops the low Bits(m - 1) of them.
MulMaxDepth(x) ==
    IF x.m = 0 THEN [m |-> 0, q |-> 0]
    ELSE LET drop == Bits(x.m - 1)
             low  == 2^24 - x.m
         IN  [m |-> RoundHalfEven((x.m - 1) * 2^(24 - drop) + low \div 2^drop,
                                  low % 2^drop, drop),
              q |-> x.q - drop]
-----------------------------------------------------------------------------
Init ==
    /\ stored \in DepthValues
    /\ fetched = NoFloat
    /\ scaled = NoFloat

\* WriteSampleColor(p, "b", "depth"): the GPU samples the depth texture
FetchDepth ==
    /\ fetched = NoFloat
    /\ fetched' \in DepthToFloat(stored)
    /\ UNCHANGED <<stored, scaled>>

\* depth *= 16777215.0f
ScaleDepth ==
    /\ fetched # NoFloat /\ scaled = NoFloat
    /\ scaled' = MulMaxDepth(fetched)
    /\ UNCHANGED <<stored, fetched>>

Next == FetchDepth \/ ScaleDepth

Spec == Init /\ [][Next]_vars
-----------------------------------------------------------------------------
\* the float x has the value v
ValueIs(x, v) ==
    IF x.q <= 0 THEN x.m * 2^(-x.q) = v
    ELSE x.m % 2^x.q = 0 /\ x.m \div 2^x.q = v

\* A fetched depth is a float32 in [0, 1].
TypeOK ==
    /\ stored \in DepthValues
    /\ \/ fetched = NoFloat
       \/ fetched.m = 0
       \/ fetched.m \in 2^23..2^24 - 1 /\ (fetched.q >= 24 \/ fetched = [m |-> 2^23, q |-> 23])

\* depth *= 16777215.0f gives back exactly the stored integer depth, so that
\* the floor(depth / 65536), floor(depth / 256) and subtractions after it
\* extract its base-256 digits (hazard: a product just under D floors the
\* upper digit down and leaves 255.99 in the digit below).
ScaledDepthExact ==
    scaled # NoFloat => ValueIs(scaled, stored)
=============================================================================
