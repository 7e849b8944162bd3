---------------------------- MODULE DepthEncoders ----------------------------
(***************************************************************************)
(* What one output pixel of the depth-copy shaders computes                *)
(* (TextureConversionShader.cpp: WriteZ8Encoder, WriteZ16Encoder,          *)
(* WriteZ16LEncoder, WriteZ24Encoder), channel by channel.                 *)
(*                                                                         *)
(* A sampled depth is the 24-bit value D read as the unorm D / 16777215.   *)
(* Arithmetic is exact: for D < 2^24 the float32 value of D / 16777215,    *)
(* times 16777215.0f, rounds back to D, and the later steps divide and    *)
(* multiply by powers of two.  The encoders divide each byte by 255.0f, so *)
(* the render target stores an output channel v as round(v * 255): the     *)
(* byte.  Channels b, g, r, a of ocol0 are the pixel's bytes 0..3, the     *)
(* order in which every encoder places its consecutive texels.             *)
(***************************************************************************)
EXTENDS Integers, Sequences, TLC

CONSTANTS
    DepthFormats,  \* the depth-copy formats requested
    DepthValues    \* the 24-bit depth values the texels may hold

ASSUME DepthValues \subseteq 0..16777215

MaxDepth == 16777215   \* 2^24 - 1, the depth that reads as 1.0

\* texels sampled per output pixel (GetEncodedSampleCount)
Samples == [f \in {"GX_CTF_Z8M", "GX_CTF_Z8L"} |-> 4] @@
           [f \in {"GX_TF_Z16", "GX_CTF_Z16L"} |-> 2] @@
           ("GX_TF_Z24X8" :> 2)

ASSUME DepthFormats \subseteq DOMAIN Samples

VARIABLES
    fmt,     \* the format of this shader
    depths,  \* depths[j]: the depth of the j-th texel the pixel samples
    cl,      \* Z24X8: xb - halfxb * 2, the cache line of this pixel
    ocol0    \* the pixel written: [b, g, r, a] bytes, None before

vars == <<fmt, depths, cl, ocol0>>

None == [b |-> -1, g |-> -1, r |-> -1, a |-> -1]

\* n / d rounded to the nearest integer, ties to even
RoundDiv(n, d) ==
    LET q == n \div d
        r == n % d
    IN  q + (IF 2 * r > d \/ (2 * r = d /\ q % 2 = 1) THEN 1 ELSE 0)

\* A channel value num/den stored in the 8-bit unorm target: round(v * 255).
\* (Both denominators used, 255 and 16777215, are multiples of 255.)
UnormByte(num, den) == RoundDiv(num, den \div 255)

\* Mutant of Expand: "depth -= expanded.r * 256.0f * 256.0f" left out.
ExpandNoSubtract(D) ==
    [r |-> D \div 65536, g |-> D \div 256, b |-> D - (D \div 256) * 256]

\* depth *= 16777215.0f; expanded.r = floor(depth / (256.0f * 256.0f));
\* depth -= expanded.r * 65536; expanded.g = floor(depth / 256.0f);
\* depth -= expanded.g * 256.0f; expanded.b = depth;
Expand(D) ==
    LET r    == D \div 65536
        rest == D - r * 65536
        g    == rest \div 256
    IN  [r |-> r, g |-> g, b |-> rest - g * 256]

\* frac(depth * 2^s) for depth = D / MaxDepth, as its numerator over
\* MaxDepth.  Because 2^24 = 1 (mod MaxDepth), D * 2^s reduces to
\* (D >> (24-s)) + (D mod 2^(24-s)) * 2^s without leaving 32 bits.
FracScaled(D, s) ==
    (D \div 2^(24 - s) + (D % 2^(24 - s)) * 2^s) % MaxDepth

\* Mutant of Z16Pixel: each texel's two bytes in big-endian order.
Z16PixelBigEndian(d0, d1) ==
    LET e0 == Expand(d0)  e1 == Expand(d1)
    IN  [b |-> e0.r, g |-> e0.g, r |-> e1.r, a |-> e1.g]

\* WriteZ16Encoder: ocol0.b = expanded.g / 255, ocol0.g = expanded.r / 255
\* for the first texel, ocol0.r and ocol0.a likewise for the second.
Z16Pixel(d0, d1) ==
    LET e0 == Expand(d0)  e1 == Expand(d1)
    IN  [b |-> UnormByte(e0.g, 255), g |-> UnormByte(e0.r, 255),
         r |-> UnormByte(e1.g, 255), a |-> UnormByte(e1.r, 255)]

\* WriteZ16LEncoder: expanded.b into b (r), expanded.g into g (a).
Z16LPixel(d0, d1) ==
    LET e0 == Expand(d0)  e1 == Expand(d1)
    IN  [b |-> UnormByte(e0.b, 255), g |-> UnormByte(e0.g, 255),
         r |-> UnormByte(e1.b, 255), a |-> UnormByte(e1.g, 255)]

\* WriteZ24Encoder: if (cl > 0.5) expanded g, b of both texels ("upper 16"),
\* else 1.0f and expanded r of both ("lower 8").
Z24Pixel(d0, d1, line) ==
    LET e0 == Expand(d0)  e1 == Expand(d1)
    IN  IF line > 0
        THEN [b |-> UnormByte(e0.g, 255), g |-> UnormByte(e0.b, 255),
              r |-> UnormByte(e1.g, 255), a |-> UnormByte(e1.b, 255)]
        ELSE [b |-> UnormByte(255, 255), g |-> UnormByte(e0.r, 255),
              r |-> UnormByte(255, 255), a |-> UnormByte(e1.r, 255)]

\* WriteZ8Encoder(multiplier): ocol0.<c> = frac(depth * multiplier) for the
\* four texels in b, g, r, a; multiplier is 256.0f (Z8M) or 65536.0f (Z8L).
Z8Pixel(ds, s) ==
    [b |-> UnormByte(FracScaled(ds[1], s), MaxDepth),
     g |-> UnormByte(FracScaled(ds[2], s), MaxDepth),
     r |-> UnormByte(FracScaled(ds[3], s), MaxDepth),
     a |-> UnormByte(FracScaled(ds[4], s), MaxDepth)]

\* GenerateEncodingShader's multiplier argument, as a power of two
Z8Shift == ("GX_CTF_Z8M" :> 8) @@ ("GX_CTF_Z8L" :> 16)
-----------------------------------------------------------------------------
Init ==
    /\ fmt \in DepthFormats
    /\ depths \in [1..Samples[fmt] -> DepthValues]
    /\ cl \in (IF fmt = "GX_TF_Z24X8" THEN {0, 1} ELSE {0})
    /\ ocol0 = None

\* The pixel shader of each encoder runs once for the pixel.
RunZ8 ==
    /\ fmt \in DOMAIN Z8Shift /\ ocol0 = None
    /\ ocol0' = Z8Pixel(depths, Z8Shift[fmt])
    /\ UNCHANGED <<fmt, depths, cl>>

RunZ16 ==
    /\ fmt = "GX_TF_Z16" /\ ocol0 = None
    /\ ocol0' = Z16Pixel(depths[1], depths[2])
    /\ UNCHANGED <<fmt, depths, cl>>

RunZ16L ==
    /\ fmt = "GX_CTF_Z16L" /\ ocol0 = None
    /\ ocol0' = Z16LPixel(depths[1], depths[2])
    /\ UNCHANGED <<fmt, depths, cl>>

RunZ24 ==
    /\ fmt = "GX_TF_Z24X8" /\ ocol0 = None
    /\ ocol0' = Z24Pixel(depths[1], depths[2], cl)
    /\ UNCHANGED <<fmt, depths, cl>>

Next == RunZ8 \/ RunZ16 \/ RunZ16L \/ RunZ24

Spec == Init /\ [][Next]_vars
-----------------------------------------------------------------------------
(***************************************************************************)
(* Reference: the bytes of a depth D are its base-256 digits               *)
(* H = D >> 16, M = (D >> 8) & 255, L = D & 255.                           *)
(***************************************************************************)
H(D) == D \div 65536
M(D) == (D \div 256) % 256
L(D) == D % 256

Written == ocol0 # None

TypeOK ==
    /\ fmt \in DepthFormats
    /\ cl \in {0, 1}
    /\ Written => \A c \in {"b", "g", "r", "a"} : ocol0[c] \in 0..255

\* The encoders that expand the depth into digits write the GX bytes of
\* the sampled texels: Z16 the upper 16 bits low byte first (M, H), Z16L
\* the lower 16 bits low byte first (L, M), and Z24X8 the pairs of its
\* cache line: (X, H) in the first, (M, L) in the second.
ExpandedBytesExact ==
    Written =>
        LET d0 == depths[1]  d1 == depths[2]
        IN  /\ fmt = "GX_TF_Z16" =>
                   ocol0 = [b |-> M(d0), g |-> H(d0), r |-> M(d1), a |-> H(d1)]
            /\ fmt = "GX_CTF_Z16L" =>
                   ocol0 = [b |-> L(d0), g |-> M(d0), r |-> L(d1), a |-> M(d1)]
            /\ fmt = "GX_TF_Z24X8" /\ cl = 0 =>
                   ocol0.g = H(d0) /\ ocol0.a = H(d1)
            /\ fmt = "GX_TF_Z24X8" /\ cl = 1 =>
                   ocol0 = [b |-> M(d0), g |-> L(d0), r |-> M(d1), a |-> L(d1)]

\* Spec 4.4: the 8-bit depth formats extract a byte digit of the depth:
\* Z8M writes each texel's middle byte M, Z8L its low byte L.
Z8BytesExact ==
    Written /\ fmt \in DOMAIN Z8Shift =>
        \A j \in 1..4 :
            LET c == <<"b", "g", "r", "a">>[j]
            IN  ocol0[c] = IF fmt = "GX_CTF_Z8M" THEN M(depths[j]) ELSE L(depths[j])

\* Spec 7 (24-bit depth): of the two branches on cl > 0.5, one emits the
\* upper 16 bits of the depth (digits H and M) and the other the lower 8
\* (digit L), as the comments in WriteZ24Encoder say.
Z24BranchesAsCommented ==
    Written /\ fmt = "GX_TF_Z24X8" =>
        LET d0 == depths[1]
        IN  IF cl = 1 THEN {ocol0.b, ocol0.g} = {H(d0), M(d0)}
                      ELSE ocol0.g = L(d0)
=============================================================================
