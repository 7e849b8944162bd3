---------------------------- MODULE ColorEncoders ----------------------------
(***************************************************************************)
(* What one output pixel of the colour-copy shaders computes               *)
(* (TextureConversionShader.cpp: the I, IA, RGB565, RGB5A3, RGBA8 and the  *)
(* component C4/C8/CC4/CC8 encoders), channel by channel, and the GX       *)
(* texture bytes it must equal.                                            *)
(*                                                                         *)
(* A texel is its four 8-bit channels and y, the 8-bit intensity that      *)
(* WriteColorToIntensity's dot product plus IntensityConst.a stands for    *)
(* (the sampled value of a channel c is c / 255).  WriteToBitDepth(d)      *)
(* keeps the top d bits (Quantize shows the emitted floor does so).  An    *)
(* output x / 255 is stored as the byte x; channels b, g, r, a of ocol0    *)
(* are the pixel's bytes 0..3.                                             *)
(***************************************************************************)
EXTENDS Integers, Sequences, TLC

CONSTANTS
    ColorFormats,  \* the colour-copy formats requested
    Texels         \* the texels the source may hold

VARIABLES
    fmt,     \* the format of this shader
    texels,  \* texels[j]: the j-th texel the pixel samples
    cl,      \* RGBA8: xb - halfxb * 2, the cache line of this pixel
    ocol0    \* the pixel written: [b, g, r, a] bytes, None before

vars == <<fmt, texels, cl, ocol0>>

None == [b |-> -1, g |-> -1, r |-> -1, a |-> -1]

\* GenerateEncodingShader's switch: the encoder and its channel selector
Dispatch ==
    ("GX_TF_I4" :> <<"I4", "">>) @@ ("GX_TF_I8" :> <<"I8", "">>) @@
    ("GX_TF_IA4" :> <<"IA4", "">>) @@ ("GX_TF_IA8" :> <<"IA8", "">>) @@
    ("GX_TF_RGB565" :> <<"RGB565", "">>) @@ ("GX_TF_RGB5A3" :> <<"RGB5A3", "">>) @@
    ("GX_TF_RGBA8" :> <<"RGBA8", "">>) @@ ("GX_CTF_R4" :> <<"C4", "r">>) @@
    ("GX_CTF_RA4" :> <<"CC4", "ar">>) @@ ("GX_CTF_RA8" :> <<"CC8", "ar">>) @@
    ("GX_CTF_A8" :> <<"C8", "a">>) @@ ("GX_CTF_R8" :> <<"C8", "r">>) @@
    ("GX_CTF_G8" :> <<"C8", "g">>) @@ ("GX_CTF_B8" :> <<"C8", "b">>) @@
    ("GX_CTF_RG8" :> <<"CC8", "rg">>) @@ ("GX_CTF_GB8" :> <<"CC8", "gb">>)

\* texels one output pixel samples
Samples == [e \in {"I4", "C4"} |-> 8] @@ [e \in {"I8", "IA4", "C8", "CC4"} |-> 4]
           @@ [e \in {"IA8", "RGB565", "RGB5A3", "RGBA8", "CC8"} |-> 2]

ASSUME ColorFormats \subseteq DOMAIN Dispatch

Enc(f) == Dispatch[f][1]
Comp(f) == Dispatch[f][2]

\* WriteToBitDepth(d): floor(v * 255 / 2^(8-d)) for v = c / 255
Q(c, d) == c \div 2^(8 - d)

\* .x and .y of texSample for a two-letter selector ("ar": x = a, y = r)
X(t, comp) == t[SubSeq(comp, 1, 1)]
Y(t, comp) == t[SubSeq(comp, 2, 2)]

Pixel4(s) == [b |-> s[1], g |-> s[2], r |-> s[3], a |-> s[4]]

\* ocol0 = (color0 * 16.0f + color1) / 255.0f after both WriteToBitDepth(4),
\* color0 from samples 1, 3, 5, 7 and color1 from 2, 4, 6, 8 (I4, C4), or
\* both from sample j (IA4, CC4)
Nibbles(hi, lo) == Pixel4([j \in 1..4 |-> Q(hi[j], 4) * 16 + Q(lo[j], 4)])

I8Pixel(ts) == Pixel4([j \in 1..4 |-> ts[j].y])

I4Pixel(ts) == Nibbles([j \in 1..4 |-> ts[2 * j - 1].y], [j \in 1..4 |-> ts[2 * j].y])

\* ocol0.b = texSample.a; ocol0.g = intensity; then ocol0.r, ocol0.a
IA8Pixel(ts) == [b |-> ts[1].a, g |-> ts[1].y, r |-> ts[2].a, a |-> ts[2].y]

IA4Pixel(ts) == Nibbles([j \in 1..4 |-> ts[j].a], [j \in 1..4 |-> ts[j].y])

\* gInt = 6-bit green, gUpper = floor(gInt / 8), gLower = gInt - gUpper * 8;
\* ocol0.br = 5-bit red * 8 + gUpper; ocol0.ga = 5-bit blue + gLower * 32
RGB565Pixel(t0, t1) ==
    LET gUpper(t) == Q(t.g, 6) \div 8
        gLower(t) == Q(t.g, 6) - gUpper(t) * 8
    IN  [b |-> Q(t0.r, 5) * 8 + gUpper(t0), g |-> Q(t0.b, 5) + gLower(t0) * 32,
         r |-> Q(t1.r, 5) * 8 + gUpper(t1), a |-> Q(t1.b, 5) + gLower(t1) * 32]

\* Mutant of Rgb5a3Opaque: the literal 0.87f.
Rgb5a3OpaqueLoose(t) == t.a * 100 > 87 * 255

\* if(texSample.a > 0.878f)
Rgb5a3Opaque(t) == t.a * 1000 > 878 * 255

\* One texel's two bytes in each branch of WriteRGB5A3Encoder
RGB5A3Half(t) ==
    IF Rgb5a3Opaque(t)
    THEN LET color0 == Q(t.g, 5)
             gUpper == color0 \div 8
             gLower == color0 - gUpper * 8
         IN  <<Q(t.r, 5) * 4 + gUpper + 128, Q(t.b, 5) + gLower * 32>>
    ELSE <<Q(t.r, 4) + Q(t.a, 3) * 16, Q(t.b, 4) + Q(t.g, 4) * 16>>

RGB5A3Pixel(t0, t1) ==
    Pixel4(RGB5A3Half(t0) \o RGB5A3Half(t1))

\* color0 = (a, r) pairs, color1 = (g, b) pairs; ocol0 = cl0*color0 + cl1*color1
RGBA8Pixel(t0, t1, line) ==
    IF line = 0 THEN [b |-> t0.a, g |-> t0.r, r |-> t1.a, a |-> t1.r]
                ELSE [b |-> t0.g, g |-> t0.b, r |-> t1.g, a |-> t1.b]

C4Pixel(ts, comp) ==
    Nibbles([j \in 1..4 |-> ts[2 * j - 1][comp]], [j \in 1..4 |-> ts[2 * j][comp]])

C8Pixel(ts, comp) == Pixel4([j \in 1..4 |-> ts[j][comp]])

CC4Pixel(ts, comp) ==
    Nibbles([j \in 1..4 |-> X(ts[j], comp)], [j \in 1..4 |-> Y(ts[j], comp)])

\* ocol0.bg = texSample.<comp>, then ocol0.ra
CC8Pixel(ts, comp) ==
    [b |-> X(ts[1], comp), g |-> Y(ts[1], comp), r |-> X(ts[2], comp), a |-> Y(ts[2], comp)]
-----------------------------------------------------------------------------
Init ==
    /\ fmt \in ColorFormats
    /\ texels \in [1..Samples[Enc(fmt)] -> Texels]
    /\ cl \in (IF Enc(fmt) = "RGBA8" THEN {0, 1} ELSE {0})
    /\ ocol0 = None

\* The pixel shader of encoder e runs once and writes px.
RunEncoder(e, px) ==
    /\ Enc(fmt) = e /\ ocol0 = None
    /\ ocol0' = px
    /\ UNCHANGED <<fmt, texels, cl>>

RunI8     == RunEncoder("I8", I8Pixel(texels))
RunI4     == RunEncoder("I4", I4Pixel(texels))
RunIA8    == RunEncoder("IA8", IA8Pixel(texels))
RunIA4    == RunEncoder("IA4", IA4Pixel(texels))
RunRGB565 == RunEncoder("RGB565", RGB565Pixel(texels[1], texels[2]))
RunRGB5A3 == RunEncoder("RGB5A3", RGB5A3Pixel(texels[1], texels[2]))
RunRGBA8  == RunEncoder("RGBA8", RGBA8Pixel(texels[1], texels[2], cl))
RunC4     == RunEncoder("C4", C4Pixel(texels, Comp(fmt)))
RunC8     == RunEncoder("C8", C8Pixel(texels, Comp(fmt)))
RunCC4    == RunEncoder("CC4", CC4Pixel(texels, Comp(fmt)))
RunCC8    == RunEncoder("CC8", CC8Pixel(texels, Comp(fmt)))

Next ==
    \/ RunI8 \/ RunI4 \/ RunIA8 \/ RunIA4 \/ RunRGB565 \/ RunRGB5A3 \/ RunRGBA8
    \/ RunC4 \/ RunC8 \/ RunCC4 \/ RunCC8

Spec == Init /\ [][Next]_vars
-----------------------------------------------------------------------------
(***************************************************************************)
(* Reference: the GX texture formats, texel by texel in stream order.      *)
(* 16-bit texels are big-endian.  RGB5A3 is 1RRRRRGGGGGBBBBB when its      *)
(* alpha needs no bits (3-bit alpha 7), else 0AAARRRRGGGGBBBB.  RGBA8      *)
(* stores a block's A,R pairs in its first cache line and G,B pairs in     *)
(* its second.  RA4/RA8 are IA4/IA8 with red as the intensity.            *)
(***************************************************************************)
Nib(hi, lo) == (hi \div 16) * 16 + lo \div 16

Word565(t) == (t.r \div 8) * 2048 + (t.g \div 4) * 32 + t.b \div 8

Word5A3(t) ==
    IF t.a \div 32 = 7
    THEN 32768 + (t.r \div 8) * 1024 + (t.g \div 8) * 32 + t.b \div 8
    ELSE (t.a \div 32) * 4096 + (t.r \div 16) * 256 + (t.g \div 16) * 16 + t.b \div 16

BE(w0, w1) == <<w0 \div 256, w0 % 256, w1 \div 256, w1 % 256>>

GXPixel(f, ts, line) ==
    CASE f = "GX_TF_I8"     -> [j \in 1..4 |-> ts[j].y]
      [] f = "GX_TF_I4"     -> [j \in 1..4 |-> Nib(ts[2 * j - 1].y, ts[2 * j].y)]
      [] f = "GX_TF_IA8"    -> <<ts[1].a, ts[1].y, ts[2].a, ts[2].y>>
      [] f = "GX_TF_IA4"    -> [j \in 1..4 |-> Nib(ts[j].a, ts[j].y)]
      [] f = "GX_TF_RGB565" -> BE(Word565(ts[1]), Word565(ts[2]))
      [] f = "GX_TF_RGB5A3" -> BE(Word5A3(ts[1]), Word5A3(ts[2]))
      [] f = "GX_TF_RGBA8"  -> IF line = 0 THEN <<ts[1].a, ts[1].r, ts[2].a, ts[2].r>>
                                           ELSE <<ts[1].g, ts[1].b, ts[2].g, ts[2].b>>
      [] f = "GX_CTF_R4"    -> [j \in 1..4 |-> Nib(ts[2 * j - 1].r, ts[2 * j].r)]
      [] f = "GX_CTF_RA4"   -> [j \in 1..4 |-> Nib(ts[j].a, ts[j].r)]
      [] f = "GX_CTF_RA8"   -> <<ts[1].a, ts[1].r, ts[2].a, ts[2].r>>
      [] f \in {"GX_CTF_A8", "GX_CTF_R8", "GX_CTF_G8", "GX_CTF_B8"} ->
             [j \in 1..4 |-> ts[j][Comp(f)]]

\* the formats whose GX layout is stated above (RG8 and GB8 are not)
Documented == DOMAIN Dispatch \ {"GX_CTF_RG8", "GX_CTF_GB8"}

Written == ocol0 # None

TypeOK ==
    /\ fmt \in ColorFormats
    /\ Written => \A c \in {"b", "g", "r", "a"} : ocol0[c] \in 0..255

\* Every colour encoder writes, for the texels its swizzler hands it, the
\* bytes those texels have in the GX format: nibble order of I4/IA4/R4/RA4,
\* the big-endian RGB565 word, the RGB5A3 word in the mode its alpha needs,
\* and the A,R / G,B cache-line halves of RGBA8.
GXBytesExact ==
    Written /\ fmt \in Documented =>
        <<ocol0.b, ocol0.g, ocol0.r, ocol0.a>> = GXPixel(fmt, texels, cl)

=============================================================================
