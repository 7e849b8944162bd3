--------------------------- MODULE EncodingShader ---------------------------
(***************************************************************************)
(* TextureConversionShaderDX (TextureConversionShader.cpp): the texture    *)
(* encoding shader generators and GenerateEncodingShader, which dispatches *)
(* on the format code and writes into the static buffer text[].            *)
(*                                                                         *)
(* The generated text is abstracted to the sequence of emissions that      *)
(* carry state: the swizzler prologue (with the texels it assigns to one   *)
(* output pixel), each texture sample (with the offset it materialises     *)
(* from s_incrementSampleXCount), the IntensityConst declaration, its      *)
(* uses, each bit-depth quantisation and the closing brace.  Literal lines *)
(* that read no generator state are left out; a token is one unit of       *)
(* buffer length.  An encoder is the sequence of helper calls it makes;    *)
(* the helpers thread the globals IntensityConstantAdded and               *)
(* s_incrementSampleXCount, which persist between calls.                   *)
(***************************************************************************)
EXTENDS Naturals, Sequences, SequencesExt, FiniteSets, Swizzle

CONSTANTS
    Formats,             \* the format codes callers request, known or not
    EncodedSampleCount,  \* TextureConversionShader::GetEncodedSampleCount (a collaborator)
    BlockWidth,          \* TexDecoder_GetBlockWidthInTexels (a collaborator)
    BlockHeight,         \* TexDecoder_GetBlockHeightInTexels (a collaborator)
    Capacity,            \* sizeof(text), in tokens
    Locales,             \* the locales the thread may be running under
    DecimalPoint         \* DecimalPoint[l]: the radix character %f prints under l

ASSUME /\ Capacity \in Nat \ {0}
       /\ "C" \in Locales /\ DecimalPoint \in [Locales -> {".", ","}]
       /\ DecimalPoint["C"] = "."

VARIABLES
    text,                    \* static char text[]: the string up to its terminator
    owner,                   \* the format whose encoder last wrote text ("none" before any)
    IntensityConstantAdded,  \* static bool
    s_incrementSampleXCount, \* static int
    threadLocale,            \* the calling thread's locale (uselocale)
    result                   \* the last call: format requested, text returned, alerts raised

vars == <<text, owner, IntensityConstantAdded, s_incrementSampleXCount, threadLocale, result>>

\* An emission: its kind, its argument and the radix character of the float
\* literals it prints ("" when it prints none).
Tok(kind, arg) == <<kind, arg, "">>
FloatTok(st, kind, arg) == <<kind, arg, DecimalPoint[st.locale]>>
Op(name, arg) == <<name, arg>>

(***************************************************************************)
(* The helpers, each a transformer of the generator state                  *)
(* st = [text, flag, count, locale] (flag, count: the two globals; locale: *)
(* the one %f formats under).                                              *)
(***************************************************************************)
Emit(st, tok) == [st EXCEPT !.text = Append(@, tok)]

\* WriteSwizzler: prologue; uv1.x is scaled by GetEncodedSampleCount(format)
WriteSwizzler(st, f) ==
    Emit(st, FloatTok(st, "swizzle", [fmt |-> f, texels |-> EncodedSampleCount[f], wide |-> FALSE]))

\* Write32BitSwizzler: prologue; x2 = uv1.x * 2 (two texels per output pixel)
Write32BitSwizzler(st, f) ==
    Emit(st, FloatTok(st, "swizzle", [fmt |-> f, texels |-> 2, wide |-> TRUE]))

\* WriteSampleColor: tex2D at sampleUv + s_incrementSampleXCount texel steps
WriteSampleColor(st) == Emit(st, Tok("sample", st.count))

\* WriteColorToIntensity: declare IntensityConst on first use, then use it
WriteColorToIntensity(st) ==
    LET declared == IF st.flag THEN st
                    ELSE [Emit(st, Tok("declare", 0)) EXCEPT !.flag = TRUE]
    IN Emit(declared, Tok("use", 0))

\* Mutant of WriteIncrementSampleX: the counter decremented.
WriteIncrementSampleXDown(st) == [st EXCEPT !.count = @ - 1]

\* WriteIncrementSampleX: s_incrementSampleXCount++ (no text)
WriteIncrementSampleX(st) == [st EXCEPT !.count = @ + 1]

\* An encoder's literal "... += IntensityConst.aaaa;" line (see WriteColorToIntensity)
AddIntensityAlpha(st) == Emit(st, Tok("use", 0))

\* WriteToBitDepth: floor(src * (255 / 2^(8 - depth)))
WriteToBitDepth(st, d) == Emit(st, FloatTok(st, "quantize", d))

\* Mutant of WriteEncoderEnd: s_incrementSampleXCount not reset.
WriteEncoderEndKeepCount(st) == [Emit(st, Tok("close", 0)) EXCEPT !.flag = FALSE]

\* Mutant of WriteEncoderEnd: IntensityConstantAdded not reset.
WriteEncoderEndKeepFlag(st) == [Emit(st, Tok("close", 0)) EXCEPT !.count = 0]

\* WriteEncoderEnd: "}\n"; IntensityConstantAdded = false; s_incrementSampleXCount = 0
WriteEncoderEnd(st) == [Emit(st, Tok("close", 0)) EXCEPT !.flag = FALSE, !.count = 0]

Exec(st, op) ==
    CASE op[1] = "WriteSwizzler"         -> WriteSwizzler(st, op[2])
      [] op[1] = "Write32BitSwizzler"    -> Write32BitSwizzler(st, op[2])
      [] op[1] = "WriteSampleColor"      -> WriteSampleColor(st)
      [] op[1] = "WriteColorToIntensity" -> WriteColorToIntensity(st)
      [] op[1] = "WriteIncrementSampleX" -> WriteIncrementSampleX(st)
      [] op[1] = "AddIntensityAlpha"     -> AddIntensityAlpha(st)
      [] op[1] = "WriteToBitDepth"       -> WriteToBitDepth(st, op[2])
      [] op[1] = "WriteEncoderEnd"       -> WriteEncoderEnd(st)

RunEncoder(prog, st) == FoldLeft(Exec, st, prog)

(***************************************************************************)
(* The encoders, as the sequences of helper calls they make.               *)
(***************************************************************************)
Sample == <<Op("WriteSampleColor", 0)>>
Intensity == <<Op("WriteColorToIntensity", 0)>>
Inc == <<Op("WriteIncrementSampleX", 0)>>
AddAlpha == <<Op("AddIntensityAlpha", 0)>>
BitDepth(d) == <<Op("WriteToBitDepth", d)>>
End == <<Op("WriteEncoderEnd", 0)>>
Swizzler(f) == <<Op("WriteSwizzler", f)>>
Swizzler32(f) == <<Op("Write32BitSwizzler", f)>>
Times(n, prog) == FlattenSeq([i \in 1..n |-> prog])

WriteI8Encoder ==
    Swizzler("GX_TF_I8") \o Times(3, Sample \o Intensity \o Inc)
        \o Sample \o Intensity \o AddAlpha \o End

WriteI4Encoder ==
    Swizzler("GX_TF_I4") \o Times(7, Sample \o Intensity \o Inc)
        \o Sample \o Intensity \o AddAlpha \o AddAlpha
        \o BitDepth(4) \o BitDepth(4) \o End

WriteIA8Encoder ==
    Swizzler("GX_TF_IA8") \o Sample \o Intensity \o Inc
        \o Sample \o Intensity \o AddAlpha \o End

WriteIA4Encoder ==
    Swizzler("GX_TF_IA4") \o Times(3, Sample \o Intensity \o Inc)
        \o Sample \o Intensity \o AddAlpha \o BitDepth(4) \o BitDepth(4) \o End

WriteRGB565Encoder ==
    Swizzler("GX_TF_RGB565") \o Sample \o Inc \o Sample
        \o BitDepth(6) \o BitDepth(5) \o BitDepth(5) \o End

\* one sample: the > 0.878 branch (5-5-5) and the else branch (4-4-3-4)
RGB5A3Pixel ==
    BitDepth(5) \o BitDepth(5) \o BitDepth(5)
        \o BitDepth(4) \o BitDepth(4) \o BitDepth(3) \o BitDepth(4)

WriteRGB5A3Encoder ==
    Swizzler("GX_TF_RGB5A3") \o Sample \o RGB5A3Pixel \o Inc
        \o Sample \o RGB5A3Pixel \o End

WriteRGBA8Encoder ==
    Swizzler32("GX_TF_RGBA8") \o Sample \o Inc \o Sample \o End

WriteC4Encoder ==
    Swizzler("GX_CTF_R4") \o Times(7, Sample \o Inc) \o Sample
        \o BitDepth(4) \o BitDepth(4) \o End

WriteC8Encoder ==
    Swizzler("GX_CTF_R8") \o Times(3, Sample \o Inc) \o Sample \o End

WriteCC4Encoder ==
    Swizzler("GX_CTF_RA4") \o Times(3, Sample \o Inc) \o Sample
        \o BitDepth(4) \o BitDepth(4) \o End

WriteCC8Encoder ==
    Swizzler("GX_CTF_RA8") \o Sample \o Inc \o Sample \o End

WriteZ8Encoder ==
    Swizzler("GX_CTF_Z8M") \o Times(3, Sample \o Inc) \o Sample \o End

WriteZ16Encoder ==
    Swizzler("GX_TF_Z16") \o Sample \o Inc \o Sample \o End

WriteZ16LEncoder ==
    Swizzler("GX_CTF_Z16L") \o Sample \o Inc \o Sample \o End

WriteZ24Encoder ==
    Swizzler32("GX_TF_Z24X8") \o Sample \o Inc \o Sample \o End

\* The switch of GenerateEncodingShader (the channel selector strings that
\* C4, C8, CC4, CC8 and Z8 take are text only and left out).
Encoder ==
    [f \in {"GX_TF_I4"} |-> WriteI4Encoder] @@
    [f \in {"GX_TF_I8"} |-> WriteI8Encoder] @@
    [f \in {"GX_TF_IA4"} |-> WriteIA4Encoder] @@
    [f \in {"GX_TF_IA8"} |-> WriteIA8Encoder] @@
    [f \in {"GX_TF_RGB565"} |-> WriteRGB565Encoder] @@
    [f \in {"GX_TF_RGB5A3"} |-> WriteRGB5A3Encoder] @@
    [f \in {"GX_TF_RGBA8"} |-> WriteRGBA8Encoder] @@
    [f \in {"GX_CTF_R4", "GX_CTF_Z4"} |-> WriteC4Encoder] @@
    [f \in {"GX_CTF_RA4"} |-> WriteCC4Encoder] @@
    [f \in {"GX_CTF_RA8", "GX_CTF_RG8", "GX_CTF_GB8"} |-> WriteCC8Encoder] @@
    [f \in {"GX_CTF_A8", "GX_CTF_R8", "GX_CTF_G8", "GX_CTF_B8", "GX_TF_Z8"} |-> WriteC8Encoder] @@
    [f \in {"GX_TF_Z16"} |-> WriteZ16Encoder] @@
    [f \in {"GX_TF_Z24X8"} |-> WriteZ24Encoder] @@
    [f \in {"GX_CTF_Z8M", "GX_CTF_Z8L"} |-> WriteZ8Encoder] @@
    [f \in {"GX_CTF_Z16L"} |-> WriteZ16LEncoder]

KnownFormat(f) == f \in DOMAIN Encoder

\* text[sizeof(text) - 1] != 0x7C after generation: the string's characters
\* occupy 0..len-1 and its terminator len, so the canary byte is overwritten
\* once len >= sizeof(text) - 1 (no generated line contains '|').
CanaryEaten(len) == len >= Capacity - 1

\* newlocale(LC_NUMERIC_MASK, "C", NULL); uselocale(locale): the locale the
\* generators format under.
GenerationLocale == "C"

(***************************************************************************)
(* GenerateEncodingShader(format).  The "C" locale is applied to the       *)
(* thread for the call and uselocale(old_locale) restores the thread's     *)
(* own before return.  For an unknown code only PanicAlert runs and text[] *)
(* keeps its contents.                                                     *)
(***************************************************************************)
GenerateEncodingShader(format) ==
    LET st0 == [text |-> <<>>, flag |-> IntensityConstantAdded,
                count |-> s_incrementSampleXCount, locale |-> GenerationLocale]
        st == IF KnownFormat(format) THEN RunEncoder(Encoder[format], st0) ELSE st0
        out == IF KnownFormat(format) THEN st.text ELSE text
        alerts == (IF KnownFormat(format) THEN {} ELSE {"unknown format"})
                  \cup (IF KnownFormat(format) /\ CanaryEaten(Len(out))
                           THEN {"canary eaten"} ELSE {})
    IN /\ text' = out
       /\ owner' = IF KnownFormat(format) THEN format ELSE owner
       /\ IntensityConstantAdded' = st.flag
       /\ s_incrementSampleXCount' = st.count
       /\ result' = [req |-> format, text |-> out, owner |-> owner', alerts |-> alerts]
       /\ UNCHANGED threadLocale

\* Other code of the process changes the thread's locale between calls
\* (setlocale, or uselocale on this thread).
SetThreadLocale(l) ==
    /\ threadLocale' = l
    /\ UNCHANGED <<text, owner, IntensityConstantAdded, s_incrementSampleXCount, result>>

Init ==
    /\ text = <<>>
    /\ owner = "none"
    /\ IntensityConstantAdded = FALSE
    /\ s_incrementSampleXCount = 0
    /\ threadLocale \in Locales
    /\ result = [req |-> "none", text |-> <<>>, owner |-> "none", alerts |-> {}]

Next ==
    \/ \E f \in Formats : GenerateEncodingShader(f)
    \/ \E l \in Locales : SetThreadLocale(l)

Spec == Init /\ [][Next]_vars

(***************************************************************************)
(* Properties, about the text the last call returned                       *)
(***************************************************************************)
Generated == result.req # "none" /\ result.owner = result.req

TypeOK ==
    /\ \A i \in 1..Len(text) : text[i][1] \in {"swizzle", "sample", "declare", "use", "quantize", "close"}
    /\ \A i \in 1..Len(text) : text[i][1] = "sample" => text[i][2] \in Nat
    /\ threadLocale \in Locales
    /\ IntensityConstantAdded \in BOOLEAN
    /\ s_incrementSampleXCount \in Nat
    /\ result.alerts \subseteq {"unknown format", "canary eaten"}

Positions(t, kind) == {i \in 1..Len(t) : t[i][1] = kind}

\* The deferred sample offsets: the shader samples exactly the texels the
\* swizzler assigns to one output pixel, at offsets 0, 1, ..., n-1 in order,
\* whatever the calls before it left in s_incrementSampleXCount.
SampleOffsetsMatchSwizzler ==
    Generated =>
        LET t == result.text
            samples == SelectSeq(t, LAMBDA x : x[1] = "sample")
        IN /\ t[1][1] = "swizzle"
           /\ Len(samples) = t[1][2].texels
           /\ \A i \in 1..Len(samples) : samples[i][2] = i - 1

\* IntensityConst is declared exactly once in every shader that uses it, and
\* before its first use, whatever the calls before it left in
\* IntensityConstantAdded.
IntensityDeclaredBeforeUse ==
    Generated =>
        LET t == result.text
            decl == Positions(t, "declare")
        IN Positions(t, "use") # {} =>
              /\ Cardinality(decl) = 1
              /\ \A d \in decl, u \in Positions(t, "use") : d < u

\* The prologue's address arithmetic reproduces the GX tiled layout: over a
\* texture of 2 x 2 blocks, sample i of output pixel (x, y) reads the texel
\* (and, for 32-bit formats, the cache line) that the pixel's bytes hold in
\* the format's memory layout.
SwizzlerEncodesGXLayout ==
    Generated =>
        LET sw == result.text[1][2]
            bw == BlockWidth[sw.fmt]
            bh == BlockHeight[sw.fmt]
            n == sw.texels
            W == 2 * bw
        IN IF sw.wide
           THEN \A x \in 0..(W - 1), y \in 0..(2 * bh - 1), i \in 0..1 :
                    Swizzle32Texel(x, y, i, bw, bh, W) = GX32Texel(y * W + x, i, bw, bh, W)
           ELSE \A x \in 0..((W \div n) - 1), y \in 0..(2 * bh - 1), i \in 0..(n - 1) :
                    SwizzleTexel(x, y, i, bw, bh, n, W)
                        = GXTexel((y * (W \div n) + x) * n + i, bw, bh, W)

\* Spec 4.4: there is no fallback for an unknown format; every text the
\* dispatcher returns was generated for the format the caller requested.
ReturnedTextMatchesRequest ==
    result.req # "none" => result.owner = result.req
=============================================================================
