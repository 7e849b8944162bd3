# Model-checking the shader-generation core (ShaderGenCommon.h, TextureConversionShader.cpp)

This directory holds TLA+ modules that model the shader uid and uid-checker framework
(`src/Source/Core/VideoCommon/ShaderGenCommon.h`). They also model the texture encoding shader
generator (`src/Source/Core/VideoCommon/TextureConversionShader.cpp`). The TLC
configurations check them. `PROJECT.json` lists the components, runs, mutants, the map from every
definition to its source lines, the findings and the hazards.

## 1. Inventory

### Components and their state

| Component | Source | State | Operations |
|---|---|---|---|
| ShaderGeneratorInterface | ShaderGenCommon.h:24-61 | none | no-op `ClearUID`, `CalculateUIDHash`, `Write`, `GetBuffer`, `SetBuffer`, `GetUidData` |
| ShaderUid<uid_data> (fingerprint) | ShaderGenCommon.h:69-123 | a union of `uid_data` and its raw bytes `values`; `HASH`, the memoised hash, where 0 means "not computed" | constructor (sets `HASH = 0` only; the union stays uninitialised), `ClearUID` (memset of the bytes), `GetUidData` (field writes), `CalculateUIDHash` (Adler-32 over `[StartValue, StartValue+NumValues)` if `HASH == 0`), `==`, `!=`, `<` (memcmp over the same range), `ShaderUidHasher` (returns `HASH`), implicit copy |
| ShaderCode (text buffer) | ShaderGenCommon.h:127-153 | `buf`, `write_ptr` | `Write` (vsprintf at `write_ptr`, advance), `GetBuffer`, `SetBuffer`, `BufferSize` |
| DeclareUniform and its helpers | ShaderGenCommon.h:155-180 | none | text formatting |
| UidChecker<UidT, CodeT> (variant cache) | ShaderGenCommon.h:185-248 | `m_uids` (a vector searched with `==`), `m_shaders` (a map ordered by `<`), and the function-local `static int num_failures` | `AddToIndexAndCheck(code, uid, type, prefix)`, `Invalidate` |
| Encoder helpers | TextureConversionShader.cpp:30-174 | the statics `text[16384]`, `IntensityConstantAdded`, `s_incrementSampleXCount` | `WriteSwizzler`, `Write32BitSwizzler`, `WriteSampleColor`, `WriteColorToIntensity`, `WriteIncrementSampleX`, `WriteToBitDepth`, `WriteEncoderEnd` |
| Encoders | TextureConversionShader.cpp:176-686 | (through the helpers) | one function per format family: I8, I4, IA8, IA4, RGB565, RGB5A3, RGBA4443 (never called), RGBA8, C4, C8, CC4, CC8, Z8, Z16, Z16L, Z24 |
| GenerateEncodingShader (dispatcher) | TextureConversionShader.cpp:688-782 | the thread's locale, and the canary byte `text[16383]` | switches to the "C" numeric locale, writes the canary, dispatches on 23 format codes (an unknown code raises a `PanicAlert`), checks the canary, restores the locale, and returns `text` |
| SetShaderParameters | TextureConversionShader.cpp:784-795 | a constant buffer owned by PixelShaderManager | writes eight floats |

### How they interact

- A shader generator (outside the sources) fills in a `ShaderUid` field by field and hashes it.
  It writes the program into a `ShaderCode` bound to scratch storage that every generation
  reuses. It then hands the uid and the `ShaderCode` to a `UidChecker`. The checker copies the
  uid into its vector and its map, and reads the text through `GetBuffer()` as a C string (the
  `std::string` it stores, and `strcmp`).
- `GenerateEncodingShader` calls one encoder. The encoder calls the helpers, and the helpers
  append to the static `text` through `WRITE` (`sprintf`). They also read and update two
  process-wide globals:
  - `s_incrementSampleXCount`, a deferred sample offset;
  - `IntensityConstantAdded`, a flag saying "IntensityConst already declared".

  Only `WriteEncoderEnd` resets them. Both globals, and `text`, outlive the call.
- Collaborators outside the sources:
  - `HashAdler32`;
  - `TexDecoder_GetBlockWidthInTexels` and `TexDecoder_GetBlockHeightInTexels`;
  - `TextureConversionShader::GetEncodedSampleCount`;
  - `PanicAlert` (it shows a message and returns);
  - `PixelShaderManager::GetBufferToUpdate`.

### What is hard here

Nothing runs concurrently: the spec makes serialised use a precondition, and the code is
single-threaded. The hard parts are:

- **State that outlives a call.**
  - The memoised `HASH` survives `ClearUID` and is copied along with the uid.
  - The two encoder globals persist from one `GenerateEncodingShader` call to the next.
  - `text[]` keeps the previous shader when a call writes nothing into it.
  - `num_failures` survives `Invalidate`.
- **Two data structures that must agree.** `std::find` uses `==` and `std::map` uses `<`. When the
  two disagree, `operator[]` silently inserts an empty string.
- **Numeric edges.**
  - The address arithmetic of the swizzlers must reproduce the block-tiled memory layout.
  - The canary sits one byte from the end of `text`.
  - The dump loop mixes byte counts and word counts.

### Properties that make each component correct

- **ShaderUid.** Uids that compare equal carry equal hashes, which is what `ShaderUidHasher`
  needs.
- **ShaderCode.** The C string read through `GetBuffer` is exactly what was written since
  `SetBuffer`, although the storage still holds older, longer programs.
- **UidChecker.** The vector and the map index the same uids, each once. A dump happens only for a
  real mismatch against real shader text. Resubmitting the latest text
  is silent. The dump reads only the uid's own words.
- **Encoders and dispatcher.**
  - Each shader samples exactly the texels its swizzler assigns to one output pixel, at offsets
    0..n-1.
  - IntensityConst is declared once, before its first use.
  - The swizzler implements the GX layout.
  - The returned text belongs to the requested format.

## 2. Modules

| Module | Models | Notes |
|---|---|---|
| `ShaderUidOps` | the pure part of `ShaderUid`: `Meaningful` (the range memcmp reads), `UidEq` (`==`/`!=`), `UidLess` (`<`), `HashAdler32` (spec-modelled), `NoHash` (the `HASH == 0` sentinel) | A uid is a byte tuple, where C++ offset o is index o+1. The hash is kept as the pair (sum1, sum2), because `(sum2<<16)\|sum1` exceeds TLC's integers; it is 0 exactly when both sums are 0. |
| `ShaderUid` | a set of uid objects, with `values`, `HASH` and `phase`. The actions are `ClearUID`, `SetField` (`GetUidData` writes), `CalculateUIDHash` and `CopyUid` (the implicit copy). | `phase` is the caller's lifecycle from the spec: fields are written while "building", and the uid is "frozen" once hashed; `ClearUID` starts building again. `Init` lets the bytes take any value, because the constructor leaves the union uninitialised. |
| `UidChecker` | `m_uids` (a sequence), `m_shaders` (a function from the stored key to the code), `num_failures` and the dumps written. `AddToIndexAndCheck` models the whole method: `std::find` with `==`, then either append and `m_shaders[uid] = code`, or `operator[]` (which inserts `EmptyCode` for a missing key), the compare, `++num_failures` and the dump record. `Invalidate` is the other action. | Map lookup follows `std::map`: the stored key k with `!(k<u) && !(u<k)`. Shader code is a model value, so strcmp compares equality. A dump records its number, the old and new code, and the u32 word indices the loop reads. The history variables `lastCode` and `lastCall` exist only for `NoDumpOnRepeat`. |
| `TextBuffer` | the abstract text buffer of spec 4.1: `bound` and `content`. `Bind` empties the text and `Write(s)` appends `s`. | Written from the spec; it has no map entries. `ShaderCode` maps onto it with `bound <- buf # Null` and `content <- Written`. `TextBufferRefined == TB!Spec` is checked as a property. |
| `ShaderCode` | `ShaderCode` with the storage it writes into: `mem` (the storage's bytes), `buf` and `write_ptr` (NULL is -1). The actions are `SetBuffer` and `Write(s)`; `Write` stores the formatted bytes and vsprintf's terminating NUL and advances the cursor by the length without it. `GetBuffer` and `BufferSize` are operators. `CString(p)` is how readers take the text: the bytes up to the first NUL. | One storage region, addresses 0..Capacity-1, zero-filled at start like the static scratch arrays, bound at its start. The formatted string is a small sequence over a one-letter alphabet: only lengths matter for what is read back. A `Write` that would not leave room for the NUL is not taken: that overflow is the canary's concern, modelled in `EncodingShader`. |
| `Generation` | the composition of a generator, a `ShaderCode` and `UidChecker` (which it EXTENDS). `phase` is the generator's: `BeginGeneration` (`SetBuffer`), any number of `Emit(s)` (`Write`), then `Submit(uid)`, which is `AddToIndexAndCheck` with the C string at `GetBuffer()`. `Invalidate` can happen at any time. | The generator is the caller outside the sources (spec 2 and 4.5), so its actions are marked spec-modelled. It submits only after at least one `Write`, as every encoder writes before its text is read. |
| `Swizzle` | the address arithmetic of `WriteSwizzler` and `Write32BitSwizzler` (plus the sample offset of `WriteSampleColor` and the cache-line selector `cl1` of RGBA8), as operators on texel coordinates. `GXTexel`, `GX32Texel` and `BlockTexel` are the reference tiled layout. | All quantities are small integers, so they are exact in float. The final affine map to normalised coordinates (`* I_COLORS[0].xy + I_COLORS[1].zw`, `+ (0,1)`, `/ I_COLORS[0].zw`) is applied uniformly to every sample and is left out. |
| `EncodingShader` | `text`, `owner` (the format whose encoder last wrote `text`; a history variable), `IntensityConstantAdded`, `s_incrementSampleXCount`, `threadLocale`, and `result` (the last call). Each helper is an operator on a generator state `[text, flag, count, locale]`. Each encoder is the sequence of helper calls it makes, and `Encoder` is the switch. `GenerateEncodingShader(format)` is one action: it runs the whole call, with the locale switch, canary, dispatch, alerts and return. `SetThreadLocale` is the environment changing the calling thread's locale between calls. | The text is abstracted to the emissions that carry state: swizzle prologue (format, texels per pixel, 32-bit or not), sample (its offset), declare, use of IntensityConst, quantise (depth), and close. Literal lines that read no state are left out. A token is one unit of buffer length. Emissions that print `%f` record the radix character of the locale they were printed under. |
| `VariantCache` | the abstract variant cache of spec 4.3, keyed by fingerprint (the meaningful byte range): `cache` (fingerprint to text) and `reports` (the mismatch reports, oldest first). `RecordAndCheck` stores an unseen fingerprint, does nothing for an equal text, and reports (old, new) for a different one without touching the entry. `Invalidate` forgets every entry. | No vector, no map ordering and no dump numbering: only what callers can observe. `UidChecker` maps onto it through `CachedCode` (the map's keys turned into fingerprints) and `Reports` (the dumps' old and new code). `VariantCacheRefined == VC!Spec` is checked as a property. |
| `Quantize` | `WriteToBitDepth` (TextureConversionShader.cpp:163-167) end to end: the literal `255 / pow(2, 8-depth)` printed with `%f` and read back, the texture fetch of an 8-bit channel as a float, the float multiply, and `floor`. The state is the channel value `k`, `depth`, the fetched `sample` and the resulting `level`. The actions are `Fetch` (the GPU, nondeterministic within a tolerance) and `RunQuantizeLine`. | Floats are exact rationals `m / 2^q` with a `MantissaBits`-bit mantissa, and multiplication rounds to nearest even. The binary expansion of k/255 repeats every 8 bits, so a 16-bit mantissa rounds exactly as float32's 24 bits do. `TolNum/TolDen` is how far, in ULP, the fetch may land from k/255. |
| `DepthEncoders` | one output pixel of `WriteZ8Encoder`, `WriteZ16Encoder`, `WriteZ16LEncoder` and `WriteZ24Encoder`: `fmt`, the sampled `depths` (24-bit integers), the RGBA8/Z24 cache line `cl`, and `ocol0`. There is one action per encoder. `Expand` is the digit extraction (`depth *= 16777215`, then `floor` and subtract), and `FracScaled` is `frac(depth * 2^s)` for Z8. | The arithmetic is exact. For every 24-bit D, float32 `(D/16777215) * 16777215` rounds back to D (`ScaledDepthExact` in `fetch_pass`), and the later steps scale by powers of two. The render target stores a channel v as `round(v * 255)`, and the b, g, r, a channels are bytes 0..3 of the pixel. |
| `DepthScale` | the first line of every depth expansion (TextureConversionShader.cpp:577-584 and the same lines of Z16L and Z24): `WriteSampleColor(p, "b", "depth")` then `depth *= 16777215.0f`. The state is the texture's 24-bit depth `stored`, the `fetched` float and the `scaled` product. The actions are `FetchDepth` (the GPU, within a tolerance of D/16777215) and `ScaleDepth`. | Float32 exactly: `[m, q]` is m/2^q with a 24-bit mantissa. The product m*16777215 is formed as (m-1)*2^24 + (2^24-m), so every quantity stays inside TLC's 32-bit integers, and is rounded to nearest even. |
| `FetchedLines` | the two shader lines that multiply a fetched float back to an integer, side by side: an initial state picks `Quantize` (the colour quantiser) or `DepthScale` (the depth expansion), and `Next` runs that line while the other stays `UNCHANGED`. | It adds no behaviour; it lets one pass run and one violation run ask the same question (is the product exactly the integer the code assumes?) of both lines under one fetch tolerance. |
| `ColorEncoders` | one output pixel of every colour encoder in the switch (I4, I8, IA4, IA8, RGB565, RGB5A3, RGBA8, C4, C8, CC4, CC8 with their channel selectors): `fmt`, the sampled `texels` (records r, g, b, a and y), `cl`, and `ocol0`. `RunEncoder` is the shared shape, and `RunI8` … `RunCC8` are the actions. `GXPixel` is the reference: the GX texel bytes of each format. | `WriteToBitDepth(d)` is taken as exact truncation `c >> (8-d)`; `Quantize` checks when that holds. `y` stands for the intensity that `WriteColorToIntensity` computes; its coefficients are not modelled. RG8 and GB8 are dispatched, but their GX byte order is stated nowhere in the sources or the spec, so the reference leaves them out. |
| `PixelEncoders` | the composition: `GenerateEncodingShader` sends each format to a colour or a depth encoder, both writing the same `ocol0`. `Init` and `Next` are the disjunction of `ColorEncoders` and `DepthEncoders` (instanced) over disjoint format sets. | The MC module gives three edge texels, all 16 colour formats, all five depth formats that expand digits, and eight edge depths. |

The MC modules `MC_ShaderUid`, `MC_UidChecker`, `MC_Generation`, `MC_EncodingShader`,
`MC_PixelEncoders` and `MC_FetchedLines` give the constants their values. `DepthEncoders` takes its own directly from its
cfgs.

## 3. Runs

| Run | Cfg | Expect | What it shows |
|---|---|---|---|
| `shaderuid_pass` | `MC_ShaderUid_pass.cfg` | pass | The uid objects go through every interleaving of clear, write, hash and copy. `TypeOK` holds: the bytes stay within `sizeof(uid_data)` (its mutant is a `memset` one byte too far), and `HASH` is a hash or 0. |
| `shaderuid_stale_hash` | `MC_ShaderUid_violation.cfg` | violation | `HashConsistentWithEq` fails. The trace hashes a uid, clears it, writes fields equal to another uid's, and the hash stays the old one. |
| `uidchecker_pass` | `MC_Generation_pass.cfg` | pass | Generations write programs of one to three characters into the one reused storage and submit them with uids A and A' (equal up to the excluded leading byte) or B, interleaved with invalidations. `IndexMatchesMap` and `DumpOldIsRealShader` hold. `SubmittedTextIsGenerated` holds: the text the checker stores or compares is the program just written, even when a shorter program is written over a longer one. `TextBufferRefined` holds. |
| `uidchecker_repeat_dump` | `MC_UidChecker_repeat.cfg` | violation | `NoDumpOnRepeat` fails. The sequence (A, c2), (A, c1), (A, c1) writes two dumps, because the map keeps c2. |
| `uidchecker_dump_bounds` | `MC_UidChecker_dumpbounds.cfg` | violation | `DumpReadsInBounds` fails on the first mismatch: for a 4-byte uid, the loop reads words 0..3. |
| `encoding_pass` | `MC_EncodingShader_pass.cfg` | pass | Any sequence of requests over all 23 codes and one unknown code, under three thread locales. All of `SampleOffsetsMatchSwizzler`, `IntensityDeclaredBeforeUse` and `SwizzlerEncodesGXLayout` (for every pixel of a 2x2-block texture) hold. |
| `encoding_unknown_format` | `MC_EncodingShader_unknown.cfg` | violation | `ReturnedTextMatchesRequest` fails: the unknown code returns `text[]` as it stands. |
| `fetch_pass` | `MC_FetchedLines_pass.cfg` | pass | With a correctly rounded fetch (1/2 ULP): for every 8-bit channel value at the depths 3 to 6 the encoders use, `QuantizeTruncates` holds (the generated line gives exactly `k >> (8-depth)`); and for 8230 edge depths, `ScaledDepthExact` holds (`depth *= 16777215.0f` gives back exactly the stored 24-bit integer, which `DepthEncoders` takes as given). |
| `fetch_d3d` | `MC_FetchedLines_d3d.cfg` | violation | With the 0.6 ULP that Direct3D 10+ allows for UNORM-to-float, `FetchedLinesExact` fails: k = 4 at depth 6 gives level 0, not 1. The product lands just under the integer, and `floor` drops it. The depth line fails the same way: D = 1, 2, 256 and 65536 scale to just under the integer (D = 2 to 1.99999988). For D = 1 and 2 only the unfloored low digit is short, and it still stores the right byte; for D = 256 and 65536 `floor` drops a digit and 255.99... is left in the byte below. |
| `pixel_pass` | `MC_PixelEncoders_pass.cfg` | pass | Every colour case of the switch and the depth formats Z8M, Z8L, Z16, Z16L and Z24X8 (`GX_TF_Z8` and `GX_CTF_Z4` go to the C encoders and are left out), with every choice of sampled texels or depths, writes bytes (`TypeOK`). Every colour encoder with a known layout writes the GX bytes of its texels (`GXBytesExact`): nibble order, big-endian RGB565 and RGB5A3 words with the alpha mode switching between 223 and 224, and RGBA8's A,R / G,B cache-line halves. Z16, Z16L and Z24X8 write the base-256 digits of their depths in each format's byte order (`ExpandedBytesExact`). |
| `depth_z8_digits` | `MC_DepthEncoders_z8.cfg` | violation | `Z8BytesExact` fails: Z8M and Z8L write `round(frac(depth * 2^s) * 255)`, a rescaled remainder rather than the byte digit. Depth 0xFF gives Z8M byte 1, not 0; depth 0xFF00 gives Z8M byte 254, not 255. |
| `depth_z24_comments` | `MC_DepthEncoders_z24comments.cfg` | violation | `Z24BranchesAsCommented` fails: the branch commented "upper 16" writes digits M and L (the lower 16 bits), and the branch commented "lower 8" writes H (the upper 8). The bytes themselves are right (`ExpandedBytesExact` holds); the comments are swapped. |

`uidchecker_pass` also checks `VariantCacheRefined`: every behaviour of `UidChecker` (the vector
searched with `==`, the map ordered by `<`, dumps, `Invalidate`) is a behaviour of the abstract
`VariantCache` under the mapping `cache <- CachedCode`, `reports <- Reports`. So the vector/map
pair acts as one fingerprint-keyed cache, even for uids A and A' that differ only in the excluded
byte and are therefore different map keys under a whole-record comparison.

Every property of a passing run has a mutant in `PROJECT.json`, and TLC finds each mutant violated.
Examples are `WriteEncoderEnd` without one of its two resets, `<` comparing the whole record, and
`Invalidate` clearing only the vector.

### Bounds, and why they are enough

- **ShaderUid.** Two objects, three bytes (one excluded leading byte and two identifying bytes),
  and byte values {0,1}. This is enough for a stale hash, for equal uids with different headers,
  and for copies of stale hashes.
- **UidChecker and Generation.**
  - `DataSize` is 4, one u32, as in the real packed `uid_data`. A and A' exercise the excluded
    byte.
  - In the pass run, the texts are the C strings the storage can hold: 1 to 3 characters in 4
    bytes. A program is one or more writes of one or two characters, so a program can be shorter
    than the one before it in the storage, and two programs of different lengths give a
    mismatch and a repeat. In the violation runs, two model-value texts suffice.
  - `MaxFailures = 3` allows dumps both before and after an `Invalidate`.
- **EncodingShader.**
  - Every code of the switch is included, plus one unknown code.
  - There are three locales: "C", a '.' host locale and a ',' host locale.
  - `Capacity = 23` tokens makes the longest shader, I4, overflow exactly at the boundary the
    canary guards. The other shaders fit.
  - The swizzle check covers every pixel and sample of a 2x2-block texture. Two blocks in each
    direction are enough to cross a block row, a block column and, for 32-bit formats, both cache
    lines.
  - `GetEncodedSampleCount` and the block dimensions are the collaborators' tables, given in
    `MC_EncodingShader`.
- **Quantize.**
  - Every channel value 0..255 is checked, at depths {3, 4, 5, 6}: the depths `WriteToBitDepth`
    is called with.
  - The mantissa is 16 bits. k/255 has a binary expansion of period 8, and every literal is
    dyadic (an `ASSUME` checks this). So the rounding error of the fetch and of the product falls
    at the same place in the period as with float32's 24 bits.
  - The tolerance is 1/2 ULP (an exact fetch) in the pass run and 3/5 ULP (the D3D bound) in the
    violation run.
- **DepthScale.**
  - The depths are all of 0..4095 and 16773120..16777215 (both ends of the range, where the
    fetched float has the fewest and the most significant bits), every 2^i, 2^i - 1 and 2^i + 1
    (each change of exponent of D/16777215), and three mid-range patterns: 8230 values. The
    model is float32 at full width, so no scaling argument is needed. The same question over all
    2^24 depths is beyond a 5-minute run; computed outside TLC, it has the same answer.
  - The tolerance is the same as for `Quantize` in each run.
- **PixelEncoders.**
  - There are three texels. Their channels have distinct high and low nibbles, so any swapped
    nibble or byte shows. Their alphas are 223, 224 and 127, on both sides of RGB5A3's threshold.
    Green 52 has low 6-bit bits set, so RGB565's green split is exercised.
  - I4 and C4 take 8 samples per pixel, so 3^8 texel choices are enumerated for each of them.
  - There are eight depths: 0, 0xFF, 0xFF00, 0x123456, 0x7FFFFF, 0x800000, 0x808080 and 0xFFFFFF.
    Together their digits H, M and L take the values 0, 0x7F, 0x80 and 0xFF, which are where the
    floor-and-subtract expansion and the 0.5 rounding of the store can go wrong.

### Fairness

No liveness property is stated, and no fairness is assumed. Every operation is a synchronous
call that runs to completion on the caller's thread (spec 5): there is no waiting, retry or
message that could be postponed forever. Each call is therefore one atomic action, and
"eventually" would only restate that a call returns. The encoder modules describe one shader
invocation, which writes its pixel in one step and stops; their cfgs say `CHECK_DEADLOCK FALSE`
for that reason.

## 4. Findings

1. **`ClearUID` keeps `HASH`** (ShaderGenCommon.h:77). A reused uid keeps the hash of its earlier
   contents, so uids that compare equal hash differently. The spec says `clear()` invalidates the
   hash.
2. **The map keeps the old text after a mismatch** (ShaderGenCommon.h:207). Every resubmission of
   the new text dumps again. The spec says the cache holds the most recent text, and that an
   identical repeat is silent.
3. **The dump loop reads out of bounds** (ShaderGenCommon.h:222). It reads `sizeof(uid_data)` u32
   words, which is 4x the record's size.
4. **An unknown format returns stale text** (TextureConversionShader.cpp:770). It returns the
   previous shader, or "". The spec says there is no fallback.
5. **The quantiser relies on a correctly rounded fetch** (TextureConversionShader.cpp:165). The
   line `floor(src * 63.75f)` is exact only if sampling returns k/255 correctly rounded. Direct3D
   10+ allows 0.6 ULP, and then k = 4 at depth 6 (also k = 32, 64 and 128 at depth 3) quantises
   one level low. The depth line `depth *= 16777215.0f` (line 584) has the same dependence: at
   0.6 ULP, D = 256 and 65536 scale to just under the integer, and the floor-and-subtract
   expansion then writes a wrong digit (D = 1 and 2 also come back short, at 0.99999994 and
   1.99999988, but only in the unfloored low digit, which still stores the right byte). Spec 4.4 requires the truncation and the digit extraction to be reproduced exactly.
6. **Z8M and Z8L do not write byte digits** (TextureConversionShader.cpp:556). `frac(depth * 256)`
   is the remainder of the depth scaled to [0,1) and then written with `* 255` rounding, not the
   digit `(D >> 8) & 255`. Depth 0xFF gives Z8M 1 instead of 0. Spec 4.4 describes base-256 digit
   extraction.
7. **The Z24X8 branch comments are swapped** (TextureConversionShader.cpp:671). The cl > 0.5 branch
   commented "upper 16" writes the lower 16 bits, and the other branch writes the upper 8. The
   output bytes are right; a reader who trusts the comments would not be.

## 5. Not modelled, and why

- **Concurrency.** There is none in the code, and the spec states that callers serialise.
- **`newlocale` failure** (only on ENOMEM) and the ANDROID build without the locale switch. In
  the build modelled, `uselocale` installs "C" for the whole call, so '.' in every literal holds
  by construction and no property is stated for it; Android's C library prints '.' in any
  locale, so the ANDROID build is not exposed either. The thread locales stay in the model for
  the switch and restore that `GenerateEncodingShader` performs.
- **Writes past `text[]`.** This is undefined behaviour that may overwrite the statics that follow
  it. The model keeps the canary test and its `PanicAlert` as the code has them; a property that
  an overflow is reported would only restate that test, so none is stated.
- **Float rounding after `depth *= 16777215.0f`.** `DepthScale` models the fetch and the product
  in float32. `DepthEncoders` starts from the product, which `ScaledDepthExact` shows is the
  integer D, and does the later floor-and-subtract steps in exact arithmetic: they scale by
  powers of two and subtract integers below 2^24, so float32 computes them exactly. `Z8` rescales
  the fetched float itself (`frac(depth * 2^s)`); its 47-bit intermediate is computed exactly
  from D, not from the fetched float.
- **The intensity coefficients** of `WriteColorToIntensity`. `y` stands for the computed
  intensity. The GX intensity formula is not stated in the sources, so there is nothing to check
  the weights against.
- **The GX layout of RG8 and GB8.** Their encoders are modelled, but the reference omits them
  because no source states their byte order.
- **Z8 and Z4 depth formats sent to the C encoders** (`GX_TF_Z8`, `GX_CTF_Z4`). They sample the
  depth texture's "b" channel, and which depth bits that channel holds is decided by the texture
  format outside the sources.
- **`WriteRGBA4443Encoder`.** Nothing calls it (it also uses the RGB5A3 swizzler).
- **`SetShaderParameters`** (TextureConversionShader.cpp:784-795). It stores its eight arguments
  in eight constant slots. Its callers, which choose the arguments, and the register number it
  writes (`C_COLORMATRIX`, against the swizzler's `C_COLORS`) are defined outside the sources.
  The shader side of those slots is modelled in `Swizzle`: `I_COLORS[1].x` is the row length, and
  the affine map through `[0].xy`, `[1].zw` and `[0].zw` applies to every sample alike. A property
  of the function alone would restate its assignments. The comment above `WriteSwizzler` (lines
  41-42) describes a different layout than the one stored; lines 37-38 match it.
- **`WriteRegister`, `WriteLocation`, `DeclareUniform` and `ShaderGeneratorInterface`**
  (ShaderGenCommon.h). Nothing in the sources calls the first three, and they emit text only
  (the OpenGL case writes less of it). The interface has no state.
- **A `ShaderCode` read before its first `Write`.** `SetBuffer` writes no NUL, so such a read
  returns the previous program from the storage. The generator in `Generation` always writes
  first, as every encoder does.
- **The layout of the dump file's text** (labels and hex formatting). The label of the last line
  of every dump is one too high (`last_value` is `GetUidDataSize()`, not the index of the last
  word printed); this is listed as a hazard, and no run checks the file's wording.

## 6. Plan

Order, with the most important behaviour first:

1. Done:
   - first sitting: `ShaderUidOps`, `ShaderUid`, `UidChecker`, `Swizzle` and `EncodingShader`;
   - second sitting: the abstract `VariantCache` and its refinement by `UidChecker`; `Quantize`
     (findings 5); `DepthEncoders` (findings 6 and 7); `ColorEncoders`; and their composition
     `PixelEncoders`;
   - third sitting: `DepthScale` (the float32 depth product) and `FetchedLines`, which joins it
     with `Quantize` in one pass run and one violation run (finding 5 extended to the depth line);
   - fourth sitting: `ShaderCode` and its abstract `TextBuffer`, and `Generation`, which feeds
     `UidChecker` the C string of a reused storage in place of model-value texts.
2. Next:
   - A composition in which a generator fills a `ShaderUid` and submits it to `UidChecker`. It
     adds little while `UidChecker` never reads `HASH`, so it waits for a caller that uses
     `ShaderUidHasher`.
   - `EncodingShader` and `PixelEncoders` joined: the samples an encoder emits (offsets from
     `Swizzle`) feeding the texels `ColorEncoders` reads.
   - The dump's line labels (`last_value`) against the words printed.
