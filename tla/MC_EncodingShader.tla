------------------------- MODULE MC_EncodingShader -------------------------
EXTENDS EncodingShader, TLC

\* TextureConversionShader::GetEncodedSampleCount, texels per output pixel
MC_EncodedSampleCount ==
    [f \in {"GX_TF_I4", "GX_CTF_R4", "GX_CTF_Z4"} |-> 8] @@
    [f \in {"GX_TF_I8", "GX_TF_IA4", "GX_CTF_RA4", "GX_CTF_A8", "GX_CTF_R8",
            "GX_CTF_G8", "GX_CTF_B8", "GX_TF_Z8", "GX_CTF_Z8M", "GX_CTF_Z8L"} |-> 4] @@
    [f \in {"GX_TF_IA8", "GX_TF_RGB565", "GX_TF_RGB5A3", "GX_CTF_RA8", "GX_CTF_RG8",
            "GX_CTF_GB8", "GX_TF_Z16", "GX_CTF_Z16L"} |-> 2] @@
    [f \in {"GX_TF_RGBA8", "GX_TF_Z24X8"} |-> 1]

\* TexDecoder_GetBlockWidthInTexels / ...HeightInTexels
MC_BlockWidth ==
    [f \in DOMAIN MC_EncodedSampleCount |->
        IF f \in {"GX_TF_IA8", "GX_TF_RGB565", "GX_TF_RGB5A3", "GX_TF_RGBA8", "GX_CTF_RA8",
                  "GX_CTF_RG8", "GX_CTF_GB8", "GX_TF_Z16", "GX_TF_Z24X8", "GX_CTF_Z16L"}
        THEN 4 ELSE 8]
MC_BlockHeight ==
    [f \in DOMAIN MC_EncodedSampleCount |->
        IF f \in {"GX_TF_I4", "GX_CTF_R4", "GX_CTF_Z4"} THEN 8 ELSE 4]

\* every code of the switch, and one it does not handle
MC_Formats == DOMAIN Encoder \cup {"unknown"}

\* "C", a host locale that prints '.', one that prints ','
MC_Locales == {"C", "en_US", "de_DE"}
MC_DecimalPoint == [l \in MC_Locales |-> IF l = "de_DE" THEN "," ELSE "."]

\* the I4 shader, the longest, is 23 tokens: it just fails to fit
MC_Capacity == 23
=============================================================================
