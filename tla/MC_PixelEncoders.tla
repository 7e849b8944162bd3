-------------------------- MODULE MC_PixelEncoders --------------------------
EXTENDS PixelEncoders

\* Three texels with distinct nibbles in every channel; alphas 223 and 224
\* sit on either side of RGB5A3's 3-bit alpha limit.
MC_Texels ==
    { [r |-> 18,  g |-> 52, b |-> 86,  a |-> 223, y |-> 154],
      [r |-> 240, g |-> 15, b |-> 165, a |-> 224, y |-> 60],
      [r |-> 255, g |-> 0,  b |-> 129, a |-> 127, y |-> 255] }

\* every colour case of the switch
MC_ColorFormats ==
    {"GX_TF_I4", "GX_TF_I8", "GX_TF_IA4", "GX_TF_IA8", "GX_TF_RGB565",
     "GX_TF_RGB5A3", "GX_TF_RGBA8", "GX_CTF_R4", "GX_CTF_RA4", "GX_CTF_RA8",
     "GX_CTF_A8", "GX_CTF_R8", "GX_CTF_G8", "GX_CTF_B8", "GX_CTF_RG8", "GX_CTF_GB8"}

\* Depths whose digits H, M, L take the values 0, 0x7F..0x80 and 0xFF:
\* 0, 0xFF, 0xFF00, 0x123456, 0x7FFFFF, 0x800000, 0x808080, 0xFFFFFF.
MC_DepthValues == {0, 255, 65280, 1193046, 8388607, 8388608, 8421504, 16777215}
=============================================================================
