\* Depths whose digits H, M, L take the values 0, 0x7F..0x80 and 0xFF:
\* 0, 0xFF, 0xFF00, 0x123456, 0x7FFFFF, 0x800000, 0x808080, 0xFFFFFF.
CONSTANTS
    DepthFormats = {"GX_CTF_Z8M", "GX_CTF_Z8L"}
    DepthValues = {0, 255, 65280, 1193046, 8388607, 8388608, 8421504, 16777215}
SPECIFICATION Spec
\* One pixel: the shader runs once and stops.
CHECK_DEADLOCK FALSE
INVARIANT Z8BytesExact
