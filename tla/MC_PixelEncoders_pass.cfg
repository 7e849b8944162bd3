CONSTANTS
    Texels <- MC_Texels
    ColorFormats <- MC_ColorFormats
    DepthFormats = {"GX_CTF_Z8M", "GX_CTF_Z8L", "GX_TF_Z16", "GX_CTF_Z16L", "GX_TF_Z24X8"}
    DepthValues <- MC_DepthValues
SPECIFICATION Spec
\* One pixel: the shader runs once and stops.
CHECK_DEADLOCK FALSE
INVARIANT TypeOK
INVARIANT GXBytesExact
INVARIANT ExpandedBytesExact
