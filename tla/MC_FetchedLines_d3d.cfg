\* MantissaBits 16 rounds k/255 as float32 does (see Quantize); the 0.6 ULP Direct3D 10+ allows for UNORM-to-float.
CONSTANTS
    MantissaBits = 16
    TolNum = 3
    TolDen = 5
    Depths = {3, 4, 5, 6}
    DepthValues <- MC_DepthValues
SPECIFICATION Spec
\* One pixel: the line runs once and stops.
CHECK_DEADLOCK FALSE
INVARIANT FetchedLinesExact
