\* MantissaBits 16 rounds k/255 as float32 does (see Quantize); a correctly rounded fetch (1/2 ULP).
CONSTANTS
    MantissaBits = 16
    TolNum = 1
    TolDen = 2
    Depths = {3, 4, 5, 6}
    DepthValues <- MC_DepthValues
SPECIFICATION Spec
\* One pixel: the line runs once and stops.
CHECK_DEADLOCK FALSE
INVARIANT TypeOK
INVARIANT QuantizeTruncates
INVARIANT ScaledDepthExact
