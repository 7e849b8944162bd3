CONSTANTS
  Formats <- MC_Formats
  EncodedSampleCount <- MC_EncodedSampleCount
  BlockWidth <- MC_BlockWidth
  BlockHeight <- MC_BlockHeight
  Capacity <- MC_Capacity
  Locales <- MC_Locales
  DecimalPoint <- MC_DecimalPoint
SPECIFICATION Spec
INVARIANT TypeOK
INVARIANT SampleOffsetsMatchSwizzler
INVARIANT IntensityDeclaredBeforeUse
INVARIANT SwizzlerEncodesGXLayout
