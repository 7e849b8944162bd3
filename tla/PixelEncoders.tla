---------------------------- MODULE PixelEncoders ----------------------------
(***************************************************************************)
(* GenerateEncodingShader hands every copy format to one encoder: the      *)
(* colour formats to the encoders of ColorEncoders, the depth formats to   *)
(* those of DepthEncoders.  This module composes the two over one shared   *)
(* output pixel: a shader is generated for one format, samples either      *)
(* colour texels or depths, and writes ocol0 once.                         *)
(***************************************************************************)
EXTENDS Integers, Sequences, TLC

CONSTANTS ColorFormats, Texels, DepthFormats, DepthValues

ASSUME ColorFormats \cap DepthFormats = {}

VARIABLES
    fmt,     \* the format the shader was generated for
    texels,  \* colour formats: the texels sampled, <<>> otherwise
    depths,  \* depth formats: the depths sampled, <<>> otherwise
    cl,      \* RGBA8 / Z24X8: the cache line of this pixel
    ocol0    \* the pixel written

vars == <<fmt, texels, depths, cl, ocol0>>

Color == INSTANCE ColorEncoders
Depth == INSTANCE DepthEncoders

\* GenerateEncodingShader's switch: a colour case or a depth case
Init ==
    \/ Color!Init /\ depths = <<>>
    \/ Depth!Init /\ texels = <<>>

Next ==
    \/ fmt \in ColorFormats /\ Color!Next /\ UNCHANGED depths
    \/ fmt \in DepthFormats /\ Depth!Next /\ UNCHANGED texels

Spec == Init /\ [][Next]_vars
-----------------------------------------------------------------------------
\* Whatever encoder the switch picks writes four bytes.
TypeOK ==
    /\ fmt \in ColorFormats => Color!TypeOK
    /\ fmt \in DepthFormats => Depth!TypeOK

\* The colour encoders write the GX bytes of their texels (ColorEncoders).
GXBytesExact == fmt \in ColorFormats => Color!GXBytesExact

\* The digit-expanding depth encoders write the GX bytes of their depths
\* (DepthEncoders).
ExpandedBytesExact == fmt \in DepthFormats => Depth!ExpandedBytesExact
=============================================================================
