------------------------------ MODULE Swizzle ------------------------------
(***************************************************************************)
(* The address arithmetic the swizzler prologues emit (WriteSwizzler,      *)
(* Write32BitSwizzler) and the per-sample offset of WriteSampleColor, as   *)
(* operators on texel coordinates, and the GX tiled memory layout they     *)
(* must reproduce, as a reference.                                         *)
(*                                                                         *)
(* Coordinates are in source texels: the shader's final                    *)
(* sampleUv * I_COLORS[0].xy + I_COLORS[1].zw, / I_COLORS[0].zw maps them  *)
(* to normalised coordinates by one affine map for every sample, and a     *)
(* sample's offset i * (I_COLORS[0].x / I_COLORS[0].z) is i texels under   *)
(* that map.  All values are small integers, exact in float.  W is         *)
(* I_COLORS[1].x, the source width in texels.                              *)
(***************************************************************************)
EXTENDS Naturals

\* Mutant of SwizzleTexel: xoff = xel - (xb * blkW), the block width where
\* line 69 has the block height.
SwizzleTexelXoffW(x, y, i, blkW, blkH, samples, W) ==
    LET x1 == x * samples
        yb == (y \div blkH) * blkH
        xp == x1 + (y - yb) * W
        xel == xp \div blkW
        xb == xel \div blkH
    IN <<(x1 - (x1 \div blkW) * blkW) + xb * blkW + i, yb + (xel - xb * blkW)>>

\* WriteSwizzler's prologue and sample i of WriteSampleColor, for output
\* pixel (x, y) = floor(uv0): the texel sampled.
SwizzleTexel(x, y, i, blkW, blkH, samples, W) ==
    LET x1 == x * samples                 \* uv1.x = uv1.x * samples
        xib == x1 - (x1 \div blkW) * blkW  \* xl = floor(uv1.x / blkW); xib = uv1.x - xl * blkW
        yb == (y \div blkH) * blkH         \* yl = floor(uv1.y / blkH); yb = yl * blkH
        xp == x1 + (y - yb) * W            \* xp = uv1.x + yoff * I_COLORS[1].x
        xel == xp \div blkW
        xb == xel \div blkH
        xoff == xel - xb * blkH
    IN <<xib + xb * blkW + i, yb + xoff>>

\* Write32BitSwizzler's prologue, sample i, and the encoder's cache-line
\* selector cl1 = xb - halfxb * 2 (RGBA8: 0 writes A,R; 1 writes G,B).
Swizzle32Texel(x, y, i, blkW, blkH, W) ==
    LET yb == (y \div blkH) * blkH
        xp == x + (y - yb) * W
        xel == xp \div 2
        xb == xel \div blkH
        xoff == xel - xb * blkH
        x2 == x * 2
        xib == x2 - (x2 \div blkW) * blkW
        halfxb == xb \div 2
    IN <<<<xib + halfxb * blkW + i, yb + xoff>>, xb - halfxb * 2>>

(***************************************************************************)
(* Reference: the GX layout.  Texels are stored block by block, blocks in  *)
(* row-major order across the texture, texels row-major inside a block.    *)
(* The encoded stream is the render target read row by row.                *)
(***************************************************************************)
BlockTexel(n, t, blkW, blkH, W) ==
    LET bx == n % (W \div blkW)
        by == n \div (W \div blkW)
    IN <<bx * blkW + (t % blkW), by * blkH + (t \div blkW)>>

\* The texel at stream position k (texels of one format of `samples` texels
\* per 32-bit output pixel).
GXTexel(k, blkW, blkH, W) ==
    BlockTexel(k \div (blkW * blkH), k % (blkW * blkH), blkW, blkH, W)

\* 32-bit formats: a block is two 32-byte cache lines, first the A,R halves
\* of its texels, then the G,B halves; output pixel L carries texels 2j, 2j+1
\* of one line.  Result: <<texel, line>>.
GX32Texel(L, i, blkW, blkH, W) ==
    LET per == (blkW * blkH) \div 2
        within == L % (blkW * blkH)
    IN <<BlockTexel(L \div (blkW * blkH), 2 * (within % per) + i, blkW, blkH, W),
         within \div per>>
=============================================================================
