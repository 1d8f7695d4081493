--------------------------- MODULE HeatshrinkBits ---------------------------
(***************************************************************************)
(* What both sides of the compression in lib/heatshrink share: bytes as    *)
(* bits, first bit highest, the limits of heatshrink_common.h and the      *)
(* markers of the two kinds of token.                                      *)
(***************************************************************************)
EXTENDS Integers, Sequences, SequencesExt

CONSTANT NULL

MinWindowBits == 4
MaxWindowBits == 15
MinLookaheadBits == 2
LiteralMarker == <<1>>
BackrefMarker == <<0>>

Bits(value, count) == [i \in 1..count |-> (value \div 2^(count - i)) % 2]
Value(bits) == FoldLeft(LAMBDA value, bit: 2 * value + bit, 0, bits)

\* The sizes both heatshrink_encoder_alloc and heatshrink_decoder_alloc take.
GoodSizes(w, l) ==
    w \in MinWindowBits..MaxWindowBits /\ l \in MinLookaheadBits..w

First(n, s) == SubSeq(s, 1, Min({n, Len(s)}))
From(n, s) == SubSeq(s, n, Len(s))
=============================================================================
