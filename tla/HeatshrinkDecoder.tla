------------------------- MODULE HeatshrinkDecoder --------------------------
(***************************************************************************)
(* heatshrink_decoder.c, in the manner of HeatshrinkEncoder.  rest holds   *)
(* the bits of the current byte that are still to come, window the last    *)
(* bytes that came out; the bytes before the first one are zero.           *)
(***************************************************************************)
EXTENDS HeatshrinkBits

DecoderAlloc(buffer_size, w, l) ==
    IF ~GoodSizes(w, l) \/ buffer_size = 0 THEN NULL
    ELSE [w |-> w, l |-> l, buffer_size |-> buffer_size, state |-> "EMPTY",
          input |-> <<>>, input_index |-> 0, rest |-> <<>>, output_index |-> 0,
          output_count |-> 0, window |-> <<>>, out |-> <<>>]

(***************************************************************************)
(* heatshrink_decoder_sink: the room that was read from comes back only    *)
(* when all of the input has been.                                         *)
(***************************************************************************)
DecoderSink(hsd, data) ==
    LET taken == Min({hsd.buffer_size - Len(hsd.input), Len(data)})
    IN IF Len(hsd.input) = hsd.buffer_size THEN [res |-> "FULL", hsd |-> hsd, taken |-> 0]
       ELSE [res |-> "OK", taken |-> taken,
             hsd |-> [hsd EXCEPT !.input = @ \o First(taken, data),
                                 !.input_index = IF hsd.state = "EMPTY" THEN 0 ELSE @,
                                 !.state = IF @ = "EMPTY" THEN "INPUT_AVAILABLE" ELSE @]]

(***************************************************************************)
(* get_bits.  Without count bits at hand nothing is taken.                 *)
(***************************************************************************)
NoBits(hsd, count) == hsd.input = <<>> /\ Len(hsd.rest) < count

PullByte(hsd) ==
    LET all == hsd.rest \o Bits(hsd.input[hsd.input_index + 1], 8)
    IN IF hsd.input_index + 1 = Len(hsd.input)
       THEN [hsd EXCEPT !.rest = all, !.input = <<>>, !.input_index = 0]
       ELSE [hsd EXCEPT !.rest = all, !.input_index = @ + 1]

WithBits(hsd, count) == IF Len(hsd.rest) < count THEN PullByte(hsd) ELSE hsd
GotBits(hsd, count) == Value(First(count, WithBits(hsd, count).rest))
AfterBits(hsd, count) == LET h == WithBits(hsd, count)
                         IN [h EXCEPT !.rest = From(count + 1, @)]

\* One byte into the output and into the window.
Emit(hsd, c) ==
    [hsd EXCEPT !.out = Append(@, c),
                !.window = From(Max({1, Len(@) + 2 - 2^hsd.w}), Append(@, c))]

\* st_input_available.
InputAvailable(hsd) ==
    IF NoBits(hsd, 1) \/ GotBits(hsd, 1) = 1
    THEN [(IF NoBits(hsd, 1) THEN hsd ELSE AfterBits(hsd, 1)) EXCEPT !.state = "YIELD_LITERAL"]
    ELSE IF hsd.w > 8
    THEN [AfterBits(hsd, 1) EXCEPT !.state = "BACKREF_INDEX_MSB"]
    ELSE [AfterBits(hsd, 1) EXCEPT !.state = "BACKREF_INDEX_LSB", !.output_index = 0]

\* st_yield_literal.
DecoderLiteral(hsd, size) ==
    IF Len(hsd.out) < size /\ ~NoBits(hsd, 8)
    THEN [Emit(AfterBits(hsd, 8), GotBits(hsd, 8)) EXCEPT !.state = "CHECK_FOR_MORE_INPUT"]
    ELSE hsd

\* st_backref_index_msb and st_backref_count_msb.
TakeMsb(hsd, count, field, next) ==
    IF NoBits(hsd, count) THEN hsd
    ELSE [AfterBits(hsd, count) EXCEPT ![field] = 256 * GotBits(hsd, count), !.state = next]

(***************************************************************************)
(* st_backref_index_lsb and st_backref_count_lsb: the number in the stream *)
(* is one less than the offset or the count it stands for.                 *)
(***************************************************************************)
IndexLsb(hsd) ==
    LET count == Min({hsd.w, 8})
    IN IF NoBits(hsd, count) THEN hsd
       ELSE [AfterBits(hsd, count) EXCEPT
               !.output_index = @ + GotBits(hsd, count) + 1, !.output_count = 0,
               !.state = IF hsd.l > 8 THEN "BACKREF_COUNT_MSB" ELSE "BACKREF_COUNT_LSB"]

CountLsb(hsd) ==
    LET count == Min({hsd.l, 8})
    IN IF NoBits(hsd, count) THEN hsd
       ELSE [AfterBits(hsd, count) EXCEPT
               !.output_count = @ + GotBits(hsd, count) + 1, !.state = "YIELD_BACKREF"]

(***************************************************************************)
(* st_yield_backref: as many of the repeated bytes as fit the output; the  *)
(* bytes it puts out are part of what it repeats.                          *)
(***************************************************************************)
BackAt(hsd, offset) == IF offset > Len(hsd.window) THEN 0
                       ELSE hsd.window[Len(hsd.window) + 1 - offset]

YieldBackref(hsd, size) ==
    LET count == Min({hsd.output_count, size - Len(hsd.out)})
        copied == FoldLeft(LAMBDA h, i: Emit(h, BackAt(h, hsd.output_index)), hsd,
                           [i \in 1..count |-> i])
    IN IF size = Len(hsd.out) THEN hsd
       ELSE [copied EXCEPT !.output_count = @ - count,
                           !.state = IF hsd.output_count = count
                                     THEN "CHECK_FOR_MORE_INPUT" ELSE @]

\* st_check_for_input: bits left of the current byte do not count.
CheckForInput(hsd) ==
    [hsd EXCEPT !.state = IF hsd.input = <<>> THEN "EMPTY" ELSE "INPUT_AVAILABLE"]

DecoderStep(hsd, size) ==
    CASE hsd.state = "INPUT_AVAILABLE" -> InputAvailable(hsd)
      [] hsd.state = "YIELD_LITERAL" -> DecoderLiteral(hsd, size)
      [] hsd.state = "BACKREF_INDEX_MSB" ->
            TakeMsb(hsd, hsd.w - 8, "output_index", "BACKREF_INDEX_LSB")
      [] hsd.state = "BACKREF_INDEX_LSB" -> IndexLsb(hsd)
      [] hsd.state = "BACKREF_COUNT_MSB" ->
            TakeMsb(hsd, hsd.l - 8, "output_count", "BACKREF_COUNT_LSB")
      [] hsd.state = "BACKREF_COUNT_LSB" -> CountLsb(hsd)
      [] hsd.state = "YIELD_BACKREF" -> YieldBackref(hsd, size)
      [] hsd.state = "CHECK_FOR_MORE_INPUT" -> CheckForInput(hsd)

\* heatshrink_decoder_poll into a buffer of size bytes.
DecoderPolled(res, hsd) ==
    [res |-> res, hsd |-> [hsd EXCEPT !.out = <<>>], out |-> hsd.out]

RECURSIVE DecoderPoll(_, _)
DecoderPoll(hsd, size) ==
    IF hsd.state = "EMPTY" THEN DecoderPolled("EMPTY", hsd)
    ELSE LET next == DecoderStep(hsd, size)
         IN IF next.state # hsd.state THEN DecoderPoll(next, size)
            ELSE DecoderPolled(IF Len(next.out) = size THEN "MORE" ELSE "EMPTY", next)

\* heatshrink_decoder_finish: is there nothing more to come?  The padding of
\* the last byte can look like the start of a token.
DecoderFinished(hsd) ==
    \/ hsd.state = "EMPTY"
    \/ /\ hsd.state \in {"BACKREF_INDEX_MSB", "BACKREF_INDEX_LSB", "BACKREF_COUNT_MSB",
                         "BACKREF_COUNT_LSB", "YIELD_LITERAL"}
       /\ hsd.input = <<>>
=============================================================================
