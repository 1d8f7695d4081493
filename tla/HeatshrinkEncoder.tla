------------------------- MODULE HeatshrinkEncoder --------------------------
(***************************************************************************)
(* heatshrink_encoder.c: an encoder is a record, a call an operator from   *)
(* the record to the record it leaves.  Its buffer holds the backlog, one  *)
(* window long, and behind it the input; out is what the poll in progress  *)
(* has put out.                                                            *)
(***************************************************************************)
EXTENDS HeatshrinkBits

Window(hse) == 2^hse.w       \* get_input_buffer_size, get_input_offset
Lookahead(hse) == 2^hse.l    \* get_lookahead_size
InputSize(hse) == Len(hse.buffer) - Window(hse)
BreakEvenPoint == 3

EncoderAlloc(w, l) ==
    IF ~GoodSizes(w, l) THEN NULL
    ELSE [w |-> w, l |-> l, state |-> "NOT_FULL",
          buffer |-> <<>> \o [i \in 1..2^w |-> 0],
          match_scan_index |-> 0, match_length |-> 0, match_pos |-> 0,
          flags |-> {}, outgoing_bits |-> <<>>, current |-> <<>>, out |-> <<>>]

\* heatshrink_encoder_sink: the encoder and how many bytes it took.
EncoderSink(hse, data) ==
    IF "FINISHING" \in hse.flags \/ hse.state # "NOT_FULL"
    THEN [res |-> "MISUSE", hse |-> hse, taken |-> 0]
    ELSE LET rem == Window(hse) - InputSize(hse)
             taken == Min({rem, Len(data)})
         IN [res |-> "OK", taken |-> taken,
             hse |-> [hse EXCEPT !.buffer = @ \o First(taken, data),
                                 !.state = IF taken = rem THEN "FILLED" ELSE @]]

\* heatshrink_encoder_finish.
\* (Mutant: an encoder that waits for input goes on waiting.)
EncoderFinishLater(hse) == [hse EXCEPT !.flags = @ \cup {"FINISHING"}]

EncoderFinish(hse) ==
    [hse EXCEPT !.flags = @ \cup {"FINISHING"},
                !.state = IF @ = "NOT_FULL" THEN "FILLED" ELSE @]

(***************************************************************************)
(* find_longest_match: of the places between start and end where the       *)
(* longest run of the coming bytes was seen, the latest; the index of      *)
(* do_indexing only makes the search quicker.                              *)
(***************************************************************************)
MatchLength(buf, pos, end, maxlen) ==
    Min({maxlen} \cup {k \in 0..(maxlen - 1) : buf[pos + k + 1] # buf[end + k + 1]})

FindLongestMatch(buf, start, end, maxlen) ==
    LET best == Max({0} \cup {MatchLength(buf, pos, end, maxlen) : pos \in start..(end - 1)})
    IN IF best < BreakEvenPoint THEN NULL
       ELSE [length |-> best,
             pos |-> end - Max({pos \in start..(end - 1) :
                                   MatchLength(buf, pos, end, maxlen) = best})]

\* Where the search starts: what lies before is not there yet.
SearchStart(hse, end) ==
    IF "BACKLOG_FILLED" \in hse.flags THEN end - Window(hse) + 1
    ELSE IF "BACKLOG_PARTIAL" \in hse.flags
    THEN Max({end - Window(hse) + 1, Lookahead(hse)})
    ELSE Window(hse)

\* st_step_search.
StepSearch(hse) ==
    LET msi == hse.match_scan_index
        left == InputSize(hse) - msi
        end == Window(hse) + msi
        match == FindLongestMatch(hse.buffer, SearchStart(hse, end), end,
                                  Min({Lookahead(hse), left}))
    IN IF left <= (IF "FINISHING" \in hse.flags THEN 0 ELSE Lookahead(hse))
       THEN [hse EXCEPT !.state = "SAVE_BACKLOG"]
       ELSE IF match = NULL
       THEN [hse EXCEPT !.match_scan_index = @ + 1, !.match_length = 0,
                        !.flags = @ \cup {"HAS_LITERAL"}, !.state = "YIELD_TAG_BIT"]
       ELSE [hse EXCEPT !.match_pos = match.pos, !.match_length = match.length,
                        !.state = "YIELD_TAG_BIT"]

\* push_bits: eight pending bits are a byte of output.
PushBits(hse, bits) ==
    LET all == hse.current \o bits
    IN IF Len(all) < 8 THEN [hse EXCEPT !.current = all]
       ELSE [hse EXCEPT !.current = From(9, all), !.out = Append(@, Value(First(8, all)))]

\* st_yield_tag_bit.
YieldTagBit(hse) ==
    IF hse.match_length = 0
    THEN [PushBits(hse, LiteralMarker) EXCEPT !.state = "YIELD_LITERAL"]
    ELSE [PushBits(hse, BackrefMarker) EXCEPT
            !.outgoing_bits = Bits(hse.match_pos - 1, hse.w), !.state = "YIELD_BR_INDEX"]

\* st_yield_literal, push_literal_byte.
YieldLiteral(hse) ==
    LET c == hse.buffer[Window(hse) + hse.match_scan_index]
    IN [PushBits(hse, Bits(c, 8)) EXCEPT
          !.flags = @ \ {"HAS_LITERAL"},
          !.state = IF "ON_FINAL_LITERAL" \in hse.flags THEN "FLUSH_BITS"
                    ELSE IF hse.match_length > 0 THEN "YIELD_TAG_BIT" ELSE "SEARCH"]

\* st_yield_br_index and st_yield_br_length: push_outgoing_bits until none is
\* left, then the next step.
PushOutgoing(hse) ==
    [PushBits(hse, First(8, hse.outgoing_bits)) EXCEPT !.outgoing_bits = From(9, @)]

YieldBrIndex(hse) ==
    IF hse.outgoing_bits # <<>> THEN PushOutgoing(hse)
    ELSE [hse EXCEPT !.outgoing_bits = Bits(hse.match_length - 1, hse.l),
                     !.state = "YIELD_BR_LENGTH"]

YieldBrLength(hse) ==
    IF hse.outgoing_bits # <<>> THEN PushOutgoing(hse)
    ELSE [hse EXCEPT !.match_scan_index = @ + hse.match_length, !.match_length = 0,
                     !.state = "SEARCH"]

(***************************************************************************)
(* save_backlog: what was searched becomes the end of the backlog, what is *)
(* left of the input comes behind it.  After the first time the lowest     *)
(* bytes of the backlog are not data yet.                                  *)
(* (Mutant: a whole window is moved out, as if nothing were left.)         *)
(***************************************************************************)
SaveBacklogWhole(hse) ==
    [hse EXCEPT !.buffer = From(Window(hse) + 1, @), !.match_scan_index = 0]

SaveBacklog(hse) ==
    [hse EXCEPT !.buffer = From(hse.match_scan_index + 1, @), !.match_scan_index = 0,
                !.flags = @ \cup {IF "BACKLOG_PARTIAL" \in @ THEN "BACKLOG_FILLED"
                                  ELSE "BACKLOG_PARTIAL"}]

\* st_save_backlog.
StSaveBacklog(hse) ==
    IF "FINISHING" \notin hse.flags THEN [SaveBacklog(hse) EXCEPT !.state = "NOT_FULL"]
    ELSE IF "HAS_LITERAL" \in hse.flags
    THEN [hse EXCEPT !.flags = @ \cup {"ON_FINAL_LITERAL"}, !.state = "YIELD_TAG_BIT"]
    ELSE [hse EXCEPT !.state = "FLUSH_BITS"]

\* st_flush_bit_buffer: the last byte is filled up with zero bits.
FlushBitBuffer(hse) ==
    IF hse.current = <<>> THEN [hse EXCEPT !.state = "DONE"]
    ELSE LET padding == [i \in 1..(8 - Len(hse.current)) |-> 0]
         IN [hse EXCEPT !.out = Append(@, Value(hse.current \o padding)), !.state = "DONE"]

(***************************************************************************)
(* heatshrink_encoder_poll into a buffer of size bytes.  A state that      *)
(* writes waits while the buffer is full.                                  *)
(***************************************************************************)
EncoderStep(hse, size) ==
    LET room == Len(hse.out) < size
    IN CASE hse.state = "FILLED" -> [hse EXCEPT !.state = "SEARCH"]
         [] hse.state = "SEARCH" -> StepSearch(hse)
         [] hse.state = "SAVE_BACKLOG" -> StSaveBacklog(hse)
         [] hse.state = "YIELD_TAG_BIT" /\ room -> YieldTagBit(hse)
         [] hse.state = "YIELD_LITERAL" /\ room -> YieldLiteral(hse)
         [] hse.state = "YIELD_BR_INDEX" /\ room -> YieldBrIndex(hse)
         [] hse.state = "YIELD_BR_LENGTH" /\ room -> YieldBrLength(hse)
         [] hse.state = "FLUSH_BITS" /\ (room \/ hse.current = <<>>) -> FlushBitBuffer(hse)
         [] OTHER -> hse

EncoderPolled(res, hse) ==
    [res |-> res, hse |-> [hse EXCEPT !.out = <<>>], out |-> hse.out]

\* From state to state, until more input or more room is needed.
RECURSIVE EncoderRun(_, _, _)
EncoderRun(state, hse, size) ==
    IF state \in {"NOT_FULL", "FLUSH_BITS", "DONE"} THEN EncoderPolled("EMPTY", hse)
    ELSE IF hse.state = state /\ Len(hse.out) = size THEN EncoderPolled("MORE", hse)
    ELSE EncoderRun(hse.state, EncoderStep(hse, size), size)

EncoderPoll(hse, size) ==
    IF size = 0 THEN EncoderPolled("MISUSE", hse)
    ELSE EncoderRun(hse.state, EncoderStep(hse, size), size)
=============================================================================
