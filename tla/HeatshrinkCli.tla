---------------------------- MODULE HeatshrinkCli ----------------------------
(***************************************************************************)
(* heatshrink.c, the command line program of lib/heatshrink, as a pipe:    *)
(* one process encodes source into wire, another decodes wire into sink.   *)
(* A step of a process is a turn of its main loop.  Its reads may return   *)
(* any part of what is there.                                              *)
(***************************************************************************)
EXTENDS HeatshrinkEncoder, HeatshrinkDecoder

CONSTANTS
    OutSize,  \* room for what one poll puts out (4096)
    BufSize,  \* size of the buffers of an io_handle (64 KiB)
    DecSize   \* input buffer of the decoder

ASSUME HeatshrinkCliAssumption ==
    OutSize \in Nat \ {0} /\ BufSize \in Nat /\ OutSize <= BufSize /\ DecSize \in Nat \ {0}

VARIABLES
    source,  \* what the encoding process has not read yet
    wire,    \* what it has written and the decoding process has not read
    sink,    \* what the decoding process has written
    enc,     \* the encoding process: [hse, in, out, eof, done]
    dec      \* the decoding process: [hsd, in, out, eof, done]
cliVars == <<source, wire, sink, enc, dec>>

(***************************************************************************)
(* An io_handle: handle_read reads only when it holds less than asked for. *)
(* HowMany: the numbers of bytes read() may return; after an end of file   *)
(* the file is closed and not read again.                                  *)
(***************************************************************************)
Reads(io, size) == Len(io.in) < size /\ ~io.eof
HowMany(io, size, stream, ended) ==
    IF ~Reads(io, size) THEN {0}
    ELSE IF stream # <<>> THEN 1..Min({BufSize - Len(io.in), Len(stream)})
    ELSE IF ended THEN {0} ELSE {}

\* handle_sink: [buf: what is held, wrote: what has been written].
HandleSink(io, bytes) ==
    IF Len(io.buf) + Len(bytes) > BufSize
    THEN [buf |-> bytes, wrote |-> io.wrote \o io.buf]
    ELSE [io EXCEPT !.buf = @ \o bytes]

(***************************************************************************)
(* encoder_sink_read.  last is the size of the last poll, done whether the *)
(* encoder has finished.                                                   *)
(***************************************************************************)
RECURSIVE Polled(_, _)
Polled(p, io) ==
    IF p.res = "MORE" THEN Polled(EncoderPoll(p.hse, OutSize), HandleSink(io, p.out))
    ELSE [hse |-> p.hse, io |-> HandleSink(io, p.out), last |-> Len(p.out), done |-> FALSE]

PollEncoder(hse, io) == Polled(EncoderPoll(hse, OutSize), io)

\* What has been sunk is polled out before the rest is sunk.
RECURSIVE SinkAll(_, _)
SinkAll(p, data) ==
    IF data = <<>> THEN p
    ELSE LET s == EncoderSink(p.hse, data)
         IN SinkAll(PollEncoder(s.hse, p.io), From(s.taken + 1, data))

AtEndOfInput(p) ==
    LET hse == IF p.last = 0 THEN EncoderFinish(p.hse) ELSE p.hse
    IN [p EXCEPT !.hse = hse, !.done = p.last = 0 /\ hse.state = "DONE"]

EncoderSinkRead(hse, data, io) ==
    IF data = <<>> THEN AtEndOfInput(PollEncoder(hse, io))
    ELSE SinkAll([hse |-> hse, io |-> io, last |-> 0, done |-> FALSE], data)

\* encode: a turn of its loop; handle_close writes what is held.
Encode ==
    /\ ~enc.done
    /\ \E n \in HowMany(enc, Window(enc.hse), source, TRUE) :
         LET held == enc.in \o First(n, source)
             data == First(Window(enc.hse), held)
             r == EncoderSinkRead(enc.hse, data, [buf |-> enc.out, wrote |-> <<>>])
         IN /\ source' = From(n + 1, source)
            /\ enc' = [hse |-> r.hse, done |-> r.done, in |-> From(Len(data) + 1, held),
                       eof |-> enc.eof \/ (Reads(enc, Window(enc.hse)) /\ source = <<>>),
                       out |-> IF r.done THEN <<>> ELSE r.io.buf]
            /\ wire' = wire \o r.io.wrote \o (IF r.done THEN r.io.buf ELSE <<>>)
    /\ UNCHANGED <<sink, dec>>

(***************************************************************************)
(* decoder_sink_read: is never called without data.                        *)
(***************************************************************************)
RECURSIVE PollDecoder(_, _)
PollDecoder(p, io) ==
    IF p.res = "MORE" THEN PollDecoder(DecoderPoll(p.hsd, OutSize), HandleSink(io, p.out))
    ELSE [hsd |-> p.hsd, io |-> HandleSink(io, p.out)]

RECURSIVE DecoderSinkRead(_, _)
DecoderSinkRead(p, data) ==
    IF data = <<>> THEN p
    ELSE LET s == DecoderSink(p.hsd, data)
         IN DecoderSinkRead(PollDecoder(DecoderPoll(s.hsd, OutSize), p.io),
                            From(s.taken + 1, data))

\* decode: a turn of its loop.
DecodeEnd ==
    /\ ~dec.done
    /\ dec.in = <<>> /\ wire = <<>> /\ enc.done
    /\ IF DecoderFinished(dec.hsd)
       THEN /\ dec' = [dec EXCEPT !.done = TRUE, !.out = <<>>, !.eof = TRUE]
            /\ sink' = sink \o dec.out
       ELSE dec' = [dec EXCEPT !.eof = TRUE] /\ UNCHANGED sink
    /\ UNCHANGED <<source, wire, enc>>

Decode ==
    /\ ~dec.done
    /\ \E n \in HowMany(dec, 2^dec.hsd.w, wire, enc.done) :
         LET held == dec.in \o First(n, wire)
             data == First(2^dec.hsd.w, held)
             r == DecoderSinkRead([hsd |-> dec.hsd, io |-> [buf |-> dec.out, wrote |-> <<>>]], data)
         IN /\ data # <<>>
            /\ wire' = From(n + 1, wire)
            /\ dec' = [dec EXCEPT !.hsd = r.hsd, !.in = From(Len(data) + 1, held),
                                  !.eof = @ \/ (Reads(dec, 2^dec.hsd.w) /\ wire = <<>>),
                                  !.out = r.io.buf]
            /\ sink' = sink \o r.io.wrote
    /\ UNCHANGED <<source, enc>>

CliInit(text, w, l) ==
    /\ source = text /\ wire = <<>> /\ sink = <<>>
    /\ enc = [hse |-> EncoderAlloc(w, l), in |-> <<>>, out |-> <<>>, eof |-> FALSE, done |-> FALSE]
    /\ dec = [hsd |-> DecoderAlloc(DecSize, w, l), in |-> <<>>, out |-> <<>>, eof |-> FALSE,
              done |-> FALSE]

CliNext == Encode \/ Decode \/ DecodeEnd

(***************************************************************************)
(* Weak fairness of the two processes, with the conditions under which a   *)
(* turn changes something written out: a process that runs takes its turn. *)
(***************************************************************************)
CanEncode ==
    /\ ~enc.done
    /\ \/ source # <<>> \/ enc.in # <<>> \/ ~enc.eof
       \/ LET r == EncoderSinkRead(enc.hse, <<>>, [buf |-> enc.out, wrote |-> <<>>])
          IN r.done \/ r.hse # enc.hse
CanDecode ==
    /\ ~dec.done
    /\ \/ dec.in # <<>> \/ wire # <<>>
       \/ enc.done /\ (~dec.eof \/ DecoderFinished(dec.hsd))
CliFairness ==
    /\ []<>~CanEncode \/ []<><<Encode>>_cliVars
    /\ []<>~CanDecode \/ []<><<Decode \/ DecodeEnd>>_cliVars
=============================================================================
