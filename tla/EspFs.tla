-------------------------------- MODULE EspFs --------------------------------
(***************************************************************************)
(* espfs/espfs.c: the files of an image, read from flash.  The file        *)
(* descriptor is a record with the fields of EspFsFile.                    *)
(***************************************************************************)
EXTENDS HeatshrinkDecoder, EspFsFormat

CONSTANT ReadLens  \* the lengths the callers of espFsRead ask for

EbuffLen == 16     \* what one turn of espFsRead feeds to the decoder

VARIABLES
    flash,  \* the image: [bytes, heads], as EspFsImage makes it
    fh,     \* the open file, or NULL
    last    \* what the last read returned
espFsVars == <<flash, fh, last>>

ReadFlash(at, len) == SubSeq(flash.bytes, at + 1, at + len)
NameAt(at) == LET end == Min({i \in (at + 1)..Len(flash.bytes) : flash.bytes[i] = 0})
              IN SubSeq(flash.bytes, at + 1, end - 1)

(***************************************************************************)
(* espFsOpen: from header to header until the name is found.               *)
(***************************************************************************)
NextHead(at) ==
    LET h == flash.heads[at]
    IN Align4(at + HeaderLen + h.nameLen + h.fileLenComp)

RECURSIVE Find(_, _)
Find(at, name) ==
    IF at \notin DOMAIN flash.heads THEN NULL
    ELSE IF flash.heads[at].last THEN NULL
    ELSE IF NameAt(at + HeaderLen) = name THEN at
    ELSE Find(NextHead(at), name)

RECURSIVE StripSlashes(_)
StripSlashes(name) ==
    IF name # <<>> /\ Head(name) = Slash THEN StripSlashes(Tail(name)) ELSE name

EspFsOpen(fileName) ==
    LET at == Find(0, StripSlashes(fileName))
        h == flash.heads[at]
        start == at + HeaderLen + h.nameLen
        parm == flash.bytes[start + 1]
    IN IF at = NULL THEN NULL
       ELSE IF h.compression = CompressNone
       THEN [header |-> at, decompressor |-> h.compression, posStart |-> start, posComp |-> start,
             posDecomp |-> 0, dec |-> NULL]
       ELSE IF h.compression = CompressHeatshrink
       THEN [header |-> at, decompressor |-> h.compression, posStart |-> start, posComp |-> start + 1,
             posDecomp |-> 0, dec |-> DecoderAlloc(16, parm \div 16, parm % 16)]
       ELSE NULL

(***************************************************************************)
(* espFsRead.  The decoder is fed and polled until the buffer is full, or  *)
(* polled once more after all of the file has been fed.                    *)
(***************************************************************************)
ReadPlain(len) ==
    LET toRead == flash.heads[fh.header].fileLenComp - (fh.posComp - fh.posStart)
        n == Min({len, toRead})
    IN [fh |-> [fh EXCEPT !.posDecomp = @ + n, !.posComp = @ + n],
        out |-> ReadFlash(fh.posComp, n)]

\* (Mutant: what the decoder did not take is lost.)
FeedAll(f, elen) ==
    LET s == DecoderSink(f.dec, ReadFlash(f.posComp, Min({elen, EbuffLen})))
    IN IF elen = 0 THEN f
       ELSE [f EXCEPT !.dec = s.hsd, !.posComp = @ + Min({elen, EbuffLen})]

Feed(f, elen) ==
    LET s == DecoderSink(f.dec, ReadFlash(f.posComp, Min({elen, EbuffLen})))
    IN IF elen = 0 THEN f ELSE [f EXCEPT !.dec = s.hsd, !.posComp = @ + s.taken]

RECURSIVE ReadPacked(_, _, _)
ReadPacked(f, room, out) ==
    LET elen == flash.heads[f.header].fileLenComp - (f.posComp - f.posStart)
        fed == Feed(f, elen)
        p == DecoderPoll(fed.dec, room)
        f2 == [fed EXCEPT !.dec = p.hsd, !.posDecomp = @ + Len(p.out)]
    IN IF room = 0 THEN [fh |-> f, out |-> out]
       ELSE IF elen = 0 THEN [fh |-> f2, out |-> out \o p.out]
       ELSE ReadPacked(f2, room - Len(p.out), out \o p.out)

EspFsRead(len) ==
    IF fh.decompressor = CompressNone THEN ReadPlain(len)
    ELSE IF fh.posDecomp = flash.heads[fh.header].fileLenDecomp THEN [fh |-> fh, out |-> <<>>]
    ELSE ReadPacked(fh, len, <<>>)

\* A program that opens a file by name, reads it in pieces and closes it.
Open(name) == fh = NULL /\ fh' = EspFsOpen(name) /\ last' = <<>> /\ UNCHANGED flash

Read == /\ fh # NULL
        /\ \E len \in ReadLens : LET r == EspFsRead(len) IN fh' = r.fh /\ last' = r.out
        /\ UNCHANGED flash

Close == fh # NULL /\ fh' = NULL /\ last' = <<>> /\ UNCHANGED flash
=============================================================================
