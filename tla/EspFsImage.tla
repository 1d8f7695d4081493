----------------------------- MODULE EspFsImage ------------------------------
(***************************************************************************)
(* espfs/mkespfsimage/main.c: how the image of the files in flash is made. *)
(* A file is [name, data, zipped]: its path as find prints it, its bytes,  *)
(* and what gzip makes of it, or NULL where gzip is not asked for.         *)
(***************************************************************************)
EXTENDS HeatshrinkEncoder, EspFsFormat

Dot == 46

Zeros(n) == [i \in 1..n |-> 0]
Padded(bytes) == bytes \o Zeros(Align4(Len(bytes)) - Len(bytes))

(***************************************************************************)
(* compressHeatshrink: everything is offered to the encoder, and polled    *)
(* out after each piece it takes; room is what is left of the output, and  *)
(* the sizes are the first byte.                                           *)
(***************************************************************************)
Sizes(level) == LET i == ((IF level = -1 THEN 8 ELSE level) - 1) \div 2
                IN [w |-> <<5, 6, 8, 11, 13>>[i + 1], l |-> <<3, 3, 4, 4, 4>>[i + 1]]

RECURSIVE PollOut(_, _, _)
PollOut(p, out, room) ==
    IF p.res # "MORE" THEN [hse |-> p.hse, out |-> out \o p.out, room |-> room - Len(p.out)]
    ELSE PollOut(EncoderPoll(p.hse, room - Len(p.out)), out \o p.out, room - Len(p.out))

RECURSIVE Pack(_, _)
Pack(p, data) ==
    LET s == EncoderSink(p.hse, data)
        hse == IF s.taken = Len(data) THEN EncoderFinish(s.hse) ELSE s.hse
        packed == PollOut(EncoderPoll(hse, p.room), p.out, p.room)
    IN IF s.taken = Len(data) THEN packed.out ELSE Pack(packed, From(s.taken + 1, data))

CompressedFile(data, level) ==
    LET z == Sizes(level)
    IN <<16 * z.w + z.l>> \o
       Pack([hse |-> EncoderAlloc(z.w, z.l), out |-> <<>>, room |-> 2 * Len(data) - 1], data)

(***************************************************************************)
(* handleFile: how a file is stored.  What grows is stored as it is.       *)
(***************************************************************************)
Packed(file, comp, level) ==
    IF file.zipped # NULL
    THEN [comp |-> CompressNone, gzip |-> TRUE, bytes |-> file.zipped]
    ELSE IF comp = CompressNone
    THEN [comp |-> comp, gzip |-> FALSE, bytes |-> file.data]
    ELSE [comp |-> comp, gzip |-> FALSE, bytes |-> CompressedFile(file.data, level)]

\* Packing that makes a file longer is given up.
Stored(file, packed) ==
    IF Len(packed.bytes) > Len(file.data)
    THEN [comp |-> CompressNone, gzip |-> FALSE, bytes |-> file.data]
    ELSE packed

\* main: the name without a dot and a slash in front of it.
RealName(name) ==
    LET undotted == IF Head(name) = Dot THEN Tail(name) ELSE name
    IN IF undotted # <<>> /\ Head(undotted) = Slash THEN Tail(undotted) ELSE undotted

\* An empty file cannot be mapped, and is left out.
AddFile(image, file, stored) ==
    LET name == Padded(RealName(file.name) \o <<0>>)
        at == Len(image.bytes)
    IN IF file.data = <<>> THEN image
       ELSE [bytes |-> image.bytes \o Zeros(HeaderLen) \o name \o Padded(stored.bytes),
             heads |-> [a \in DOMAIN image.heads \cup {at} |->
                IF a # at THEN image.heads[a]
                ELSE Header(FALSE, stored.gzip, stored.comp, Len(name), Len(stored.bytes),
                            Len(file.data))]]

\* finishArchive.
FinishArchive(image) ==
    [bytes |-> image.bytes \o Zeros(HeaderLen),
     heads |-> [a \in DOMAIN image.heads \cup {Len(image.bytes)} |->
        IF a = Len(image.bytes)
        THEN Header(TRUE, FALSE, CompressNone, 0, 0, 0)
        ELSE image.heads[a]]]

\* main: the files in the order they are named on the standard input.
Archive(files, comp, level) ==
    LET Add(image, file) == AddFile(image, file, Stored(file, Packed(file, comp, level)))
    IN FinishArchive(FoldLeft(Add, [bytes |-> <<>>, heads |-> <<>>], files))
=============================================================================
