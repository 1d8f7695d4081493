----------------------------- MODULE EspFsTools ------------------------------
(***************************************************************************)
(* The compression of lib/heatshrink in its two uses: the command line     *)
(* program (HeatshrinkCli), and the image of files that mkespfsimage makes *)
(* (EspFsImage) and the firmware reads (EspFs).  A job says what goes in.  *)
(***************************************************************************)
EXTENDS HeatshrinkCli, EspFs, EspFsImage

CONSTANT Jobs  \* a set of [text, w, l, files, comp, level, names]

ASSUME EspFsToolsAssumption ==
    /\ \A len \in ReadLens : len \in Nat \ {0}
    /\ \A job \in Jobs :
        \* A token must not fit into the padding of the last byte, and a search
        \* must get on before the window is full.
        /\ GoodSizes(job.w, job.l) /\ job.l < job.w /\ job.w + job.l >= 7
        /\ 2^job.w <= BufSize
        /\ job.level \in {-1} \cup 1..9
        /\ \A i \in DOMAIN job.files : job.files[i].name # <<>>

VARIABLE job
vars == <<cliVars, espFsVars, job>>

Init == /\ job \in Jobs
        /\ CliInit(job.text, job.w, job.l)
        /\ flash = Archive(job.files, job.comp, job.level)
        /\ fh = NULL /\ last = <<>>

Next == \/ CliNext /\ UNCHANGED <<espFsVars, job>>
        \/ /\ Read \/ Close \/ \E name \in job.names : Open(name)
           /\ UNCHANGED <<cliVars, job>>

Spec == Init /\ [][Next]_vars /\ CliFairness

-----------------------------------------------------------------------------
(***************************************************************************)
(* What the decoding program writes is what the encoding program was given *)
(* - at any moment the first part of it, in the end all of it - however    *)
(* the reads of the two cut their input, and wherever windows, buffers and *)
(* polls end.                                                              *)
(***************************************************************************)
DecodesWhatWasEncoded ==
    /\ IsPrefix(sink, job.text)
    /\ dec.done => sink = job.text

(***************************************************************************)
(* The two programs end: the finish of each comes to DONE after the end of *)
(* its input, and no turn of their loops waits for the other one forever.  *)
(***************************************************************************)
PipeEnds == <>(enc.done /\ dec.done)

(***************************************************************************)
(* A reader of the image gets what FileReader promises: its own bytes of   *)
(* each file in order, and a short read only at its end, however it is     *)
(* stored and whatever lengths are asked for; and every file that is not   *)
(* empty is found by its name.                                             *)
(***************************************************************************)
FileContents ==
    [name \in {RealName(job.files[i].name) : i \in DOMAIN job.files} |->
        UNION {{[gzip |-> FALSE, bytes |-> job.files[i].data]} \cup
               (IF job.files[i].zipped = NULL THEN {}
                ELSE {[gzip |-> TRUE, bytes |-> job.files[i].zipped]}) :
                  i \in {j \in DOMAIN job.files : RealName(job.files[j].name) = name}}]

\* What the open file reads as: found by the name in its header.
Opened ==
    IF fh = NULL THEN NULL
    ELSE CHOOSE c \in FileContents[NameAt(fh.header + HeaderLen)] :
            c.gzip = flash.heads[fh.header].gzip

FilesAreFound ==
    \A name \in DOMAIN FileContents :
        (\E c \in FileContents[name] : c.bytes # <<>>) <=> EspFsOpen(name) # NULL

Reader == INSTANCE FileReader
            WITH contents <- FileContents, open <- Opened,
                 pos <- IF fh = NULL THEN 0 ELSE fh.posDecomp
ReaderSpec == Reader!Spec /\ []FilesAreFound
=============================================================================
