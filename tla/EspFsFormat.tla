----------------------------- MODULE EspFsFormat -----------------------------
(***************************************************************************)
(* espfsformat.h: what the writer and the reader of an image share.  An    *)
(* image is [bytes, heads]: what stands at each address, and what the      *)
(* headers say, by their address (a header's own bytes are written as 0).  *)
(* Headers, names and contents start at multiples of four.                 *)
(***************************************************************************)
EXTENDS Integers

HeaderLen == 16          \* sizeof(EspFsHeader)
CompressNone == 0
CompressHeatshrink == 1
Slash == 47

Align4(n) == 4 * ((n + 3) \div 4)

\* EspFsHeader; the flags as Booleans.
Header(flagLast, flagGzip, compression, nameLen, fileLenComp, fileLenDecomp) ==
    [last |-> flagLast, gzip |-> flagGzip, compression |-> compression, nameLen |-> nameLen,
     fileLenComp |-> fileLenComp, fileLenDecomp |-> fileLenDecomp]
=============================================================================
