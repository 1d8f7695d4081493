------------------------------ MODULE CgiFlash ------------------------------
(***************************************************************************)
(* The handlers of util/cgiflash.c: reading the flash, taking a new        *)
(* firmware and restarting into it.  The unit of length is a piece of a    *)
(* POST body.  The flash is one range of addresses with two partitions of  *)
(* FwSize units, each behind a sector that is not part of it (an OTA       *)
(* build): the device runs one of them and writes the other.               *)
(***************************************************************************)
EXTENDS HttpdEspFs

CONSTANTS
    MaxPost,     \* size of the POST buffer (1024)
    SectorLen,   \* size of a flash sector (4096)
    FwSize,      \* size of a partition: uploadParams.fwSize
    FlashBlocks  \* blocks of the whole flash that a download sends (512)

ASSUME CgiFlashAssumption ==
    /\ MaxPost \in Nat \ {0}
    /\ SectorLen \in Nat \ {0}
    /\ FwSize \in Nat \ {0}
    /\ FlashBlocks \in Nat \ {0}
    /\ NULL # "error" /\ NULL \notin {400, 500}

\* system_upgrade_userbin_check: the partition that is running.  The upload
\* goes to the other one (the addresses fw1Pos and fw2Pos of uploadParams).
FirmwareNext(dev) == IF dev.flash.running = 1 THEN 0 ELSE 1

\* fw1Pos and fw2Pos of uploadParams, and the end of the flash.
PartPos(p) == IF p = 0 THEN SectorLen ELSE FwSize + 2 * SectorLen
FlashLen   == 2 * (FwSize + SectorLen)
Partition(flash, p) == [a \in 0..(FwSize - 1) |-> flash.cells[PartPos(p) + a]]

\* A write clears bits: over what has not been erased it leaves a mixture.
Written(cell, new) == IF cell \in {"erased", new} THEN new ELSE "mixed"

\* Behind the end of the flash there is nothing to erase or to write.
EraseSector(cells, address) ==
    [a \in DOMAIN cells |-> IF a \in address .. address + SectorLen - 1 THEN "erased"
                            ELSE cells[a]]

WriteFlash(cells, address, len, new) ==
    [a \in DOMAIN cells |-> IF a \in address .. address + len - 1 THEN Written(cells[a], new)
                            ELSE cells[a]]

(***************************************************************************)
(* cgiUploadFirmware: called for every full buffer of a POST body, and for *)
(* the rest of it.                                                         *)
(***************************************************************************)
\* (Mutant: the size is not checked.)
UploadErrorNoSize(s, offset) ==
    IF offset = 0 /\ ~s.req.good THEN 400
    ELSE IF (offset % MaxPost) # 0 THEN 500
    ELSE NULL

UploadError(s, offset) ==
    IF s.len > FwSize THEN 400
    ELSE IF offset = 0 /\ ~s.req.good THEN 400
    ELSE IF (offset % MaxPost) # 0 THEN 500
    ELSE NULL

\* Mutant: only the first sector is erased.
UploadChunkOneErase(s, dev, offset) ==
    LET address == PartPos(FirmwareNext(dev)) + offset
        cells   == dev.flash.cells
        erased  == IF offset = 0 THEN EraseSector(cells, address) ELSE cells
        dev1    == [dev EXCEPT !.flash.cells =
                                  WriteFlash(erased, address, s.buffLen, s.req.image)]
    IN IF s.received = s.len
       THEN Result("DONE", s, Status(200), dev1)
       ELSE Result("MORE", s, <<>>, dev1)

UploadChunk(s, dev, offset) ==
    LET address == PartPos(FirmwareNext(dev)) + offset
        cells   == dev.flash.cells
        erased  == IF (address % SectorLen) = 0 THEN EraseSector(cells, address) ELSE cells
        dev1    == [dev EXCEPT !.flash.cells =
                                  WriteFlash(erased, address, s.buffLen, s.req.image)]
    IN IF s.received = s.len
       THEN Result("DONE", s, Status(200), dev1)
       ELSE Result("MORE", s, <<>>, dev1)

UploadFirmware(s, dev) ==
    LET offset == s.received - s.buffLen
        s1     == [s EXCEPT !.priv = IF offset = 0 THEN NULL ELSE @]
    IN IF s.conn = NULL THEN Result("DONE", s, <<>>, dev)
       ELSE IF s1.priv # NULL THEN Result("DONE", s1, <<>>, dev)
       ELSE IF UploadError(s1, offset) # NULL
       THEN Result("DONE", [s1 EXCEPT !.priv = "error"], Status(UploadError(s1, offset)), dev)
       ELSE UploadChunk(s1, dev, offset)

(***************************************************************************)
(* cgiReadFlash: its cgiData is the position, NULL before the first call.  *)
(***************************************************************************)
ReadFlash(s, dev) ==
    IF s.conn = NULL THEN Result("DONE", s, <<>>, dev)
    ELSE IF s.data = NULL
    THEN Result("MORE", [s EXCEPT !.data = [pos |-> 0]], Status(200), dev)
    ELSE Result(IF s.data.pos + 1 >= FlashBlocks THEN "DONE" ELSE "MORE",
                [s EXCEPT !.data.pos = @ + 1], << <<"block", s.data.pos>> >>, dev)

\* cgiGetFirmwareNext
GetFirmwareNext(s, dev) ==
    IF s.conn = NULL THEN Result("DONE", s, <<>>, dev)
    ELSE Result("DONE", s, Send(Status(200), << <<"next", FirmwareNext(dev)>> >>), dev)

\* cgiRebootFirmware: the device restarts soon after, into the other partition.
RebootFirmware(s, dev) ==
    IF s.conn = NULL THEN Result("DONE", s, <<>>, dev)
    ELSE Result("DONE", s, Status(200), [dev EXCEPT !.restart = "upgrade"])
=============================================================================
