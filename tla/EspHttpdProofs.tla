--------------------------- MODULE EspHttpdProofs ---------------------------
EXTENDS EspHttpd, FiniteSetTheorems, SequenceTheorems, WellFoundedInduction, TLAPS

-----------------------------------------------------------------------------
(* The types of what the server keeps.                                      *)
Requests   == UNION {UNION {p.asks[c] : c \in Conns} : p \in Plans}
CellValues == {"old", "erased", "mixed"} \cup {req.image : req \in Requests}

SlotType ==
  [conn : {NULL} \cup Conns, req : {NULL} \cup Requests, cgi : {NULL} \cup CgiNames,
   data : {NULL} \cup [pos : Nat] \cup EspFsFile \cup TplData, priv : {NULL, "error"},
   len : Int, buffSize : Nat, buffLen : Nat, received : Nat, buff : BOOLEAN]

WifiType ==
  [scanInProgress : BOOLEAN, apData : {NULL} \cup Nat, noAps : Nat,
   connTryStatus : {"idle", "working", "fail"}, resetTimer : BOOLEAN,
   reassTimer : BOOLEAN, opmode : Nat, station : {"off", "gotip"}]

FlashType == [running : {0, 1}, cells : [0..(FlashLen - 1) -> CellValues]]

DevType ==
  [files : Int, hits : Nat, junk : BOOLEAN, restart : {NULL, "upgrade", "plain"},
   wifi : WifiType, flash : FlashType]

HistType ==
  [asked : [Conns -> {NULL} \cup Requests], served : SUBSET Conns,
   disturbed : SUBSET Conns, wrote : [Conns -> {NULL, 0, 1}], clash : SUBSET Conns,
   scans : Nat, restarts : Nat, stations : Nat, fails : Nat]

TypeOK ==
  /\ plan \in Plans
  /\ slot \in [Slots -> SlotType]
  /\ dev \in DevType
  /\ link \in [Conns -> {"new", "refused", "open", "closing", "broken", "gone"}]
  /\ pending \in [Conns -> Nat]
  /\ DOMAIN out = Conns
  /\ hist \in HistType

(* A handler of files has an open file to go on with.                       *)
FileState(s) == /\ s.cgi = "cgiEspFsHook" => s.data \in EspFsFile
                /\ s.cgi \in TplCallbacks => s.data \in TplData

(* What was received of a request, and how much of it was handed on: the    *)
(* head, then the body in pieces of buffSize.                               *)
Done(s) == s.received - s.buffLen

Receiving(s) ==
  IF s.len = -1
  THEN s.cgi = NULL /\ s.received = 0 /\ s.buffLen = 0
  ELSE /\ s.req \in Requests /\ s.len = s.req.len
       /\ s.buffSize = IF s.len <= MaxPost THEN s.len ELSE MaxPost
       /\ s.received <= s.req.sent
       /\ Done(s) >= 0
       /\ IF s.received = s.len THEN s.buffLen = 0
          ELSE s.buffLen < s.buffSize /\ (s.received < s.len => Done(s) % s.buffSize = 0)

SlotInv(s, h) ==
  IF s.conn = NULL THEN s.cgi = NULL /\ ~s.buff
  ELSE /\ Receiving(s) /\ FileState(s)
       /\ s.len = -1 => h.asked[s.conn] = NULL
       /\ s.len # -1 => h.asked[s.conn] = s.req
       /\ s.len # -1 /\ s.req.url = "/flash/upload" => s.cgi \in {NULL, "cgiUploadFirmware"}
       /\ s.cgi = "cgiUploadFirmware" => s.req.url = "/flash/upload"
       /\ s.len # -1 /\ s.req.url = NULL => s.cgi = NULL
       /\ (s.len # -1 /\ s.received < s.len /\ Done(s) = 0) => s.cgi = NULL

PoolInv ==
  /\ \A i \in Slots : SlotInv(slot[i], hist)
  /\ \A i \in Slots : slot[i].conn # NULL => link[slot[i].conn] \in {"open", "closing", "broken"}
  /\ \A i, j \in Slots : slot[i].conn # NULL /\ slot[i].conn = slot[j].conn => i = j
  /\ \A c \in Conns : link[c] = "open" => \E i \in Slots : slot[i].conn = c
  /\ \A c \in Conns : link[c] \in {"new", "refused"} => hist.asked[c] = NULL
  /\ \A c \in Conns : hist.asked[c] = NULL => out[c] = <<>> /\ pending[c] = 0

(* The slots of the handlers that hold a file.                              *)
FilesOf(sl) == {i \in Slots : sl[i].cgi \in FileHandlers}

NoneRestarted == \A c \in Conns : ~Restarted(c)

Filled == NoneRestarted => dev.files = Cardinality(FilesOf(slot))

(* Uploads.                                                                 *)
IsUpload(req) == req # NULL /\ req.url = "/flash/upload"

InFlash(part, n, image) == \A a \in 0..(n - 1) : part[a] = image

(* The rest of the sector that is being written is still erased.            *)
RestErased(part, n) ==
  \A a \in n..(FwSize - 1) :
    (\A b \in n..a : b % SectorLen # 0) => part[a] = "erased"

Errors == {Status(400), Status(500)}

(* d: the device; o: what was sent to the client; p: what was not yet        *)
(* reported sent.                                                           *)
UploadState(s, d, o, p, h) ==
  LET next == FirmwareNext(d)
  IN IF Done(s) = 0 THEN o = <<>> /\ p = 0
     ELSE IF s.priv # NULL THEN o \in Errors /\ s.cgi = NULL
     ELSE IF s.received = s.len THEN o = Status(200) /\ s.cgi = NULL
     ELSE /\ o = <<>> /\ p = 0
          /\ s.len <= FwSize
          /\ h.wrote[s.conn] = next
          /\ s.conn \notin h.clash =>
               /\ InFlash(Partition(d.flash, next), Done(s), s.req.image)
               /\ RestErased(Partition(d.flash, next), Done(s))

UploadSlot(i) == slot[i].conn # NULL /\ slot[i].len # -1 /\ slot[i].req.url = "/flash/upload"

UploadGoesOn(i) ==
  UploadSlot(i) => UploadState(slot[i], dev, out[slot[i].conn], pending[slot[i].conn], hist)

UploadIsDone(c) ==
  IsUpload(hist.asked[c]) /\ out[c] = Status(200) =>
    /\ hist.asked[c].len <= FwSize
    /\ hist.wrote[c] \in {0, 1}
    /\ c \notin hist.clash =>
         InFlash(Partition(dev.flash, hist.wrote[c]), hist.asked[c].len, hist.asked[c].image)

(* No upload sends more than its head said.                                 *)
NoneOverlong == \A c \in Conns : ~Overlong(c)

UploadInv == (\A i \in Slots : UploadGoesOn(i)) /\ (\A c \in Conns : UploadIsDone(c))

(* Lists of access points.                                                  *)
ScanIds == {NULL} \cup Nat
Item    == {"head", "inProgress", "ap", "end"} \X ScanIds

Begun(o) == o \in Seq(Item) /\ Len(o) >= 2 /\ o[1] = <<"head", 200>> /\ o[2] = <<"inProgress", 0>>

(* The entries up to n are of one scan.                                     *)
OneScan(o, n) == \A i \in 3..n : o[i] = o[3] /\ o[i][1] = "ap"

(* A list that goes on, with entries of scan a; and an answer that is whole.*)
Listing(o, a) == Begun(o) /\ \A i \in 3..Len(o) : o[i] = <<"ap", a>>

Ended(o) ==
  /\ Begun(o) /\ Len(o) >= 3 /\ o[Len(o)] = <<"end", 0>>
  /\ OneScan(o, Len(o) - 1)

NoList  == << <<"head", 200>>, <<"inProgress", 1>> >>
NewList == << <<"head", 200>>, <<"inProgress", 0>> >>

Whole(o) == o = Status(302) \/ o = NoList \/ Ended(o)

AsksList(req) == req # NULL /\ req.url = "/wifi/wifiscan.cgi" /\ InOneBuffer(req)

Claims(c) == AsksList(hist.asked[c]) /\ c \notin hist.disturbed

OneList(o) == o = <<>> \/ Whole(o) \/ (Begun(o) /\ OneScan(o, Len(o)))

ListAnswer(c) == Claims(c) => OneList(out[c]) /\ (c \in hist.served => Whole(out[c]))

(* While a list goes on no scan does: what it is read from stays.           *)
ListState(s, d, o, p) ==
  IF s.received < s.len THEN o = <<>> /\ p = 0
  ELSE IF s.cgi = NULL THEN Whole(o)
  ELSE /\ s.cgi = "cgiWiFiScan" /\ s.data \in [pos : Nat] /\ s.data.pos >= 1
       /\ ~d.wifi.scanInProgress /\ Listing(o, d.wifi.apData)

ListSlot(i) == slot[i].conn # NULL /\ slot[i].len # -1 /\ link[slot[i].conn] = "open"

ListGoesOn(i) ==
  ListSlot(i) /\ Claims(slot[i].conn)
    => ListState(slot[i], dev, out[slot[i].conn], pending[slot[i].conn])

ServedAreClosed == \A c \in hist.served : link[c] \notin {"new", "refused", "open"}

ListInv ==
  (\A i \in Slots : ListGoesOn(i)) /\ (\A c \in Conns : ListAnswer(c)) /\ ServedAreClosed

(* Both pieces of an entry fit the send buffer, which has 2048 bytes.       *)
TwoFit == MaxSendBuff >= 2

(* Pages: the flash, files of the image and templates.                      *)
PageItems == {"head", "char", "block", "value", "hits", "junk", "unknown", "mode"} \X Nat

AsksPage(req) == req # NULL /\ Streamed(req) /\ InOneBuffer(req)

AsksFlash(req)    == req.url = "/flash.bin"
AsksTemplate(req) == ~AsksFlash(req) /\ req.url \in Templates /\ ~Files[req.url].gzip

(* How long an answer is, in blocks or characters, and the answer up to n.  *)
Size(req) == IF AsksFlash(req) THEN FlashBlocks ELSE Len(Files[req.url].data)

Body(req, n) ==
  IF AsksFlash(req) THEN [k \in 1..n |-> <<"block", k - 1>>]
  ELSE IF AsksTemplate(req) THEN Expansion(Files[req.url].data)[n]
  ELSE [k \in 1..n |-> <<"char", Files[req.url].data[k]>>]

Sofar(req, n) == Status(200) \o Body(req, n)

(* The token after n characters: none outside, empty behind its '%'.        *)
TokenIs(text, n, token) ==
  /\ token # NULL <=> InToken(text, n)
  /\ InToken(text, n) => (token = <<>> <=> text[n] = Percent)

PageHandler(s) ==
  \/ AsksFlash(s.req) /\ s.cgi = "cgiReadFlash" /\ s.data \in [pos : Nat] /\ s.data.pos < FlashBlocks
  \/ /\ AsksTemplate(s.req) /\ s.cgi \in TplCallbacks /\ s.data \in TplData
     /\ s.data.name = s.req.url /\ TokenIs(Files[s.req.url].data, s.data.pos, s.data.token)
  \/ /\ ~AsksFlash(s.req) /\ ~AsksTemplate(s.req) /\ s.cgi = "cgiEspFsHook"
     /\ s.data \in EspFsFile /\ s.data.name = s.req.url

PageIsDone(req, o) == o \in Refusal \/ Valueless(o) = Expected(req)

(* o: what was sent to the client.                                          *)
PageState(s, o) ==
  /\ o \in Seq(PageItems)
  /\ IF s.received < s.len THEN o = <<>>
     ELSE IF s.cgi = NULL THEN PageIsDone(s.req, o)
     ELSE /\ PageHandler(s) /\ s.data.pos <= Size(s.req)
          /\ Valueless(o) = Sofar(s.req, s.data.pos)

PageGoesOn(i) ==
  ListSlot(i) /\ AsksPage(slot[i].req) => PageState(slot[i], out[slot[i].conn])

Begins(a, b) == Len(a) <= Len(b) /\ \A k \in 1..Len(a) : a[k] = b[k]

PageAnswer(c) ==
  AsksPage(hist.asked[c]) =>
    /\ out[c] \in Seq(PageItems)
    /\ out[c] \in Refusal \/ Begins(Valueless(out[c]), Expected(hist.asked[c]))
    /\ c \in hist.served => PageIsDone(hist.asked[c], out[c])

(* Whatever is sent is a sequence.                                          *)
IsSeq(o) == o \in Seq({o[k] : k \in DOMAIN o})

Reported == /\ \A c \in Conns : IsSeq(out[c]) /\ (pending[c] > 0 => out[c] # <<>>)
            /\ \A c \in hist.served : out[c] # <<>>

PageInv ==
  /\ \A i \in Slots : PageGoesOn(i)
  /\ \A c \in Conns : PageAnswer(c)
  /\ Reported /\ ServedAreClosed

(* Of the entries of the table only the templates name a file of the image. *)
PagesAreFiles ==
  \A i \in DOMAIN BuiltInUrls :
    BuiltInUrls[i][1] \in DOMAIN Files => BuiltInUrls[i][2] \in TplCallbacks

(* A block of a template fits the send buffer (1024 and 2048 bytes).        *)
BlockFits == MaxSendBuff >= BlockLen

Inv == TypeOK /\ PoolInv
-----------------------------------------------------------------------------
(* Helpers.                                                                 *)

(* Joining three sequences; an operator of its own keeps it from the other  *)
(* terms of a step.                                                         *)
Regroups(a, b, c) == (a \o b) \o c = a \o (b \o c)

LEMMA Associative ==
  ASSUME NEW S, NEW a \in Seq(S), NEW b \in Seq(S), NEW c \in Seq(S)
  PROVE  Regroups(a, b, c)
BY DEF Regroups

(* A set of numbers that is not empty has a least one.                      *)
LEMMA LeastNumber ==
  ASSUME NEW T, T \subseteq Nat, T # {}
  PROVE  \E x \in T : \A y \in T : x <= y
<1>1. PICK x \in T : \A y \in T : ~ (<<y, x>> \in OpToRel(<, Nat))
  BY NatLessThanWellFounded, WFMin
<1>2. ASSUME NEW y \in T
      PROVE  ~(y < x)
  BY <1>1, <1>2 DEF OpToRel
<1> QED BY <1>2

LEMMA MinIsLeast ==
  ASSUME NEW T, T \subseteq Nat, T # {}
  PROVE  Min(T) \in T /\ \A y \in T : Min(T) <= y
BY LeastNumber DEF Min

LEMMA MinOfTwo ==
  ASSUME NEW a \in Nat, NEW b \in Nat
  PROVE  Min({a, b}) = IF a <= b THEN a ELSE b
<1>1. Min({a, b}) \in {a, b} /\ \A y \in {a, b} : Min({a, b}) <= y
  BY MinIsLeast
<1> QED BY <1>1

(* The table, row by row.                                                   *)
LEMMA Urls ==
  /\ DOMAIN BuiltInUrls = 1..18
  /\ BuiltInUrls[1][1] = "*"
  /\ BuiltInUrls[2][1] = "/"
  /\ BuiltInUrls[3][1] = "/flash.bin"
  /\ BuiltInUrls[4][1] = "/led.tpl"
  /\ BuiltInUrls[5][1] = "/index.tpl"
  /\ BuiltInUrls[6][1] = "/led.cgi"
  /\ BuiltInUrls[7][1] = "/flash/download"
  /\ BuiltInUrls[8][1] = "/flash/next"
  /\ BuiltInUrls[9][1] = "/flash/upload"
  /\ BuiltInUrls[10][1] = "/flash/reboot"
  /\ BuiltInUrls[11][1] = "/wifi"
  /\ BuiltInUrls[12][1] = "/wifi/"
  /\ BuiltInUrls[13][1] = "/wifi/wifiscan.cgi"
  /\ BuiltInUrls[14][1] = "/wifi/wifi.tpl"
  /\ BuiltInUrls[15][1] = "/wifi/connect.cgi"
  /\ BuiltInUrls[16][1] = "/wifi/connstatus.cgi"
  /\ BuiltInUrls[17][1] = "/wifi/setmode.cgi"
  /\ BuiltInUrls[18][1] = "*"
BY DEF BuiltInUrls

LEMMA Callbacks ==
  /\ BuiltInUrls[1][2] = "cgiRedirectApClientToHostname"
  /\ BuiltInUrls[2][2] = "cgiRedirect"
  /\ BuiltInUrls[3][2] = "cgiReadFlash"
  /\ BuiltInUrls[4][2] = "tplLed"
  /\ BuiltInUrls[5][2] = "tplCounter"
  /\ BuiltInUrls[6][2] = "cgiLed"
  /\ BuiltInUrls[7][2] = "cgiReadFlash"
  /\ BuiltInUrls[8][2] = "cgiGetFirmwareNext"
  /\ BuiltInUrls[9][2] = "cgiUploadFirmware"
  /\ BuiltInUrls[10][2] = "cgiRebootFirmware"
  /\ BuiltInUrls[11][2] = "cgiRedirect"
  /\ BuiltInUrls[12][2] = "cgiRedirect"
  /\ BuiltInUrls[13][2] = "cgiWiFiScan"
  /\ BuiltInUrls[14][2] = "tplWlan"
  /\ BuiltInUrls[15][2] = "cgiWiFiConnect"
  /\ BuiltInUrls[16][2] = "cgiWiFiConnStatus"
  /\ BuiltInUrls[17][2] = "cgiWiFiSetMode"
  /\ BuiltInUrls[18][2] = "cgiEspFsHook"
BY DEF BuiltInUrls

LEMMA RowNumbers ==
  ASSUME NEW i \in 1..18
  PROVE  i = 1 \/ i = 2 \/ i = 3 \/ i = 4 \/ i = 5 \/ i = 6 \/ i = 7 \/ i = 8 \/ i = 9
         \/ i = 10 \/ i = 11 \/ i = 12 \/ i = 13 \/ i = 14 \/ i = 15 \/ i = 16 \/ i = 17 \/ i = 18
OBVIOUS

(* The entries that matter.                                                 *)
LEMMA Entries ==
  ASSUME NEW i \in 1..18
  PROVE  /\ BuiltInUrls[i][2] = "cgiUploadFirmware" => i = 9
         /\ BuiltInUrls[i][1] = "/flash/upload" => i = 9
         /\ BuiltInUrls[i][1] = "*" => i \in {1, 18}
<1>1. BuiltInUrls[i][2] = "cgiUploadFirmware" => i = 9
  BY Callbacks, RowNumbers
<1>2. BuiltInUrls[i][1] = "/flash/upload" => i = 9
  BY Urls, RowNumbers
<1>3. BuiltInUrls[i][1] = "*" => i \in {1, 18}
  BY Urls, RowNumbers
<1> QED BY <1>1, <1>2, <1>3

LEMMA Names ==
  CgiNames = {"cgiRedirectApClientToHostname", "cgiRedirect", "cgiReadFlash", "tplLed",
              "tplCounter", "cgiLed", "cgiGetFirmwareNext", "cgiUploadFirmware",
              "cgiRebootFirmware", "cgiWiFiScan", "tplWlan", "cgiWiFiConnect",
              "cgiWiFiConnStatus", "cgiWiFiSetMode", "cgiEspFsHook"}
BY Urls, Callbacks, RowNumbers DEF CgiNames
-----------------------------------------------------------------------------
(* What a call of a handler does to the device and to its own state.        *)

DataType == {NULL} \cup [pos : Nat] \cup EspFsFile \cup TplData

CanCall(name, s) ==
  /\ s \in SlotType
  /\ name = "cgiEspFsHook" => s.data \in {NULL} \cup EspFsFile
  /\ name \in TplCallbacks => s.data \in {NULL} \cup TplData
  /\ s.conn # NULL => s.req \in Requests
  /\ s.conn = NULL /\ name \in FileHandlers => s.data # NULL

Opening(r) == IF r.ret = "MORE" THEN 1 ELSE 0
Holding(s) == IF s.data = NULL THEN 0 ELSE 1

(* A call types what it leaves, keeps the firmware that runs, and opens and *)
(* closes files as it begins and ends.                                      *)
Typed(r) == /\ r.ret \in {"MORE", "DONE", "NOTFOUND"}
            /\ r.data \in DataType /\ r.priv \in {NULL, "error"}
            /\ r.dev \in DevType

SameFlash(d1, d) == d1.flash = d.flash

Called(name, s, d, r) ==
  /\ Typed(r)
  /\ name # "cgiUploadFirmware" => SameFlash(r.dev, d)
  /\ name \notin FileHandlers => r.dev.files = d.files
  /\ name \in FileHandlers => r.dev.files = d.files + Opening(r) - Holding(s)
  /\ r.ret = "MORE" /\ name = "cgiEspFsHook" => r.data \in EspFsFile
  /\ r.ret = "MORE" /\ name \in TplCallbacks => r.data \in TplData

LEMMA ResultIs ==
  ASSUME NEW ret, NEW s, NEW o, NEW d
  PROVE  LET r == Result(ret, s, o, d)
         IN r.ret = ret /\ r.data = s.data /\ r.priv = s.priv /\ r.out = o /\ r.dev = d
BY DEF Result

LEMMA ResultTyped ==
  ASSUME NEW ret \in {"MORE", "DONE", "NOTFOUND"}, NEW s \in SlotType, NEW o, NEW d \in DevType
  PROVE  Typed(Result(ret, s, o, d))
BY ResultIs DEF Typed, SlotType, DataType

(* A handler that has nothing to do with files and flash.                   *)
LEMMA PlainCall ==
  ASSUME NEW name, name \notin FileHandlers, NEW ret \in {"MORE", "DONE", "NOTFOUND"},
         NEW s \in SlotType, NEW t, NEW o, NEW d, NEW e \in DevType,
         e.files = d.files, e.flash = d.flash
  PROVE  Called(name, t, d, Result(ret, s, o, e))
BY ResultIs, ResultTyped DEF Called, SameFlash, FileHandlers, TplCallbacks

LEMMA SlotFields ==
  ASSUME NEW s \in SlotType
  PROVE  /\ s.data \in DataType /\ s.priv \in {NULL, "error"}
         /\ \A x \in DataType : [s EXCEPT !.data = x] \in SlotType
                                /\ [s EXCEPT !.data = x].data = x
         /\ \A x \in {NULL, "error"} : [s EXCEPT !.priv = x] \in SlotType
                                /\ [s EXCEPT !.priv = x].priv = x
BY DEF SlotType, DataType

(* The handlers of plain pages. *)
LEMMA LedCall ==
  ASSUME NEW s, NEW d \in DevType, CanCall("cgiLed", s)
  PROVE  Called("cgiLed", s, d, CgiLed(s, d))
BY ResultIs, ResultTyped DEF CgiLed, CanCall, Called, SameFlash, FileHandlers, TplCallbacks

LEMMA RedirectCall ==
  ASSUME NEW s, NEW d \in DevType, CanCall("cgiRedirect", s)
  PROVE  Called("cgiRedirect", s, d, CgiRedirect(s, d))
BY ResultIs, ResultTyped DEF CgiRedirect, CanCall, Called, SameFlash, FileHandlers, TplCallbacks

LEMMA HostCall ==
  ASSUME NEW s, NEW d \in DevType, CanCall("cgiRedirectApClientToHostname", s)
  PROVE  Called("cgiRedirectApClientToHostname", s, d, CgiRedirectApClientToHostname(s, d))
BY ResultIs, ResultTyped DEF CgiRedirectApClientToHostname, CgiRedirectToHostname, CanCall,
   Called, SameFlash, FileHandlers, TplCallbacks

LEMMA NextCall ==
  ASSUME NEW s, NEW d \in DevType, CanCall("cgiGetFirmwareNext", s)
  PROVE  Called("cgiGetFirmwareNext", s, d, GetFirmwareNext(s, d))
BY ResultIs, ResultTyped DEF GetFirmwareNext, CanCall, Called, SameFlash, FileHandlers, TplCallbacks

LEMMA ReadCall ==
  ASSUME NEW s, NEW d \in DevType, CanCall("cgiReadFlash", s)
  PROVE  Called("cgiReadFlash", s, d, ReadFlash(s, d))
<1>1. s \in SlotType
  BY DEF CanCall
<1>2. [pos |-> 0] \in DataType
  BY DEF DataType
<1>3. s.data # NULL => [s.data EXCEPT !.pos = @ + 1] \in DataType
  <2>1. CASE s.data \in [pos : Nat]
    BY <2>1 DEF DataType
  <2>2. CASE s.data \in EspFsFile
    BY <2>2 DEF DataType, EspFsFile
  <2>3. CASE s.data \in TplData
    BY <2>3 DEF DataType, TplData
  <2> QED BY <1>1, <2>1, <2>2, <2>3, SlotFields DEF DataType
<1>4. Typed(ReadFlash(s, d)) /\ ReadFlash(s, d).dev = d
  <2>1. CASE s.conn = NULL
    BY <1>1, <2>1, ResultIs, ResultTyped DEF ReadFlash
  <2>2. CASE s.conn # NULL /\ s.data = NULL
    <3>1. [s EXCEPT !.data = [pos |-> 0]] \in SlotType
      BY <1>1, <1>2, SlotFields
    <3> QED BY <2>2, <3>1, ResultIs, ResultTyped DEF ReadFlash
  <2>3. CASE s.conn # NULL /\ s.data # NULL
    <3>1. [s EXCEPT !.data.pos = @ + 1] = [s EXCEPT !.data = [s.data EXCEPT !.pos = @ + 1]]
      OBVIOUS
    <3>2. [s EXCEPT !.data.pos = @ + 1] \in SlotType
      BY <1>1, <1>3, <2>3, <3>1, SlotFields
    <3> QED BY <2>3, <3>2, ResultIs, ResultTyped DEF ReadFlash
  <2> QED BY <2>1, <2>2, <2>3
<1> QED BY <1>4 DEF Called, SameFlash, FileHandlers, TplCallbacks

LEMMA DevWifi ==
  ASSUME NEW d \in DevType
  PROVE  d.wifi \in WifiType
BY DEF DevType

LEMMA DevFields ==
  ASSUME NEW d \in DevType
  PROVE  /\ d.wifi \in WifiType /\ d.flash \in FlashType /\ d.files \in Int /\ d.hits \in Nat
         /\ \A x \in {NULL, "upgrade", "plain"} :
              /\ [d EXCEPT !.restart = x] \in DevType
              /\ [d EXCEPT !.restart = x].files = d.files
              /\ [d EXCEPT !.restart = x].flash = d.flash
              /\ [d EXCEPT !.restart = x].wifi = d.wifi
         /\ \A w \in WifiType :
              /\ [d EXCEPT !.wifi = w] \in DevType
              /\ [d EXCEPT !.wifi = w].files = d.files
              /\ [d EXCEPT !.wifi = w].flash = d.flash
         /\ \A n \in Int :
              /\ [d EXCEPT !.files = n] \in DevType
              /\ [d EXCEPT !.files = n].files = n
              /\ [d EXCEPT !.files = n].flash = d.flash
         /\ \A x \in BOOLEAN :
              /\ [d EXCEPT !.junk = x] \in DevType
              /\ [d EXCEPT !.junk = x].files = d.files
              /\ [d EXCEPT !.junk = x].flash = d.flash
              /\ [d EXCEPT !.junk = x].wifi = d.wifi
         /\ \A x \in Nat :
              /\ [d EXCEPT !.hits = x] \in DevType
              /\ [d EXCEPT !.hits = x].files = d.files
              /\ [d EXCEPT !.hits = x].flash = d.flash
              /\ [d EXCEPT !.hits = x].wifi = d.wifi
BY DEF DevType

LEMMA RebootCall ==
  ASSUME NEW s, NEW d \in DevType, CanCall("cgiRebootFirmware", s)
  PROVE  Called("cgiRebootFirmware", s, d, RebootFirmware(s, d))
<1>1. [d EXCEPT !.restart = "upgrade"] \in DevType
  BY DevFields
<1>2. /\ [d EXCEPT !.restart = "upgrade"].files = d.files
      /\ [d EXCEPT !.restart = "upgrade"].flash = d.flash
  BY DevFields
<1>3. s \in SlotType /\ "cgiRebootFirmware" \notin FileHandlers
  BY DEF CanCall, FileHandlers, TplCallbacks
<1> DEFINE e == [d EXCEPT !.restart = "upgrade"]
<1>4. \/ RebootFirmware(s, d) = Result("DONE", s, <<>>, d)
      \/ RebootFirmware(s, d) = Result("DONE", s, Status(200), e)
  BY DEF RebootFirmware
<1>5. e \in DevType /\ e.files = d.files /\ e.flash = d.flash
  BY <1>1, <1>2
<1> HIDE DEF e
<1> QED BY <1>3, <1>4, <1>5, PlainCall

(* The handlers of the WiFi pages. *)
LEMMA ConnectCall ==
  ASSUME NEW s, NEW d \in DevType, CanCall("cgiWiFiConnect", s)
  PROVE  Called("cgiWiFiConnect", s, d, WiFiConnect(s, d))
<1>1. [d EXCEPT !.wifi.reassTimer = TRUE] = [d EXCEPT !.wifi = [d.wifi EXCEPT !.reassTimer = TRUE]]
  OBVIOUS
<1>2. [d.wifi EXCEPT !.reassTimer = TRUE] \in WifiType
  BY DevWifi DEF WifiType
<1> DEFINE e == [d EXCEPT !.wifi.reassTimer = TRUE]
<1>3. e \in DevType /\ e.files = d.files /\ e.flash = d.flash
  BY <1>1, <1>2, DevFields
<1>4. s \in SlotType /\ "cgiWiFiConnect" \notin FileHandlers
  BY DEF CanCall, FileHandlers, TplCallbacks
<1>5. \/ WiFiConnect(s, d) = Result("DONE", s, <<>>, d)
      \/ WiFiConnect(s, d) = Result("DONE", s, Status(302), e)
  BY DEF WiFiConnect
<1> HIDE DEF e
<1> QED BY <1>3, <1>4, <1>5, PlainCall

LEMMA StatusCall ==
  ASSUME NEW s, NEW d \in DevType, CanCall("cgiWiFiConnStatus", s)
  PROVE  Called("cgiWiFiConnStatus", s, d, WiFiConnStatus(s, d))
<1> DEFINE w == [d.wifi EXCEPT !.resetTimer = @ \/ ConnStatusText(d.wifi) = "success"]
           e == [d EXCEPT !.wifi.resetTimer = @ \/ ConnStatusText(d.wifi) = "success"]
<1>1. e = [d EXCEPT !.wifi = w]
  OBVIOUS
<1>2. w \in WifiType
  BY DevWifi DEF WifiType
<1>3. s \in SlotType /\ "cgiWiFiConnStatus" \notin FileHandlers
  BY DEF CanCall, FileHandlers, TplCallbacks
<1>4. WiFiConnStatus(s, d)
        = Result("DONE", s, Send(Status(200), << <<ConnStatusText(d.wifi), 0>> >>), e)
  BY DEF WiFiConnStatus
<1> HIDE DEF w, e
<1>5. e \in DevType /\ e.files = d.files /\ e.flash = d.flash
  BY <1>1, <1>2, DevFields
<1> QED BY <1>3, <1>4, <1>5, PlainCall

LEMMA ModeCall ==
  ASSUME NEW s, NEW d \in DevType, CanCall("cgiWiFiSetMode", s)
  PROVE  Called("cgiWiFiSetMode", s, d, WiFiSetMode(s, d))
<1>1. CASE s.conn = NULL \/ s.req.mode = NULL
  BY <1>1, DevFields, ResultIs, ResultTyped
  DEF WiFiSetMode, CanCall, Called, SameFlash, FileHandlers, TplCallbacks
<1>2. CASE s.conn # NULL /\ s.req.mode # NULL
  <2> DEFINE w == [d.wifi EXCEPT !.opmode = s.req.mode]
             x == IF d.restart = "upgrade" THEN d.restart ELSE "plain"
             e == [d EXCEPT !.wifi.opmode = s.req.mode,
                            !.restart = IF @ = "upgrade" THEN @ ELSE "plain"]
  <2>1. s.req.mode \in Nat
    BY <1>2, EspHttpdAssumption DEF CanCall, Requests
  <2>2. w \in WifiType
    BY <2>1, DevWifi DEF WifiType
  <2>3. e = [[d EXCEPT !.wifi = w] EXCEPT !.restart = x]
    BY DEF DevType
  <2>4. x \in {NULL, "upgrade", "plain"}
    BY DEF DevType
  <2> HIDE DEF w, x
  <2> DEFINE d1 == [d EXCEPT !.wifi = w]
  <2>8. d1 \in DevType /\ d1.files = d.files /\ d1.flash = d.flash
    BY <2>2, DevFields
  <2>9. e = [d1 EXCEPT !.restart = x]
    BY <2>3
  <2> HIDE DEF d1, e
  <2>5. e \in DevType /\ e.files = d.files /\ e.flash = d.flash
    BY <2>4, <2>8, <2>9, DevFields
  <2>6. s \in SlotType
    BY DEF CanCall
  <2>7. WiFiSetMode(s, d) = Result("DONE", s, Status(302), e)
    BY <1>2 DEF WiFiSetMode, e
  <2>10. "cgiWiFiSetMode" \notin FileHandlers
    BY DEF FileHandlers, TplCallbacks
  <2> QED BY <2>5, <2>6, <2>7, <2>10, PlainCall
<1> QED BY <1>1, <1>2

LEMMA ScanCall ==
  ASSUME NEW s, NEW d \in DevType, CanCall("cgiWiFiScan", s)
  PROVE  Called("cgiWiFiScan", s, d, WiFiScan(s, d))
<1>1. s \in SlotType /\ s.data \in DataType
  BY SlotFields DEF CanCall
<1> DEFINE p == IF s.data = NULL THEN 0 ELSE s.data.pos
<1>2. p \in Nat
  BY <1>1 DEF DataType, EspFsFile, TplData
<1>3. \A n \in Nat : [s EXCEPT !.data = [pos |-> n]] \in SlotType
  BY <1>1, SlotFields DEF DataType
<1>4. StartScan(d) \in DevType /\ StartScan(d).files = d.files /\ StartScan(d).flash = d.flash
  <2> DEFINE w == [d.wifi EXCEPT !.scanInProgress = TRUE]
  <2>1. w \in WifiType
    BY DevWifi DEF WifiType
  <2>2. StartScan(d) = [d EXCEPT !.wifi = w]
    BY DEF StartScan
  <2> HIDE DEF w
  <2>3. LET e == [d EXCEPT !.wifi = w]
        IN e \in DevType /\ e.files = d.files /\ e.flash = d.flash
    BY <2>1, DevFields
  <2> QED BY <2>2, <2>3
<1> DEFINE e == [d EXCEPT !.wifi.noAps = IF d.wifi.apData = NULL THEN 0 ELSE @]
<1>5. e \in DevType /\ e.files = d.files /\ e.flash = d.flash
  <2> DEFINE w == [d.wifi EXCEPT !.noAps = IF d.wifi.apData = NULL THEN 0 ELSE @]
  <2>1. w \in WifiType
    BY DevWifi DEF WifiType
  <2>2. e = [d EXCEPT !.wifi = w]
    OBVIOUS
  <2> HIDE DEF w, e
  <2> QED BY <2>1, <2>2, DevFields
<1>6. CASE ~d.wifi.scanInProgress /\ p # 0
  <2>1. WiFiScan(s, d) = ScanEntry(s, d, p)
    BY <1>6 DEF WiFiScan
  <2>2. p + 1 \in Nat
    BY <1>2
  <2> HIDE DEF p
  <2>3. \/ \E o : ScanEntry(s, d, p) = Result("DONE", s, o, StartScan(d))
        \/ \E o : ScanEntry(s, d, p) = Result("MORE", [s EXCEPT !.data = [pos |-> p + 1]], o, d)
    BY DEF ScanEntry
  <2> QED BY <1>1, <1>3, <1>4, <2>1, <2>2, <2>3, PlainCall DEF FileHandlers, TplCallbacks
<1>7. CASE d.wifi.scanInProgress
  BY <1>1, <1>7, ResultIs, ResultTyped
  DEF WiFiScan, Called, SameFlash, FileHandlers, TplCallbacks
<1>8. CASE ~d.wifi.scanInProgress /\ p = 0
  <2>1. WiFiScan(s, d) = Result("MORE", [s EXCEPT !.data = [pos |-> 1]],
                                Send(Status(200), << <<"inProgress", 0>> >>), e)
    BY <1>8 DEF WiFiScan
  <2> HIDE DEF e
  <2> QED BY <1>3, <1>5, <2>1, ResultIs, ResultTyped
          DEF Called, SameFlash, FileHandlers, TplCallbacks
<1> QED BY <1>6, <1>7, <1>8

(* The upload.  It writes to the partition that does not run, and what it   *)
(* writes ends where that partition does.                                   *)
Fits(s) == s.len <= FwSize => s.received <= FwSize

SameRunning(d1, d) ==
  Partition(d1.flash, d.flash.running) = Partition(d.flash, d.flash.running)

KeepsRunning(s, d1, d) ==
  /\ d1.flash.running = d.flash.running
  /\ Fits(s) => SameRunning(d1, d)

NewCells(s, d, offset) ==
  LET address == PartPos(FirmwareNext(d)) + offset
      erased  == IF (address % SectorLen) = 0 THEN EraseSector(d.flash.cells, address)
                 ELSE d.flash.cells
  IN WriteFlash(erased, address, s.buffLen, s.req.image)

(* The places of the partitions.                                            *)
LEMMA Places ==
  /\ SectorLen \in Nat /\ SectorLen > 0 /\ FwSize \in Nat /\ FwSize > 0
  /\ PartPos(0) = SectorLen /\ PartPos(1) = FwSize + 2 * SectorLen
  /\ FlashLen = 2 * FwSize + 2 * SectorLen
BY CgiFlashAssumption DEF PartPos, FlashLen

LEMMA NextIsOther ==
  ASSUME NEW d \in DevType
  PROVE  /\ d.flash.running \in {0, 1} /\ FirmwareNext(d) \in {0, 1}
         /\ FirmwareNext(d) # d.flash.running
         /\ d.flash.cells \in [0..(FlashLen - 1) -> CellValues]
BY DEF DevType, FlashType, FirmwareNext

LEMMA NewCellsType ==
  ASSUME NEW s \in SlotType, NEW d \in DevType, s.req \in Requests, NEW offset \in Nat
  PROVE  NewCells(s, d, offset) \in [0..(FlashLen - 1) -> CellValues]
<1> DEFINE address == PartPos(FirmwareNext(d)) + offset
           old    == d.flash.cells
           erased == IF (address % SectorLen) = 0 THEN EraseSector(old, address) ELSE old
<1>1. old \in [0..(FlashLen - 1) -> CellValues]
  BY NextIsOther
<1>4. NewCells(s, d, offset) = WriteFlash(erased, address, s.buffLen, s.req.image)
  BY DEF NewCells
<1> HIDE DEF old, address
<1>2. erased \in [0..(FlashLen - 1) -> CellValues]
  <2>1. EraseSector(old, address) \in [0..(FlashLen - 1) -> CellValues]
    BY <1>1 DEF EraseSector, CellValues
  <2> QED BY <1>1, <2>1
<1>3. s.req.image \in CellValues
  BY DEF CellValues
<1> HIDE DEF erased
<1>5. \A cell \in CellValues : Written(cell, s.req.image) \in CellValues
  BY <1>3 DEF Written, CellValues
<1> QED BY <1>2, <1>4, <1>5 DEF WriteFlash

(* Every cell after a chunk.                                                *)
LEMMA NewCellsAre ==
  ASSUME NEW s \in SlotType, NEW d \in DevType, NEW offset \in Nat, NEW x \in 0..(FlashLen - 1),
         LET address == PartPos(FirmwareNext(d)) + offset
         IN /\ x \notin address .. (address + s.buffLen - 1)
            /\ (address % SectorLen) = 0 => x \notin address .. (address + SectorLen - 1)
  PROVE  NewCells(s, d, offset)[x] = d.flash.cells[x]
<1> DEFINE address == PartPos(FirmwareNext(d)) + offset
           old    == d.flash.cells
           erased == IF (address % SectorLen) = 0 THEN EraseSector(old, address) ELSE old
<1>1. DOMAIN old = 0..(FlashLen - 1)
  BY NextIsOther
<1>2. NewCells(s, d, offset) = WriteFlash(erased, address, s.buffLen, s.req.image)
  BY DEF NewCells
<1>3. /\ x \notin address .. (address + s.buffLen - 1)
      /\ (address % SectorLen) = 0 => x \notin address .. (address + SectorLen - 1)
  OBVIOUS
<1> HIDE DEF old, address
<1>4. DOMAIN erased = 0..(FlashLen - 1) /\ erased[x] = old[x]
  BY <1>1, <1>3 DEF EraseSector
<1> HIDE DEF erased
<1> QED BY <1>2, <1>3, <1>4 DEF WriteFlash, old

(* A chunk within its partition leaves the other one alone.                 *)
LEMMA OtherIsKept ==
  ASSUME NEW s \in SlotType, NEW d \in DevType, NEW offset \in Nat,
         offset + s.buffLen <= FwSize,
         NEW x \in 0..(FwSize - 1), NEW p \in {0, 1}, p # FirmwareNext(d)
  PROVE  NewCells(s, d, offset)[PartPos(p) + x] = d.flash.cells[PartPos(p) + x]
<1> DEFINE next    == FirmwareNext(d)
           address == PartPos(next) + offset
           y       == PartPos(p) + x
           n       == s.buffLen
<1>1. next \in {0, 1} /\ next # p /\ n \in Nat /\ offset + n <= FwSize
  BY NextIsOther DEF SlotType
<1> HIDE DEF n, next
<1>2. y \in 0..(FlashLen - 1)
  BY Places
<1>3. y \notin address .. (address + n - 1) /\ y \notin address .. (address + SectorLen - 1)
  <2>1. CASE next = 0
    BY <1>1, <2>1, Places
  <2>2. CASE next = 1
    BY <1>1, <2>2, Places
  <2> QED BY <1>1, <2>1, <2>2
<1> QED BY <1>2, <1>3, NewCellsAre DEF n, next

LEMMA UploadDev ==
  ASSUME NEW d \in DevType, NEW x \in [0..(FlashLen - 1) -> CellValues]
  PROVE  LET e == [d EXCEPT !.flash.cells = x]
         IN /\ e \in DevType /\ e.files = d.files /\ e.junk = d.junk /\ e.wifi = d.wifi
            /\ e.restart = d.restart
            /\ e.flash.running = d.flash.running
            /\ e.flash.cells = x
<1> DEFINE fl == [d.flash EXCEPT !.cells = x]
           e  == [d EXCEPT !.flash = fl]
<1>1. [d EXCEPT !.flash.cells = x] = e
  OBVIOUS
<1>4. fl \in FlashType /\ fl.running = d.flash.running /\ fl.cells = x
  BY DevFields DEF FlashType
<1>5. e \in DevType /\ e.flash = fl /\ e.files = d.files /\ e.junk = d.junk /\ e.wifi = d.wifi
      /\ e.restart = d.restart
  <2> HIDE DEF fl
  <2> QED BY <1>4 DEF DevType
<1> QED BY <1>1, <1>4, <1>5

LEMMA ChunkCall ==
  ASSUME NEW s \in SlotType, NEW d \in DevType, s.req \in Requests, NEW offset \in Nat
  PROVE  LET r == UploadChunk(s, d, offset)
         IN /\ Typed(r) /\ r.dev.files = d.files
            /\ r.dev.flash.running = d.flash.running
            /\ r.dev.flash.cells = NewCells(s, d, offset)
            /\ r.dev.wifi = d.wifi
            /\ r.priv = s.priv /\ r.data = s.data
            /\ r.ret = (IF s.received = s.len THEN "DONE" ELSE "MORE")
            /\ r.out = IF s.received = s.len THEN Status(200) ELSE <<>>
<1> DEFINE e == [d EXCEPT !.flash.cells = NewCells(s, d, offset)]
<1>1. /\ e \in DevType /\ e.files = d.files /\ e.wifi = d.wifi
      /\ e.flash.running = d.flash.running /\ e.flash.cells = NewCells(s, d, offset)
  BY NewCellsType, UploadDev
<1>2. UploadChunk(s, d, offset) = IF s.received = s.len
       THEN Result("DONE", s, Status(200), e)
       ELSE Result("MORE", s, <<>>, e)
  BY DEF UploadChunk, NewCells
<1> HIDE DEF e
<1> QED BY <1>1, <1>2, ResultIs, ResultTyped

LEMMA ChunkCalls ==
  ASSUME NEW s \in SlotType, NEW d \in DevType, s.req \in Requests, NEW offset \in Nat
  PROVE  LET r == UploadChunk(s, d, offset)
         IN /\ Typed(r) /\ r.dev.files = d.files /\ r.dev.wifi = d.wifi
            /\ r.dev.flash.running = d.flash.running
            /\ r.ret \in {"DONE", "MORE"}
            /\ offset + s.buffLen <= FwSize => SameRunning(r.dev, d)
<1> DEFINE r == UploadChunk(s, d, offset)
<1>1. /\ Typed(r) /\ r.dev.files = d.files /\ r.dev.wifi = d.wifi
      /\ r.dev.flash.running = d.flash.running
      /\ r.dev.flash.cells = NewCells(s, d, offset)
      /\ r.ret = (IF s.received = s.len THEN "DONE" ELSE "MORE")
  BY ChunkCall
<1> HIDE DEF r
<1>2. d.flash.running \in {0, 1} /\ d.flash.running # FirmwareNext(d)
  BY NextIsOther
<1>3. offset + s.buffLen <= FwSize => SameRunning(r.dev, d)
  BY <1>1, <1>2, OtherIsKept DEF SameRunning, Partition
<1> QED BY <1>1, <1>3 DEF r

LEMMA SameKeeps ==
  ASSUME NEW s, NEW d1, NEW d, SameFlash(d1, d)
  PROVE  KeepsRunning(s, d1, d)
BY DEF SameFlash, KeepsRunning, SameRunning

LEMMA UploadCall ==
  ASSUME NEW s, NEW d \in DevType, CanCall("cgiUploadFirmware", s),
         s.conn # NULL => s.received - s.buffLen >= 0
  PROVE  /\ Called("cgiUploadFirmware", s, d, UploadFirmware(s, d))
         /\ KeepsRunning(s, UploadFirmware(s, d).dev, d)
         /\ UploadFirmware(s, d).ret # "NOTFOUND"
         /\ UploadFirmware(s, d).dev.wifi = d.wifi
         /\ s.conn = NULL => UploadFirmware(s, d).dev = d
<1> DEFINE offset == s.received - s.buffLen
           s1     == [s EXCEPT !.priv = IF offset = 0 THEN NULL ELSE @]
           s2     == [s1 EXCEPT !.priv = "error"]
<1>0. s \in SlotType
  BY DEF CanCall
<1>1. s1 \in SlotType /\ s1.received = s.received /\ s1.buffLen = s.buffLen /\ s1.req = s.req
      /\ s1.len = s.len
  BY <1>0 DEF SlotType
<1>2. s2 \in SlotType
  <2> HIDE DEF s1
  <2> QED BY <1>1, SlotFields
<1> HIDE DEF s2
<1>3. \/ /\ s.conn = NULL
         /\ UploadFirmware(s, d) = Result("DONE", s, <<>>, d)
      \/ s.conn # NULL /\ UploadFirmware(s, d) = Result("DONE", s1, <<>>, d)
      \/ s.conn # NULL /\ \E o : UploadFirmware(s, d) = Result("DONE", s2, o, d)
      \/ /\ s.conn # NULL /\ UploadFirmware(s, d) = UploadChunk(s1, d, offset)
         /\ UploadError(s1, offset) = NULL
  <2> HIDE DEF s1
  <2> QED BY DEF UploadFirmware, s1, s2
<1>4. "cgiUploadFirmware" \notin FileHandlers
  BY DEF FileHandlers, TplCallbacks
<1>5. KeepsRunning(s, d, d)
  BY SameKeeps DEF SameFlash
<1> HIDE DEF s1
<1>6. CASE /\ s.conn # NULL /\ UploadFirmware(s, d) = UploadChunk(s1, d, offset)
           /\ UploadError(s1, offset) = NULL
  <2>1. offset \in Nat /\ s1.req \in Requests
    BY <1>6, <1>0, <1>1 DEF CanCall, SlotType
  <2>2. offset + s1.buffLen = s.received
    BY <1>0, <1>1 DEF SlotType
  <2> HIDE DEF offset
  <2>3. LET r == UploadChunk(s1, d, offset)
        IN /\ Typed(r) /\ r.dev.files = d.files /\ r.dev.wifi = d.wifi
           /\ r.dev.flash.running = d.flash.running
           /\ r.ret \in {"DONE", "MORE"}
           /\ offset + s1.buffLen <= FwSize => SameRunning(r.dev, d)
    BY <1>1, <2>1, ChunkCalls
  <2>4. Fits(s) => s.received <= FwSize
    <3>1. ~(s1.len > FwSize)
      BY <1>6, CgiFlashAssumption DEF UploadError
    <3>2. s.len <= FwSize
      BY <1>0, <1>1, <3>1, CgiFlashAssumption DEF SlotType
    <3> QED BY <3>2 DEF Fits
  <2>5. KeepsRunning(s, UploadFirmware(s, d).dev, d)
    BY <1>6, <2>2, <2>3, <2>4 DEF KeepsRunning
  <2> QED BY <1>6, <1>4, <2>3, <2>5 DEF Called, TplCallbacks, FileHandlers
<1>7. ASSUME NEW t \in SlotType, NEW o, UploadFirmware(s, d) = Result("DONE", t, o, d)
      PROVE  /\ Called("cgiUploadFirmware", s, d, UploadFirmware(s, d))
             /\ KeepsRunning(s, UploadFirmware(s, d).dev, d)
             /\ UploadFirmware(s, d).ret # "NOTFOUND"
             /\ UploadFirmware(s, d).dev = d
  <2>1. Called("cgiUploadFirmware", s, d, Result("DONE", t, o, d))
    BY <1>4, PlainCall
  <2> QED BY <1>5, <1>7, <2>1, ResultIs
<1> QED BY <1>0, <1>1, <1>2, <1>3, <1>6, <1>7

(* The pages of the image.  The loop over a block of a template: its state  *)
(* has a token or none, and a device whose hit counter at most has changed. *)
TokenType == {NULL} \cup Seq(Nat)

SameButHits(d1, d) ==
  d1 \in DevType /\ d1.files = d.files /\ d1.flash = d.flash /\ d1.wifi = d.wifi

IsTplLoop(f, buff, token, d, callback, k) ==
  f = [n \in 0..k |->
         IF n = 0 THEN [token |-> token, text |-> <<>>, out |-> <<>>, dev |-> d]
         ELSE TplStep(f[n - 1], buff[n], callback)]

LEMMA TplLoopExists ==
  ASSUME NEW buff, NEW token, NEW d, NEW callback, NEW N \in Nat
  PROVE  \E f : IsTplLoop(f, buff, token, d, callback, N)
<1> DEFINE Bad == {k \in Nat : ~\E f : IsTplLoop(f, buff, token, d, callback, k)}
<1> SUFFICES ASSUME Bad # {} PROVE FALSE
  OBVIOUS
<1>1. PICK k \in Bad : \A j \in Bad : k <= j
  BY LeastNumber
<1>2. CASE k = 0
  <2> DEFINE g == [n \in 0..0 |-> [token |-> token, text |-> <<>>, out |-> <<>>, dev |-> d]]
  <2>1. IsTplLoop(g, buff, token, d, callback, k)
    BY <1>2 DEF IsTplLoop
  <2> QED BY <2>1
<1>3. CASE k # 0
  <2>1. k - 1 \in Nat /\ k - 1 \notin Bad
    BY <1>1, <1>3
  <2>2. PICK f : IsTplLoop(f, buff, token, d, callback, k - 1)
    BY <2>1
  <2> DEFINE g == [n \in 0..k |-> IF n < k THEN f[n] ELSE TplStep(f[n - 1], buff[n], callback)]
  <2>3. IsTplLoop(g, buff, token, d, callback, k)
    BY <2>2, <1>3 DEF IsTplLoop
  <2> QED BY <2>3
<1> QED BY <1>2, <1>3

(* One character.                                                           *)
TplState(st, d) == /\ st = [token |-> st.token, text |-> st.text, out |-> st.out, dev |-> st.dev]
                   /\ st.token \in TokenType /\ SameButHits(st.dev, d)

LEMMA TplValueKeeps ==
  ASSUME NEW callback \in TplCallbacks, NEW token, NEW d \in DevType
  PROVE  SameButHits(TplValue(callback, token, d).dev, d)
<1>1. [d EXCEPT !.hits = @ + 1] = [d EXCEPT !.hits = d.hits + 1]
  BY DEF DevType
<1>2. d.hits + 1 \in Nat
  BY DEF DevType
<1>3. SameButHits([d EXCEPT !.hits = d.hits + 1], d) /\ SameButHits(d, d)
  BY <1>2, DevFields DEF SameButHits
<1>4. TplValue(callback, token, d).dev \in {d, [d EXCEPT !.hits = @ + 1]}
  BY DEF TplValue, TplLed, TplCounter, TplWlan, Text, TplCallbacks
<1> QED BY <1>1, <1>3, <1>4

LEMMA TplStepKeeps ==
  ASSUME NEW callback \in TplCallbacks, NEW st, NEW d \in DevType, TplState(st, d), NEW c \in Nat
  PROVE  TplState(TplStep(st, c, callback), d)
<1>1. st.dev \in DevType /\ st.token \in TokenType /\ SameButHits(st.dev, d)
  BY DEF TplState, SameButHits
<1>2. SameButHits(TplValue(callback, st.token, st.dev).dev, d)
  BY <1>1, TplValueKeeps DEF SameButHits
<1> DEFINE v   == TplValue(callback, st.token, st.dev)
           tok == IF Len(st.token) < TokenMax THEN Append(st.token, c) ELSE st.token
<1>3. st.token # NULL => tok \in TokenType
  <2> DEFINE q == st.token
  <2> SUFFICES ASSUME q # NULL PROVE tok \in TokenType
    OBVIOUS
  <2>1. q \in Seq(Nat)
    BY <1>1 DEF TokenType
  <2> HIDE DEF q
  <2>2. Append(q, c) \in Seq(Nat)
    BY <2>1
  <2>3. tok = Append(q, c) \/ tok = q
    BY DEF q
  <2> HIDE DEF tok
  <2> QED BY <2>1, <2>2, <2>3 DEF TokenType
<1>4. <<>> \in TokenType /\ NULL \in TokenType
  BY DEF TokenType
<1> HIDE DEF v, tok
<1>5. \/ \E o : TplStep(st, c, callback) = [st EXCEPT !.out = o, !.text = <<>>, !.token = <<>>]
      \/ \E t : TplStep(st, c, callback) = [st EXCEPT !.text = t]
      \/ st.token # NULL /\ TplStep(st, c, callback) = [st EXCEPT !.token = tok]
      \/ \E o : TplStep(st, c, callback) = [st EXCEPT !.out = o, !.token = NULL]
      \/ \E o : TplStep(st, c, callback) = [st EXCEPT !.out = o, !.dev = v.dev, !.token = NULL]
  <2>1. CASE st.token = NULL /\ c = Percent
    BY <2>1 DEF TplStep
  <2>2. CASE st.token = NULL /\ c # Percent
    BY <2>2 DEF TplStep
  <2>3. CASE st.token # NULL /\ c # Percent
    <3>1. TplStep(st, c, callback)
            = [st EXCEPT !.token = IF Len(@) < TokenMax THEN Append(@, c) ELSE @]
      BY <2>3 DEF TplStep
    <3> QED BY <2>3, <3>1 DEF tok, TplState
  <2>4. CASE st.token # NULL /\ c = Percent /\ st.token = <<>>
    BY <2>4 DEF TplStep
  <2>5. CASE st.token # NULL /\ c = Percent /\ st.token # <<>>
    BY <2>5 DEF TplStep, v
  <2> QED BY <2>1, <2>2, <2>3, <2>4, <2>5
<1>6. SameButHits(v.dev, d)
  BY <1>2 DEF v
<1>7. st = [token |-> st.token, text |-> st.text, out |-> st.out, dev |-> st.dev]
  BY DEF TplState
<1> QED BY <1>1, <1>3, <1>4, <1>5, <1>6, <1>7 DEF TplState

LEMMA TplBlockKeeps ==
  ASSUME NEW callback \in TplCallbacks, NEW buff \in Seq(Nat), NEW token \in TokenType,
         NEW d \in DevType
  PROVE  LET st == TplBlock(buff, token, d, callback)
         IN st.token \in TokenType /\ SameButHits(st.dev, d)
<1> DEFINE upto == CHOOSE f : IsTplLoop(f, buff, token, d, callback, Len(buff))
           st   == upto[Len(buff)]
<1>0. Len(buff) \in Nat
  OBVIOUS
<1>1. TplBlock(buff, token, d, callback) = [st EXCEPT !.out = Send(st.out, Chars(st.text))]
  BY DEF TplBlock, IsTplLoop
<1>2. \E f : IsTplLoop(f, buff, token, d, callback, Len(buff))
  BY <1>0, TplLoopExists
<1>3. IsTplLoop(upto, buff, token, d, callback, Len(buff))
  BY <1>2
<1> HIDE DEF upto
<1>4. TplState(upto[0], d)
  <2>1. upto[0] = [token |-> token, text |-> <<>>, out |-> <<>>, dev |-> d]
    BY <1>0, <1>3 DEF IsTplLoop
  <2>2. SameButHits(d, d)
    BY DEF SameButHits
  <2> QED BY <2>1, <2>2 DEF TplState
<1>5. ASSUME NEW n \in 1..Len(buff), TplState(upto[n - 1], d)
      PROVE  TplState(upto[n], d)
  <2>1. upto[n] = TplStep(upto[n - 1], buff[n], callback)
    BY <1>0, <1>3 DEF IsTplLoop
  <2>2. buff[n] \in Nat
    OBVIOUS
  <2> QED BY <1>5, <2>1, <2>2, TplStepKeeps
<1>6. \A n \in 0..Len(buff) : TplState(upto[n], d)
  <2> DEFINE Bad == {n \in 0..Len(buff) : ~TplState(upto[n], d)}
  <2> SUFFICES ASSUME Bad # {} PROVE FALSE
    OBVIOUS
  <2>1. PICK n \in Bad : \A m \in Bad : n <= m
    <3>1. Bad \subseteq Nat
      BY <1>0
    <3> HIDE DEF Bad
    <3> QED BY <3>1, LeastNumber
  <2>2. n # 0
    BY <1>4, <2>1
  <2>3. n \in 1..Len(buff) /\ n - 1 \in 0..Len(buff) /\ n - 1 \notin Bad
    BY <1>0, <2>1, <2>2
  <2> QED BY <1>5, <2>1, <2>3
<1>7. TplState(st, d)
  BY <1>0, <1>6
<1> HIDE DEF st
<1> QED BY <1>1, <1>7 DEF TplState

(* A block of a file.                                                       *)
LEMMA BlockType ==
  ASSUME NEW file, file.name \in DOMAIN Files, file.pos \in Nat
  PROVE  Block(file) \in Seq(Nat)
<1> DEFINE data == Files[file.name].data
           last == Min({file.pos + BlockLen, Len(data)})
<1>1. data \in Seq(Nat) /\ Len(data) \in Nat
  BY HttpdEspFsAssumption
<1>2. file.pos + BlockLen \in Nat
  BY HttpdEspFsAssumption
<1>3. last \in Nat /\ last <= Len(data)
  <2> DEFINE a == file.pos + BlockLen
             b == Len(data)
  <2>1. a \in Nat /\ b \in Nat
    BY <1>1, <1>2
  <2> HIDE DEF a, b
  <2>2. Min({a, b}) \in Nat /\ Min({a, b}) <= b
    BY <2>1, MinOfTwo
  <2> QED BY <2>2 DEF a, b
<1>4. Block(file) = SubSeq(data, file.pos + 1, last)
  BY DEF Block
<1> HIDE DEF data, last
<1> DEFINE first == file.pos + 1
<1>5. first \in Nat /\ first >= 1
  OBVIOUS
<1> HIDE DEF first
<1>6. \A i \in first..last : data[i] \in Nat
  BY <1>1, <1>3, <1>5
<1>7. SubSeq(data, first, last) \in Seq(Nat)
  BY <1>3, <1>5, <1>6, SubSeqProperties
<1> QED BY <1>4, <1>7 DEF first

LEMMA OpenedClosed ==
  ASSUME NEW d \in DevType
  PROVE  /\ Opened(d) \in DevType /\ Opened(d).files = d.files + 1 /\ Opened(d).flash = d.flash
         /\ Closed(d) \in DevType /\ Closed(d).files = d.files - 1 /\ Closed(d).flash = d.flash
BY DEF Opened, Closed, DevType

LEMMA FileCall ==
  ASSUME NEW s, NEW d \in DevType, CanCall("cgiEspFsHook", s)
  PROVE  Called("cgiEspFsHook", s, d, EspFsHook(s, d))
<1>1. s \in SlotType /\ s.data \in {NULL} \cup EspFsFile
  BY DEF CanCall
<1>2. /\ Opened(d) \in DevType /\ Opened(d).files = d.files + 1 /\ Opened(d).flash = d.flash
      /\ Closed(d) \in DevType /\ Closed(d).files = d.files - 1 /\ Closed(d).flash = d.flash
  BY OpenedClosed
<1>3. "cgiEspFsHook" \in FileHandlers /\ "cgiEspFsHook" \notin TplCallbacks
      /\ "cgiEspFsHook" # "cgiUploadFirmware"
  BY DEF FileHandlers, TplCallbacks
<1>4. d.files \in Int
  BY DevFields
<1>5. CASE s.conn = NULL
  <2>1. EspFsHook(s, d) = Result("DONE", s, <<>>, Closed(d))
    BY <1>5 DEF EspFsHook
  <2>2. s.data # NULL
    BY <1>3, <1>5 DEF CanCall
  <2> QED BY <1>1, <1>2, <1>3, <1>4, <2>1, <2>2, ResultIs, ResultTyped
          DEF Called, SameFlash, Opening, Holding
<1>6. CASE s.conn # NULL /\ s.data = NULL
  <2> DEFINE t == [s EXCEPT !.data = [name |-> s.req.url, pos |-> 0]]
  <2>1. \/ EspFsHook(s, d) = Result("NOTFOUND", s, <<>>, d)
        \/ EspFsHook(s, d) = Result("DONE", s, Status(501), d)
        \/ /\ EspFsHook(s, d) = Result("MORE", t, Status(200), Opened(d))
           /\ s.req.url \in DOMAIN Files
    BY <1>6 DEF EspFsHook, EspFsOpenFile
  <2>2. s.req.url \in DOMAIN Files => t \in SlotType /\ t.data \in EspFsFile
    <3>1. s.req.url \in DOMAIN Files => [name |-> s.req.url, pos |-> 0] \in EspFsFile
      BY DEF EspFsFile
    <3> QED BY <1>1, <3>1, SlotFields DEF DataType
  <2> HIDE DEF t
  <2> QED BY <1>1, <1>2, <1>3, <1>4, <1>6, <2>1, <2>2, ResultIs, ResultTyped
          DEF Called, SameFlash, Opening, Holding
<1>7. CASE s.conn # NULL /\ s.data # NULL
  <2> DEFINE f == [s.data EXCEPT !.pos = @ + BlockLen]
             t == [s EXCEPT !.data.pos = @ + BlockLen]
  <2>1. f \in EspFsFile
    BY <1>1, <1>7, HttpdEspFsAssumption DEF EspFsFile
  <2>2. t = [s EXCEPT !.data = f]
    OBVIOUS
  <2> HIDE DEF f
  <2>3. t \in SlotType /\ t.data \in EspFsFile
    <3>1. s \in SlotType /\ f \in DataType
      BY <1>1, <2>1 DEF DataType
    <3>2. t \in SlotType /\ t.data = f
      BY <2>2, <3>1, SlotFields
    <3> QED BY <2>1, <3>2
  <2>4. \/ \E o : EspFsHook(s, d) = Result("DONE", s, o, Closed(d))
        \/ \E o : EspFsHook(s, d) = Result("MORE", t, o, d)
    BY <1>7 DEF EspFsHook
  <2> HIDE DEF t
  <2> QED BY <1>1, <1>2, <1>3, <1>4, <1>7, <2>3, <2>4, ResultIs, ResultTyped
          DEF Called, SameFlash, Opening, Holding
<1> QED BY <1>5, <1>6, <1>7

LEMMA MovedOn ==
  ASSUME NEW x \in TplData, NEW tok \in TokenType
  PROVE  [x EXCEPT !.pos = @ + BlockLen, !.token = tok] \in TplData
<1>1. x.pos + BlockLen \in Nat
  BY HttpdEspFsAssumption DEF TplData
<1>2. [x EXCEPT !.pos = x.pos + BlockLen] \in TplData
  BY <1>1 DEF TplData
<1> DEFINE y == [x EXCEPT !.pos = x.pos + BlockLen]
<1>3. [x EXCEPT !.pos = @ + BlockLen, !.token = tok] = [y EXCEPT !.token = tok]
  BY DEF TplData
<1> HIDE DEF y
<1>4. y \in TplData
  BY <1>2 DEF y
<1>5. [y EXCEPT !.token = tok] \in TplData
  BY <1>4 DEF TplData, TokenType
<1> QED BY <1>3, <1>5

LEMMA TemplateCall ==
  ASSUME NEW name \in TplCallbacks, NEW s, NEW d \in DevType, CanCall(name, s)
  PROVE  Called(name, s, d, EspFsTemplate(s, d, name))
<1>1. s \in SlotType /\ s.data \in {NULL} \cup TplData
  BY DEF CanCall
<1>2. /\ Opened(d) \in DevType /\ Opened(d).files = d.files + 1 /\ Opened(d).flash = d.flash
      /\ \A e \in DevType : Closed(e) \in DevType /\ Closed(e).files = e.files - 1
                            /\ Closed(e).flash = e.flash
  BY OpenedClosed
<1>3. name \in FileHandlers /\ name # "cgiEspFsHook" /\ name # "cgiUploadFirmware"
  BY DEF FileHandlers, TplCallbacks
<1>4. d.files \in Int
  BY DevFields
<1>5. CASE s.conn = NULL
  <2>1. EspFsTemplate(s, d, name) = Result("DONE", s, <<>>, Closed(d))
    BY <1>5 DEF EspFsTemplate
  <2>2. s.data # NULL
    BY <1>3, <1>5 DEF CanCall
  <2> QED BY <1>1, <1>2, <1>3, <1>4, <2>1, <2>2, ResultIs, ResultTyped
          DEF Called, SameFlash, Opening, Holding
<1>6. CASE s.conn # NULL /\ s.data = NULL
  <2> DEFINE f == [name |-> s.req.url, pos |-> 0, token |-> NULL]
             t == [s EXCEPT !.data = f]
  <2>1. \/ EspFsTemplate(s, d, name) = Result("NOTFOUND", s, <<>>, d)
        \/ /\ EspFsTemplate(s, d, name) = Result("MORE", t, Status(200), Opened(d))
           /\ s.req.url \in DOMAIN Files
    BY <1>6 DEF EspFsTemplate
  <2>2. s.req.url \in DOMAIN Files => t \in SlotType /\ t.data \in TplData
    <3>1. s.req.url \in DOMAIN Files => f \in TplData
      BY DEF TplData
    <3> HIDE DEF f
    <3> QED BY <1>1, <3>1, SlotFields DEF DataType
  <2> HIDE DEF t, f
  <2> QED BY <1>1, <1>2, <1>3, <1>4, <1>6, <2>1, <2>2, ResultIs, ResultTyped
          DEF Called, SameFlash, Opening, Holding
<1>7. CASE s.conn # NULL /\ s.data # NULL
  <2> DEFINE buff == Block(s.data)
             st == TplBlock(buff, s.data.token, d, name)
             f  == [s.data EXCEPT !.pos = @ + BlockLen, !.token = st.token]
             t  == [s EXCEPT !.data.pos = @ + BlockLen, !.data.token = st.token]
  <2>1. s.data \in TplData
    BY <1>1, <1>7
  <2>2. buff \in Seq(Nat) /\ s.data.token \in TokenType
    BY <2>1, BlockType DEF TplData, TokenType
  <2>3. st.token \in TokenType /\ SameButHits(st.dev, d)
    <3> HIDE DEF buff
    <3> QED BY <2>2, TplBlockKeeps
  <2>4. t = [s EXCEPT !.data = f]
    OBVIOUS
  <2>5. \/ EspFsTemplate(s, d, name) = Result("DONE", s, st.out, Closed(st.dev))
        \/ EspFsTemplate(s, d, name) = Result("MORE", t, st.out, st.dev)
    BY <1>7 DEF EspFsTemplate
  <2> HIDE DEF st, buff
  <2>6. f \in TplData
    BY <2>1, <2>3, MovedOn
  <2> HIDE DEF f
  <2>7. t \in SlotType /\ t.data \in TplData
    <3>1. f \in DataType
      BY <2>6 DEF DataType
    <3> HIDE DEF t
    <3> QED BY <1>1, <2>4, <2>6, <3>1, SlotFields
  <2> HIDE DEF t
  <2>8. /\ st.dev \in DevType /\ st.dev.files = d.files /\ st.dev.flash = d.flash
        /\ Closed(st.dev) \in DevType /\ Closed(st.dev).files = d.files - 1
        /\ Closed(st.dev).flash = d.flash
    BY <1>2, <2>3 DEF SameButHits
  <2> QED BY <1>1, <1>3, <1>4, <1>7, <2>5, <2>7, <2>8, ResultIs, ResultTyped
          DEF Called, SameFlash, Opening, Holding
<1> QED BY <1>5, <1>6, <1>7

(* Any handler.                                                             *)
LEMMA NameCases ==
  ASSUME NEW name \in CgiNames
  PROVE  \/ name = "cgiRedirectApClientToHostname" \/ name = "cgiRedirect"
         \/ name = "cgiReadFlash" \/ name \in TplCallbacks \/ name = "cgiLed"
         \/ name = "cgiGetFirmwareNext" \/ name = "cgiUploadFirmware"
         \/ name = "cgiRebootFirmware" \/ name = "cgiWiFiScan" \/ name = "cgiWiFiConnect"
         \/ name = "cgiWiFiConnStatus" \/ name = "cgiWiFiSetMode" \/ name = "cgiEspFsHook"
BY Names DEF TplCallbacks

LEMMA CgiIs ==
  ASSUME NEW s, NEW d
  PROVE  /\ Cgi("cgiRedirectApClientToHostname", s, d) = CgiRedirectApClientToHostname(s, d)
         /\ Cgi("cgiRedirect", s, d) = CgiRedirect(s, d)
         /\ Cgi("cgiReadFlash", s, d) = ReadFlash(s, d)
         /\ \A name \in TplCallbacks : Cgi(name, s, d) = EspFsTemplate(s, d, name)
         /\ Cgi("cgiLed", s, d) = CgiLed(s, d)
         /\ Cgi("cgiGetFirmwareNext", s, d) = GetFirmwareNext(s, d)
         /\ Cgi("cgiUploadFirmware", s, d) = UploadFirmware(s, d)
         /\ Cgi("cgiRebootFirmware", s, d) = RebootFirmware(s, d)
         /\ Cgi("cgiWiFiScan", s, d) = WiFiScan(s, d)
         /\ Cgi("cgiWiFiConnect", s, d) = WiFiConnect(s, d)
         /\ Cgi("cgiWiFiConnStatus", s, d) = WiFiConnStatus(s, d)
         /\ Cgi("cgiWiFiSetMode", s, d) = WiFiSetMode(s, d)
         /\ Cgi("cgiEspFsHook", s, d) = EspFsHook(s, d)
BY DEF Cgi, TplCallbacks

(* What is asked of the slot of an upload: it has received what it handles. *)
Handed(name, s) == name = "cgiUploadFirmware" /\ s.conn # NULL => s.received - s.buffLen >= 0

LEMMA CgiCalled ==
  ASSUME NEW name \in CgiNames, NEW s, NEW d \in DevType, CanCall(name, s), Handed(name, s)
  PROVE  Called(name, s, d, Cgi(name, s, d)) /\ KeepsRunning(s, Cgi(name, s, d).dev, d)
<1>1. Called(name, s, d, Cgi(name, s, d))
  <2>1. CASE name \in TplCallbacks
    <3>1. Cgi(name, s, d) = EspFsTemplate(s, d, name)
      BY <2>1, CgiIs
    <3>2. Called(name, s, d, EspFsTemplate(s, d, name))
      BY <2>1, TemplateCall
    <3> QED BY <3>1, <3>2
  <2>2. CASE name = "cgiUploadFirmware"
    BY <2>2, CgiIs, UploadCall DEF Handed
  <2>3. CASE name = "cgiEspFsHook"
    BY <2>3, CgiIs, FileCall
  <2>4. CASE name \in {"cgiRedirectApClientToHostname", "cgiRedirect", "cgiReadFlash", "cgiLed"}
    BY <2>4, CgiIs, HostCall, RedirectCall, ReadCall, LedCall
  <2>5. CASE name \in {"cgiGetFirmwareNext", "cgiRebootFirmware", "cgiWiFiScan",
                       "cgiWiFiConnect", "cgiWiFiConnStatus", "cgiWiFiSetMode"}
    BY <2>5, CgiIs, NextCall, RebootCall, ScanCall, ConnectCall, StatusCall, ModeCall
  <2> QED BY <2>1, <2>2, <2>3, <2>4, <2>5, NameCases
<1>2. CASE name = "cgiUploadFirmware"
  BY <1>1, <1>2, CgiIs, UploadCall DEF Handed
<1>3. CASE name # "cgiUploadFirmware"
  BY <1>1, <1>3, SameKeeps DEF Called
<1> QED BY <1>1, <1>2, <1>3

(* What a handler does to the scan and to the list: the entries stay, and   *)
(* only the end of a list starts a scan.                                    *)
SameScan(e, d) ==
  e.wifi.apData = d.wifi.apData /\ e.wifi.scanInProgress = d.wifi.scanInProgress

Scanning(name, s, e, d) ==
  /\ e.wifi.apData = d.wifi.apData
  /\ SameScan(e, d) \/ (name = "cgiWiFiScan" /\ s.data # NULL)

LEMMA SameWifi ==
  ASSUME NEW d, NEW e, e.wifi = d.wifi, NEW name, NEW s
  PROVE  Scanning(name, s, e, d)
BY DEF Scanning, SameScan

LEMMA FilesWifi ==
  ASSUME NEW d \in DevType
  PROVE  Opened(d).wifi = d.wifi /\ Closed(d).wifi = d.wifi
BY DEF Opened, Closed

LEMMA PlainScan ==
  ASSUME NEW s, NEW d \in DevType,
         NEW name \in {"cgiRedirectApClientToHostname", "cgiRedirect", "cgiReadFlash", "cgiLed",
                       "cgiGetFirmwareNext", "cgiRebootFirmware"}
  PROVE  Cgi(name, s, d).dev.wifi = d.wifi
<1>1. CASE name = "cgiRedirectApClientToHostname"
  <2>1. CgiRedirectApClientToHostname(s, d).dev = d
    BY ResultIs DEF CgiRedirectApClientToHostname, CgiRedirectToHostname
  <2> QED BY <1>1, <2>1, CgiIs
<1>2. CASE name = "cgiRedirect"
  <2>1. CgiRedirect(s, d).dev = d
    BY ResultIs DEF CgiRedirect
  <2> QED BY <1>2, <2>1, CgiIs
<1>3. CASE name = "cgiReadFlash"
  <2>1. \/ \E t, o : ReadFlash(s, d) = Result("DONE", t, o, d)
        \/ \E t, o : ReadFlash(s, d) = Result("MORE", t, o, d)
    BY DEF ReadFlash
  <2>2. ReadFlash(s, d).dev = d
    BY <2>1, ResultIs
  <2> QED BY <1>3, <2>2, CgiIs
<1>4. CASE name = "cgiLed"
  <2>1. CgiLed(s, d).dev = d
    BY ResultIs DEF CgiLed
  <2> QED BY <1>4, <2>1, CgiIs
<1>5. CASE name = "cgiGetFirmwareNext"
  <2>1. GetFirmwareNext(s, d).dev = d
    BY ResultIs DEF GetFirmwareNext
  <2> QED BY <1>5, <2>1, CgiIs
<1>6. CASE name = "cgiRebootFirmware"
  <2> DEFINE e == [d EXCEPT !.restart = "upgrade"]
  <2>1. e.wifi = d.wifi
    BY DEF DevType
  <2>2. \/ \E o : RebootFirmware(s, d) = Result("DONE", s, o, d)
        \/ \E o : RebootFirmware(s, d) = Result("DONE", s, o, e)
    BY DEF RebootFirmware
  <2> HIDE DEF e
  <2>3. RebootFirmware(s, d).dev.wifi = d.wifi
    BY <2>1, <2>2, ResultIs
  <2> QED BY <1>6, <2>3, CgiIs
<1> QED BY <1>1, <1>2, <1>3, <1>4, <1>5, <1>6

LEMMA FileScan ==
  ASSUME NEW s, NEW d \in DevType, CanCall("cgiEspFsHook", s)
  PROVE  EspFsHook(s, d).dev.wifi = d.wifi
<1>1. EspFsHook(s, d).dev \in {d, Opened(d), Closed(d)}
  BY ResultIs DEF EspFsHook, EspFsOpenFile
<1> QED BY <1>1, FilesWifi

LEMMA TemplateScan ==
  ASSUME NEW name \in TplCallbacks, NEW s, NEW d \in DevType, CanCall(name, s)
  PROVE  EspFsTemplate(s, d, name).dev.wifi = d.wifi
<1>1. CASE s.conn = NULL \/ s.data = NULL
  <2>1. EspFsTemplate(s, d, name).dev \in {d, Opened(d), Closed(d)}
    BY <1>1, ResultIs DEF EspFsTemplate
  <2> QED BY <2>1, FilesWifi
<1>2. CASE s.conn # NULL /\ s.data # NULL
  <2> DEFINE buff == Block(s.data)
             st == TplBlock(buff, s.data.token, d, name)
  <2>1. s.data \in TplData
    BY <1>2 DEF CanCall
  <2>2. buff \in Seq(Nat) /\ s.data.token \in TokenType
    BY <2>1, BlockType DEF TplData, TokenType
  <2>3. SameButHits(st.dev, d)
    <3> HIDE DEF buff
    <3> QED BY <2>2, TplBlockKeeps
  <2>4. \/ \E t : EspFsTemplate(s, d, name) = Result("DONE", t, st.out, Closed(st.dev))
        \/ \E t : EspFsTemplate(s, d, name) = Result("MORE", t, st.out, st.dev)
    BY <1>2 DEF EspFsTemplate
  <2> HIDE DEF st, buff
  <2>5. EspFsTemplate(s, d, name).dev \in {st.dev, Closed(st.dev)}
    BY <2>4, ResultIs
  <2>6. st.dev.wifi = d.wifi /\ Closed(st.dev).wifi = d.wifi
    BY <2>3, FilesWifi DEF SameButHits
  <2> QED BY <2>5, <2>6
<1> QED BY <1>1, <1>2

LEMMA PagesScan ==
  ASSUME NEW s, NEW d \in DevType, NEW name \in {"cgiWiFiConnect", "cgiWiFiConnStatus", "cgiWiFiSetMode"}
  PROVE  SameScan(Cgi(name, s, d).dev, d)
<1>0. SameScan(d, d)
  BY DEF SameScan
<1>1. CASE name = "cgiWiFiConnect"
  <2> DEFINE e == [d EXCEPT !.wifi.reassTimer = TRUE]
  <2>1. SameScan(e, d)
    BY DEF SameScan, DevType, WifiType
  <2>2. WiFiConnect(s, d).dev \in {d, e}
    BY ResultIs DEF WiFiConnect
  <2> HIDE DEF e
  <2> QED BY <1>0, <1>1, <2>1, <2>2, CgiIs
<1>2. CASE name = "cgiWiFiConnStatus"
  <2> DEFINE x == d.wifi.resetTimer \/ ConnStatusText(d.wifi) = "success"
             e == [d EXCEPT !.wifi.resetTimer = x]
  <2>1. \E o : WiFiConnStatus(s, d) = Result("DONE", s, o, e)
    BY DEF WiFiConnStatus
  <2> HIDE DEF x
  <2>2. SameScan(e, d)
    BY DEF SameScan, DevType, WifiType
  <2> HIDE DEF e
  <2>3. WiFiConnStatus(s, d).dev = e
    BY <2>1, ResultIs
  <2> QED BY <1>2, <2>2, <2>3, CgiIs
<1>3. CASE name = "cgiWiFiSetMode"
  <2> DEFINE x == IF d.restart = "upgrade" THEN d.restart ELSE "plain"
             e == [d EXCEPT !.wifi.opmode = s.req.mode, !.restart = x]
  <2>1. \/ \E o : WiFiSetMode(s, d) = Result("DONE", s, o, d)
        \/ \E o : WiFiSetMode(s, d) = Result("DONE", s, o, e)
    BY DEF WiFiSetMode
  <2> HIDE DEF x
  <2>2. SameScan(e, d)
    BY DEF SameScan, DevType, WifiType
  <2> HIDE DEF e
  <2>3. WiFiSetMode(s, d).dev \in {d, e}
    BY <2>1, ResultIs
  <2> QED BY <1>0, <1>3, <2>2, <2>3, CgiIs
<1> QED BY <1>1, <1>2, <1>3

(* The list itself.                                                         *)
LEMMA ScanStarts ==
  ASSUME NEW d \in DevType
  PROVE  /\ StartScan(d).wifi.apData = d.wifi.apData
         /\ StartScan(d).wifi.scanInProgress = TRUE
BY DEF StartScan, DevType, WifiType

LEMMA ListScan ==
  ASSUME NEW s \in SlotType, NEW d \in DevType
  PROVE  Scanning("cgiWiFiScan", s, WiFiScan(s, d).dev, d)
<1>1. StartScan(d).wifi.apData = d.wifi.apData
  BY ScanStarts
<1> DEFINE x == IF d.wifi.apData = NULL THEN 0 ELSE d.wifi.noAps
           e == [d EXCEPT !.wifi.noAps = x]
<1>2. \/ s.data # NULL /\ \E p : WiFiScan(s, d) = ScanEntry(s, d, p)
      \/ \E o : WiFiScan(s, d) = Result("DONE", s, o, d)
      \/ \E t, o : WiFiScan(s, d) = Result("MORE", t, o, e)
  BY DEF WiFiScan
<1> HIDE DEF x
<1>3. SameScan(e, d) /\ SameScan(d, d)
  BY DEF SameScan, DevType, WifiType
<1> HIDE DEF e
<1>4. ASSUME NEW p
      PROVE  ScanEntry(s, d, p).dev \in {d, StartScan(d)}
  BY ResultIs DEF ScanEntry
<1> QED BY <1>1, <1>2, <1>3, <1>4, ResultIs DEF Scanning, SameScan

LEMMA Scans ==
  ASSUME NEW name \in CgiNames, NEW s, NEW d \in DevType, CanCall(name, s), Handed(name, s)
  PROVE  Scanning(name, s, Cgi(name, s, d).dev, d)
<1>0. s \in SlotType
  BY DEF CanCall
<1>1. CASE name \in TplCallbacks
  <2>1. Cgi(name, s, d) = EspFsTemplate(s, d, name)
    BY <1>1, CgiIs
  <2> QED BY <1>1, <2>1, TemplateScan, SameWifi
<1>2. CASE name = "cgiUploadFirmware"
  <2>1. UploadFirmware(s, d).dev.wifi = d.wifi
    BY <1>2, UploadCall DEF Handed
  <2> QED BY <1>2, <2>1, CgiIs, SameWifi
<1>3. CASE name = "cgiEspFsHook"
  <2>1. EspFsHook(s, d).dev.wifi = d.wifi
    BY <1>3, FileScan
  <2> QED BY <1>3, <2>1, CgiIs, SameWifi
<1>4. CASE name = "cgiWiFiScan"
  BY <1>0, <1>4, CgiIs, ListScan
<1>5. CASE name \in {"cgiWiFiConnect", "cgiWiFiConnStatus", "cgiWiFiSetMode"}
  BY <1>5, PagesScan DEF Scanning, SameScan
<1>6. CASE name \in {"cgiRedirectApClientToHostname", "cgiRedirect", "cgiReadFlash", "cgiLed",
                     "cgiGetFirmwareNext", "cgiRebootFirmware"}
  BY <1>6, PlainScan, SameWifi
<1> QED BY <1>1, <1>2, <1>3, <1>4, <1>5, <1>6, NameCases

-----------------------------------------------------------------------------
(* A request goes to the first entry that takes it.                         *)

(* All of a slot but what handlers keep in it.                              *)
SameRest(t, s) ==
  /\ t.conn = s.conn /\ t.req = s.req /\ t.len = s.len /\ t.buffSize = s.buffSize
  /\ t.buffLen = s.buffLen /\ t.received = s.received /\ t.buff = s.buff

Files1(s) == IF s.cgi \in FileHandlers THEN 1 ELSE 0

LEMMA TriedIs ==
  ASSUME NEW s \in SlotType, NEW i \in 1..18, s.conn # NULL, s.req \in Requests,
         s.received - s.buffLen >= 0
  PROVE  /\ Tried(s, i) \in SlotType /\ SameRest(Tried(s, i), s)
         /\ Tried(s, i).data = NULL /\ Tried(s, i).cgi = BuiltInUrls[i][2]
         /\ Tried(s, i).priv = s.priv
         /\ BuiltInUrls[i][2] \in CgiNames
         /\ CanCall(BuiltInUrls[i][2], Tried(s, i)) /\ Handed(BuiltInUrls[i][2], Tried(s, i))
<1>1. BuiltInUrls[i][2] \in CgiNames
  BY Urls DEF CgiNames
<1> DEFINE name == BuiltInUrls[i][2]
<1> HIDE DEF name
<1>2. Tried(s, i) = [s EXCEPT !.data = NULL, !.cgi = name]
  BY DEF Tried, name
<1>3. name \in CgiNames
  BY <1>1 DEF name
<1>4. /\ Tried(s, i) \in SlotType /\ SameRest(Tried(s, i), s)
      /\ Tried(s, i).data = NULL /\ Tried(s, i).cgi = name /\ Tried(s, i).priv = s.priv
  BY <1>2, <1>3 DEF SlotType, SameRest
<1>5. CanCall(name, Tried(s, i)) /\ Handed(name, Tried(s, i))
  BY <1>4 DEF CanCall, Handed, SameRest
<1> QED BY <1>1, <1>4, <1>5 DEF name

LEMMA KeptIs ==
  ASSUME NEW s \in SlotType, NEW r, Typed(r)
  PROVE  /\ Kept(s, r) \in SlotType /\ SameRest(Kept(s, r), s)
         /\ Kept(s, r).data = r.data /\ Kept(s, r).priv = r.priv
         /\ Kept(s, r).cgi = IF r.ret = "MORE" THEN s.cgi ELSE NULL
<1>1. r.data \in DataType /\ r.priv \in {NULL, "error"}
  BY DEF Typed
<1> DEFINE t == [s EXCEPT !.data = r.data, !.priv = r.priv]
           k == [s EXCEPT !.data = r.data, !.priv = r.priv, !.cgi = NULL]
<1>2. Kept(s, r) = IF r.ret = "MORE" THEN t ELSE k
  BY DEF Kept
<1>3. t \in SlotType /\ SameRest(t, s) /\ t.data = r.data /\ t.priv = r.priv /\ t.cgi = s.cgi
  <2>1. t \in SlotType
    BY <1>1 DEF SlotType, DataType
  <2>2. SameRest(t, s)
    BY DEF SlotType, SameRest
  <2>3. t.data = r.data /\ t.priv = r.priv /\ t.cgi = s.cgi
    BY DEF SlotType
  <2> QED BY <2>1, <2>2, <2>3
<1>4. k \in SlotType /\ SameRest(k, s) /\ k.data = r.data /\ k.priv = r.priv /\ k.cgi = NULL
  <2>1. k \in SlotType
    BY <1>1 DEF SlotType, DataType
  <2>2. SameRest(k, s)
    BY DEF SlotType, SameRest
  <2>3. k.data = r.data /\ k.priv = r.priv /\ k.cgi = NULL
    BY DEF SlotType
  <2> QED BY <2>1, <2>2, <2>3
<1> HIDE DEF t, k
<1> QED BY <1>2, <1>3, <1>4

LEMMA NotNames ==
  NULL \notin CgiNames /\ NULL \notin EspFsFile /\ NULL \notin TplData /\ NULL \notin Conns
BY NullAssumption, EspHttpdAssumption

LEMMA HandlersAreNames ==
  TplCallbacks \subseteq CgiNames /\ FileHandlers \subseteq CgiNames
  /\ "cgiEspFsHook" \notin TplCallbacks
  /\ "cgiUploadFirmware" \notin FileHandlers /\ "cgiUploadFirmware" \in CgiNames
  /\ NULL \notin FileHandlers
BY Names, NotNames DEF TplCallbacks, FileHandlers

(* An entry that takes a request.                                           *)
LEMMA TakersAre ==
  ASSUME NEW s, NEW d, NEW i \in Takers(s, d)
  PROVE  /\ i \in 1..18 /\ BuiltInUrls[i][1] \in {"*", s.req.url}
         /\ Cgi(BuiltInUrls[i][2], Tried(s, i), d).ret # "NOTFOUND"
<1>1. i \in DOMAIN BuiltInUrls /\ BuiltInUrls[i][1] \in {"*", s.req.url}
      /\ Cgi(BuiltInUrls[i][2], Tried(s, i), d).ret # "NOTFOUND"
  BY DEF Takers
<1> QED BY <1>1, Urls

(* The slot, the files and the firmware after it.                           *)
LEMMA Processed ==
  ASSUME NEW s \in SlotType, NEW d \in DevType, s.conn # NULL, s.req \in Requests,
         s.received - s.buffLen >= 0, s.req.url = NULL => s.cgi = NULL
  PROVE  LET res == ProcessRequest(s, d)
         IN /\ res.slot \in SlotType /\ SameRest(res.slot, s) /\ FileState(res.slot)
            /\ res.dev \in DevType /\ KeepsRunning(s, res.dev, d)
            /\ res.dev.files = d.files + Files1(res.slot)
            /\ res.slot.cgi = "cgiUploadFirmware" => s.req.url = "/flash/upload"
            /\ s.req.url # "/flash/upload" => SameFlash(res.dev, d)
            /\ s.req.url = NULL => res.slot.cgi = NULL
<1>0. KeepsRunning(s, d, d) /\ SameFlash(d, d) /\ d.files + 0 = d.files
  <2>1. d.files \in Int
    BY DevFields
  <2>2. SameFlash(d, d)
    BY DEF SameFlash
  <2> QED BY <2>1, <2>2, SameKeeps
<1>3. CASE s.req.url = NULL
  <2>1. ProcessRequest(s, d) = [slot |-> s, out |-> <<>>, dev |-> d]
    BY <1>3 DEF ProcessRequest
  <2>2. s.cgi = NULL /\ SameRest(s, s)
    BY <1>3 DEF SameRest
  <2>3. FileState(s) /\ Files1(s) = 0 /\ s.cgi # "cgiUploadFirmware"
    BY <2>2, NotNames, HandlersAreNames DEF FileState, Files1, FileHandlers
  <2> QED BY <1>0, <2>1, <2>2, <2>3
<1>1. CASE s.req.url # NULL /\ Takers(s, d) = {}
  <2> DEFINE t == [s EXCEPT !.cgi = NULL, !.data = NULL]
  <2>1. ProcessRequest(s, d) = [slot |-> t, out |-> Status(404), dev |-> d]
    BY <1>1 DEF ProcessRequest
  <2>2. t \in SlotType /\ t.cgi = NULL /\ SameRest(t, s)
    BY DEF SlotType, SameRest
  <2>3. FileState(t) /\ Files1(t) = 0 /\ t.cgi # "cgiUploadFirmware"
    BY <2>2, NotNames, HandlersAreNames DEF FileState, Files1, FileHandlers
  <2> HIDE DEF t
  <2> QED BY <1>0, <2>1, <2>2, <2>3
<1>2. CASE s.req.url # NULL /\ Takers(s, d) # {}
  <2> DEFINE i == Min(Takers(s, d))
             name == BuiltInUrls[i][2]
             u == Tried(s, i)
             r == Cgi(name, u, d)
             t == Kept(u, r)
  <2>1. i \in Takers(s, d)
    <3>1. Takers(s, d) \subseteq 1..18
      BY Urls DEF Takers
    <3>2. Takers(s, d) \subseteq Nat
      BY <3>1
    <3> QED BY <1>2, <3>2, MinIsLeast
  <2>2. i \in 1..18 /\ r.ret # "NOTFOUND" /\ BuiltInUrls[i][1] \in {"*", s.req.url}
    <3> HIDE DEF i
    <3> QED BY <2>1, TakersAre
  <2>3. ProcessRequest(s, d) = [slot |-> t, out |-> r.out, dev |-> r.dev]
    BY <1>2 DEF ProcessRequest
  <2> HIDE DEF i
  <2>4. /\ u \in SlotType /\ SameRest(u, s) /\ u.data = NULL /\ u.cgi = name
        /\ name \in CgiNames /\ CanCall(name, u) /\ Handed(name, u)
    BY <2>2, TriedIs
  <2>5. name = "cgiUploadFirmware" => s.req.url = "/flash/upload"
    BY <2>2, Entries, Urls
  <2> HIDE DEF name, u
  <2>6. Called(name, u, d, r) /\ KeepsRunning(u, r.dev, d)
    BY <2>4, CgiCalled
  <2> HIDE DEF r
  <2>15. KeepsRunning(s, r.dev, d)
    BY <2>4, <2>6 DEF KeepsRunning, Fits, SameRest
  <2>7. Typed(r)
    BY <2>6 DEF Called
  <2>8. /\ t \in SlotType /\ SameRest(t, u) /\ t.data = r.data
        /\ t.cgi = IF r.ret = "MORE" THEN name ELSE NULL
    BY <2>4, <2>7, KeptIs
  <2> HIDE DEF t
  <2>9. SameRest(t, s)
    BY <2>4, <2>8 DEF SameRest
  <2>10. FileState(t)
    <3>1. CASE r.ret = "MORE"
      <4>1. t.cgi = name /\ t.data = r.data
        BY <2>8, <3>1
      <4> QED BY <2>6, <3>1, <4>1 DEF FileState, Called
    <3>2. CASE r.ret # "MORE"
      <4>1. t.cgi = NULL
        BY <2>8, <3>2
      <4> QED BY <4>1, HandlersAreNames DEF FileState, FileHandlers
    <3> QED BY <3>1, <3>2
  <2>11. r.dev.files = d.files + Files1(t)
    <3>1. d.files \in Int /\ Holding(u) = 0
      BY <2>4, DevFields DEF Holding
    <3>2. CASE name \in FileHandlers
      <4>1. Opening(r) = Files1(t)
        BY <2>8, <3>2, HandlersAreNames DEF Opening, Files1
      <4>2. r.dev.files = d.files + Opening(r) - Holding(u)
        BY <2>6, <3>2 DEF Called
      <4>3. Opening(r) \in {0, 1}
        BY DEF Opening
      <4> QED BY <3>1, <4>1, <4>2, <4>3
    <3>3. CASE name \notin FileHandlers
      BY <2>6, <2>8, <3>1, <3>3, HandlersAreNames DEF Files1, Called
    <3> QED BY <3>2, <3>3
  <2>12. t.cgi = "cgiUploadFirmware" => s.req.url = "/flash/upload"
    BY <2>5, <2>8, NotNames, HandlersAreNames
  <2>13. s.req.url # "/flash/upload" => SameFlash(r.dev, d)
    BY <2>5, <2>6 DEF Called
  <2>14. r.dev \in DevType
    BY <2>7 DEF Typed
  <2> QED BY <1>2, <2>3, <2>6, <2>8, <2>9, <2>10, <2>11, <2>12, <2>13, <2>14, <2>15
<1> QED BY <1>1, <1>2, <1>3

(* An upload goes to its handler.                                           *)
LEMMA UploadTaker ==
  ASSUME NEW s \in SlotType, NEW d \in DevType, s.conn # NULL, s.req \in Requests,
         s.received - s.buffLen >= 0, s.received > 0, s.req.url = "/flash/upload"
  PROVE  LET r == UploadFirmware(Tried(s, 9), d)
         IN ProcessRequest(s, d)
              = [slot |-> Kept(Tried(s, 9), r), out |-> r.out, dev |-> r.dev]
<1>1. ASSUME NEW i \in 1..18
      PROVE  /\ Tried(s, i) \in SlotType /\ SameRest(Tried(s, i), s)
             /\ CanCall(BuiltInUrls[i][2], Tried(s, i)) /\ Handed(BuiltInUrls[i][2], Tried(s, i))
  BY TriedIs
<1>2. UploadFirmware(Tried(s, 9), d).ret # "NOTFOUND"
  <2>1. CanCall("cgiUploadFirmware", Tried(s, 9)) /\ Handed("cgiUploadFirmware", Tried(s, 9))
    BY <1>1, Callbacks
  <2> QED BY <2>1, UploadCall DEF Handed
<1>3. 9 \in Takers(s, d)
  <2>1. Cgi(BuiltInUrls[9][2], Tried(s, 9), d) = UploadFirmware(Tried(s, 9), d)
    BY Callbacks, CgiIs
  <2> QED BY <1>2, <2>1, Urls DEF Takers
<1>4. 1 \notin Takers(s, d)
  <2>1. Tried(s, 1).conn # NULL /\ Tried(s, 1).received # 0
    <3>1. SameRest(Tried(s, 1), s) /\ s.received # 0
      BY <1>1
    <3> QED BY <3>1 DEF SameRest
  <2>2. CgiRedirectApClientToHostname(Tried(s, 1), d).ret = "NOTFOUND"
    BY <2>1, ResultIs DEF CgiRedirectApClientToHostname, CgiRedirectToHostname
  <2>3. Cgi(BuiltInUrls[1][2], Tried(s, 1), d) = CgiRedirectApClientToHostname(Tried(s, 1), d)
    BY Callbacks, CgiIs
  <2> QED BY <2>2, <2>3 DEF Takers
<1>5. \A i \in Takers(s, d) : i \in {9, 18}
  BY <1>4, Urls, Entries DEF Takers
<1>6. Min(Takers(s, d)) = 9
  <2>1. Min(Takers(s, d)) \in Takers(s, d) /\ \A y \in Takers(s, d) : Min(Takers(s, d)) <= y
    BY <1>3, <1>5, MinIsLeast
  <2> QED BY <1>3, <1>5, <2>1
<1>7. Cgi(BuiltInUrls[9][2], Tried(s, 9), d) = UploadFirmware(Tried(s, 9), d)
  BY Callbacks, CgiIs
<1>8. s.req.url # NULL
  BY <1>5, Urls, NullAssumption
<1> QED BY <1>3, <1>6, <1>7, <1>8 DEF ProcessRequest

-----------------------------------------------------------------------------
(* The pool, step by step.                                                  *)

NoneOverruns == \A c \in Conns : ~Overruns(c)

FirmwareKept == NoneOverruns => SameRunning(dev', dev)

(* Division.                                                                *)
LEMMA DivMod ==
  ASSUME NEW x \in Nat, NEW b \in Nat, b > 0
  PROVE  x = b * (x \div b) + (x % b) /\ x \div b \in Int /\ x % b \in 0..(b - 1)
OBVIOUS

LEMMA SmallMultiple ==
  ASSUME NEW m \in Int, NEW b \in Nat, b > 0, NEW r \in 0..(b - 1), b * m = r
  PROVE  r = 0
<1>1. CASE m >= 1
  <2>1. b * m >= b * 1
    BY <1>1
  <2> QED BY <2>1
<1>2. CASE m <= -1
  <2>1. b * m <= b * (-1)
    BY <1>2
  <2> QED BY <2>1
<1>3. CASE m = 0
  BY <1>3
<1> QED BY <1>1, <1>2, <1>3

LEMMA ModAdd ==
  ASSUME NEW x \in Nat, NEW b \in Nat, b > 0, x % b = 0
  PROVE  (x + b) % b = 0
<1> DEFINE k == x \div b
           q == (x + b) \div b
           r == (x + b) % b
           m == (k + 1) - q
<1>1. x = b * k /\ k \in Int
  BY DivMod
<1>2. x + b \in Nat
  OBVIOUS
<1>3. x + b = b * q + r /\ q \in Int /\ r \in 0..(b - 1)
  BY <1>2, DivMod
<1> HIDE DEF k, q, r
<1>4. m \in Int /\ b * m = r
  BY <1>1, <1>3
<1> HIDE DEF m
<1>5. r = 0
  BY <1>3, <1>4, SmallMultiple
<1> QED BY <1>5 DEF r

LEMMA SmallMod ==
  ASSUME NEW x \in Nat, NEW b \in Nat, x < b, x % b = 0
  PROVE  x = 0
<1>1. x = b * (x \div b) /\ x \div b \in Int
  BY DivMod
<1>2. b > 0 /\ x \in 0..(b - 1)
  OBVIOUS
<1> DEFINE m == x \div b
<1>3. m \in Int /\ b * m = x
  BY <1>1
<1> HIDE DEF m
<1> QED BY <1>2, <1>3, SmallMultiple

LEMMA RequestType ==
  ASSUME NEW p \in Plans, NEW c \in Conns, NEW req \in p.asks[c]
  PROVE  /\ req \in Requests /\ req # NULL /\ req.len \in Nat /\ req.sent \in Nat
         /\ req.len = 0 => req.sent = 0
         /\ req.url = "/flash/upload" => req.len # 0
BY EspHttpdAssumption DEF Requests

LEMMA RequestsAreReal ==
  ASSUME NEW req \in Requests
  PROVE  /\ req # NULL /\ req.len \in Nat /\ req.sent \in Nat
         /\ req.len = 0 => req.sent = 0
         /\ req.url = "/flash/upload" => req.len # 0
BY EspHttpdAssumption DEF Requests

(* The parts of the types.                                                  *)
LEMMA TypeParts ==
  ASSUME TypeOK
  PROVE  /\ plan \in Plans /\ dev \in DevType /\ hist \in HistType
         /\ \A i \in Slots : slot[i] \in SlotType
         /\ hist.asked \in [Conns -> {NULL} \cup Requests]
BY DEF TypeOK, HistType

LEMMA SlotsChange ==
  ASSUME TypeOK, NEW i \in Slots, NEW t \in SlotType, slot' = [slot EXCEPT ![i] = t]
  PROVE  /\ slot' \in [Slots -> SlotType] /\ slot'[i] = t
         /\ \A j \in Slots : j # i => slot'[j] = slot[j]
BY DEF TypeOK

LEMMA FlushIs ==
  ASSUME TypeOK, NEW c \in Conns, NEW sent, Flush(c, sent)
  PROVE  /\ pending' \in [Conns -> Nat] /\ DOMAIN out' = Conns
         /\ out'[c] = out[c] \o sent
         /\ pending'[c] = IF sent = <<>> THEN pending[c] ELSE pending[c] + 1
         /\ \A e \in Conns \ {c} : out'[e] = out[e] /\ pending'[e] = pending[e]
BY DEF TypeOK, Flush

LEMMA OutcomeIs ==
  ASSUME TypeOK, NEW i \in Slots, NEW c \in Conns, NEW res, Outcome(i, c, res),
         res.slot \in SlotType, res.dev \in DevType
  PROVE  /\ slot' = [slot EXCEPT ![i] = res.slot] /\ slot' \in [Slots -> SlotType]
         /\ dev' \in DevType /\ dev'.flash = res.dev.flash /\ dev'.files = res.dev.files
         /\ dev'.wifi = res.dev.wifi
         /\ Flush(c, res.out)
<1>1. dev' = [res.dev EXCEPT !.junk = FALSE] /\ Flush(c, res.out)
      /\ slot' = [slot EXCEPT ![i] = res.slot]
  BY DEF Outcome
<1>2. dev' \in DevType /\ dev'.flash = res.dev.flash /\ dev'.files = res.dev.files
      /\ dev'.wifi = res.dev.wifi
  BY <1>1, DevFields
<1> QED BY <1>1, <1>2, SlotsChange

LEMMA JunkIs ==
  ASSUME NEW d \in DevType, NEW junk \in BOOLEAN
  PROVE  LET e == [d EXCEPT !.junk = junk]
         IN e \in DevType /\ e.flash = d.flash /\ e.files = d.files /\ e.wifi = d.wifi
BY DevFields

(* The others do not notice a step of one slot.                             *)
OthersWait(c) == \A e \in Conns \ {c} : out'[e] = out[e] /\ pending'[e] = pending[e]
HasAsked(c, req) == hist'.asked = [hist.asked EXCEPT ![c] = req]

LEMMA OneSlot ==
  ASSUME Inv, NEW i \in Slots, NEW c \in Conns, slot[i].conn = c, link[c] = "open",
         NEW t \in SlotType, t.conn = c, slot' = [slot EXCEPT ![i] = t], link' = link,
         NEW x, HasAsked(c, x), SlotInv(t, hist'), x # NULL, OthersWait(c)
  PROVE  PoolInv'
<1>1. /\ slot'[i] = t
      /\ \A j \in Slots : j # i => slot'[j] = slot[j]
  BY SlotsChange DEF Inv
<1>2. hist'.asked[c] = x /\ \A e \in Conns \ {c} : hist'.asked[e] = hist.asked[e]
  BY TypeParts DEF Inv, HasAsked
<1>3. c # NULL
  BY NotNames
<1>4. \A j \in Slots : slot'[j].conn = slot[j].conn
  BY <1>1
<1>5. \A j \in Slots : j # i => slot[j].conn # c
  BY <1>3 DEF Inv, PoolInv
<1>6. ASSUME NEW j \in Slots
      PROVE  SlotInv(slot'[j], hist')
  <2>1. CASE j = i
    BY <1>1, <2>1
  <2>2. CASE j # i
    <3>1. slot'[j] = slot[j] /\ SlotInv(slot[j], hist) /\ slot[j].conn # c
      BY <1>1, <1>5, <2>2 DEF Inv, PoolInv
    <3>2. slot[j].conn \in {NULL} \cup Conns
      BY TypeParts DEF Inv, SlotType
    <3> QED BY <1>2, <3>1, <3>2 DEF SlotInv
  <2> QED BY <2>1, <2>2
<1>7. \A j, k \in Slots : slot'[j].conn # NULL /\ slot'[j].conn = slot'[k].conn => j = k
  BY <1>4 DEF Inv, PoolInv
<1>8. \A j \in Slots : slot'[j].conn # NULL => link'[slot'[j].conn] \in {"open", "closing", "broken"}
  BY <1>4 DEF Inv, PoolInv
<1>9. \A e \in Conns : link'[e] = "open" => \E j \in Slots : slot'[j].conn = e
  BY <1>4 DEF Inv, PoolInv
<1>10. \A e \in Conns : link'[e] \in {"new", "refused"} => hist'.asked[e] = NULL
  BY <1>2 DEF Inv, PoolInv
<1>11. \A e \in Conns : hist'.asked[e] = NULL => out'[e] = <<>> /\ pending'[e] = 0
  BY <1>2 DEF Inv, PoolInv, OthersWait
<1> QED BY <1>6, <1>7, <1>8, <1>9, <1>10, <1>11 DEF PoolInv

(* A connection's slot, and the others.                                     *)
LEMMA FoundSlot ==
  ASSUME Inv, NEW c \in Conns, NEW i \in FindConn(c)
  PROVE  /\ i \in Slots /\ slot[i].conn = c /\ slot[i] \in SlotType /\ c # NULL
         /\ SlotInv(slot[i], hist) /\ Receiving(slot[i])
<1>1. i \in Slots /\ slot[i].conn = c /\ c # NULL
  BY NotNames DEF FindConn
<1>2. slot[i] \in SlotType /\ SlotInv(slot[i], hist)
  BY <1>1, TypeParts DEF Inv, PoolInv
<1> QED BY <1>1, <1>2 DEF SlotInv

(* A slot with a request of n bytes, m of them to be kept at a time.        *)
Asked(s, req, n, m, b) == [s EXCEPT !.req = req, !.len = n, !.buffSize = m, !.buff = b]

LEMMA SlotAsked ==
  ASSUME NEW s \in SlotType, NEW req \in Requests, NEW n \in Int, NEW m \in Nat,
         NEW b \in BOOLEAN
  PROVE  /\ Asked(s, req, n, m, b) \in SlotType
         /\ Asked(s, req, n, m, b).conn = s.conn /\ Asked(s, req, n, m, b).req = req
         /\ Asked(s, req, n, m, b).len = n /\ Asked(s, req, n, m, b).buffSize = m
         /\ Asked(s, req, n, m, b).received = s.received
         /\ Asked(s, req, n, m, b).buffLen = s.buffLen
         /\ Asked(s, req, n, m, b).cgi = s.cgi
BY DEF Asked, SlotType

LEMMA HeadIs ==
  ASSUME NEW s \in SlotType, s.len = -1, NEW req \in Requests, Receiving(s)
  PROVE  LET t == Parsed(s, req)
         IN /\ t \in SlotType /\ t.conn = s.conn /\ t.req = req /\ t.len = req.len
            /\ t.received = 0 /\ t.buffLen = 0 /\ t.cgi = NULL
            /\ t.buffSize = IF req.len <= MaxPost THEN req.len ELSE MaxPost
<1>1. req.len \in Nat /\ MaxPost \in Nat \ {0}
  BY RequestsAreReal, CgiFlashAssumption
<1> DEFINE m == Min({req.len, MaxPost})
<1>2. m \in Nat /\ m = IF req.len <= MaxPost THEN req.len ELSE MaxPost
  BY <1>1, MinOfTwo
<1>3. Parsed(s, req) = Asked(s, req, req.len, m, req.len > 0)
  BY DEF Parsed, Asked
<1> HIDE DEF m
<1>4. s.received = 0 /\ s.buffLen = 0 /\ s.cgi = NULL
  BY DEF Receiving
<1> DEFINE n == req.len
           b == req.len > 0
<1>5. n \in Int /\ m \in Nat /\ b \in BOOLEAN /\ n = req.len
  BY <1>1, <1>2
<1>6. Parsed(s, req) = Asked(s, req, n, m, b)
  BY <1>3
<1> HIDE DEF n, b
<1> DEFINE t == Asked(s, req, n, m, b)
<1>7. /\ t \in SlotType
      /\ t.conn = s.conn /\ t.req = req /\ t.len = n /\ t.buffSize = m
      /\ t.received = s.received /\ t.buffLen = s.buffLen /\ t.cgi = s.cgi
  BY <1>5, SlotAsked
<1> HIDE DEF t
<1>8. t = Parsed(s, req)
  BY <1>6 DEF t
<1> QED BY <1>2, <1>4, <1>5, <1>7, <1>8

LEMMA RecvHeadStep ==
  ASSUME Inv, NEW c \in Conns, NEW req \in plan.asks[c], NEW junk \in BOOLEAN,
         RecvHead(c, req, junk), UNCHANGED plan
  PROVE  Inv' /\ FirmwareKept
<1>1. PICK i \in FindConn(c) :
        /\ slot[i].len = -1
        /\ LET s == Parsed(slot[i], req)
           IN IF s.len = 0
              THEN Outcome(i, c, ProcessRequest(s, [dev EXCEPT !.junk = junk]))
              ELSE /\ slot' = [slot EXCEPT ![i] = s]
                   /\ UNCHANGED <<dev, pending, out>>
  BY DEF RecvHead
<1>2. /\ i \in Slots /\ slot[i].conn = c /\ slot[i] \in SlotType /\ c # NULL
      /\ SlotInv(slot[i], hist) /\ Receiving(slot[i])
  BY FoundSlot
<1>3. /\ req \in Requests /\ req # NULL /\ req.len \in Nat /\ req.sent \in Nat
      /\ req.url = "/flash/upload" => req.len # 0
  BY TypeParts, RequestType DEF Inv
<1> DEFINE s == Parsed(slot[i], req)
<1>4. /\ s \in SlotType /\ s.conn = c /\ s.req = req /\ s.len = req.len
      /\ s.received = 0 /\ s.buffLen = 0 /\ s.cgi = NULL
      /\ s.buffSize = IF req.len <= MaxPost THEN req.len ELSE MaxPost
  BY <1>1, <1>2, <1>3, HeadIs
<1>5. link[c] = "open" /\ link' = link /\ hist' = [hist EXCEPT !.asked[c] = req]
  BY DEF RecvHead
<1>6. /\ hist' \in HistType /\ hist'.asked = [hist.asked EXCEPT ![c] = req]
      /\ hist'.asked[c] = req
  BY <1>3, <1>5, TypeParts DEF Inv, HistType
<1>7. dev \in DevType /\ plan' \in Plans /\ link' \in [Conns -> {"new", "refused", "open", "closing", "broken", "gone"}]
  BY <1>5 DEF Inv, TypeOK
<1> HIDE DEF s
<1>8. CASE s.len = 0
  <2> DEFINE d == [dev EXCEPT !.junk = junk]
             res == ProcessRequest(s, d)
  <2>1. Outcome(i, c, res)
    BY <1>1, <1>8 DEF s
  <2>2. d \in DevType /\ d.flash = dev.flash
    BY <1>7, JunkIs
  <2> HIDE DEF d
  <2>3. /\ res.slot \in SlotType /\ SameRest(res.slot, s) /\ FileState(res.slot)
        /\ res.dev \in DevType /\ SameFlash(res.dev, d)
        /\ res.slot.cgi = "cgiUploadFirmware" => s.req.url = "/flash/upload"
        /\ s.req.url = NULL => res.slot.cgi = NULL
    <3>1. s.conn # NULL /\ s.req \in Requests /\ s.received - s.buffLen >= 0
      BY <1>2, <1>3, <1>4
    <3>2. s.req.url # "/flash/upload"
      BY <1>3, <1>4, <1>8
    <3> QED BY <1>4, <2>2, <3>1, <3>2, Processed
  <2> HIDE DEF res
  <2>4. /\ slot' = [slot EXCEPT ![i] = res.slot] /\ slot' \in [Slots -> SlotType]
        /\ dev' \in DevType /\ dev'.flash = res.dev.flash /\ Flush(c, res.out)
    BY <1>2, <2>1, <2>3, OutcomeIs DEF Inv
  <2>5. /\ pending' \in [Conns -> Nat] /\ DOMAIN out' = Conns
        /\ \A e \in Conns \ {c} : out'[e] = out[e] /\ pending'[e] = pending[e]
    BY <2>4, FlushIs DEF Inv
  <2>6. TypeOK'
    BY <1>6, <1>7, <2>4, <2>5 DEF TypeOK
  <2>7. /\ res.slot.conn = c /\ res.slot.req = req /\ res.slot.len = 0 /\ req.len = 0
        /\ res.slot.received = 0 /\ res.slot.buffLen = 0 /\ res.slot.buffSize = 0
    <3>1. MaxPost \in Nat
      BY CgiFlashAssumption
    <3>2. s.buffSize = 0 /\ req.len = 0 /\ s.received = 0 /\ s.buffLen = 0 /\ s.len = 0
          /\ s.conn = c /\ s.req = req
      BY <1>4, <1>8, <3>1
    <3> QED BY <2>3, <3>2 DEF SameRest
  <2>8. Receiving(res.slot)
    <3>1. MaxPost \in Nat
      BY CgiFlashAssumption
    <3> QED BY <1>3, <2>7, <3>1 DEF Receiving, Done
  <2>9. SlotInv(res.slot, hist')
    BY <1>2, <1>3, <1>4, <1>6, <2>3, <2>7, <2>8 DEF SlotInv
  <2>10. PoolInv'
    <3>1. /\ i \in Slots /\ slot[i].conn = c /\ link[c] = "open" /\ link' = link
          /\ res.slot \in SlotType /\ res.slot.conn = c /\ slot' = [slot EXCEPT ![i] = res.slot]
          /\ HasAsked(c, req) /\ req # NULL
          /\ SlotInv(res.slot, hist')
          /\ OthersWait(c)
      BY <1>2, <1>3, <1>5, <1>6, <2>3, <2>4, <2>5, <2>7, <2>9 DEF OthersWait, HasAsked
    <3> QED BY <3>1, OneSlot
  <2>11. FirmwareKept
    BY <2>2, <2>3, <2>4 DEF FirmwareKept, SameRunning, SameFlash
  <2> QED BY <2>6, <2>10, <2>11 DEF Inv
<1>9. CASE s.len # 0
  <2>1. slot' = [slot EXCEPT ![i] = s] /\ dev' = dev /\ pending' = pending /\ out' = out
    BY <1>1, <1>9 DEF s
  <2>2. TypeOK'
    <3>1. slot' \in [Slots -> SlotType]
      BY <1>2, <1>4, <2>1, SlotsChange DEF Inv
    <3> QED BY <1>6, <1>7, <2>1, <3>1 DEF Inv, TypeOK
  <2>3. Receiving(s) /\ s.len # -1
    <3>1. MaxPost \in Nat \ {0}
      BY CgiFlashAssumption
    <3> QED BY <1>3, <1>4, <1>9, <3>1 DEF Receiving, Done
  <2>4. FileState(s)
    BY <1>4, HandlersAreNames DEF FileState, FileHandlers
  <2>5. SlotInv(s, hist')
    <3>1. s.cgi # "cgiUploadFirmware"
      BY <1>4, HandlersAreNames, NotNames
    <3> QED BY <1>2, <1>4, <1>6, <2>3, <2>4, <3>1 DEF SlotInv
  <2>6. PoolInv'
    <3>1. /\ i \in Slots /\ slot[i].conn = c /\ link[c] = "open" /\ link' = link
          /\ s \in SlotType /\ s.conn = c /\ slot' = [slot EXCEPT ![i] = s]
          /\ HasAsked(c, req) /\ req # NULL
          /\ SlotInv(s, hist')
          /\ OthersWait(c)
      BY <1>2, <1>3, <1>4, <1>5, <1>6, <2>1, <2>5 DEF OthersWait, HasAsked
    <3> QED BY <3>1, OneSlot
  <2> QED BY <2>1, <2>2, <2>6 DEF Inv, FirmwareKept, SameRunning
<1> QED BY <1>8, <1>9

(* A piece of a body.                                                       *)
Arrives(i, c) ==
  /\ i \in FindConn(c) /\ slot[i].len > 0 /\ slot[i].received < slot[i].req.sent

HandsOn(s) == s.buffLen >= s.buffSize \/ s.received = s.len

LEMMA GainedFields ==
  ASSUME NEW s \in SlotType
  PROVE  LET t == Gained(s)
         IN /\ t \in SlotType /\ t.conn = s.conn /\ t.req = s.req /\ t.len = s.len
            /\ t.buffSize = s.buffSize /\ t.cgi = s.cgi /\ t.data = s.data /\ t.priv = s.priv
            /\ t.received = s.received + 1 /\ t.buffLen = s.buffLen + 1
<1> DEFINE m == s.buffLen + 1
           n == s.received + 1
<1>1. m \in Nat /\ n \in Nat
  BY DEF SlotType
<1>2. Gained(s) = [s EXCEPT !.buffLen = m, !.received = n]
  BY DEF Gained
<1> HIDE DEF m, n
<1>3. [s EXCEPT !.buffLen = m, !.received = n] \in SlotType
  BY <1>1 DEF SlotType
<1>4. LET t == [s EXCEPT !.buffLen = m, !.received = n]
      IN /\ t.conn = s.conn /\ t.req = s.req /\ t.len = s.len
         /\ t.buffSize = s.buffSize /\ t.cgi = s.cgi /\ t.data = s.data /\ t.priv = s.priv
         /\ t.received = n /\ t.buffLen = m
  BY DEF SlotType
<1> QED BY <1>2, <1>3, <1>4 DEF m, n

LEMMA GainedIs ==
  ASSUME Inv, NEW c \in Conns, NEW i, Arrives(i, c)
  PROVE  LET s == slot[i]
             t == Gained(s)
         IN /\ i \in Slots /\ s \in SlotType /\ c # NULL /\ s.len # -1
            /\ SlotInv(s, hist) /\ Receiving(s) /\ s.conn = c
            /\ t \in SlotType /\ t.conn = c /\ t.req = s.req /\ t.len = s.len
            /\ t.buffSize = s.buffSize /\ t.cgi = s.cgi /\ t.data = s.data /\ t.priv = s.priv
            /\ t.received = s.received + 1 /\ t.buffLen = s.buffLen + 1
            /\ t.received <= t.req.sent /\ Done(t) = Done(s)
            /\ t.req \in Requests /\ hist.asked[c] = t.req /\ t.len = t.req.len
            /\ s.buffLen < s.buffSize /\ Done(s) \in Nat
            /\ s.received < s.len => Done(s) % s.buffSize = 0
            /\ s.buffSize = IF s.len <= MaxPost THEN s.len ELSE MaxPost
<1>1. i \in FindConn(c) /\ slot[i].len > 0 /\ slot[i].received < slot[i].req.sent
  BY DEF Arrives
<1>2. /\ i \in Slots /\ slot[i].conn = c /\ slot[i] \in SlotType /\ c # NULL
      /\ SlotInv(slot[i], hist) /\ Receiving(slot[i])
  BY <1>1, FoundSlot
<1>3. /\ slot[i].len \in Int /\ slot[i].received \in Nat /\ slot[i].buffLen \in Nat
      /\ slot[i].buffSize \in Nat
  BY <1>2 DEF SlotType
<1>4. slot[i].len # -1
  BY <1>1, <1>3
<1>5. LET s == slot[i]
          t == Gained(s)
      IN /\ t \in SlotType /\ t.conn = c /\ t.req = s.req /\ t.len = s.len
         /\ t.buffSize = s.buffSize /\ t.cgi = s.cgi /\ t.data = s.data /\ t.priv = s.priv
         /\ t.received = s.received + 1 /\ t.buffLen = s.buffLen + 1
  BY <1>2, GainedFields
<1> DEFINE t == Gained(slot[i])
<1> HIDE DEF t
<1>7. slot[i].req \in Requests /\ hist.asked[c] = slot[i].req /\ slot[i].len = slot[i].req.len
  BY <1>2, <1>4 DEF SlotInv, Receiving
<1>6. t.received <= t.req.sent /\ Done(t) = Done(slot[i])
  <2>1. slot[i].req.sent \in Nat
    BY <1>7, RequestsAreReal
  <2> QED BY <1>1, <1>3, <1>5, <2>1 DEF Done, t
<1>8. /\ slot[i].buffLen < slot[i].buffSize /\ Done(slot[i]) >= 0
      /\ slot[i].received < slot[i].len => Done(slot[i]) % slot[i].buffSize = 0
      /\ slot[i].buffSize = IF slot[i].len <= MaxPost THEN slot[i].len ELSE MaxPost
  <2>1. MaxPost \in Nat /\ MaxPost > 0
    BY CgiFlashAssumption
  <2> QED BY <1>1, <1>2, <1>3, <1>4, <2>1 DEF Receiving
<1>9. Done(slot[i]) \in Nat
  BY <1>3, <1>8 DEF Done
<1> QED BY <1>2, <1>4, <1>5, <1>6, <1>7, <1>8, <1>9 DEF t

(* What a piece that is handed on leaves.                                   *)
LEMMA HandedOn ==
  ASSUME Inv, NEW c \in Conns, NEW i, Arrives(i, c), NEW junk \in BOOLEAN,
         HandsOn(Gained(slot[i]))
  PROVE  LET s   == Gained(slot[i])
             d   == [dev EXCEPT !.junk = junk]
             res == ProcessRequest(s, d)
             e   == Emptied(res)
         IN /\ res.slot \in SlotType /\ SameRest(res.slot, s) /\ FileState(res.slot)
            /\ res.dev \in DevType /\ KeepsRunning(s, res.dev, dev)
            /\ res.dev.files = dev.files + Files1(res.slot)
            /\ res.slot.cgi = "cgiUploadFirmware" => s.req.url = "/flash/upload"
            /\ s.req.url # "/flash/upload" => SameFlash(res.dev, dev)
            /\ e.slot \in SlotType /\ e.slot.conn = c /\ e.slot.req = s.req
            /\ e.slot.len = s.len /\ e.slot.received = s.received /\ e.slot.buffLen = 0
            /\ e.slot.cgi = res.slot.cgi /\ e.slot.priv = res.slot.priv
            /\ e.slot.buffSize = s.buffSize
            /\ e.dev = res.dev /\ e.out = res.out
            /\ SlotInv(e.slot, hist)
<1> DEFINE s   == Gained(slot[i])
           d   == [dev EXCEPT !.junk = junk]
           res == ProcessRequest(s, d)
           e   == Emptied(res)
<1>1. /\ s \in SlotType /\ s.conn = c /\ c # NULL /\ s.req \in Requests /\ hist.asked[c] = s.req
      /\ s.len = s.req.len /\ s.received \in Nat /\ s.buffLen \in Nat /\ s.buffSize \in Nat
      /\ s.received <= s.req.sent /\ Done(s) \in Nat
      /\ s.received - 1 < s.len => Done(s) % s.buffSize = 0
      /\ s.buffLen - 1 < s.buffSize /\ s.received > 0
      /\ s.buffSize = IF s.len <= MaxPost THEN s.len ELSE MaxPost
      /\ s.len \in Int /\ s.buffLen > 0
  BY GainedIs DEF SlotType
<1>15. s.req.url = NULL => s.cgi = NULL
  BY GainedIs DEF SlotInv
<1>2. d \in DevType /\ d.flash = dev.flash /\ d.files = dev.files
  BY TypeParts, JunkIs DEF Inv
<1>3. HandsOn(s)
  OBVIOUS
<1> HIDE DEF s, d
<1>4. s.received - s.buffLen >= 0
  BY <1>1 DEF Done
<1>5. /\ res.slot \in SlotType /\ SameRest(res.slot, s) /\ FileState(res.slot)
      /\ res.dev \in DevType /\ KeepsRunning(s, res.dev, d)
      /\ res.dev.files = d.files + Files1(res.slot)
      /\ res.slot.cgi = "cgiUploadFirmware" => s.req.url = "/flash/upload"
      /\ s.req.url # "/flash/upload" => SameFlash(res.dev, d)
      /\ s.req.url = NULL => res.slot.cgi = NULL
  BY <1>1, <1>2, <1>4, <1>15, Processed
<1>6. res = [slot |-> res.slot, out |-> res.out, dev |-> res.dev]
  BY DEF ProcessRequest
<1>7. s.req.url = "/flash/upload" => res.slot.cgi \in {NULL, "cgiUploadFirmware"}
  <2> SUFFICES ASSUME s.req.url = "/flash/upload" PROVE res.slot.cgi \in {NULL, "cgiUploadFirmware"}
    OBVIOUS
  <2> DEFINE r == UploadFirmware(Tried(s, 9), d)
  <2>1. res.slot = Kept(Tried(s, 9), r)
    BY <1>1, <1>2, <1>4, UploadTaker
  <2>2. /\ Tried(s, 9) \in SlotType /\ Tried(s, 9).cgi = "cgiUploadFirmware"
        /\ CanCall("cgiUploadFirmware", Tried(s, 9)) /\ Handed("cgiUploadFirmware", Tried(s, 9))
    BY <1>1, <1>4, TriedIs, Callbacks
  <2>3. Typed(r)
    BY <1>2, <2>2, UploadCall DEF Handed, Called
  <2> HIDE DEF r
  <2> QED BY <2>1, <2>2, <2>3, KeptIs
<1> HIDE DEF res
<1>8. e = [slot |-> [res.slot EXCEPT !.buffLen = 0], out |-> res.out, dev |-> res.dev]
  BY <1>6 DEF Emptied
<1>9. /\ e.slot \in SlotType /\ e.slot.conn = res.slot.conn /\ e.slot.req = res.slot.req
      /\ e.slot.len = res.slot.len /\ e.slot.received = res.slot.received /\ e.slot.buffLen = 0
      /\ e.slot.cgi = res.slot.cgi /\ e.slot.priv = res.slot.priv /\ e.slot.data = res.slot.data
      /\ e.slot.buffSize = res.slot.buffSize /\ e.dev = res.dev /\ e.out = res.out
  BY <1>5, <1>8 DEF SlotType
<1> HIDE DEF e
<1>10. /\ e.slot.conn = c /\ e.slot.req = s.req /\ e.slot.len = s.len
       /\ e.slot.received = s.received /\ e.slot.buffSize = s.buffSize
  BY <1>1, <1>5, <1>9 DEF SameRest
<1>11. Receiving(e.slot)
  <2>1. s.received < s.len => s.received % s.buffSize = 0
    <3> SUFFICES ASSUME s.received < s.len PROVE s.received % s.buffSize = 0
      OBVIOUS
    <3>1. s.buffLen = s.buffSize
      BY <1>1, <1>3 DEF HandsOn
    <3>2. s.received = Done(s) + s.buffSize /\ s.buffSize > 0
      BY <1>1, <3>1 DEF Done
    <3>3. Done(s) \in Nat /\ s.buffSize \in Nat /\ Done(s) % s.buffSize = 0
      BY <1>1
    <3>4. (Done(s) + s.buffSize) % s.buffSize = 0
      BY <3>2, <3>3, ModAdd
    <3> QED BY <3>2, <3>4
  <2>2. s.buffSize > 0
    BY <1>1, <1>3
  <2>3. s.len # -1 /\ e.slot.received - e.slot.buffLen = s.received
    BY <1>1, <1>9, <1>10
  <2> QED BY <1>1, <1>9, <1>10, <2>1, <2>2, <2>3 DEF Receiving, Done
<1>12. FileState(e.slot)
  BY <1>5, <1>9 DEF FileState
<1>13. SlotInv(e.slot, hist)
  <2>1. e.slot.len # -1 /\ Done(e.slot) # 0
    BY <1>1, <1>9, <1>10 DEF Done
  <2> QED BY <1>1, <1>5, <1>7, <1>9, <1>10, <1>11, <1>12, <2>1 DEF SlotInv
<1>14. KeepsRunning(s, res.dev, dev) /\ (s.req.url # "/flash/upload" => SameFlash(res.dev, dev))
       /\ res.dev.files = dev.files + Files1(res.slot)
  BY <1>2, <1>5 DEF KeepsRunning, SameRunning, SameFlash
<1> QED BY <1>5, <1>9, <1>10, <1>13, <1>14 DEF e, res, d, s

(* A client that sends what fits has received what fits.                    *)
LEMMA NothingOverruns ==
  ASSUME NoneOverruns, NEW c \in Conns, NEW s \in SlotType, s.req \in Requests,
         hist.asked[c] = s.req, s.req.url = "/flash/upload", s.len = s.req.len,
         s.received <= s.req.sent
  PROVE  Fits(s)
<1>1. /\ s.req # NULL /\ s.req.len \in Nat /\ s.req.sent \in Nat /\ FwSize \in Nat
      /\ s.received \in Nat
  BY RequestsAreReal, CgiFlashAssumption DEF SlotType
<1>2. s.req.sent > s.req.len => ~(s.req.len <= FwSize /\ s.req.sent > FwSize)
  BY <1>1 DEF NoneOverruns, Overruns, Overlong
<1> QED BY <1>1, <1>2 DEF Fits

LEMMA BodyCases ==
  ASSUME Inv, NEW c \in Conns, NEW junk \in BOOLEAN, RecvBody(c, junk)
  PROVE  \E i \in Slots :
           /\ Arrives(i, c)
           /\ LET s == Gained(slot[i])
                  res == ProcessRequest(s, [dev EXCEPT !.junk = junk])
              IN \/ /\ HandsOn(s) /\ Outcome(i, c, Emptied(res))
                    /\ hist' = IF Stored(res) THEN Wrote(c, FirmwareNext(dev)) ELSE hist
                 \/ /\ ~HandsOn(s) /\ slot' = [slot EXCEPT ![i] = s]
                    /\ dev' = dev /\ pending' = pending /\ out' = out /\ hist' = hist
BY DEF RecvBody, Arrives, HandsOn, FindConn

LEMMA WroteIs ==
  ASSUME TypeOK, NEW c \in Conns, NEW p \in {0, 1}
  PROVE  /\ Wrote(c, p) \in HistType /\ Wrote(c, p).asked = hist.asked
         /\ Wrote(c, p).wrote = [hist.wrote EXCEPT ![c] = p]
         /\ Wrote(c, p).clash = hist.clash \cup {d \in Conns \ {c} : hist.wrote[d] = p}
<1>1. hist \in HistType
  BY TypeParts
<1> DEFINE w == [hist.wrote EXCEPT ![c] = p]
           x == hist.clash \cup {d \in Conns \ {c} : hist.wrote[d] = p}
<1>2. w \in [Conns -> {NULL, 0, 1}] /\ x \in SUBSET Conns
  BY <1>1 DEF HistType
<1>3. Wrote(c, p) = [hist EXCEPT !.wrote = w, !.clash = x]
  BY DEF Wrote
<1> HIDE DEF w, x
<1>4. Wrote(c, p) \in HistType /\ Wrote(c, p).asked = hist.asked /\ Wrote(c, p).wrote = w
      /\ Wrote(c, p).clash = x
  BY <1>1, <1>2, <1>3 DEF HistType
<1> QED BY <1>4 DEF w, x

LEMMA RecvBodyStep ==
  ASSUME Inv, NEW c \in Conns, NEW junk \in BOOLEAN, RecvBody(c, junk), UNCHANGED plan
  PROVE  Inv' /\ FirmwareKept
<1>1. PICK i \in Slots :
           /\ Arrives(i, c)
           /\ LET s == Gained(slot[i])
                  res == ProcessRequest(s, [dev EXCEPT !.junk = junk])
              IN \/ /\ HandsOn(s) /\ Outcome(i, c, Emptied(res))
                    /\ hist' = IF Stored(res) THEN Wrote(c, FirmwareNext(dev)) ELSE hist
                 \/ /\ ~HandsOn(s) /\ slot' = [slot EXCEPT ![i] = s]
                    /\ dev' = dev /\ pending' = pending /\ out' = out /\ hist' = hist
  BY BodyCases
<1> DEFINE s   == Gained(slot[i])
           d   == [dev EXCEPT !.junk = junk]
           res == ProcessRequest(s, d)
           e   == Emptied(res)
<1>2. /\ s \in SlotType /\ s.conn = c /\ slot[i].conn = c /\ s.req \in Requests
      /\ s.req # NULL /\ hist.asked[c] = s.req
  BY <1>1, GainedIs, RequestsAreReal
<1>3. link[c] = "open" /\ link' = link
  BY DEF RecvBody
<1>4. FirmwareNext(dev) \in {0, 1}
  BY TypeParts, NextIsOther DEF Inv
<1>5. /\ plan' \in Plans
      /\ link' \in [Conns -> {"new", "refused", "open", "closing", "broken", "gone"}]
  BY <1>3 DEF Inv, TypeOK
<1>6. hist.asked = [hist.asked EXCEPT ![c] = s.req]
  BY <1>2, TypeParts DEF Inv
<1>7. CASE /\ HandsOn(s) /\ Outcome(i, c, e)
           /\ hist' = IF Stored(res) THEN Wrote(c, FirmwareNext(dev)) ELSE hist
  <2>1. /\ e.slot \in SlotType /\ e.slot.conn = c /\ e.dev \in DevType
        /\ KeepsRunning(s, e.dev, dev) /\ SlotInv(e.slot, hist)
        /\ s.req.url # "/flash/upload" => SameFlash(e.dev, dev)
    BY <1>1, <1>7, HandedOn
  <2>9. s.len = s.req.len /\ s.received <= s.req.sent
    BY <1>1, GainedIs
  <2>2. hist' \in HistType /\ hist'.asked = hist.asked
    BY <1>4, <1>7, WroteIs, TypeParts DEF Inv
  <2> HIDE DEF e, res, d, s
  <2>3. /\ slot' = [slot EXCEPT ![i] = e.slot] /\ slot' \in [Slots -> SlotType]
        /\ dev' \in DevType /\ dev'.flash = e.dev.flash /\ Flush(c, e.out)
    BY <1>7, <2>1, OutcomeIs DEF Inv
  <2>4. /\ pending' \in [Conns -> Nat] /\ DOMAIN out' = Conns
        /\ \A x \in Conns \ {c} : out'[x] = out[x] /\ pending'[x] = pending[x]
    BY <2>3, FlushIs DEF Inv
  <2>5. TypeOK'
    BY <1>5, <2>2, <2>3, <2>4 DEF TypeOK
  <2>6. SlotInv(e.slot, hist')
    BY <2>1, <2>2 DEF SlotInv
  <2>7. PoolInv'
    <3>1. /\ i \in Slots /\ slot[i].conn = c /\ link[c] = "open" /\ link' = link
          /\ e.slot \in SlotType /\ e.slot.conn = c /\ slot' = [slot EXCEPT ![i] = e.slot]
          /\ HasAsked(c, s.req) /\ s.req # NULL
          /\ SlotInv(e.slot, hist')
          /\ OthersWait(c)
      BY <1>2, <1>3, <1>6, <2>1, <2>2, <2>3, <2>4, <2>6 DEF OthersWait, HasAsked
    <3> QED BY <3>1, OneSlot
  <2>8. FirmwareKept
    <3>1. CASE s.req.url = "/flash/upload"
      <4>1. NoneOverruns => Fits(s)
        BY <1>2, <2>9, <3>1, NothingOverruns
      <4> QED BY <2>1, <2>3, <4>1 DEF FirmwareKept, KeepsRunning, SameRunning
    <3>2. CASE s.req.url # "/flash/upload"
      BY <2>1, <2>3, <3>2 DEF FirmwareKept, SameFlash, SameRunning
    <3> QED BY <3>1, <3>2
  <2> QED BY <2>5, <2>7, <2>8 DEF Inv
<1>8. CASE /\ ~HandsOn(s) /\ slot' = [slot EXCEPT ![i] = s]
           /\ dev' = dev /\ pending' = pending /\ out' = out /\ hist' = hist
  <2>1. TypeOK'
    <3>1. slot' \in [Slots -> SlotType]
      BY <1>2, <1>8, SlotsChange DEF Inv
    <3> QED BY <1>5, <1>8, <3>1 DEF Inv, TypeOK
  <2>2. SlotInv(s, hist)
    <3>1. /\ s.req = slot[i].req /\ s.len = slot[i].len /\ s.buffSize = slot[i].buffSize
          /\ s.cgi = slot[i].cgi /\ s.data = slot[i].data
          /\ s.received = slot[i].received + 1 /\ s.buffLen = slot[i].buffLen + 1
          /\ s.received <= s.req.sent /\ Done(s) = Done(slot[i])
          /\ slot[i].len # -1 /\ SlotInv(slot[i], hist) /\ Receiving(slot[i])
          /\ Done(slot[i]) \in Nat
      BY <1>1, GainedIs
    <3>2. /\ s.received \in Nat /\ s.buffLen \in Nat /\ s.buffSize \in Nat /\ s.len \in Int
          /\ c # NULL
      BY <1>2, NotNames DEF SlotType
    <3>6. /\ slot[i].received \in Nat /\ slot[i].buffLen \in Nat
          /\ s.received < s.len => slot[i].received < slot[i].len
      <4>1. slot[i] \in SlotType
        BY <1>1, GainedIs
      <4>2. slot[i].received \in Nat /\ slot[i].buffLen \in Nat
        BY <4>1 DEF SlotType
      <4> HIDE DEF s
      <4> QED BY <3>1, <3>2, <4>2
    <3>3. ~(s.buffLen >= s.buffSize) /\ s.received # s.len
      BY <1>8 DEF HandsOn
    <3> HIDE DEF s
    <3>4. Receiving(s)
      <4>1. /\ s.req \in Requests /\ s.len = s.req.len
            /\ s.buffSize = IF s.len <= MaxPost THEN s.len ELSE MaxPost
            /\ s.received < s.len => Done(s) % s.buffSize = 0
        BY <3>1, <3>2, <3>6 DEF Receiving
      <4> QED BY <3>1, <3>2, <3>3, <4>1 DEF Receiving
    <3>5. FileState(s)
      BY <1>2, <3>1, <3>2 DEF FileState, SlotInv
    <3> QED BY <1>2, <3>1, <3>2, <3>4, <3>5, <3>6 DEF SlotInv
  <2>3. PoolInv'
    <3>1. /\ i \in Slots /\ slot[i].conn = c /\ link[c] = "open" /\ link' = link
          /\ s \in SlotType /\ s.conn = c /\ slot' = [slot EXCEPT ![i] = s]
          /\ HasAsked(c, s.req) /\ s.req # NULL
          /\ SlotInv(s, hist')
          /\ OthersWait(c)
      BY <1>2, <1>3, <1>6, <1>8, <2>2 DEF OthersWait, HasAsked
    <3> HIDE DEF s
    <3> QED BY <3>1, OneSlot
  <2> QED BY <1>8, <2>1, <2>3 DEF Inv, FirmwareKept, SameRunning
<1> QED BY <1>1, <1>7, <1>8

(* Connections come and go.                                                 *)
Links == {"new", "refused", "open", "closing", "broken", "gone"}

LEMMA LinkChange ==
  ASSUME TypeOK, NEW c \in Conns, NEW x \in Links, link' = [link EXCEPT ![c] = x]
  PROVE  /\ link' \in [Conns -> Links] /\ link'[c] = x
         /\ \A e \in Conns : e # c => link'[e] = link[e]
BY DEF TypeOK, Links

LEMMA ConnectStep ==
  ASSUME Inv, NEW c \in Conns, ConnectCb(c), UNCHANGED plan
  PROVE  Inv' /\ FirmwareKept
<1> DEFINE free == {i \in Slots : slot[i].conn = NULL}
           m    == Min(free)
           s    == slot[m]
           t    == [s EXCEPT !.conn = c, !.buff = FALSE, !.buffLen = 0, !.received = 0, !.len = -1]
<1>1. link[c] = "new" /\ dev' = dev /\ pending' = pending /\ out' = out /\ hist' = hist
  BY DEF ConnectCb
<1>2. \/ free = {} /\ link' = [link EXCEPT ![c] = "refused"] /\ slot' = slot
      \/ free # {} /\ link' = [link EXCEPT ![c] = "open"] /\ slot' = [slot EXCEPT ![m] = t]
  BY DEF ConnectCb
<1>3. c # NULL /\ hist.asked[c] = NULL /\ \A i \in Slots : slot[i].conn # c
  <2>1. hist.asked[c] = NULL
    BY <1>1 DEF Inv, PoolInv
  <2>2. \A i \in Slots : slot[i].conn # NULL => link[slot[i].conn] \in {"open", "closing", "broken"}
    BY DEF Inv, PoolInv
  <2> QED BY <1>1, <2>1, <2>2, NotNames
<1>4. CASE free = {} /\ link' = [link EXCEPT ![c] = "refused"] /\ slot' = slot
  <2>1. /\ link' \in [Conns -> Links] /\ link'[c] = "refused"
        /\ \A e \in Conns : e # c => link'[e] = link[e]
    BY <1>4, LinkChange DEF Links, Inv
  <2>2. TypeOK'
    BY <1>1, <1>4, <2>1 DEF Inv, TypeOK, Links
  <2>3. \A i \in Slots : slot[i].conn \in {NULL} \cup Conns
    BY TypeParts DEF Inv, SlotType
  <2>4. PoolInv'
    BY <1>1, <1>3, <1>4, <2>1, <2>3 DEF Inv, PoolInv
  <2> QED BY <1>1, <2>2, <2>4 DEF Inv, FirmwareKept, SameRunning
<1>5. CASE free # {} /\ link' = [link EXCEPT ![c] = "open"] /\ slot' = [slot EXCEPT ![m] = t]
  <2>1. m \in Slots /\ slot[m].conn = NULL
    <3>1. free \subseteq Nat
      BY DEF Slots
    <3>2. m \in free
      <4> HIDE DEF free
      <4> QED BY <1>5, <3>1, MinIsLeast
    <3> QED BY <3>2
  <2> HIDE DEF m, free
  <2>2. /\ link' \in [Conns -> Links] /\ link'[c] = "open"
        /\ \A e \in Conns : e # c => link'[e] = link[e]
    BY <1>5, LinkChange DEF Links, Inv
  <2>3. s \in SlotType /\ SlotInv(s, hist)
    BY <2>1, TypeParts DEF Inv, PoolInv
  <2>4. /\ t \in SlotType /\ t.conn = c /\ t.len = -1 /\ t.buffLen = 0 /\ t.received = 0
        /\ t.cgi = s.cgi
    <3> HIDE DEF s
    <3>1. t \in SlotType
      <4> DEFINE k == -1
                 u == [s EXCEPT !.conn = c, !.buff = FALSE]
      <4>1. k \in Int
        OBVIOUS
      <4>2. u \in SlotType
        BY <2>3 DEF SlotType
      <4>3. t = [u EXCEPT !.buffLen = 0, !.received = 0, !.len = k]
        OBVIOUS
      <4> HIDE DEF u, k
      <4> QED BY <4>1, <4>2, <4>3 DEF SlotType
    <3>2. /\ t.conn = c /\ t.len = -1 /\ t.buffLen = 0 /\ t.received = 0 /\ t.cgi = s.cgi
      BY <2>3 DEF SlotType
    <3> QED BY <3>1, <3>2
  <2>5. t.cgi = NULL
    BY <2>1, <2>3, <2>4 DEF SlotInv
  <2>6. SlotInv(t, hist)
    <3>1. Receiving(t)
      BY <2>4, <2>5 DEF Receiving
    <3>2. FileState(t) /\ t.cgi # "cgiUploadFirmware"
      BY <2>5, HandlersAreNames, NotNames DEF FileState, FileHandlers
    <3> HIDE DEF t
    <3> QED BY <1>3, <2>4, <3>1, <3>2 DEF SlotInv
  <2> HIDE DEF t, s
  <2>7. /\ slot' \in [Slots -> SlotType] /\ slot'[m] = t
        /\ \A j \in Slots : j # m => slot'[j] = slot[j]
    BY <1>5, <2>1, <2>4, SlotsChange DEF Inv
  <2>8. TypeOK'
    BY <1>1, <1>5, <2>2, <2>7 DEF Inv, TypeOK, Links
  <2>9. \A j \in Slots : slot[j].conn \in {NULL} \cup Conns
    BY TypeParts DEF Inv, SlotType
  <2>10. PoolInv'
    <3>1. \A j \in Slots : SlotInv(slot'[j], hist')
      BY <1>1, <2>6, <2>7 DEF Inv, PoolInv
    <3>2. \A j \in Slots : slot'[j].conn # NULL => link'[slot'[j].conn] \in {"open", "closing", "broken"}
      BY <1>3, <2>2, <2>4, <2>7, <2>9 DEF Inv, PoolInv
    <3>3. \A j, k \in Slots : slot'[j].conn # NULL /\ slot'[j].conn = slot'[k].conn => j = k
      BY <1>3, <2>4, <2>7 DEF Inv, PoolInv
    <3>4. \A e \in Conns : link'[e] = "open" => \E j \in Slots : slot'[j].conn = e
      <4> SUFFICES ASSUME NEW e \in Conns, link'[e] = "open" PROVE \E j \in Slots : slot'[j].conn = e
        OBVIOUS
      <4>1. CASE e = c
        BY <2>1, <2>4, <2>7, <4>1
      <4>2. CASE e # c
        <5>1. PICK j \in Slots : slot[j].conn = e
          BY <2>2, <4>2 DEF Inv, PoolInv
        <5>2. j # m
          BY <2>1, <5>1, NotNames
        <5> QED BY <2>7, <5>1, <5>2
      <4> QED BY <4>1, <4>2
    <3>5. \A e \in Conns : link'[e] \in {"new", "refused"} => hist'.asked[e] = NULL
      BY <1>1, <1>3, <2>2 DEF Inv, PoolInv
    <3>6. \A e \in Conns : hist'.asked[e] = NULL => out'[e] = <<>> /\ pending'[e] = 0
      BY <1>1 DEF Inv, PoolInv
    <3> QED BY <3>1, <3>2, <3>3, <3>4, <3>5, <3>6 DEF PoolInv
  <2> QED BY <1>1, <2>8, <2>10 DEF Inv, FirmwareKept, SameRunning
<1> QED BY <1>2, <1>4, <1>5

(* A connection that closes, or breaks off, keeps its slot for now.         *)
LEMMA LinkStep ==
  ASSUME Inv, NEW c \in Conns, link[c] = "open", NEW x \in {"closing", "broken"},
         link' = [link EXCEPT ![c] = x], slot' = slot, dev' = dev, out' = out, plan' = plan,
         pending' \in [Conns -> Nat], hist' \in HistType, hist'.asked = hist.asked,
         \A e \in Conns : pending'[e] = pending[e] \/ pending'[e] = 0
  PROVE  Inv' /\ FirmwareKept
<1>1. /\ link' \in [Conns -> Links] /\ link'[c] = x
      /\ \A e \in Conns : e # c => link'[e] = link[e]
  BY LinkChange DEF Links, Inv
<1>2. TypeOK'
  BY <1>1 DEF Inv, TypeOK, Links
<1>3. \A i \in Slots : SlotInv(slot'[i], hist')
  BY DEF Inv, PoolInv, SlotInv
<1>4. \A i \in Slots : slot'[i].conn # NULL => link'[slot'[i].conn] \in {"open", "closing", "broken"}
  <2>1. \A i \in Slots : slot[i].conn \in {NULL} \cup Conns
    BY TypeParts DEF Inv, SlotType
  <2> QED BY <1>1, <2>1 DEF Inv, PoolInv
<1>5. /\ \A i, j \in Slots : slot'[i].conn # NULL /\ slot'[i].conn = slot'[j].conn => i = j
      /\ \A e \in Conns : link'[e] = "open" => \E i \in Slots : slot'[i].conn = e
      /\ \A e \in Conns : link'[e] \in {"new", "refused"} => hist'.asked[e] = NULL
      /\ \A e \in Conns : hist'.asked[e] = NULL => out'[e] = <<>> /\ pending'[e] = 0
  BY <1>1 DEF Inv, PoolInv
<1>6. PoolInv'
  BY <1>3, <1>4, <1>5 DEF PoolInv
<1> QED BY <1>2, <1>6 DEF Inv, FirmwareKept, SameRunning

LEMMA ClientClosesStep ==
  ASSUME Inv, NEW c \in Conns, ClientCloses(c), UNCHANGED plan
  PROVE  Inv' /\ FirmwareKept
<1>1. /\ link[c] = "open" /\ link' = [link EXCEPT ![c] = "closing"]
      /\ slot' = slot /\ dev' = dev /\ out' = out /\ pending' = pending
      /\ hist' = [hist EXCEPT !.fails = @ + 1]
  BY DEF ClientCloses
<1>2. hist' \in HistType /\ hist'.asked = hist.asked
  BY <1>1, TypeParts DEF Inv, HistType
<1>3. pending' \in [Conns -> Nat]
  BY <1>1 DEF Inv, TypeOK
<1> QED BY <1>1, <1>2, <1>3, LinkStep

LEMMA ReconStep ==
  ASSUME Inv, NEW c \in Conns, ReconCb(c), UNCHANGED plan
  PROVE  Inv' /\ FirmwareKept
<1>1. /\ link[c] = "open" /\ link' = [link EXCEPT ![c] = "broken"]
      /\ slot' = slot /\ dev' = dev /\ out' = out /\ pending' = [pending EXCEPT ![c] = 0]
      /\ hist' = [hist EXCEPT !.fails = @ + 1]
  BY DEF ReconCb
<1>2. hist' \in HistType /\ hist'.asked = hist.asked
  BY <1>1, TypeParts DEF Inv, HistType
<1>3. /\ pending' \in [Conns -> Nat]
      /\ \A e \in Conns : pending'[e] = pending[e] \/ pending'[e] = 0
  BY <1>1 DEF Inv, TypeOK
<1> QED BY <1>1, <1>2, <1>3, LinkStep

(* The SDK reports what was sent.                                           *)
IsRetired(s) == s.conn = NULL /\ s.cgi = NULL /\ ~s.buff

LEMMA RetiredIs ==
  ASSUME NEW s \in SlotType
  PROVE  Retired(s) \in SlotType /\ IsRetired(Retired(s))
BY DEF Retired, SlotType, IsRetired

LEMMA CloseStep ==
  ASSUME Inv, NEW c \in Conns, NEW i \in FindConn(c), link[c] = "open", CloseConn(i, c),
         UNCHANGED plan
  PROVE  Inv' /\ FirmwareKept
<1>1. /\ i \in Slots /\ slot[i].conn = c /\ slot[i] \in SlotType /\ c # NULL
  BY FoundSlot
<1>2. /\ slot' = [slot EXCEPT ![i] = Retired(slot[i])]
      /\ link' = [link EXCEPT ![c] = "closing"] /\ pending' = [pending EXCEPT ![c] = 0]
      /\ hist' = [hist EXCEPT !.served = @ \cup {c}] /\ dev' = dev /\ out' = out
  BY DEF CloseConn
<1>3. Retired(slot[i]) \in SlotType /\ IsRetired(Retired(slot[i]))
  BY <1>1, RetiredIs
<1>4. /\ slot' \in [Slots -> SlotType] /\ IsRetired(slot'[i])
      /\ \A j \in Slots : j # i => slot'[j] = slot[j]
  BY <1>1, <1>2, <1>3, SlotsChange DEF Inv
<1>5. /\ link' \in [Conns -> Links] /\ link'[c] = "closing"
      /\ \A e \in Conns : e # c => link'[e] = link[e]
  BY <1>2, LinkChange DEF Links, Inv
<1>6. hist' \in HistType /\ hist'.asked = hist.asked
  BY <1>2, TypeParts DEF Inv, HistType
<1>7. /\ pending' \in [Conns -> Nat]
      /\ \A e \in Conns : pending'[e] = pending[e] \/ pending'[e] = 0
  BY <1>2 DEF Inv, TypeOK
<1>8. TypeOK'
  BY <1>2, <1>4, <1>5, <1>6, <1>7 DEF Inv, TypeOK, Links
<1>9. \A j \in Slots : j # i => slot[j].conn # c
  BY <1>1 DEF Inv, PoolInv
<1>10. \A j \in Slots : slot[j].conn \in {NULL} \cup Conns
  BY TypeParts DEF Inv, SlotType
<1>11. PoolInv'
  <2>1. \A j \in Slots : SlotInv(slot'[j], hist')
    BY <1>4, <1>6 DEF Inv, PoolInv, SlotInv, IsRetired
  <2>2. \A j \in Slots : slot'[j].conn # NULL => link'[slot'[j].conn] \in {"open", "closing", "broken"}
    BY <1>4, <1>5, <1>9, <1>10 DEF Inv, PoolInv, IsRetired
  <2>3. \A j, k \in Slots : slot'[j].conn # NULL /\ slot'[j].conn = slot'[k].conn => j = k
    BY <1>4 DEF Inv, PoolInv, IsRetired
  <2>4. \A e \in Conns : link'[e] = "open" => \E j \in Slots : slot'[j].conn = e
    <3> SUFFICES ASSUME NEW e \in Conns, link'[e] = "open" PROVE \E j \in Slots : slot'[j].conn = e
      OBVIOUS
    <3>1. PICK j \in Slots : slot[j].conn = e
      BY <1>5 DEF Inv, PoolInv
    <3>2. j # i
      BY <1>1, <1>5, <3>1
    <3> QED BY <1>4, <3>1, <3>2
  <2>5. /\ \A e \in Conns : link'[e] \in {"new", "refused"} => hist'.asked[e] = NULL
        /\ \A e \in Conns : hist'.asked[e] = NULL => out'[e] = <<>> /\ pending'[e] = 0
    BY <1>2, <1>5, <1>6, <1>7 DEF Inv, PoolInv
  <2> QED BY <2>1, <2>2, <2>3, <2>4, <2>5 DEF PoolInv
<1> QED BY <1>2, <1>8, <1>11 DEF Inv, FirmwareKept, SameRunning

(* What a handler at work is called with.                                   *)
LEMMA WorkingSlot ==
  ASSUME NEW s \in SlotType, NEW h, s.conn # NULL, SlotInv(s, h), s.cgi # NULL
  PROVE  /\ s.cgi \in CgiNames /\ CanCall(s.cgi, s) /\ Handed(s.cgi, s) /\ s.len # -1
         /\ h.asked[s.conn] = s.req /\ s.req \in Requests
<1>1. Receiving(s) /\ FileState(s) /\ s.len # -1
  BY DEF SlotInv, Receiving
<1>2. s.req \in Requests /\ Done(s) >= 0 /\ s.cgi \in CgiNames
  BY <1>1 DEF Receiving, SlotType
<1>3. CanCall(s.cgi, s)
  BY <1>1, <1>2 DEF CanCall, FileState
<1>4. Handed(s.cgi, s)
  BY <1>2 DEF Handed, Done
<1> QED BY <1>1, <1>2, <1>3, <1>4 DEF SlotInv

LEMMA GoOnStep ==
  ASSUME Inv, NEW c \in Conns, NEW i \in FindConn(c), link[c] = "open", pending[c] > 0,
         slot[i].cgi # NULL, GoOn(i, c), UNCHANGED plan
  PROVE  Inv' /\ FirmwareKept
<1> DEFINE s == slot[i]
           r == Cgi(s.cgi, s, dev)
           t == Kept(s, r)
<1>1. /\ i \in Slots /\ slot[i].conn = c /\ slot[i] \in SlotType /\ c # NULL /\ dev \in DevType
      /\ SlotInv(slot[i], hist) /\ Receiving(slot[i])
  BY FoundSlot, TypeParts DEF Inv
<1>2. /\ slot' = [slot EXCEPT ![i] = t] /\ dev' = r.dev /\ link' = link
      /\ out' = [out EXCEPT ![c] = @ \o r.out]
      /\ pending' = [pending EXCEPT ![c] = IF r.out = <<>> THEN @ - 1 ELSE @]
      /\ hist' = [hist EXCEPT !.disturbed =
                      IF r.dev.wifi.scanInProgress /\ ~dev.wifi.scanInProgress
                      THEN @ \cup {d \in Conns \ {c} : link[d] = "open"} ELSE @]
  BY DEF GoOn
<1>3. /\ s.cgi \in CgiNames /\ CanCall(s.cgi, s) /\ Handed(s.cgi, s) /\ s.len # -1
      /\ hist.asked[c] = s.req /\ s.req \in Requests
  BY <1>1, WorkingSlot
<1>4. Called(s.cgi, s, dev, r) /\ KeepsRunning(s, r.dev, dev)
  <2> HIDE DEF s
  <2> QED BY <1>1, <1>3, CgiCalled
<1>5. /\ t \in SlotType /\ SameRest(t, s) /\ t.data = r.data
      /\ t.cgi = IF r.ret = "MORE" THEN s.cgi ELSE NULL
  <2> HIDE DEF s, r
  <2> QED BY <1>1, <1>4, KeptIs DEF Called, s
<1>6. FileState(t)
  <2>1. CASE r.ret = "MORE"
    BY <1>4, <1>5, <2>1 DEF FileState, Called
  <2>2. CASE r.ret # "MORE"
    BY <1>5, <2>2, HandlersAreNames DEF FileState, FileHandlers
  <2> QED BY <2>1, <2>2
<1>7. hist' \in HistType /\ hist'.asked = hist.asked
  BY <1>2, TypeParts DEF Inv, HistType
<1>8. /\ pending' \in [Conns -> Nat] /\ DOMAIN out' = Conns
      /\ \A e \in Conns : e # c => out'[e] = out[e] /\ pending'[e] = pending[e]
  BY <1>2 DEF Inv, TypeOK
<1>9. dev' \in DevType
  BY <1>2, <1>4 DEF Called, Typed
<1> HIDE DEF t, r
<1>10. slot' \in [Slots -> SlotType]
  BY <1>1, <1>2, <1>5, SlotsChange DEF Inv
<1>11. TypeOK'
  BY <1>2, <1>7, <1>8, <1>9, <1>10 DEF Inv, TypeOK
<1>12. SlotInv(t, hist')
  <2>1. Receiving(t)
    <3>1. t.cgi = s.cgi \/ t.cgi = NULL
      BY <1>5
    <3> QED BY <1>1, <1>5, <3>1 DEF Receiving, SameRest, Done
  <2>2. Done(t) = Done(s)
    BY <1>5 DEF Done, SameRest
  <2>3. "cgiUploadFirmware" # NULL
    BY HandlersAreNames, NotNames
  <2> HIDE DEF s
  <2> QED BY <1>1, <1>3, <1>5, <1>6, <1>7, <2>1, <2>2, <2>3 DEF SlotInv, SameRest, s
<1>13. PoolInv'
  <2>1. s.req # NULL /\ t.conn = c
    BY <1>1, <1>3, <1>5, RequestsAreReal DEF SameRest
  <2>2. HasAsked(c, s.req) /\ OthersWait(c)
    BY <1>3, <1>7, <1>8, TypeParts DEF HasAsked, OthersWait, Inv
  <2> QED BY <1>1, <1>2, <1>5, <1>12, <2>1, <2>2, OneSlot
<1>14. FirmwareKept
  <2>1. CASE s.cgi = "cgiUploadFirmware"
    <3>1. s.req.url = "/flash/upload" /\ s.len = s.req.len /\ s.received <= s.req.sent
      BY <1>1, <1>3, <2>1 DEF SlotInv, Receiving
    <3>2. NoneOverruns => Fits(s)
      BY <1>1, <1>3, <3>1, NothingOverruns
    <3> QED BY <1>2, <1>4, <3>2 DEF FirmwareKept, KeepsRunning
  <2>2. CASE s.cgi # "cgiUploadFirmware"
    BY <1>2, <1>4, <2>2 DEF FirmwareKept, SameRunning, SameFlash, Called
  <2> QED BY <2>1, <2>2
<1> QED BY <1>11, <1>13, <1>14 DEF Inv

(* The loop over the slots, as a function.                                   *)
IsAbortLoop(f, dead, k) ==
  f = [n \in 0..k |-> IF n = 0 THEN [slot |-> slot, dev |-> dev]
                      ELSE IF n \in dead THEN Aborted(f[n - 1], n) ELSE f[n - 1]]

LEMMA AbortLoopExists ==
  ASSUME NEW dead, NEW N \in Nat
  PROVE  \E f : IsAbortLoop(f, dead, N)
<1> DEFINE Bad == {k \in Nat : ~\E f : IsAbortLoop(f, dead, k)}
<1> SUFFICES ASSUME Bad # {} PROVE FALSE
  OBVIOUS
<1>1. PICK k \in Bad : \A j \in Bad : k <= j
  BY LeastNumber
<1>2. CASE k = 0
  <2> DEFINE g == [n \in 0..0 |-> [slot |-> slot, dev |-> dev]]
  <2>1. IsAbortLoop(g, dead, k)
    BY <1>2 DEF IsAbortLoop
  <2> QED BY <2>1
<1>3. CASE k # 0
  <2>1. k - 1 \in Nat /\ k - 1 \notin Bad
    BY <1>1, <1>3
  <2>2. PICK f : IsAbortLoop(f, dead, k - 1)
    BY <2>1
  <2> DEFINE g == [n \in 0..k |-> IF n < k THEN f[n]
                      ELSE IF n \in dead THEN Aborted(f[n - 1], n) ELSE f[n - 1]]
  <2>3. IsAbortLoop(g, dead, k)
    BY <2>2, <1>3 DEF IsAbortLoop
  <2> QED BY <2>3
<1> QED BY <1>2, <1>3

LEMMA AbortLoop ==
  ASSUME NEW dead
  PROVE \E f : /\ AbortAll(dead) = f[MaxConn]
               /\ f[0] = [slot |-> slot, dev |-> dev]
               /\ \A n \in 1..MaxConn : f[n] = IF n \in dead THEN Aborted(f[n-1], n) ELSE f[n-1]
<1> DEFINE upto == CHOOSE f : IsAbortLoop(f, dead, MaxConn)
<1>0. MaxConn \in Nat
  BY EspHttpdAssumption
<1>1. AbortAll(dead) = upto[MaxConn]
  BY DEF AbortAll, IsAbortLoop
<1>2. \E f : IsAbortLoop(f, dead, MaxConn)
  BY <1>0, AbortLoopExists
<1>3. IsAbortLoop(upto, dead, MaxConn)
  BY <1>2
<1> HIDE DEF upto
<1>4. upto[0] = [slot |-> slot, dev |-> dev]
  BY <1>0, <1>3 DEF IsAbortLoop
<1>5. ASSUME NEW n \in 1..MaxConn
      PROVE  upto[n] = IF n \in dead THEN Aborted(upto[n-1], n) ELSE upto[n-1]
  <2>1. n \in 0..MaxConn /\ n # 0
    BY <1>0
  <2> QED BY <1>3, <2>1 DEF IsAbortLoop
<1> QED BY <1>1, <1>4, <1>5

(* The callback of a disconnect goes over all slots.                        *)
LEMMA FilesFinite ==
  ASSUME NEW sl
  PROVE  IsFiniteSet(FilesOf(sl)) /\ Cardinality(FilesOf(sl)) \in Nat
<1>1. IsFiniteSet(Slots)
  BY EspHttpdAssumption, FS_Interval DEF Slots
<1>2. FilesOf(sl) \in SUBSET Slots
  BY DEF FilesOf
<1> QED BY <1>1, <1>2, FS_Subset, FS_CardinalityType

LEMMA FilesAfter ==
  ASSUME NEW sl \in [Slots -> SlotType], NEW i \in Slots, NEW t \in SlotType,
         NEW new, new = [sl EXCEPT ![i] = t]
  PROVE  Cardinality(FilesOf(new)) = (Cardinality(FilesOf(sl)) - Files1(sl[i])) + Files1(t)
<1> DEFINE A == FilesOf(sl) \ {i}
<1>1. /\ IsFiniteSet(A)
      /\ Cardinality(A) = IF i \in FilesOf(sl) THEN Cardinality(FilesOf(sl)) - 1
                          ELSE Cardinality(FilesOf(sl))
  BY FilesFinite, FS_RemoveElement
<1>2. Cardinality(FilesOf(sl)) \in Nat /\ Cardinality(A) \in Nat
  BY <1>1, FilesFinite, FS_CardinalityType
<1>3. Cardinality(A) = Cardinality(FilesOf(sl)) - Files1(sl[i])
  BY <1>1, <1>2 DEF Files1, FilesOf
<1>4. CASE t.cgi \in FileHandlers
  <2>1. FilesOf(new) = A \cup {i}
    BY <1>4 DEF FilesOf
  <2>2. i \notin A
    OBVIOUS
  <2> HIDE DEF A
  <2>3. Cardinality(A \cup {i}) = Cardinality(A) + 1
    BY <1>1, <2>2, FS_AddElement
  <2> QED BY <1>3, <1>4, <2>1, <2>3 DEF Files1
<1>5. CASE t.cgi \notin FileHandlers
  <2>1. FilesOf(new) = A
    BY <1>5 DEF FilesOf
  <2>2. Files1(t) = 0
    BY <1>5 DEF Files1
  <2> HIDE DEF A
  <2> QED BY <1>2, <1>3, <2>1, <2>2
<1> QED BY <1>4, <1>5

LEMMA FileAborted ==
  ASSUME NEW name \in FileHandlers, NEW s, s.conn = NULL, NEW d
  PROVE  Cgi(name, s, d).dev = Closed(d)
<1>1. CASE name \in TplCallbacks
  <2>1. Cgi(name, s, d) = EspFsTemplate(s, d, name)
    BY <1>1, CgiIs
  <2>2. EspFsTemplate(s, d, name) = Result("DONE", s, <<>>, Closed(d))
    BY DEF EspFsTemplate
  <2> QED BY <2>1, <2>2, ResultIs
<1>2. CASE name = "cgiEspFsHook"
  <2>1. Cgi(name, s, d) = EspFsHook(s, d)
    BY <1>2, CgiIs
  <2>2. EspFsHook(s, d) = Result("DONE", s, <<>>, Closed(d))
    BY DEF EspFsHook
  <2> QED BY <2>1, <2>2, ResultIs
<1> QED BY <1>1, <1>2 DEF FileHandlers

LEMMA AbortedIs ==
  ASSUME NEW acc, acc = [slot |-> acc.slot, dev |-> acc.dev],
         acc.slot \in [Slots -> SlotType], acc.dev \in DevType,
         NEW i \in Slots, acc.slot[i].conn # NULL, NEW h, SlotInv(acc.slot[i], h)
  PROVE  \E t \in SlotType, e \in DevType :
           /\ Aborted(acc, i) = [slot |-> [acc.slot EXCEPT ![i] = t], dev |-> e]
           /\ IsRetired(t) /\ SameFlash(e, acc.dev)
           /\ e.files = acc.dev.files - Files1(acc.slot[i])
           /\ e.wifi.apData = acc.dev.wifi.apData
<1> DEFINE old == acc.slot[i]
           s   == [old EXCEPT !.conn = NULL]
           r   == Cgi(s.cgi, s, acc.dev)
<1>1. old \in SlotType /\ old.conn # NULL /\ SlotInv(old, h)
  OBVIOUS
<1>2. /\ s \in SlotType /\ s.conn = NULL /\ s.cgi = old.cgi /\ s.data = old.data
      /\ s.req = old.req
  <2> HIDE DEF old
  <2>1. s \in SlotType
    BY <1>1 DEF SlotType
  <2>2. s.conn = NULL /\ s.cgi = old.cgi /\ s.data = old.data /\ s.req = old.req
    BY <1>1 DEF SlotType
  <2> QED BY <2>1, <2>2
<1>3. CASE old.cgi = NULL
  <2> DEFINE t == Retired(s)
  <2>1. Aborted(acc, i) = [slot |-> [acc.slot EXCEPT ![i] = t], dev |-> acc.dev]
    BY <1>2, <1>3 DEF Aborted
  <2>2. t \in SlotType /\ IsRetired(t)
    <3> HIDE DEF s
    <3> QED BY <1>2, RetiredIs
  <2>3. SameFlash(acc.dev, acc.dev)
    BY DEF SameFlash
  <2>4. acc.dev.files = acc.dev.files - Files1(acc.slot[i])
    <3>1. Files1(acc.slot[i]) = 0
      BY <1>3, HandlersAreNames DEF Files1
    <3>2. acc.dev.files \in Int
      BY DevFields
    <3> QED BY <3>1, <3>2
  <2> HIDE DEF t
  <2> QED BY <2>1, <2>2, <2>3, <2>4
<1>4. CASE old.cgi # NULL
  <2> DEFINE t == Retired(Kept(s, r))
  <2>1. Aborted(acc, i) = [slot |-> [acc.slot EXCEPT ![i] = t], dev |-> r.dev]
    BY <1>2, <1>4 DEF Aborted
  <2>2. old.cgi \in CgiNames /\ CanCall(old.cgi, old)
    <3> HIDE DEF old
    <3> QED BY <1>1, <1>4, WorkingSlot
  <2>3. s.cgi \in FileHandlers => s.data # NULL
    <3>1. FileState(old)
      BY <1>1 DEF SlotInv
    <3> HIDE DEF s, old
    <3> QED BY <1>2, <3>1, NotNames DEF FileState, FileHandlers
  <2>4. s.cgi \in CgiNames /\ CanCall(s.cgi, s) /\ Handed(s.cgi, s)
    <3> HIDE DEF s, old
    <3> QED BY <1>2, <2>2, <2>3 DEF CanCall, Handed
  <2> HIDE DEF s
  <2>5. Called(s.cgi, s, acc.dev, r)
    BY <2>4, CgiCalled
  <2>6. SameFlash(r.dev, acc.dev)
    <3>1. CASE s.cgi = "cgiUploadFirmware"
      <4>1. r.dev = acc.dev
        BY <1>2, <2>4, <3>1, CgiIs, UploadCall
      <4> QED BY <4>1 DEF SameFlash
    <3>2. CASE s.cgi # "cgiUploadFirmware"
      BY <2>5, <3>2 DEF Called
    <3> QED BY <3>1, <3>2
  <2>7. r.dev.files = acc.dev.files - Files1(acc.slot[i])
    <3>1. acc.dev.files \in Int
      BY DevFields
    <3>2. CASE s.cgi \in FileHandlers
      <4>1. r.dev = Closed(acc.dev)
        BY <1>2, <3>2, FileAborted
      <4>2. Files1(acc.slot[i]) = 1
        BY <1>2, <3>2 DEF Files1
      <4> QED BY <4>1, <4>2, OpenedClosed
    <3>3. CASE s.cgi \notin FileHandlers
      <4>1. r.dev.files = acc.dev.files
        BY <2>5, <3>3 DEF Called
      <4>2. Files1(acc.slot[i]) = 0
        BY <1>2, <3>3 DEF Files1
      <4> QED BY <3>1, <4>1, <4>2
    <3> QED BY <3>2, <3>3
  <2>8. r.dev \in DevType /\ Typed(r)
    BY <2>5 DEF Called, Typed
  <2>9. r.dev.wifi.apData = acc.dev.wifi.apData
    BY <2>4, Scans DEF Scanning
  <2> HIDE DEF r
  <2>10. t \in SlotType /\ IsRetired(t)
    <3>1. Kept(s, r) \in SlotType
      BY <1>2, <2>8, KeptIs
    <3> QED BY <3>1, RetiredIs
  <2> HIDE DEF t
  <2> QED BY <2>1, <2>6, <2>7, <2>8, <2>9, <2>10
<1> QED BY <1>3, <1>4

(* The slots, the flash, the list and the files, after n slots.              *)
LoopState(acc, n, dead) ==
  /\ acc = [slot |-> acc.slot, dev |-> acc.dev]
  /\ acc.slot \in [Slots -> SlotType] /\ acc.dev \in DevType /\ SameFlash(acc.dev, dev)
  /\ acc.dev.wifi.apData = dev.wifi.apData
  /\ \A j \in Slots : IF j \in dead /\ j <= n THEN IsRetired(acc.slot[j])
                      ELSE acc.slot[j] = slot[j]
  /\ acc.dev.files - Cardinality(FilesOf(acc.slot)) = dev.files - Cardinality(FilesOf(slot))

LEMMA LoopStep ==
  ASSUME Inv, NEW dead, dead \subseteq {i \in Slots : slot[i].conn # NULL},
         NEW n \in 1..MaxConn, NEW acc, LoopState(acc, n - 1, dead)
  PROVE  LoopState(IF n \in dead THEN Aborted(acc, n) ELSE acc, n, dead)
<1>0. MaxConn \in Nat /\ n \in Slots /\ Slots \subseteq Int /\ n \in Int
  BY EspHttpdAssumption DEF Slots
<1>1. CASE n \notin dead
  <2>1. \A j \in Slots : j \in dead => (j <= n <=> j <= n - 1)
    BY <1>0, <1>1
  <2> QED BY <1>1, <2>1 DEF LoopState
<1>2. CASE n \in dead
  <2>1. acc.slot[n] = slot[n]
    BY <1>0 DEF LoopState
  <2>2. slot[n].conn # NULL /\ SlotInv(slot[n], hist)
    BY <1>0, <1>2 DEF Inv, PoolInv
  <2>3. /\ acc = [slot |-> acc.slot, dev |-> acc.dev]
        /\ acc.slot \in [Slots -> SlotType] /\ acc.dev \in DevType
    BY DEF LoopState
  <2>4. PICK t \in SlotType, e \in DevType :
           /\ Aborted(acc, n) = [slot |-> [acc.slot EXCEPT ![n] = t], dev |-> e]
           /\ IsRetired(t) /\ SameFlash(e, acc.dev)
           /\ e.files = acc.dev.files - Files1(acc.slot[n])
           /\ e.wifi.apData = acc.dev.wifi.apData
    BY <1>0, <2>1, <2>2, <2>3, AbortedIs
  <2> DEFINE new == [acc.slot EXCEPT ![n] = t]
             b   == [slot |-> new, dev |-> e]
  <2>5. /\ new \in [Slots -> SlotType] /\ new[n] = t
        /\ \A j \in Slots : j # n => new[j] = acc.slot[j]
    BY <1>0, <2>3
  <2>6. Cardinality(FilesOf(new)) = (Cardinality(FilesOf(acc.slot)) - Files1(acc.slot[n])) + Files1(t)
    BY <1>0, <2>3, FilesAfter
  <2> HIDE DEF new
  <2>7. Files1(t) = 0
    BY <2>4, HandlersAreNames DEF Files1, IsRetired
  <2>8. e.files - Cardinality(FilesOf(new)) = dev.files - Cardinality(FilesOf(slot))
    <3>1. /\ acc.dev.files \in Int /\ Cardinality(FilesOf(acc.slot)) \in Int
          /\ Files1(acc.slot[n]) \in Int
          /\ dev.files \in Int /\ Cardinality(FilesOf(slot)) \in Int
      <4>1. acc.dev.files \in Int
        BY <2>3, DevFields
      <4>2. dev.files \in Int
        BY TypeParts, DevFields DEF Inv
      <4>3. Cardinality(FilesOf(acc.slot)) \in Nat /\ Cardinality(FilesOf(slot)) \in Nat
        BY FilesFinite
      <4>4. Files1(acc.slot[n]) \in Int
        BY DEF Files1
      <4> QED BY <4>1, <4>2, <4>3, <4>4
    <3>2. acc.dev.files - Cardinality(FilesOf(acc.slot)) = dev.files - Cardinality(FilesOf(slot))
      BY DEF LoopState
    <3> QED BY <2>4, <2>6, <2>7, <3>1, <3>2
  <2>9. \A j \in Slots : IF j \in dead /\ j <= n THEN IsRetired(new[j]) ELSE new[j] = slot[j]
    <3> SUFFICES ASSUME NEW j \in Slots
                 PROVE  IF j \in dead /\ j <= n THEN IsRetired(new[j]) ELSE new[j] = slot[j]
      OBVIOUS
    <3>1. CASE j = n
      BY <1>0, <1>2, <2>4, <2>5, <3>1
    <3>2. CASE j # n
      <4>1. j <= n <=> j <= n - 1
        BY <1>0, <3>2
      <4>2. new[j] = acc.slot[j]
        BY <2>5, <3>2
      <4>3. IF j \in dead /\ j <= n - 1 THEN IsRetired(acc.slot[j]) ELSE acc.slot[j] = slot[j]
        BY DEF LoopState
      <4> QED BY <4>1, <4>2, <4>3
    <3> QED BY <3>1, <3>2
  <2>10. SameFlash(e, dev) /\ e.wifi.apData = dev.wifi.apData
    BY <2>4 DEF SameFlash, LoopState
  <2>11. b.slot = new /\ b.dev = e /\ Aborted(acc, n) = b
    BY <2>4 DEF new
  <2> HIDE DEF b
  <2>12. b = [slot |-> b.slot, dev |-> b.dev]
    BY <2>11 DEF b
  <2>13. LoopState(b, n, dead)
    BY <2>4, <2>5, <2>8, <2>9, <2>10, <2>11, <2>12 DEF LoopState
  <2> QED BY <1>2, <2>11, <2>13
<1> QED BY <1>1, <1>2

LEMMA AllAborted ==
  ASSUME Inv, NEW dead, dead \subseteq {i \in Slots : slot[i].conn # NULL}
  PROVE  LoopState(AbortAll(dead), MaxConn, dead)
<1>0. MaxConn \in Nat
  BY EspHttpdAssumption
<1>1. PICK f : /\ AbortAll(dead) = f[MaxConn]
               /\ f[0] = [slot |-> slot, dev |-> dev]
               /\ \A n \in 1..MaxConn : f[n] = IF n \in dead THEN Aborted(f[n-1], n) ELSE f[n-1]
  BY AbortLoop
<1>2. LoopState(f[0], 0, dead)
  <2>1. \A j \in Slots : ~(j <= 0)
    BY DEF Slots
  <2>2. /\ slot \in [Slots -> SlotType] /\ dev \in DevType /\ SameFlash(dev, dev)
    BY DEF Inv, TypeOK, SameFlash
  <2> QED BY <1>1, <2>1, <2>2 DEF LoopState
<1>3. ASSUME NEW n \in 1..MaxConn, LoopState(f[n - 1], n - 1, dead)
      PROVE  LoopState(f[n], n, dead)
  BY <1>1, <1>3, LoopStep
<1> DEFINE Bad == {n \in 0..MaxConn : ~LoopState(f[n], n, dead)}
<1>4. Bad = {}
  <2> SUFFICES ASSUME Bad # {} PROVE FALSE
    OBVIOUS
  <2>1. PICK n \in Bad : \A m \in Bad : n <= m
    <3>1. Bad \subseteq Nat
      BY <1>0
    <3> HIDE DEF Bad
    <3> QED BY <3>1, LeastNumber
  <2>2. n # 0
    BY <1>2, <2>1
  <2>3. n \in 1..MaxConn /\ n - 1 \in 0..MaxConn /\ n - 1 \notin Bad
    BY <1>0, <2>1, <2>2
  <2> QED BY <1>3, <2>1, <2>3
<1> QED BY <1>0, <1>1, <1>4

(* It leaves the slots of the others alone.                                 *)
LEMMA DisconIs ==
  ASSUME Inv, NEW c \in Conns, NEW looks, DisconCb(c, looks)
  PROVE  /\ LoopState([slot |-> slot', dev |-> dev'], MaxConn, Dead(looks))
         /\ slot' \in [Slots -> SlotType] /\ dev' \in DevType /\ SameFlash(dev', dev)
         /\ dev'.wifi.apData = dev.wifi.apData
         /\ \A j \in Slots : IF j \in Dead(looks) THEN IsRetired(slot'[j]) ELSE slot'[j] = slot[j]
         /\ dev'.files - Cardinality(FilesOf(slot')) = dev.files - Cardinality(FilesOf(slot))
<1> DEFINE acc == AbortAll(Dead(looks))
<1>1. slot' = acc.slot /\ dev' = acc.dev
  BY DEF DisconCb, Dead
<1>2. LoopState(acc, MaxConn, Dead(looks))
  BY AllAborted DEF Dead
<1> HIDE DEF acc
<1>3. LoopState([slot |-> slot', dev |-> dev'], MaxConn, Dead(looks))
  BY <1>1, <1>2 DEF LoopState
<1>4. \A j \in Slots : j <= MaxConn
  BY EspHttpdAssumption DEF Slots
<1> QED BY <1>3, <1>4 DEF LoopState

LEMMA DisconStep ==
  ASSUME Inv, NEW c \in Conns, NEW looks \in SUBSET Broken, DisconCb(c, looks), UNCHANGED plan
  PROVE  Inv' /\ FirmwareKept
<1>1. /\ slot' \in [Slots -> SlotType] /\ dev' \in DevType /\ SameFlash(dev', dev)
      /\ \A j \in Slots : IF j \in Dead(looks) THEN IsRetired(slot'[j]) ELSE slot'[j] = slot[j]
  BY DisconIs
<1>2. /\ link[c] = "closing" /\ link' = [link EXCEPT ![c] = "gone"] /\ out' = out
      /\ pending' = [pending EXCEPT ![c] = 0]
  BY DEF DisconCb
<1>3. hist' \in HistType /\ hist'.asked = hist.asked
  <2>1. \E x \in SUBSET Conns : hist' = [hist EXCEPT !.disturbed = x]
    BY TypeParts DEF DisconCb, Inv, HistType
  <2> QED BY <2>1, TypeParts DEF Inv, HistType
<1>4. /\ link' \in [Conns -> Links] /\ link'[c] = "gone"
      /\ \A e \in Conns : e # c => link'[e] = link[e]
  BY <1>2, LinkChange DEF Links, Inv
<1>5. /\ pending' \in [Conns -> Nat]
      /\ \A e \in Conns : pending'[e] = pending[e] \/ pending'[e] = 0
  BY <1>2 DEF Inv, TypeOK
<1>6. TypeOK'
  BY <1>1, <1>2, <1>3, <1>4, <1>5 DEF Inv, TypeOK, Links
<1>7. \A j \in Slots : slot'[j] = slot[j] \/ IsRetired(slot'[j])
  BY <1>1
<1>8. \A j \in Slots : slot[j].conn \in {NULL} \cup Conns
  BY TypeParts DEF Inv, SlotType
<1>9. PoolInv'
  <2>1. \A j \in Slots : SlotInv(slot'[j], hist')
    BY <1>3, <1>7 DEF Inv, PoolInv, SlotInv, IsRetired
  <2>2. ASSUME NEW j \in Slots, slot'[j].conn # NULL
        PROVE  link'[slot'[j].conn] \in {"open", "closing", "broken"}
    <3>1. j \notin Dead(looks) /\ slot'[j] = slot[j]
      BY <1>1, <2>2 DEF IsRetired
    <3>2. slot[j].conn # c
      BY <1>2, <2>2, <3>1 DEF Dead
    <3> QED BY <1>4, <1>8, <2>2, <3>1, <3>2 DEF Inv, PoolInv
  <2>3. \A j, k \in Slots : slot'[j].conn # NULL /\ slot'[j].conn = slot'[k].conn => j = k
    BY <1>7 DEF Inv, PoolInv, IsRetired
  <2>4. ASSUME NEW e \in Conns, link'[e] = "open"
        PROVE  \E j \in Slots : slot'[j].conn = e
    <3>1. e # c /\ link[e] = "open"
      BY <1>4, <2>4
    <3>2. PICK j \in Slots : slot[j].conn = e
      BY <3>1 DEF Inv, PoolInv
    <3>3. j \notin Dead(looks)
      BY <3>1, <3>2 DEF Dead, Broken
    <3> QED BY <1>1, <3>2, <3>3
  <2>5. /\ \A e \in Conns : link'[e] \in {"new", "refused"} => hist'.asked[e] = NULL
        /\ \A e \in Conns : hist'.asked[e] = NULL => out'[e] = <<>> /\ pending'[e] = 0
    BY <1>2, <1>3, <1>4, <1>5 DEF Inv, PoolInv
  <2> QED BY <2>1, <2>2, <2>3, <2>4, <2>5 DEF PoolInv
<1> QED BY <1>1, <1>6, <1>9 DEF Inv, FirmwareKept, SameRunning, SameFlash

(* What the SDK does besides leaves connections and flash alone.            *)
LEMMA DevOnly ==
  ASSUME Inv, slot' = slot, link' = link, pending' = pending, out' = out, plan' = plan,
         dev' \in DevType, SameFlash(dev', dev), hist' \in HistType, hist'.asked = hist.asked
  PROVE  Inv' /\ FirmwareKept
<1>1. TypeOK'
  BY DEF Inv, TypeOK
<1>2. \A i \in Slots : SlotInv(slot'[i], hist')
  BY DEF Inv, PoolInv, SlotInv
<1>3. PoolInv'
  BY <1>2 DEF Inv, PoolInv
<1> QED BY <1>1, <1>3 DEF Inv, FirmwareKept, SameRunning, SameFlash

LEMMA WifiOnly ==
  ASSUME NEW d \in DevType, NEW w \in WifiType, NEW x \in {NULL, "upgrade", "plain"}
  PROVE  LET e == [d EXCEPT !.wifi = w, !.restart = x]
         IN e \in DevType /\ SameFlash(e, d) /\ e.files = d.files
<1> DEFINE e1 == [d EXCEPT !.wifi = w]
<1>1. e1 \in DevType /\ e1.flash = d.flash /\ e1.files = d.files
  BY DevFields
<1>2. [d EXCEPT !.wifi = w, !.restart = x] = [e1 EXCEPT !.restart = x]
  BY DEF DevType
<1> HIDE DEF e1
<1>3. LET e == [e1 EXCEPT !.restart = x]
      IN e \in DevType /\ e.flash = e1.flash /\ e.files = e1.files
  BY <1>1, DevFields
<1> QED BY <1>1, <1>2, <1>3 DEF SameFlash

LEMMA ScanDoneDev ==
  ASSUME NEW d \in DevType, NEW ok \in BOOLEAN, NEW k \in Nat, NEW n \in Nat
  PROVE  /\ ScanDone(d, ok, k, n) \in DevType /\ SameFlash(ScanDone(d, ok, k, n), d)
         /\ ScanDone(d, ok, k, n).files = d.files
<1> DEFINE w1 == [d.wifi EXCEPT !.scanInProgress = FALSE]
           w2 == [d.wifi EXCEPT !.scanInProgress = FALSE, !.apData = k, !.noAps = n]
<1>1. w1 \in WifiType /\ w2 \in WifiType
  BY DevWifi DEF WifiType
<1>2. \/ ScanDone(d, ok, k, n) = [d EXCEPT !.wifi = w1]
      \/ ScanDone(d, ok, k, n) = [d EXCEPT !.wifi = w2]
  BY DEF ScanDone, DevType
<1> HIDE DEF w1, w2
<1>3. ASSUME NEW e, NEW w \in WifiType, e = [d EXCEPT !.wifi = w]
      PROVE  e \in DevType /\ SameFlash(e, d) /\ e.files = d.files
  <2>1. e \in DevType /\ e.flash = d.flash /\ e.files = d.files
    BY <1>3, DevFields
  <2> QED BY <2>1 DEF SameFlash
<1> QED BY <1>1, <1>2, <1>3

LEMMA SdkDevs ==
  ASSUME NEW d \in DevType
  PROVE  /\ ReassTimerCb(d) \in DevType /\ SameFlash(ReassTimerCb(d), d)
            /\ ReassTimerCb(d).files = d.files
         /\ ResetTimerCb(d) \in DevType /\ SameFlash(ResetTimerCb(d), d)
            /\ ResetTimerCb(d).files = d.files
         /\ \A x \in {"off", "gotip"} :
              LET e == [d EXCEPT !.wifi.station = x]
              IN e \in DevType /\ SameFlash(e, d) /\ e.files = d.files
<1>0. d.wifi \in WifiType /\ d.restart \in {NULL, "upgrade", "plain"}
      /\ d = [d EXCEPT !.restart = d.restart]
  BY DEF DevType
<1>1. ASSUME NEW e, NEW w \in WifiType, NEW x \in {NULL, "upgrade", "plain"},
             e = [d EXCEPT !.wifi = w, !.restart = x]
      PROVE  e \in DevType /\ SameFlash(e, d) /\ e.files = d.files
  BY <1>1, WifiOnly
<1>2. ASSUME NEW e, NEW w \in WifiType, e = [d EXCEPT !.wifi = w]
      PROVE  e \in DevType /\ SameFlash(e, d) /\ e.files = d.files
  <2>1. e \in DevType /\ e.flash = d.flash /\ e.files = d.files
    BY <1>2, DevFields
  <2> QED BY <2>1 DEF SameFlash
<1>4. /\ ReassTimerCb(d) \in DevType /\ SameFlash(ReassTimerCb(d), d)
      /\ ReassTimerCb(d).files = d.files
  <2> DEFINE w == [d.wifi EXCEPT !.reassTimer = FALSE, !.station = "off",
                                 !.connTryStatus = "working",
                                 !.resetTimer = @ \/ d.wifi.opmode # 1]
  <2>1. w \in WifiType
    BY <1>0 DEF WifiType
  <2>2. ReassTimerCb(d) = [d EXCEPT !.wifi = w]
    BY DEF ReassTimerCb, DevType
  <2> HIDE DEF w
  <2> QED BY <1>2, <2>1, <2>2
<1>5. /\ ResetTimerCb(d) \in DevType /\ SameFlash(ResetTimerCb(d), d)
      /\ ResetTimerCb(d).files = d.files
  <2> DEFINE w1 == [d.wifi EXCEPT !.resetTimer = FALSE, !.opmode = 1]
             w2 == [d.wifi EXCEPT !.resetTimer = FALSE, !.connTryStatus = "fail"]
             x  == IF d.restart = "upgrade" THEN d.restart ELSE "plain"
  <2>1. w1 \in WifiType /\ w2 \in WifiType
    BY <1>0 DEF WifiType
  <2>2. \/ ResetTimerCb(d) = [d EXCEPT !.wifi = w1, !.restart = x]
        \/ ResetTimerCb(d) = [d EXCEPT !.wifi = w2]
    BY DEF ResetTimerCb, DevType
  <2>3. x \in {NULL, "upgrade", "plain"}
    BY <1>0
  <2> HIDE DEF w1, w2, x
  <2> QED BY <1>1, <1>2, <2>1, <2>2, <2>3
<1>6. ASSUME NEW x \in {"off", "gotip"}
      PROVE  LET e == [d EXCEPT !.wifi.station = x]
             IN e \in DevType /\ SameFlash(e, d) /\ e.files = d.files
  <2> DEFINE w == [d.wifi EXCEPT !.station = x]
  <2>1. w \in WifiType
    BY <1>0 DEF WifiType
  <2>2. [d EXCEPT !.wifi.station = x] = [d EXCEPT !.wifi = w]
    OBVIOUS
  <2> HIDE DEF w
  <2> QED BY <1>2, <2>1, <2>2
<1> QED BY <1>4, <1>5, <1>6

LEMMA ScanDoneStep ==
  ASSUME Inv, NEW ok \in BOOLEAN, NEW n \in plan.lists, WifiScanDone(ok, n), UNCHANGED plan
  PROVE  Inv' /\ FirmwareKept /\ dev'.files = dev.files /\ SameFlash(dev', dev)
<1>1. n \in Nat
  BY EspHttpdAssumption, TypeParts DEF Inv
<1>2. hist.scans + 1 \in Nat
  BY TypeParts DEF Inv, HistType
<1>3. /\ dev' = ScanDone(dev, ok, hist.scans + 1, n) /\ hist' = [hist EXCEPT !.scans = @ + 1]
      /\ slot' = slot /\ link' = link /\ pending' = pending /\ out' = out
  BY DEF WifiScanDone
<1>4. hist' \in HistType /\ hist'.asked = hist.asked
  BY <1>3, TypeParts DEF Inv, HistType
<1> DEFINE k == hist.scans + 1
<1>5. dev' = ScanDone(dev, ok, k, n) /\ k \in Nat
  BY <1>2, <1>3
<1> HIDE DEF k
<1>6. dev' \in DevType /\ SameFlash(dev', dev) /\ dev'.files = dev.files
  <2>1. dev \in DevType
    BY TypeParts DEF Inv
  <2>2. /\ ScanDone(dev, ok, k, n) \in DevType /\ SameFlash(ScanDone(dev, ok, k, n), dev)
        /\ ScanDone(dev, ok, k, n).files = dev.files
    BY <1>1, <1>5, <2>1, ScanDoneDev
  <2> QED BY <1>5, <2>2
<1> QED BY <1>3, <1>4, <1>6, DevOnly

LEMMA TimerStep ==
  ASSUME Inv, ReassTimer \/ ResetTimer, UNCHANGED plan
  PROVE  Inv' /\ FirmwareKept /\ dev'.files = dev.files /\ SameFlash(dev', dev)
<1>1. /\ dev' = ReassTimerCb(dev) \/ dev' = ResetTimerCb(dev)
      /\ hist' = hist /\ slot' = slot /\ link' = link /\ pending' = pending /\ out' = out
  BY DEF ReassTimer, ResetTimer
<1>2. dev' \in DevType /\ SameFlash(dev', dev) /\ dev'.files = dev.files
  BY <1>1, SdkDevs, TypeParts DEF Inv
<1> QED BY <1>1, <1>2, DevOnly, TypeParts DEF Inv

LEMMA StationStep ==
  ASSUME Inv, NEW x \in {"off", "gotip"}, StationChanges(x), UNCHANGED plan
  PROVE  Inv' /\ FirmwareKept /\ dev'.files = dev.files /\ SameFlash(dev', dev)
<1>1. /\ dev' = [dev EXCEPT !.wifi.station = x] /\ hist' = [hist EXCEPT !.stations = @ + 1]
      /\ slot' = slot /\ link' = link /\ pending' = pending /\ out' = out
  BY DEF StationChanges
<1>2. hist' \in HistType /\ hist'.asked = hist.asked
  BY <1>1, TypeParts DEF Inv, HistType
<1>3. dev' \in DevType /\ SameFlash(dev', dev) /\ dev'.files = dev.files
  BY <1>1, SdkDevs, TypeParts DEF Inv
<1> QED BY <1>1, <1>2, <1>3, DevOnly

(* A restart.                                                               *)
LEMMA EmptySlotType == EmptySlot \in SlotType /\ IsRetired(EmptySlot)
<1> DEFINE k == -1
<1>1. k \in Int
  OBVIOUS
<1>2. EmptySlot = [conn |-> NULL, req |-> NULL, cgi |-> NULL, data |-> NULL, priv |-> NULL,
                   len |-> k, buffSize |-> 0, buffLen |-> 0, received |-> 0, buff |-> FALSE]
  BY DEF EmptySlot
<1> HIDE DEF k
<1> QED BY <1>1, <1>2 DEF SlotType, IsRetired

LEMMA FreshWifiType ==
  ASSUME NEW n \in Nat
  PROVE  FreshWifi(n) \in WifiType
BY DEF FreshWifi, WifiType

LEMMA RebootIs ==
  ASSUME Inv, NEW x \in {0, 1}, Reboot(x)
  PROVE  /\ dev' \in DevType /\ dev'.files = 0 /\ dev'.flash.cells = dev.flash.cells
<1> DEFINE w  == FreshWifi(dev.wifi.opmode)
           fl == [dev.flash EXCEPT !.running = x]
<1>1. dev \in DevType
  BY TypeParts DEF Inv
<1>2. w \in WifiType
  BY <1>1, FreshWifiType DEF DevType, WifiType
<1>4. fl \in FlashType /\ fl.cells = dev.flash.cells
  BY <1>1 DEF DevType, FlashType
<1>5. dev' = [dev EXCEPT !.files = 0, !.hits = 0, !.restart = NULL, !.wifi = w, !.flash = fl]
  BY <1>1 DEF Reboot, DevType
<1> HIDE DEF w, fl
<1>6. [dev EXCEPT !.wifi = w, !.flash = fl] \in DevType
  BY <1>1, <1>2, <1>4 DEF DevType
<1> DEFINE d == [dev EXCEPT !.wifi = w, !.flash = fl]
<1>7. dev' = [d EXCEPT !.files = 0, !.hits = 0, !.restart = NULL] /\ d.flash = fl
  BY <1>1, <1>5 DEF DevType
<1> HIDE DEF d
<1>8. d \in DevType
  BY <1>6 DEF d
<1> DEFINE d1 == [d EXCEPT !.files = 0]
           d2 == [d1 EXCEPT !.hits = 0]
<1>9. d1 \in DevType /\ d1.files = 0 /\ d1.flash = d.flash
  BY <1>8 DEF DevType
<1>10. d1 = [d EXCEPT !.files = 0] /\ dev' = [d2 EXCEPT !.restart = NULL]
  BY <1>7, <1>8 DEF DevType
<1> HIDE DEF d1
<1>11. d2 \in DevType /\ d2.files = d1.files /\ d2.flash = d1.flash
  BY <1>9 DEF DevType
<1> HIDE DEF d2
<1>12. dev' \in DevType /\ dev'.files = d2.files /\ dev'.flash = d2.flash
  BY <1>10, <1>11, DevFields
<1> QED BY <1>4, <1>7, <1>9, <1>11, <1>12

LEMMA RestartReboots ==
  ASSUME Inv, NEW c, NEW looks, Restart \/ CrashInDiscon(c, looks)
  PROVE  \E x \in {0, 1} : Reboot(x)
<1>1. FirmwareNext(dev) \in {0, 1} /\ dev.flash.running \in {0, 1}
  BY TypeParts, NextIsOther DEF Inv, DevType, FlashType
<1> QED BY <1>1 DEF Restart, CrashInDiscon

LEMMA RestartStep ==
  ASSUME Inv, NEW x \in {0, 1}, Reboot(x), UNCHANGED plan
  PROVE  Inv' /\ FirmwareKept
<1>1. /\ slot' = [i \in Slots |-> EmptySlot] /\ out' = out /\ pending' = [c \in Conns |-> 0]
      /\ link' = [c \in Conns |-> IF link[c] \in {"open", "closing", "broken"} THEN "gone"
                                ELSE link[c]]
      /\ hist' = [hist EXCEPT !.restarts = @ + 1]
  BY DEF Reboot
<1>2. hist' \in HistType /\ hist'.asked = hist.asked
  BY <1>1, TypeParts DEF Inv, HistType
<1>3. dev' \in DevType /\ dev'.flash.cells = dev.flash.cells
  BY RebootIs
<1>4. slot' \in [Slots -> SlotType] /\ \A i \in Slots : IsRetired(slot'[i])
  BY <1>1, EmptySlotType
<1>5. link' \in [Conns -> {"new", "refused", "open", "closing", "broken", "gone"}]
  BY <1>1 DEF Inv, TypeOK
<1>6. TypeOK'
  BY <1>1, <1>2, <1>3, <1>4, <1>5 DEF Inv, TypeOK
<1>7. PoolInv'
  <2>1. \A i \in Slots : SlotInv(slot'[i], hist')
    BY <1>4 DEF SlotInv, IsRetired
  <2>2. \A c \in Conns : link'[c] # "open"
                         /\ (link'[c] \in {"new", "refused"} => link'[c] = link[c])
    BY <1>1
  <2>3. /\ \A c \in Conns : link'[c] \in {"new", "refused"} => hist'.asked[c] = NULL
        /\ \A c \in Conns : hist'.asked[c] = NULL => out'[c] = <<>> /\ pending'[c] = 0
    BY <1>1, <1>2, <2>2 DEF Inv, PoolInv
  <2> QED BY <1>4, <2>1, <2>2, <2>3 DEF PoolInv, IsRetired
<1> QED BY <1>3, <1>6, <1>7 DEF Inv, FirmwareKept, SameRunning, Partition

LEMMA CrashStep ==
  ASSUME Inv, NEW c, NEW looks, Restart \/ CrashInDiscon(c, looks), UNCHANGED plan
  PROVE  Inv' /\ FirmwareKept
BY RestartReboots, RestartStep

(* All together.                                                            *)
LEMMA InitInv == Init => Inv
<1> SUFFICES ASSUME Init PROVE Inv
  OBVIOUS
<1>1. /\ slot = [i \in Slots |-> EmptySlot] /\ plan \in Plans
      /\ link = [c \in Conns |-> "new"] /\ pending = [c \in Conns |-> 0]
      /\ out = [c \in Conns |-> <<>>]
  BY DEF Init
<1>2. dev \in DevType
  <2> DEFINE fl == [running |-> 0, cells |-> [a \in 0..(FlashLen - 1) |-> "old"]]
             w  == FreshWifi(plan.opmode)
  <2>1. fl \in FlashType
    BY DEF FlashType, CellValues
  <2>2. w \in WifiType
    BY <1>1, EspHttpdAssumption, FreshWifiType
  <2>3. dev = [files |-> 0, hits |-> 0, junk |-> FALSE, restart |-> NULL, wifi |-> w, flash |-> fl]
    BY DEF Init
  <2> HIDE DEF fl, w
  <2> QED BY <2>1, <2>2, <2>3 DEF DevType
<1>3. hist \in HistType /\ \A c \in Conns : hist.asked[c] = NULL
  BY DEF Init, HistType
<1>4. slot \in [Slots -> SlotType] /\ \A i \in Slots : IsRetired(slot[i])
  BY <1>1, EmptySlotType
<1>5. TypeOK
  BY <1>1, <1>2, <1>3, <1>4 DEF TypeOK
<1>6. PoolInv
  BY <1>1, <1>3, <1>4 DEF PoolInv, SlotInv, IsRetired
<1> QED BY <1>5, <1>6 DEF Inv

LEMMA SentStep ==
  ASSUME Inv, NEW c \in Conns, SentCb(c), UNCHANGED plan
  PROVE  Inv' /\ FirmwareKept
<1>1. /\ link[c] = "open" /\ pending[c] > 0
      /\ \E i \in FindConn(c) : IF slot[i].cgi = NULL THEN CloseConn(i, c) ELSE GoOn(i, c)
  BY DEF SentCb
<1> QED BY <1>1, CloseStep, GoOnStep

LEMMA NextInv ==
  ASSUME Inv, [Next]_vars
  PROVE  Inv' /\ FirmwareKept
<1>1. CASE UNCHANGED vars
  <2>1. slot' = slot /\ link' = link /\ pending' = pending /\ out' = out /\ plan' = plan
        /\ dev' = dev /\ hist' = hist
    BY <1>1 DEF vars
  <2>2. dev \in DevType /\ hist \in HistType /\ SameFlash(dev', dev)
    BY <2>1, TypeParts DEF Inv, SameFlash
  <2> QED BY <2>1, <2>2, DevOnly
<1>2. CASE Next
  <2>1. UNCHANGED plan
    BY <1>2 DEF Next
  <2>2. ASSUME NEW c \in Conns, ConnectCb(c)
        PROVE  Inv' /\ FirmwareKept
    BY <2>1, <2>2, ConnectStep
  <2>3. ASSUME NEW c \in Conns, NEW req \in plan.asks[c], NEW junk \in BOOLEAN,
               RecvHead(c, req, junk)
        PROVE  Inv' /\ FirmwareKept
    BY <2>1, <2>3, RecvHeadStep
  <2>4. ASSUME NEW c \in Conns, NEW junk \in BOOLEAN, RecvBody(c, junk)
        PROVE  Inv' /\ FirmwareKept
    BY <2>1, <2>4, RecvBodyStep
  <2>5. ASSUME NEW c \in Conns, SentCb(c)
        PROVE  Inv' /\ FirmwareKept
    BY <2>1, <2>5, SentStep
  <2>6. ASSUME NEW c \in Conns, ClientCloses(c) \/ ReconCb(c)
        PROVE  Inv' /\ FirmwareKept
    BY <2>1, <2>6, ClientClosesStep, ReconStep
  <2>7. ASSUME NEW c \in Conns, NEW looks \in SUBSET Broken,
               DisconCb(c, looks) \/ CrashInDiscon(c, looks)
        PROVE  Inv' /\ FirmwareKept
    BY <2>1, <2>7, DisconStep, CrashStep
  <2>8. ASSUME NEW ok \in BOOLEAN, NEW n \in plan.lists, WifiScanDone(ok, n)
        PROVE  Inv' /\ FirmwareKept
    BY <2>1, <2>8, ScanDoneStep
  <2>9. ASSUME ReassTimer \/ ResetTimer
        PROVE  Inv' /\ FirmwareKept
    BY <2>1, <2>9, TimerStep
  <2>10. ASSUME NEW x \in {"off", "gotip"}, StationChanges(x)
         PROVE  Inv' /\ FirmwareKept
    BY <2>1, <2>10, StationStep
  <2>11. ASSUME Restart
         PROVE  Inv' /\ FirmwareKept
    BY <2>1, <2>11, CrashStep
  <2> QED BY <1>2, <2>2, <2>3, <2>4, <2>5, <2>6, <2>7, <2>8, <2>9, <2>10, <2>11 DEF Next
<1> QED BY <1>1, <1>2

(***************************************************************************)
(* Every slot, the device, the links and the histories have their types at *)
(* all times, whatever pages, uploads, breaks and restarts come            *)
(* (connData, HttpdConnData and the static variables of the handlers).     *)
(***************************************************************************)
THEOREM TypeCorrect == Spec => []TypeOK
<1>1. Init => Inv
  BY InitInv
<1>2. Inv /\ [Next]_vars => Inv'
  BY NextInv
<1>3. Inv => TypeOK
  BY DEF Inv
<1> QED BY <1>1, <1>2, <1>3, PTL DEF Spec

(***************************************************************************)
(* The partition that runs is never written to, for every pool, flash and  *)
(* set of requests among which no body fits the partition by its head and  *)
(* not by its length: what cgiUploadFirmware erases and writes lies in the *)
(* partition that system_upgrade_userbin_check names, or behind it, where  *)
(* a sector is left before the other one begins.                           *)
(***************************************************************************)
THEOREM RunningIsNeverWritten == Spec => RunningIsKept
<1>1. Init => Inv
  BY InitInv
<1>2. Inv /\ [Next]_vars => Inv'
  BY NextInv
<1>3. Inv /\ [Next]_vars =>
        [NoneOverruns =>
           Partition(dev'.flash, dev.flash.running) = Partition(dev.flash, dev.flash.running)]_vars
  BY NextInv DEF FirmwareKept, SameRunning
<1> QED BY <1>1, <1>2, <1>3, PTL DEF Spec, RunningIsKept, NoneOverruns

-----------------------------------------------------------------------------
(* The open files, step by step.                                            *)

LEMMA SameAsked ==
  ASSUME hist'.asked = hist.asked
  PROVE  NoneRestarted' => NoneRestarted
BY DEF NoneRestarted, Restarted

LEMMA SameFiles ==
  ASSUME Filled, NoneRestarted' => NoneRestarted, dev'.files = dev.files,
         \A j \in Slots : slot'[j].cgi \in FileHandlers <=> slot[j].cgi \in FileHandlers
  PROVE  Filled'
<1>1. FilesOf(slot') = FilesOf(slot)
  BY DEF FilesOf
<1> QED BY <1>1 DEF Filled

LEMMA OneSlotFiles ==
  ASSUME Inv, Filled, NoneRestarted' => NoneRestarted,
         NEW i \in Slots, NEW t \in SlotType, slot' = [slot EXCEPT ![i] = t],
         NoneRestarted => dev'.files = (dev.files - Files1(slot[i])) + Files1(t)
  PROVE  Filled'
<1> SUFFICES ASSUME NoneRestarted' PROVE dev'.files = Cardinality(FilesOf(slot'))
  BY DEF Filled
<1>1. dev.files = Cardinality(FilesOf(slot))
  BY DEF Filled
<1>2. slot \in [Slots -> SlotType]
  BY DEF Inv, TypeOK
<1>3. Cardinality(FilesOf(slot')) = (Cardinality(FilesOf(slot)) - Files1(slot[i])) + Files1(t)
  BY <1>2, FilesAfter
<1> QED BY <1>1, <1>3

LEMMA RecvHeadFiles ==
  ASSUME Inv, Filled, NEW c \in Conns, NEW req \in plan.asks[c], NEW junk \in BOOLEAN,
         RecvHead(c, req, junk)
  PROVE  Filled'
<1>1. PICK i \in FindConn(c) :
        /\ slot[i].len = -1
        /\ LET s == Parsed(slot[i], req)
           IN IF s.len = 0
              THEN Outcome(i, c, ProcessRequest(s, [dev EXCEPT !.junk = junk]))
              ELSE /\ slot' = [slot EXCEPT ![i] = s]
                   /\ UNCHANGED <<dev, pending, out>>
  BY DEF RecvHead
<1>2. /\ i \in Slots /\ slot[i].conn = c /\ slot[i] \in SlotType /\ c # NULL
      /\ SlotInv(slot[i], hist) /\ Receiving(slot[i])
  BY FoundSlot
<1>3. req \in Requests
  BY TypeParts, RequestType DEF Inv
<1> DEFINE s == Parsed(slot[i], req)
<1>4. /\ s \in SlotType /\ s.conn = c /\ s.req = req
      /\ s.received = 0 /\ s.buffLen = 0 /\ s.cgi = NULL
  BY <1>1, <1>2, <1>3, HeadIs
<1>5. hist.asked[c] = NULL /\ hist' = [hist EXCEPT !.asked[c] = req]
  BY <1>1, <1>2 DEF SlotInv, RecvHead
<1>6. NoneRestarted' => NoneRestarted
  <2>1. \A e \in Conns : hist.asked[e] = NULL \/ hist'.asked[e] = hist.asked[e]
    BY <1>5, TypeParts DEF Inv, HistType
  <2> QED BY <2>1 DEF NoneRestarted, Restarted
<1>7. Files1(slot[i]) = 0 /\ Files1(s) = 0
  BY <1>1, <1>2, <1>4, HandlersAreNames DEF Receiving, Files1
<1>8. dev \in DevType /\ dev.files \in Int
  BY TypeParts, DevFields DEF Inv
<1> HIDE DEF s
<1>9. CASE s.len = 0
  <2> DEFINE d == [dev EXCEPT !.junk = junk]
             res == ProcessRequest(s, d)
  <2>1. Outcome(i, c, res)
    BY <1>1, <1>9 DEF s
  <2>2. d \in DevType /\ d.files = dev.files
    BY <1>8, JunkIs
  <2> HIDE DEF d
  <2>3. /\ res.slot \in SlotType /\ res.dev \in DevType
        /\ res.dev.files = d.files + Files1(res.slot)
    <3>1. s.conn # NULL /\ s.req \in Requests /\ s.received - s.buffLen >= 0
      BY <1>2, <1>3, <1>4
    <3> QED BY <1>4, <2>2, <3>1, Processed
  <2> HIDE DEF res
  <2>4. slot' = [slot EXCEPT ![i] = res.slot] /\ dev'.files = res.dev.files
    BY <1>2, <2>1, <2>3, OutcomeIs DEF Inv
  <2>5. dev'.files = (dev.files - Files1(slot[i])) + Files1(res.slot)
    BY <1>7, <1>8, <2>2, <2>3, <2>4
  <2> QED BY <1>2, <1>6, <2>3, <2>4, <2>5, OneSlotFiles
<1>10. CASE s.len # 0
  <2>1. slot' = [slot EXCEPT ![i] = s] /\ dev' = dev
    BY <1>1, <1>10 DEF s
  <2>2. dev'.files = (dev.files - Files1(slot[i])) + Files1(s)
    BY <1>7, <1>8, <2>1
  <2> QED BY <1>2, <1>4, <1>6, <2>1, <2>2, OneSlotFiles
<1> QED BY <1>9, <1>10

(* A body that is handed on for the second time is one that restarts its    *)
(* handler, or an upload.                                                   *)
LEMMA FirstHandOn ==
  ASSUME Inv, NoneRestarted, NEW c \in Conns, NEW i, Arrives(i, c)
  PROVE  Files1(slot[i]) = 0
<1> DEFINE s == slot[i]
<1>1. /\ i \in Slots /\ s \in SlotType /\ c # NULL /\ s.len # -1
      /\ SlotInv(s, hist) /\ s.conn = c
      /\ hist.asked[c] = s.req /\ s.len = s.req.len /\ s.req \in Requests
      /\ Done(s) \in Nat /\ (s.received < s.len => Done(s) % s.buffSize = 0)
      /\ s.buffSize = IF s.len <= MaxPost THEN s.len ELSE MaxPost
  <2>1. Gained(s).req = s.req /\ Gained(s).len = s.len
    BY GainedIs
  <2> QED BY <2>1, GainedIs
<1>2. /\ s.received < s.req.sent /\ s.received \in Nat /\ s.buffLen \in Nat /\ s.len \in Int
      /\ s.req # NULL /\ s.req.len \in Nat /\ s.req.sent \in Nat /\ MaxPost \in Nat
  BY <1>1, RequestsAreReal, CgiFlashAssumption DEF Arrives, SlotType
<1> HIDE DEF s
<1>3. CASE s.req.url = "/flash/upload"
  <2>1. s.cgi \in {NULL, "cgiUploadFirmware"}
    BY <1>1, <1>3 DEF SlotInv
  <2> QED BY <2>1, HandlersAreNames DEF Files1, s
<1>4. CASE s.req.url # "/flash/upload"
  <2>1. InOneBuffer(s.req)
    BY <1>1, <1>2, <1>4 DEF NoneRestarted, Restarted
  <2>2. s.received < s.len /\ s.buffSize = s.len
    BY <1>1, <1>2, <2>1 DEF InOneBuffer
  <2>3. Done(s) < s.len /\ Done(s) \in Nat /\ s.len \in Nat
    BY <1>1, <1>2, <2>2 DEF Done
  <2>4. Done(s) % s.len = 0
    BY <1>1, <2>2
  <2>5. Done(s) = 0
    BY <2>3, <2>4, SmallMod
  <2>6. s.cgi = NULL
    BY <1>1, <2>2, <2>5 DEF SlotInv
  <2> QED BY <2>6, HandlersAreNames DEF Files1, s
<1> QED BY <1>3, <1>4

LEMMA RecvBodyFiles ==
  ASSUME Inv, Filled, NEW c \in Conns, NEW junk \in BOOLEAN, RecvBody(c, junk)
  PROVE  Filled'
<1>1. PICK i \in Slots :
           /\ Arrives(i, c)
           /\ LET s == Gained(slot[i])
                  res == ProcessRequest(s, [dev EXCEPT !.junk = junk])
              IN \/ /\ HandsOn(s) /\ Outcome(i, c, Emptied(res))
                    /\ hist' = IF Stored(res) THEN Wrote(c, FirmwareNext(dev)) ELSE hist
                 \/ /\ ~HandsOn(s) /\ slot' = [slot EXCEPT ![i] = s]
                    /\ dev' = dev /\ pending' = pending /\ out' = out /\ hist' = hist
  BY BodyCases
<1> DEFINE s   == Gained(slot[i])
           d   == [dev EXCEPT !.junk = junk]
           res == ProcessRequest(s, d)
           e   == Emptied(res)
<1>2. s \in SlotType /\ s.cgi = slot[i].cgi
  BY <1>1, GainedIs
<1>3. NoneRestarted => Files1(slot[i]) = 0
  BY <1>1, FirstHandOn
<1>4. dev.files \in Int
  BY TypeParts, DevFields DEF Inv
<1>5. CASE /\ HandsOn(s) /\ Outcome(i, c, e)
           /\ hist' = IF Stored(res) THEN Wrote(c, FirmwareNext(dev)) ELSE hist
  <2>1. /\ e.slot \in SlotType /\ e.dev \in DevType /\ e.slot.cgi = res.slot.cgi
        /\ e.dev.files = dev.files + Files1(res.slot)
    BY <1>1, <1>5, HandedOn
  <2>2. FirmwareNext(dev) \in {0, 1}
    BY TypeParts, NextIsOther DEF Inv
  <2>3. hist'.asked = hist.asked
    BY <1>5, <2>2, WroteIs DEF Inv
  <2>4. Files1(e.slot) = Files1(res.slot) /\ Files1(e.slot) \in Int
    BY <2>1 DEF Files1
  <2> HIDE DEF e, res, d, s
  <2>5. slot' = [slot EXCEPT ![i] = e.slot] /\ dev'.files = e.dev.files
    BY <1>5, <2>1, OutcomeIs DEF Inv
  <2>6. NoneRestarted => dev'.files = (dev.files - Files1(slot[i])) + Files1(e.slot)
    BY <1>3, <1>4, <2>1, <2>4, <2>5
  <2> QED BY <2>1, <2>3, <2>5, <2>6, SameAsked, OneSlotFiles
<1>6. CASE slot' = [slot EXCEPT ![i] = s] /\ dev' = dev /\ hist' = hist
  <2>1. Files1(s) = Files1(slot[i]) /\ Files1(s) \in Int
    BY <1>2 DEF Files1
  <2>2. dev'.files = (dev.files - Files1(slot[i])) + Files1(s)
    BY <1>4, <1>6, <2>1
  <2> HIDE DEF s
  <2> QED BY <1>2, <1>6, <2>2, SameAsked, OneSlotFiles
<1> QED BY <1>1, <1>5, <1>6

LEMMA SentFiles ==
  ASSUME Inv, Filled, NEW c \in Conns, SentCb(c)
  PROVE  Filled'
<1>1. PICK i \in FindConn(c) : IF slot[i].cgi = NULL THEN CloseConn(i, c) ELSE GoOn(i, c)
  BY DEF SentCb
<1> DEFINE s == slot[i]
           r == Cgi(s.cgi, s, dev)
           t == Kept(s, r)
<1>2. /\ i \in Slots /\ s \in SlotType /\ s.conn # NULL /\ SlotInv(s, hist)
      /\ dev \in DevType /\ dev.files \in Int
  BY FoundSlot, TypeParts, DevFields DEF Inv
<1>3. CASE s.cgi = NULL
  <2>1. slot' = [slot EXCEPT ![i] = Retired(s)] /\ dev' = dev
        /\ hist' = [hist EXCEPT !.served = @ \cup {c}]
    BY <1>1, <1>3 DEF CloseConn
  <2>2. hist'.asked = hist.asked
    BY <2>1
  <2>3. Retired(s) \in SlotType /\ Files1(Retired(s)) = 0 /\ Files1(slot[i]) = 0
    BY <1>2, <1>3, RetiredIs, HandlersAreNames DEF IsRetired, Files1
  <2>4. dev'.files = (dev.files - Files1(slot[i])) + Files1(Retired(s))
    BY <1>2, <2>1, <2>3
  <2> HIDE DEF s
  <2> QED BY <1>2, <2>1, <2>2, <2>3, <2>4, SameAsked, OneSlotFiles
<1>4. CASE s.cgi # NULL
  <2>1. /\ slot' = [slot EXCEPT ![i] = t] /\ dev' = r.dev /\ hist'.asked = hist.asked
    <3>1. slot' = [slot EXCEPT ![i] = t] /\ dev' = r.dev
      BY <1>1, <1>4 DEF GoOn
    <3>2. hist'.asked = hist.asked
      <4>1. GoOn(i, c)
        BY <1>1, <1>4
      <4> HIDE DEF s, r, t
      <4>2. \E x : hist' = [hist EXCEPT !.disturbed = x]
        BY <4>1 DEF GoOn
      <4> QED BY <4>2
    <3> QED BY <3>1, <3>2
  <2>2. s.cgi \in CgiNames /\ CanCall(s.cgi, s) /\ Handed(s.cgi, s) /\ FileState(s)
    <3> HIDE DEF s
    <3> QED BY <1>2, <1>4, WorkingSlot DEF SlotInv
  <2> HIDE DEF s
  <2>3. Called(s.cgi, s, dev, r)
    BY <1>2, <2>2, CgiCalled
  <2> HIDE DEF r
  <2>4. t \in SlotType /\ t.cgi = IF r.ret = "MORE" THEN s.cgi ELSE NULL
    BY <1>2, <2>3, KeptIs DEF Called
  <2> HIDE DEF t
  <2>5. r.dev.files = (dev.files - Files1(s)) + Files1(t)
    <3>1. CASE s.cgi \in FileHandlers
      <4>1. Holding(s) = 1 /\ Files1(s) = 1
        BY <2>2, <3>1, NotNames DEF Holding, Files1, FileState, FileHandlers
      <4>2. Opening(r) = Files1(t) /\ Opening(r) \in Int
        BY <2>4, <3>1, HandlersAreNames DEF Opening, Files1
      <4>3. r.dev.files = dev.files + Opening(r) - Holding(s)
        BY <2>3, <3>1 DEF Called
      <4> QED BY <1>2, <4>1, <4>2, <4>3
    <3>2. CASE s.cgi \notin FileHandlers
      <4>1. Files1(s) = 0 /\ Files1(t) = 0
        BY <2>4, <3>2, HandlersAreNames DEF Files1
      <4>2. r.dev.files = dev.files
        BY <2>3, <3>2 DEF Called
      <4> QED BY <1>2, <4>1, <4>2
    <3> QED BY <3>1, <3>2
  <2>6. dev'.files = (dev.files - Files1(slot[i])) + Files1(t)
    BY <2>1, <2>5 DEF s
  <2> QED BY <1>2, <2>1, <2>4, <2>6, SameAsked, OneSlotFiles
<1> QED BY <1>1, <1>3, <1>4

LEMMA ConnectFiles ==
  ASSUME Inv, Filled, NEW c \in Conns, ConnectCb(c)
  PROVE  Filled'
<1> DEFINE free == {i \in Slots : slot[i].conn = NULL}
<1>1. free # {} => Min(free) \in Slots
  <2>1. free \subseteq Nat
    BY DEF Slots
  <2> HIDE DEF free
  <2>2. free # {} => Min(free) \in free
    BY <2>1, MinIsLeast
  <2> QED BY <2>2 DEF free
<1>2. \/ slot' = slot
      \/ free # {} /\ slot' = [slot EXCEPT ![Min(free)] =
                             [@ EXCEPT !.conn = c, !.buff = FALSE, !.buffLen = 0,
                                       !.received = 0, !.len = -1]]
  BY DEF ConnectCb
<1>3. \A i \in Slots : slot[i] \in SlotType
  BY TypeParts DEF Inv
<1> HIDE DEF free
<1>4. \A j \in Slots : slot'[j].cgi = slot[j].cgi
  <2> DEFINE m == Min(free)
             t == [slot[m] EXCEPT !.conn = c, !.buff = FALSE, !.buffLen = 0,
                                  !.received = 0, !.len = -1]
  <2>1. slot' = slot \/ (m \in Slots /\ slot' = [slot EXCEPT ![m] = t])
    BY <1>1, <1>2
  <2> HIDE DEF m
  <2>2. m \in Slots => t.cgi = slot[m].cgi
    BY <1>3 DEF SlotType
  <2> HIDE DEF t
  <2>3. slot \in [Slots -> SlotType]
    BY DEF Inv, TypeOK
  <2> QED BY <2>1, <2>2, <2>3
<1>5. dev' = dev /\ hist' = hist
  BY DEF ConnectCb
<1> QED BY <1>4, <1>5, SameAsked, SameFiles

LEMMA DisconFiles ==
  ASSUME Inv, Filled, NEW c \in Conns, NEW looks, DisconCb(c, looks)
  PROVE  Filled'
<1>1. dev'.files - Cardinality(FilesOf(slot')) = dev.files - Cardinality(FilesOf(slot))
      /\ dev' \in DevType
  BY DisconIs
<1>2. hist'.asked = hist.asked
  BY DEF DisconCb
<1>3. Cardinality(FilesOf(slot')) \in Nat /\ Cardinality(FilesOf(slot)) \in Nat
  BY FilesFinite
<1>4. dev'.files \in Int
  BY <1>1, DevFields
<1>5. NoneRestarted' => NoneRestarted
  BY <1>2, SameAsked
<1> QED BY <1>1, <1>3, <1>4, <1>5 DEF Filled

LEMMA RestartFiles ==
  ASSUME Inv, Filled, NEW x \in {0, 1}, Reboot(x)
  PROVE  Filled'
<1>1. slot' = [i \in Slots |-> EmptySlot]
  BY DEF Reboot
<1>2. FilesOf(slot') = {}
  BY <1>1, EmptySlotType, HandlersAreNames DEF FilesOf, IsRetired
<1>3. dev'.files = 0
  BY RebootIs
<1> QED BY <1>2, <1>3, FS_EmptySet DEF Filled

LEMMA CrashFiles ==
  ASSUME Inv, Filled, NEW c, NEW looks, Restart \/ CrashInDiscon(c, looks)
  PROVE  Filled'
BY RestartReboots, RestartFiles

LEMMA FilledStep ==
  ASSUME Inv, Filled, [Next]_vars
  PROVE  Filled'
<1>1. CASE UNCHANGED vars
  BY <1>1 DEF vars, Filled, NoneRestarted, Restarted, FilesOf
<1>2. CASE Next
  <2>1. UNCHANGED plan
    BY <1>2 DEF Next
  <2>2. ASSUME NEW c \in Conns, ClientCloses(c) \/ ReconCb(c)
        PROVE  Filled'
    <3>1. slot' = slot /\ dev' = dev /\ hist'.asked = hist.asked
      <4>1. slot' = slot /\ dev' = dev /\ hist' = [hist EXCEPT !.fails = @ + 1]
        BY <2>2 DEF ClientCloses, ReconCb
      <4> QED BY <4>1
    <3> QED BY <3>1, SameAsked, SameFiles
  <2>3. ASSUME NEW ok \in BOOLEAN, NEW n \in plan.lists, WifiScanDone(ok, n)
        PROVE  Filled'
    <3>1. slot' = slot /\ hist'.asked = hist.asked
      BY <2>3 DEF WifiScanDone
    <3>2. dev'.files = dev.files
      BY <2>1, <2>3, ScanDoneStep
    <3> QED BY <3>1, <3>2, SameAsked, SameFiles
  <2>4. ASSUME ReassTimer \/ ResetTimer
        PROVE  Filled'
    <3>1. slot' = slot /\ hist'.asked = hist.asked
      BY <2>4 DEF ReassTimer, ResetTimer
    <3>2. dev'.files = dev.files
      BY <2>1, <2>4, TimerStep
    <3> QED BY <3>1, <3>2, SameAsked, SameFiles
  <2>5. ASSUME NEW x \in {"off", "gotip"}, StationChanges(x)
        PROVE  Filled'
    <3>1. slot' = slot /\ hist'.asked = hist.asked
      BY <2>5 DEF StationChanges
    <3>2. dev'.files = dev.files
      BY <2>1, <2>5, StationStep
    <3> QED BY <3>1, <3>2, SameAsked, SameFiles
  <2> QED BY <1>2, <2>2, <2>3, <2>4, <2>5, ConnectFiles, RecvHeadFiles, RecvBodyFiles, SentFiles,
             DisconFiles, CrashFiles DEF Next
<1> QED BY <1>1, <1>2

LEMMA InitFilled == Init => Filled
<1> SUFFICES ASSUME Init PROVE Filled
  OBVIOUS
<1>1. slot = [i \in Slots |-> EmptySlot] /\ dev.files = 0
  BY DEF Init
<1>2. FilesOf(slot) = {}
  BY <1>1, EmptySlotType, HandlersAreNames DEF FilesOf, IsRetired
<1> QED BY <1>1, <1>2, FS_EmptySet DEF Filled

LEMMA PoolHolds ==
  ASSUME Inv, Filled
  PROVE  PoolIsAccounted
<1>1. \A i \in Slots : slot[i].conn # NULL =>
          link[slot[i].conn] \in {"open", "closing", "broken"}
  BY DEF Inv, PoolInv
<1>2. ASSUME NEW c \in Conns
      PROVE  Cardinality(FindConn(c)) <= 1
  <2>1. CASE FindConn(c) = {}
    BY <2>1, FS_EmptySet
  <2>2. CASE FindConn(c) # {}
    <3>1. PICK i : i \in FindConn(c)
      BY <2>2
    <3>2. \A j \in FindConn(c) : j = i
      BY <3>1, NotNames DEF FindConn, Inv, PoolInv
    <3>3. FindConn(c) = {i}
      BY <3>1, <3>2
    <3>4. Cardinality({i}) = 1
      BY FS_Singleton
    <3> QED BY <3>3, <3>4
  <2> QED BY <2>1, <2>2
<1>3. \A c \in Conns : link[c] = "open" => FindConn(c) # {}
  BY DEF Inv, PoolInv, FindConn
<1>4. \A i \in Slots : slot[i].conn = NULL => slot[i].cgi = NULL /\ ~slot[i].buff
  BY DEF Inv, PoolInv, SlotInv
<1>5. (\A c \in Conns : ~Restarted(c)) =>
          dev.files = Cardinality({i \in Slots : slot[i].cgi \in FileHandlers})
  BY DEF Filled, NoneRestarted, FilesOf
<1> QED BY <1>1, <1>2, <1>3, <1>4, <1>5 DEF PoolIsAccounted

(***************************************************************************)
(* The pool is accounted for at all times, for every number of slots and   *)
(* connections: every open connection has its slot and no two slots one    *)
(* connection, a free slot holds nothing, and the open files are those of  *)
(* the handlers at work (httpdConnectCb, httpdSentCb, httpdDisconCb and    *)
(* httpdRetireConn).                                                       *)
(***************************************************************************)
THEOREM PoolAlwaysAccounted == Spec => []PoolIsAccounted
<1>1. Init => Inv /\ Filled
  BY InitInv, InitFilled
<1>2. Inv /\ Filled /\ [Next]_vars => (Inv /\ Filled)'
  BY NextInv, FilledStep
<1>3. Inv /\ Filled => PoolIsAccounted
  BY PoolHolds
<1> QED BY <1>1, <1>2, <1>3, PTL DEF Spec

-----------------------------------------------------------------------------
(* The uploads, step by step.                                               *)

(* Sectors are a multiple of the POST buffer, partitions of sectors.        *)
Aligned == SectorLen % MaxPost = 0 /\ FwSize % SectorLen = 0

LEMMA Lengths ==
  /\ MaxPost \in Nat /\ MaxPost > 0 /\ SectorLen \in Nat /\ SectorLen > 0
  /\ FwSize \in Nat /\ FwSize > 0
BY CgiFlashAssumption

LEMMA SectorNotSmaller ==
  ASSUME Aligned
  PROVE  MaxPost <= SectorLen
<1> SUFFICES ASSUME SectorLen < MaxPost PROVE FALSE
  BY Lengths
<1>1. SectorLen = 0
  BY Lengths, SmallMod DEF Aligned
<1> QED BY <1>1, Lengths

(* No sector starts inside a piece of a body.                               *)
LEMMA NoSectorInside ==
  ASSUME Aligned, NEW off \in Nat, off % MaxPost = 0, NEW b \in Nat, off <= b,
         b < off + MaxPost, b % SectorLen = 0
  PROVE  b = off
<1> DEFINE j == off \div MaxPost
           q == b \div SectorLen
           k == SectorLen \div MaxPost
           r == b - off
           m == (k * q) - j
<1>1. off = MaxPost * j /\ j \in Int
  BY Lengths, DivMod
<1>2. b = SectorLen * q /\ q \in Int
  BY Lengths, DivMod
<1>3. SectorLen = MaxPost * k /\ k \in Int
  BY Lengths, DivMod DEF Aligned
<1>4. r \in 0..(MaxPost - 1)
  BY Lengths
<1> HIDE DEF j, q, k
<1>5. b = MaxPost * (k * q)
  BY <1>2, <1>3, Lengths
<1> DEFINE kq == k * q
<1>6. kq \in Int /\ b = MaxPost * kq
  BY <1>2, <1>3, <1>5
<1> HIDE DEF kq
<1>7. MaxPost * (kq - j) = r /\ kq - j \in Int
  BY <1>1, <1>6, Lengths
<1> DEFINE x == kq - j
<1>8. x \in Int /\ MaxPost * x = r
  BY <1>7
<1> HIDE DEF x, r
<1>9. r = 0
  BY <1>4, <1>8, Lengths, SmallMultiple
<1> QED BY <1>9 DEF r

ErasedFor(part, off) ==
  IF (off % SectorLen) = 0 THEN EraseSector(part, off) ELSE part

(* Partitions begin where a sector does.                                    *)
LEMMA ModShift ==
  ASSUME NEW x \in Nat, NEW b \in Nat, b > 0, NEW k \in Nat
  PROVE  (b * k + x) % b = x % b
<1> DEFINE y  == b * k + x
           q1 == x \div b
           r1 == x % b
           q2 == y \div b
           r2 == y % b
           m  == (q1 + k) - q2
<1>1. x = b * q1 + r1 /\ q1 \in Int /\ r1 \in 0..(b - 1)
  BY DivMod
<1>2. y \in Nat
  <2>1. b * k \in Nat
    OBVIOUS
  <2> QED BY <2>1
<1> HIDE DEF y
<1>3. y = b * q2 + r2 /\ q2 \in Int /\ r2 \in 0..(b - 1)
  BY <1>2, DivMod
<1> HIDE DEF q1, r1, q2, r2
<1>4. m \in Int /\ b * m = r2 - r1
  BY <1>1, <1>3 DEF y
<1> HIDE DEF m
<1>5. CASE r2 >= r1
  <2> DEFINE r == r2 - r1
  <2>1. r \in 0..(b - 1) /\ b * m = r
    BY <1>1, <1>3, <1>4, <1>5
  <2> HIDE DEF r
  <2>2. r = 0
    BY <1>4, <2>1, SmallMultiple
  <2> QED BY <1>1, <1>3, <2>2 DEF r, r1, r2, y
<1>6. CASE r1 >= r2
  <2> DEFINE r == r1 - r2
             l == -m
  <2>1. r \in 0..(b - 1) /\ l \in Int /\ b * l = r
    BY <1>1, <1>3, <1>4, <1>6
  <2> HIDE DEF r, l
  <2>2. r = 0
    BY <2>1, SmallMultiple
  <2> QED BY <1>1, <1>3, <2>2 DEF r, r1, r2, y
<1> QED BY <1>1, <1>3, <1>5, <1>6

LEMMA PosOfSector ==
  ASSUME Aligned, NEW p \in {0, 1}, NEW off \in Nat
  PROVE  (PartPos(p) + off) % SectorLen = off % SectorLen
<1>1. CASE p = 0
  <2>1. (SectorLen * 1 + off) % SectorLen = off % SectorLen
    BY Lengths, ModShift
  <2> QED BY <1>1, <2>1, Places
<1>2. CASE p = 1
  <2> DEFINE k == FwSize \div SectorLen
  <2>1. FwSize = SectorLen * k /\ k \in Int
    BY Lengths, DivMod DEF Aligned
  <2> HIDE DEF k
  <2>2. k \in Nat
    <3> SUFFICES ASSUME k <= -1 PROVE FALSE
      BY <2>1
    <3>1. SectorLen * k <= SectorLen * (-1)
      BY <2>1, Lengths
    <3> QED BY <2>1, <3>1, Lengths
  <2> DEFINE l == k + 2
  <2>3. l \in Nat /\ PartPos(1) + off = SectorLen * l + off
    BY <2>1, <2>2, Places
  <2> HIDE DEF l
  <2>4. (SectorLen * l + off) % SectorLen = off % SectorLen
    BY <2>3, Lengths, ModShift
  <2> QED BY <1>2, <2>3, <2>4
<1> QED BY <1>1, <1>2

(* What a piece changes in the partition it goes to.                        *)
LEMMA PieceInPartition ==
  ASSUME Aligned, NEW s \in SlotType, NEW d \in DevType, NEW off \in Nat,
         NEW e, e.flash.cells = NewCells(s, d, off)
  PROVE  LET next == FirmwareNext(d)
         IN Partition(e.flash, next)
              = WriteFlash(ErasedFor(Partition(d.flash, next), off), off, s.buffLen, s.req.image)
<1> DEFINE next    == FirmwareNext(d)
           pos     == PartPos(next)
           address == pos + off
           n       == s.buffLen
           image   == s.req.image
           old     == d.flash.cells
           erased  == IF (address % SectorLen) = 0 THEN EraseSector(old, address) ELSE old
           part    == Partition(d.flash, next)
           er      == ErasedFor(part, off)
<1>1. /\ next \in {0, 1} /\ DOMAIN old = 0..(FlashLen - 1) /\ n \in Nat
  BY NextIsOther DEF SlotType
<1>2. NewCells(s, d, off) = WriteFlash(erased, address, n, image)
  BY DEF NewCells
<1>3. (address % SectorLen) = 0 <=> (off % SectorLen) = 0
  <2> HIDE DEF next
  <2> QED BY <1>1, PosOfSector
<1>4. pos \in Nat /\ \A a \in 0..(FwSize - 1) : pos + a \in 0..(FlashLen - 1)
  <2> HIDE DEF next
  <2> QED BY <1>1, Places
<1>5. \A a \in 0..(FwSize - 1) : part[a] = old[pos + a]
  BY DEF Partition
<1>6. DOMAIN part = 0..(FwSize - 1)
  BY DEF Partition
<1>11. e.flash.cells = NewCells(s, d, off)
  OBVIOUS
<1>12. Partition(e.flash, next) = [a \in 0..(FwSize - 1) |-> e.flash.cells[pos + a]]
  BY DEF Partition
<1> HIDE DEF next, part, n, image, old
<1>7. DOMAIN er = 0..(FwSize - 1) /\ DOMAIN erased = 0..(FlashLen - 1)
  BY <1>1, <1>6 DEF ErasedFor, EraseSector
<1>8. ASSUME NEW a \in 0..(FwSize - 1)
      PROVE  er[a] = erased[pos + a]
  <2>0. pos + a \in 0..(FlashLen - 1) /\ part[a] = old[pos + a]
    BY <1>4, <1>5
  <2>1. CASE (off % SectorLen) = 0
    <3>1. er[a] = IF a \in off .. off + SectorLen - 1 THEN "erased" ELSE part[a]
      BY <1>6, <2>1 DEF ErasedFor, EraseSector
    <3>2. erased[pos + a] = IF pos + a \in address .. address + SectorLen - 1 THEN "erased"
                            ELSE old[pos + a]
      BY <1>1, <1>3, <2>0, <2>1 DEF EraseSector
    <3>3. a \in off .. off + SectorLen - 1 <=> pos + a \in address .. address + SectorLen - 1
      <4> HIDE DEF pos
      <4> QED BY <1>4, Lengths
    <3> HIDE DEF er, erased, address
    <3> QED BY <2>0, <3>1, <3>2, <3>3
  <2>2. CASE (off % SectorLen) # 0
    BY <1>3, <2>0, <2>2 DEF ErasedFor
  <2> QED BY <2>1, <2>2
<1> HIDE DEF er, erased
<1>9. ASSUME NEW a \in 0..(FwSize - 1)
      PROVE  WriteFlash(er, off, n, image)[a] = NewCells(s, d, off)[pos + a]
  <2>1. WriteFlash(er, off, n, image)[a]
          = IF a \in off .. off + n - 1 THEN Written(er[a], image) ELSE er[a]
    BY <1>7 DEF WriteFlash
  <2>2. NewCells(s, d, off)[pos + a]
          = IF pos + a \in address .. address + n - 1 THEN Written(erased[pos + a], image)
            ELSE erased[pos + a]
    BY <1>2, <1>4, <1>7 DEF WriteFlash
  <2>3. a \in off .. off + n - 1 <=> pos + a \in address .. address + n - 1
    <3> HIDE DEF pos
    <3> QED BY <1>1, <1>4
  <2>4. er[a] = erased[pos + a]
    BY <1>8
  <2> HIDE DEF address
  <2> QED BY <2>1, <2>2, <2>3, <2>4
<1>10. WriteFlash(er, off, n, image)
         = [a \in 0..(FwSize - 1) |-> WriteFlash(er, off, n, image)[a]]
  BY <1>7 DEF WriteFlash
<1> DEFINE w == WriteFlash(er, off, n, image)
           c == e.flash.cells
<1>13. /\ w = [a \in 0..(FwSize - 1) |-> w[a]]
       /\ \A a \in 0..(FwSize - 1) : w[a] = c[pos + a]
       /\ Partition(e.flash, next) = [a \in 0..(FwSize - 1) |-> c[pos + a]]
  BY <1>9, <1>10, <1>11, <1>12
<1> HIDE DEF w, c, pos
<1>14. Partition(e.flash, next) = w
  BY <1>13
<1> QED BY <1>14 DEF w, next, er, part, n, image

(* A piece of an upload lands on erased flash.                              *)
LEMMA PieceStored ==
  ASSUME Aligned, NEW part \in [0..(FwSize - 1) -> CellValues], NEW off \in Nat, NEW n \in Nat,
         n > 0, n <= MaxPost, off % MaxPost = 0, off + n <= FwSize, NEW image,
         InFlash(part, off, image), RestErased(part, off)
  PROVE  LET w == WriteFlash(ErasedFor(part, off), off, n, image)
         IN InFlash(w, off + n, image) /\ RestErased(w, off + n)
<1> DEFINE er == ErasedFor(part, off)
           w  == WriteFlash(er, off, n, image)
<1>1. DOMAIN er = 0..(FwSize - 1)
  BY DEF ErasedFor, EraseSector
<1>2. \A a \in 0..(FwSize - 1) :
        /\ a \in off..(off + n - 1) => w[a] = Written(er[a], image)
        /\ a \notin off..(off + n - 1) => w[a] = er[a]
  BY <1>1 DEF WriteFlash
<1>3. CASE off % SectorLen = 0
  <2>1. \A a \in 0..(FwSize - 1) :
          er[a] = IF a \in off..(off + SectorLen - 1) THEN "erased" ELSE part[a]
    BY <1>3 DEF ErasedFor, EraseSector
  <2> HIDE DEF w, er
  <2>2. ASSUME NEW a \in 0..(off + n - 1)
        PROVE  w[a] = image
    <3>1. a \in 0..(FwSize - 1)
      BY Lengths
    <3>2. CASE a < off
      <4>1. w[a] = part[a]
        BY <1>2, <2>1, <3>1, <3>2
      <4>2. a \in 0..(off - 1)
        BY <3>1, <3>2
      <4> QED BY <4>1, <4>2 DEF InFlash
    <3>3. CASE a >= off
      <4>1. er[a] = "erased"
        BY <2>1, <3>1, <3>3, SectorNotSmaller, Lengths
      <4>2. w[a] = Written(er[a], image)
        BY <1>2, <3>1, <3>3
      <4> QED BY <4>1, <4>2 DEF Written
    <3> QED BY <3>2, <3>3
  <2>3. ASSUME NEW a \in (off + n)..(FwSize - 1),
               \A b \in (off + n)..a : b % SectorLen # 0
        PROVE  w[a] = "erased"
    <3>1. a < off + SectorLen
      <4> SUFFICES ASSUME a >= off + SectorLen PROVE FALSE
        BY Lengths
      <4>1. (off + SectorLen) % SectorLen = 0
        BY <1>3, Lengths, ModAdd
      <4>2. off + SectorLen \in (off + n)..a
        BY SectorNotSmaller, Lengths
      <4> QED BY <2>3, <4>1, <4>2
    <3>2. a \in 0..(FwSize - 1) /\ a \notin off..(off + n - 1)
          /\ a \in off..(off + SectorLen - 1)
      BY <3>1, Lengths
    <3> QED BY <1>2, <2>1, <3>2
  <2> QED BY <2>2, <2>3 DEF InFlash, RestErased, w, er
<1>4. CASE off % SectorLen # 0
  <2>1. er = part
    BY <1>4 DEF ErasedFor
  <2> HIDE DEF w, er
  <2>2. \A b \in off..(off + n - 1) : b % SectorLen # 0
    <3> SUFFICES ASSUME NEW b \in off..(off + n - 1), b % SectorLen = 0 PROVE FALSE
      OBVIOUS
    <3>1. b \in Nat /\ off <= b /\ b < off + MaxPost
      BY Lengths
    <3>2. b = off
      BY <3>1, NoSectorInside
    <3> QED BY <1>4, <3>2
  <2>3. ASSUME NEW a \in 0..(off + n - 1)
        PROVE  w[a] = image
    <3>1. a \in 0..(FwSize - 1)
      BY Lengths
    <3>2. CASE a < off
      <4>1. w[a] = part[a]
        BY <1>2, <2>1, <3>1, <3>2
      <4>2. a \in 0..(off - 1)
        BY <3>1, <3>2
      <4> QED BY <4>1, <4>2 DEF InFlash
    <3>3. CASE a >= off
      <4>1. a \in off..(FwSize - 1) /\ \A b \in off..a : b \in off..(off + n - 1)
        BY <3>1, <3>3
      <4>2. part[a] = "erased"
        BY <2>2, <4>1 DEF RestErased
      <4>3. w[a] = Written(er[a], image)
        BY <1>2, <3>1, <3>3
      <4> QED BY <2>1, <4>2, <4>3 DEF Written
    <3> QED BY <3>2, <3>3
  <2>4. ASSUME NEW a \in (off + n)..(FwSize - 1),
               \A b \in (off + n)..a : b % SectorLen # 0
        PROVE  w[a] = "erased"
    <3>1. \A b \in off..a : b \in off..(off + n - 1) \/ b \in (off + n)..a
      OBVIOUS
    <3>2. a \in off..(FwSize - 1) /\ a \in 0..(FwSize - 1) /\ a \notin off..(off + n - 1)
      BY Lengths
    <3>3. \A b \in off..a : b % SectorLen # 0
      BY <2>2, <2>4, <3>1
    <3>4. part[a] = "erased"
      BY <3>2, <3>3 DEF RestErased
    <3> QED BY <1>2, <2>1, <3>2, <3>4
  <2> QED BY <2>3, <2>4 DEF InFlash, RestErased, w, er
<1> QED BY <1>3, <1>4

LEMMA BeforeFirst ==
  ASSUME NEW part, NEW image
  PROVE  InFlash(part, 0, image) /\ RestErased(part, 0)
<1>1. 0 % SectorLen = 0
  BY Lengths
<1>2. \A a \in 0..(FwSize - 1) : 0 \in 0..a
  BY Lengths
<1>3. InFlash(part, 0, image)
  BY DEF InFlash
<1>4. RestErased(part, 0)
  BY <1>1, <1>2 DEF RestErased
<1> QED BY <1>3, <1>4

(* Answers differ.                                                          *)
LEMMA Answers ==
  /\ Status(200) # <<>> /\ Status(200) \notin Errors /\ <<>> \notin Errors
  /\ \A x \in Errors : x \o <<>> = x /\ <<>> \o x = x
  /\ <<>> \o Status(200) = Status(200) /\ <<>> \o <<>> = <<>>
<1>1. Status(200) = << <<"head", 200>> >> /\ Status(400) = << <<"head", 400>> >>
      /\ Status(500) = << <<"head", 500>> >>
  BY DEF Status
<1>2. << <<"head", 200>> >> # <<>> /\ << <<"head", 400>> >> # <<>> /\ << <<"head", 500>> >> # <<>>
  OBVIOUS
<1>3. /\ << <<"head", 200>> >> # << <<"head", 400>> >>
      /\ << <<"head", 200>> >> # << <<"head", 500>> >>
  <2>1. << <<"head", 200>> >>[1][2] = 200 /\ << <<"head", 400>> >>[1][2] = 400
        /\ << <<"head", 500>> >>[1][2] = 500
    OBVIOUS
  <2> QED BY <2>1
<1>4. \A y : << y >> \o <<>> = << y >> /\ <<>> \o << y >> = << y >>
  OBVIOUS
<1>5. <<>> \o <<>> = <<>>
  OBVIOUS
<1> QED BY <1>1, <1>2, <1>3, <1>4, <1>5 DEF Errors

(* What one call of the handler answers and stores.                         *)
Priv1(u) == IF Done(u) = 0 THEN NULL ELSE u.priv

LEMMA UploadOutcome ==
  ASSUME NEW u \in SlotType, NEW d \in DevType, u.conn # NULL, u.req \in Requests, Done(u) >= 0
  PROVE  LET r == UploadFirmware(u, d)
         IN \/ /\ Priv1(u) # NULL
               /\ r.ret = "DONE" /\ r.priv = Priv1(u) /\ r.out = <<>> /\ r.dev = d
            \/ /\ Priv1(u) = NULL /\ UploadError(u, Done(u)) # NULL
               /\ r.ret = "DONE" /\ r.priv = "error" /\ r.out \in Errors /\ r.dev = d
            \/ /\ Priv1(u) = NULL /\ UploadError(u, Done(u)) = NULL
               /\ r.priv = NULL
               /\ r.ret = IF u.received = u.len THEN "DONE" ELSE "MORE"
               /\ r.out = IF u.received = u.len THEN Status(200) ELSE <<>>
               /\ r.dev \in DevType /\ KeepsRunning(u, r.dev, d)
               /\ r.dev.flash.cells = NewCells(u, d, Done(u))
<1> DEFINE off == u.received - u.buffLen
           u1  == [u EXCEPT !.priv = IF off = 0 THEN NULL ELSE @]
           u2  == [u1 EXCEPT !.priv = "error"]
           r   == UploadFirmware(u, d)
<1>1. off = Done(u) /\ off \in Nat
  BY DEF Done, SlotType
<1>2. /\ u1 \in SlotType /\ u1.conn = u.conn /\ u1.req = u.req /\ u1.len = u.len
      /\ u1.received = u.received /\ u1.buffLen = u.buffLen /\ u1.priv = Priv1(u)
  <2>1. u1 = [u EXCEPT !.priv = Priv1(u)]
    BY <1>1 DEF Priv1
  <2>2. Priv1(u) \in {NULL, "error"}
    BY DEF Priv1, SlotType
  <2> HIDE DEF u1
  <2> QED BY <2>1, <2>2 DEF SlotType
<1>3. UploadError(u1, off) = UploadError(u, off) /\ UploadError(u, off) \in {400, 500, NULL}
  BY <1>2 DEF UploadError
<1>4. r = IF u1.priv # NULL THEN Result("DONE", u1, <<>>, d)
          ELSE IF UploadError(u1, off) # NULL
          THEN Result("DONE", u2, Status(UploadError(u1, off)), d)
          ELSE UploadChunk(u1, d, off)
  BY DEF UploadFirmware
<1>5. u2.priv = "error"
  <2> HIDE DEF u1
  <2> QED BY <1>2 DEF SlotType
<1> HIDE DEF u1, u2, r
<1>6. CASE u1.priv # NULL
  BY <1>2, <1>4, <1>6, ResultIs DEF r
<1>7. CASE u1.priv = NULL /\ UploadError(u1, off) # NULL
  <2>1. r = Result("DONE", u2, Status(UploadError(u1, off)), d)
    BY <1>4, <1>7
  <2>2. Status(UploadError(u1, off)) \in Errors
    BY <1>3, <1>7 DEF Errors
  <2> HIDE DEF off
  <2> QED BY <1>1, <1>2, <1>3, <1>5, <1>7, <2>1, <2>2, ResultIs DEF r
<1>8. CASE u1.priv = NULL /\ UploadError(u1, off) = NULL
  <2>1. r = UploadChunk(u1, d, off)
    BY <1>4, <1>8
  <2>2. NewCells(u1, d, off) = NewCells(u, d, off)
    BY <1>2 DEF NewCells
  <2>4. KeepsRunning(u, r.dev, d)
    <3>1. CanCall("cgiUploadFirmware", u)
      BY HandlersAreNames DEF CanCall, FileHandlers, TplCallbacks
    <3> QED BY <1>1, <3>1, UploadCall DEF r
  <2> HIDE DEF off
  <2>3. /\ Typed(r) /\ r.dev.flash.cells = NewCells(u1, d, off)
        /\ r.priv = u1.priv
        /\ r.ret = (IF u1.received = u1.len THEN "DONE" ELSE "MORE")
        /\ r.out = IF u1.received = u1.len THEN Status(200) ELSE <<>>
    BY <1>1, <1>2, <2>1, ChunkCall
  <2> QED BY <1>1, <1>2, <1>3, <1>8, <2>2, <2>3, <2>4 DEF r, Typed
<1> QED BY <1>6, <1>7, <1>8

(* A step that leaves the flash alone, and goes on with an upload or ends   *)
(* the answer to something else.                                            *)
SameUpload(j) ==
  /\ slot'[j] = slot[j] /\ FirmwareNext(dev') = FirmwareNext(dev)
  /\ out'[slot[j].conn] = out[slot[j].conn]
  /\ pending'[slot[j].conn] = pending[slot[j].conn] \/ pending'[slot[j].conn] = 0

SameHist == hist'.wrote = hist.wrote /\ hist'.clash = hist.clash

SameAnswer(e) == hist'.asked[e] = hist.asked[e] /\ out'[e] = out[e]

NotUpload(e) == ~ IsUpload(hist'.asked[e])

LEMMA FlashSame ==
  ASSUME dev'.flash = dev.flash
  PROVE  FirmwareNext(dev') = FirmwareNext(dev) /\ dev'.flash.cells = dev.flash.cells
BY DEF FirmwareNext

LEMMA UploadsGoOn ==
  ASSUME UploadInv, SameHist, dev'.flash.cells = dev.flash.cells,
         \A j \in Slots : UploadSlot(j)' => UploadGoesOn(j)' \/ SameUpload(j),
         \A e \in Conns : SameAnswer(e) \/ NotUpload(e) \/ out'[e] # Status(200)
  PROVE  UploadInv'
<1>0. \A x : Partition(dev'.flash, x) = Partition(dev.flash, x)
  BY DEF Partition
<1>1. ASSUME NEW j \in Slots, SameUpload(j)
      PROVE  UploadGoesOn(j)'
  <2> SUFFICES ASSUME UploadSlot(j)'
               PROVE  UploadState(slot'[j], dev', out'[slot'[j].conn], pending'[slot'[j].conn], hist')
    BY DEF UploadGoesOn
  <2>1. UploadSlot(j)
    BY <1>1 DEF UploadSlot, SameUpload
  <2>2. UploadState(slot[j], dev, out[slot[j].conn], pending[slot[j].conn], hist)
    BY <2>1 DEF UploadInv, UploadGoesOn
  <2> QED BY <1>0, <1>1, <2>2 DEF UploadState, SameUpload, SameHist
<1>2. \A j \in Slots : UploadGoesOn(j)'
  BY <1>1 DEF UploadGoesOn
<1>3. \A e \in Conns : UploadIsDone(e)'
  BY <1>0 DEF UploadInv, UploadIsDone, SameHist, SameAnswer, NotUpload
<1> QED BY <1>2, <1>3 DEF UploadInv

LEMMA NoAnswerYet ==
  ASSUME Inv, NEW i \in Slots, slot[i].conn # NULL, slot[i].len = -1
  PROVE  /\ slot[i].conn \in Conns /\ hist.asked[slot[i].conn] = NULL
         /\ out[slot[i].conn] = <<>> /\ pending[slot[i].conn] = 0
<1>1. slot[i].conn \in Conns
  BY TypeParts DEF Inv, SlotType
<1> QED BY <1>1 DEF Inv, PoolInv, SlotInv

(* A slot of another connection.                                            *)
LEMMA OtherSlot ==
  ASSUME Inv, NEW i \in Slots, slot[i].conn # NULL, NEW j \in Slots, j # i, slot[j].conn # NULL
  PROVE  slot[j].conn \in Conns \ {slot[i].conn}
<1>1. slot[j].conn \in Conns
  BY TypeParts DEF Inv, SlotType
<1> QED BY <1>1 DEF Inv, PoolInv

LEMMA ConnectUploads ==
  ASSUME Inv, UploadInv, NEW c \in Conns, ConnectCb(c)
  PROVE  UploadInv'
<1> DEFINE free == {i \in Slots : slot[i].conn = NULL}
           m == Min(free)
           t == [slot[m] EXCEPT !.conn = c, !.buff = FALSE, !.buffLen = 0,
                                !.received = 0, !.len = -1]
<1>1. free # {} => m \in Slots
  <2>1. free \subseteq Nat
    BY DEF Slots
  <2> HIDE DEF free
  <2>2. free # {} => m \in free
    BY <2>1, MinIsLeast
  <2> QED BY <2>2 DEF free
<1>2. slot' = slot \/ (m \in Slots /\ slot' = [slot EXCEPT ![m] = t])
  <2>1. slot' = slot \/ (free # {} /\ slot' = [slot EXCEPT ![m] = t])
    BY DEF ConnectCb
  <2> HIDE DEF free
  <2> QED BY <1>1, <2>1
<1>3. dev' = dev /\ hist' = hist /\ out' = out /\ pending' = pending
  BY DEF ConnectCb
<1>4. \A j \in Slots : slot[j] \in SlotType
  BY TypeParts DEF Inv
<1> HIDE DEF m
<1>5. m \in Slots => t.len = -1
  BY <1>4 DEF SlotType
<1> HIDE DEF t
<1>6. \A j \in Slots : slot'[j] = slot[j] \/ slot'[j].len = -1
  <2>1. slot \in [Slots -> SlotType]
    BY DEF Inv, TypeOK
  <2> QED BY <1>2, <1>5, <2>1
<1>7. \A j \in Slots : UploadSlot(j)' => SameUpload(j)
  BY <1>3, <1>6 DEF UploadSlot, SameUpload
<1> QED BY <1>3, <1>7, UploadsGoOn DEF SameHist, SameAnswer

(* A slot that is not an upload's changes.                                  *)
LEMMA OtherUploads ==
  ASSUME Inv, UploadInv, NEW c \in Conns, NEW i \in Slots, slot[i].conn = c,
         NEW t \in SlotType, slot' = [slot EXCEPT ![i] = t],
         t.conn # NULL /\ t.len # -1 => t.req.url # "/flash/upload",
         dev'.flash = dev.flash, SameHist, OthersWait(c),
         \A e \in Conns \ {c} : hist'.asked[e] = hist.asked[e],
         SameAnswer(c) \/ NotUpload(c)
  PROVE  UploadInv'
<1>1. slot'[i] = t /\ \A j \in Slots : j # i => slot'[j] = slot[j]
  BY SlotsChange DEF Inv
<1>2. c # NULL
  BY NotNames
<1>3. ASSUME NEW j \in Slots, UploadSlot(j)'
      PROVE  SameUpload(j)
  <2>1. j # i
    BY <1>1, <1>3 DEF UploadSlot
  <2>2. slot'[j] = slot[j] /\ slot[j].conn # NULL
    BY <1>1, <1>3, <2>1 DEF UploadSlot
  <2>3. slot[j].conn \in Conns \ {c}
    BY <1>2, <2>1, <2>2, OtherSlot
  <2> QED BY <2>2, <2>3, FlashSame DEF SameUpload, OthersWait
<1>4. \A e \in Conns : SameAnswer(e) \/ NotUpload(e)
  BY DEF OthersWait, SameAnswer
<1> QED BY <1>3, <1>4, FlashSame, UploadsGoOn

LEMMA RecvHeadUploads ==
  ASSUME Inv, UploadInv, NEW c \in Conns, NEW req \in plan.asks[c], NEW junk \in BOOLEAN,
         RecvHead(c, req, junk)
  PROVE  UploadInv'
<1>1. PICK i \in FindConn(c) :
        /\ slot[i].len = -1
        /\ LET s == Parsed(slot[i], req)
           IN IF s.len = 0
              THEN Outcome(i, c, ProcessRequest(s, [dev EXCEPT !.junk = junk]))
              ELSE /\ slot' = [slot EXCEPT ![i] = s]
                   /\ UNCHANGED <<dev, pending, out>>
  BY DEF RecvHead
<1>2. /\ i \in Slots /\ slot[i].conn = c /\ slot[i] \in SlotType /\ c # NULL
      /\ SlotInv(slot[i], hist) /\ Receiving(slot[i])
  BY FoundSlot
<1>3. req \in Requests /\ req # NULL /\ req.len \in Nat /\ (req.url = "/flash/upload" => req.len # 0)
  BY TypeParts, RequestType DEF Inv
<1> DEFINE s == Parsed(slot[i], req)
<1>4. /\ s \in SlotType /\ s.conn = c /\ s.req = req /\ s.len = req.len
      /\ s.received = 0 /\ s.buffLen = 0
  BY <1>1, <1>2, <1>3, HeadIs
<1>5. hist' = [hist EXCEPT !.asked[c] = req]
  BY DEF RecvHead
<1>6. /\ SameHist /\ hist'.asked[c] = req
      /\ \A e \in Conns \ {c} : hist'.asked[e] = hist.asked[e]
  BY <1>5, TypeParts DEF Inv, HistType, SameHist
<1>7. dev \in DevType
  BY DEF Inv, TypeOK
<1> HIDE DEF s
<1>8. CASE s.len = 0
  <2> DEFINE d == [dev EXCEPT !.junk = junk]
             res == ProcessRequest(s, d)
  <2>1. Outcome(i, c, res)
    BY <1>1, <1>8 DEF s
  <2>2. d \in DevType /\ d.flash = dev.flash
    BY <1>7, JunkIs
  <2> HIDE DEF d
  <2>3. req.url # "/flash/upload"
    BY <1>3, <1>4, <1>8
  <2>4. /\ res.slot \in SlotType /\ SameRest(res.slot, s)
        /\ res.dev \in DevType /\ SameFlash(res.dev, d)
    <3>1. s.conn # NULL /\ s.req \in Requests /\ s.received - s.buffLen >= 0
      BY <1>2, <1>3, <1>4
    <3>2. s.req.url = NULL => s.cgi = NULL
      BY <1>1, <1>2, <1>3, HeadIs DEF s
    <3> QED BY <1>4, <2>2, <2>3, <3>1, <3>2, Processed
  <2> HIDE DEF res
  <2>5. /\ slot' = [slot EXCEPT ![i] = res.slot] /\ dev'.flash = dev.flash /\ OthersWait(c)
    <3>1. slot' = [slot EXCEPT ![i] = res.slot] /\ dev'.flash = res.dev.flash /\ Flush(c, res.out)
      BY <1>2, <2>1, <2>4, OutcomeIs DEF Inv
    <3>2. OthersWait(c)
      BY <3>1, FlushIs DEF Inv, OthersWait
    <3> QED BY <2>2, <2>4, <3>1, <3>2 DEF SameFlash
  <2>6. res.slot.req.url # "/flash/upload" /\ NotUpload(c)
    BY <1>4, <1>6, <2>3, <2>4 DEF SameRest, NotUpload, IsUpload
  <2> QED BY <1>2, <1>6, <2>4, <2>5, <2>6, OtherUploads
<1>9. CASE s.len # 0
  <2>1. slot' = [slot EXCEPT ![i] = s] /\ dev' = dev /\ pending' = pending /\ out' = out
    BY <1>1, <1>9 DEF s
  <2>2. slot'[i] = s /\ \A j \in Slots : j # i => slot'[j] = slot[j]
    BY <1>2, <1>4, <2>1, SlotsChange DEF Inv
  <2>3. out[c] = <<>> /\ pending[c] = 0
    BY <1>1, <1>2, NoAnswerYet
  <2>4. ASSUME NEW j \in Slots, UploadSlot(j)'
        PROVE  UploadGoesOn(j)' \/ SameUpload(j)
    <3>1. CASE j = i
      <4>1. Done(s) = 0
        BY <1>4 DEF Done
      <4>2. UploadState(s, dev', out'[s.conn], pending'[s.conn], hist')
        BY <1>4, <2>1, <2>3, <4>1 DEF UploadState
      <4> QED BY <2>2, <3>1, <4>2 DEF UploadGoesOn
    <3>2. CASE j # i
      BY <2>1, <2>2, <3>2 DEF SameUpload
    <3> QED BY <3>1, <3>2
  <2>5. \A e \in Conns : SameAnswer(e) \/ NotUpload(e) \/ out'[e] # Status(200)
    BY <1>6, <2>1, <2>3, Answers DEF SameAnswer
  <2> QED BY <1>6, <2>1, <2>4, <2>5, UploadsGoOn
<1> QED BY <1>8, <1>9

(* An upload whose answer is on its way has no handler.                     *)
LEMMA UploadWaits ==
  ASSUME Inv, UploadInv, NEW i \in Slots, slot[i].conn # NULL, slot[i].cgi # NULL,
         pending[slot[i].conn] > 0
  PROVE  slot[i].len # -1 /\ slot[i].req.url # "/flash/upload" /\ slot[i].cgi # "cgiUploadFirmware"
         /\ slot[i].req \in Requests /\ hist.asked[slot[i].conn] = slot[i].req
<1>1. SlotInv(slot[i], hist)
  BY DEF Inv, PoolInv
<1>2. slot[i].len # -1 /\ hist.asked[slot[i].conn] = slot[i].req
  BY <1>1 DEF SlotInv, Receiving
<1>3. slot[i].req.url # "/flash/upload"
  <2> SUFFICES ASSUME slot[i].req.url = "/flash/upload" PROVE FALSE
    OBVIOUS
  <2>1. UploadState(slot[i], dev, out[slot[i].conn], pending[slot[i].conn], hist)
    BY <1>2 DEF UploadInv, UploadGoesOn, UploadSlot
  <2> QED BY <2>1 DEF UploadState
<1>4. slot[i].cgi # "cgiUploadFirmware" /\ slot[i].req \in Requests
  BY <1>1, <1>2, <1>3 DEF SlotInv, Receiving
<1> QED BY <1>2, <1>3, <1>4

LEMMA SentUploads ==
  ASSUME Inv, UploadInv, NEW c \in Conns, SentCb(c)
  PROVE  UploadInv'
<1>1. PICK i \in FindConn(c) : IF slot[i].cgi = NULL THEN CloseConn(i, c) ELSE GoOn(i, c)
  BY DEF SentCb
<1> DEFINE s == slot[i]
           r == Cgi(s.cgi, s, dev)
           t == Kept(s, r)
<1>2. /\ i \in Slots /\ s \in SlotType /\ s.conn = c /\ s.conn # NULL /\ SlotInv(s, hist)
      /\ dev \in DevType /\ pending[c] > 0
  BY FoundSlot, TypeParts DEF Inv, SentCb
<1>3. CASE s.cgi = NULL
  <2>1. /\ slot' = [slot EXCEPT ![i] = Retired(s)] /\ dev' = dev /\ out' = out
        /\ hist' = [hist EXCEPT !.served = @ \cup {c}]
        /\ pending' = [pending EXCEPT ![c] = 0]
    BY <1>1, <1>3 DEF CloseConn
  <2>2. hist'.asked = hist.asked /\ SameHist
    BY <2>1 DEF SameHist
  <2>3. Retired(s) \in SlotType /\ Retired(s).conn = NULL
    BY <1>2, RetiredIs DEF IsRetired
  <2>4. OthersWait(c) /\ SameAnswer(c)
    BY <2>1, <2>2 DEF OthersWait, SameAnswer, Inv, TypeOK
  <2> QED BY <1>2, <2>1, <2>2, <2>3, <2>4, OtherUploads
<1>4. CASE s.cgi # NULL
  <2>1. GoOn(i, c)
    BY <1>1, <1>4
  <2>2. /\ s.len # -1 /\ s.req.url # "/flash/upload" /\ s.cgi # "cgiUploadFirmware"
        /\ s.req \in Requests /\ hist.asked[c] = s.req
    BY <1>2, <1>4, UploadWaits
  <2>3. s.cgi \in CgiNames /\ CanCall(s.cgi, s) /\ Handed(s.cgi, s)
    <3> HIDE DEF s
    <3> QED BY <1>2, <1>4, WorkingSlot
  <2>4. hist'.asked = hist.asked /\ SameHist
    <3> HIDE DEF s, r, t
    <3>1. \E x : hist' = [hist EXCEPT !.disturbed = x]
      BY <2>1 DEF GoOn
    <3> QED BY <3>1 DEF SameHist
  <2>5. /\ slot' = [slot EXCEPT ![i] = t] /\ dev' = r.dev
        /\ out' = [out EXCEPT ![c] = @ \o r.out]
        /\ pending' = [pending EXCEPT ![c] = IF r.out = <<>> THEN @ - 1 ELSE @]
    BY <2>1 DEF GoOn
  <2> HIDE DEF s
  <2>6. Called(s.cgi, s, dev, r)
    BY <1>2, <2>3, CgiCalled
  <2> HIDE DEF r
  <2>7. t \in SlotType /\ SameRest(t, s)
    BY <1>2, <2>6, KeptIs DEF Called
  <2> HIDE DEF t
  <2>8. dev'.flash = dev.flash
    BY <2>2, <2>5, <2>6 DEF Called, SameFlash
  <2>9. OthersWait(c)
    BY <2>5 DEF OthersWait, Inv, TypeOK
  <2>10. t.req.url # "/flash/upload" /\ NotUpload(c)
    BY <2>2, <2>4, <2>7 DEF SameRest, NotUpload, IsUpload
  <2>11. slot[i].conn = c /\ slot' = [slot EXCEPT ![i] = t]
    BY <1>2, <2>5 DEF s
  <2> QED BY <1>2, <2>4, <2>7, <2>8, <2>9, <2>10, <2>11, OtherUploads
<1> QED BY <1>1, <1>3, <1>4

(* Slots are only given back.                                               *)
LEMMA GivenBack ==
  ASSUME Inv, UploadInv, hist'.asked = hist.asked, SameHist, out' = out,
         dev'.flash = dev.flash,
         \A j \in Slots : slot'[j] = slot[j] \/ IsRetired(slot'[j]),
         \A e \in Conns : pending'[e] = pending[e] \/ pending'[e] = 0
  PROVE  UploadInv'
<1>1. ASSUME NEW j \in Slots, UploadSlot(j)'
      PROVE  SameUpload(j)
  <2>1. slot'[j] = slot[j] /\ slot[j].conn # NULL
    BY <1>1 DEF UploadSlot, IsRetired
  <2>2. slot[j].conn \in Conns
    BY <2>1, TypeParts DEF Inv, SlotType
  <2> QED BY <2>1, <2>2, FlashSame DEF SameUpload
<1> QED BY <1>1, FlashSame, UploadsGoOn DEF SameAnswer

LEMMA DisconUploads ==
  ASSUME Inv, UploadInv, NEW c \in Conns, NEW looks, DisconCb(c, looks)
  PROVE  UploadInv'
<1>1. SameFlash(dev', dev) /\ \A j \in Slots : slot'[j] = slot[j] \/ IsRetired(slot'[j])
  BY DisconIs
<1>2. out' = out /\ pending' = [pending EXCEPT ![c] = 0]
  BY DEF DisconCb
<1>3. hist'.asked = hist.asked /\ SameHist
  <2>1. \E x : hist' = [hist EXCEPT !.disturbed = x]
    BY DEF DisconCb
  <2> QED BY <2>1 DEF SameHist
<1>4. \A e \in Conns : pending'[e] = pending[e] \/ pending'[e] = 0
  BY <1>2 DEF Inv, TypeOK
<1> QED BY <1>1, <1>2, <1>3, <1>4, GivenBack DEF SameFlash

LEMMA RestartUploads ==
  ASSUME Inv, UploadInv, NEW x \in {0, 1}, Reboot(x)
  PROVE  UploadInv'
<1>1. /\ slot' = [i \in Slots |-> EmptySlot] /\ out' = out
      /\ hist' = [hist EXCEPT !.restarts = @ + 1]
  BY DEF Reboot
<1>2. hist'.asked = hist.asked /\ SameHist /\ dev'.flash.cells = dev.flash.cells
  BY <1>1, RebootIs DEF SameHist
<1>3. \A j \in Slots : ~UploadSlot(j)'
  BY <1>1, EmptySlotType DEF UploadSlot, IsRetired
<1> QED BY <1>1, <1>2, <1>3, UploadsGoOn DEF SameAnswer

LEMMA CrashUploads ==
  ASSUME Inv, UploadInv, NEW c, NEW looks, Restart \/ CrashInDiscon(c, looks)
  PROVE  UploadInv'
BY RestartReboots, RestartUploads

(* A body that is no longer than its head said.                             *)
LEMMA NotOverlong ==
  ASSUME NoneOverlong, NEW c \in Conns, NEW req \in Requests, hist.asked[c] = req,
         req.url = "/flash/upload"
  PROVE  req.sent <= req.len /\ req.sent \in Nat /\ req.len \in Nat
<1>1. req # NULL /\ req.sent \in Nat /\ req.len \in Nat
  BY RequestsAreReal
<1> QED BY <1>1 DEF NoneOverlong, Overlong

(* A piece of a body that stays in the buffer.                              *)
LEMMA BufferedUploads ==
  ASSUME Inv, UploadInv, NoneOverlong, NEW c \in Conns, NEW i, Arrives(i, c),
         ~HandsOn(Gained(slot[i])), slot' = [slot EXCEPT ![i] = Gained(slot[i])],
         dev' = dev, pending' = pending, out' = out, hist' = hist
  PROVE  UploadInv'
<1> DEFINE s == Gained(slot[i])
           p == slot[i]
<1>1. /\ i \in Slots /\ s \in SlotType /\ p.conn = c /\ s.conn = c /\ c # NULL /\ p.len # -1
      /\ s.req = p.req /\ s.len = p.len /\ s.priv = p.priv /\ s.cgi = p.cgi
      /\ Done(s) = Done(p) /\ s.received # s.len
      /\ s.req \in Requests /\ hist.asked[c] = s.req /\ s.len = s.req.len
      /\ p.received < p.req.sent /\ p.received \in Nat
  BY GainedIs DEF HandsOn, Arrives, SlotType
<1>3. slot' = [slot EXCEPT ![i] = s]
  OBVIOUS
<1>4. slot'[i] = s /\ \A j \in Slots : j # i => slot'[j] = slot[j]
  BY <1>1, <1>3, SlotsChange DEF Inv
<1>5. UploadSlot(i)' => UploadGoesOn(i)'
  <2> SUFFICES ASSUME UploadSlot(i)' PROVE UploadState(s, dev, out[c], pending[c], hist)
    BY <1>1, <1>4 DEF UploadGoesOn
  <2> HIDE DEF s, p
  <2>1. p.req.url = "/flash/upload"
    BY <1>1, <1>4 DEF UploadSlot
  <2>2. UploadState(p, dev, out[c], pending[c], hist)
    BY <1>1, <2>1 DEF UploadInv, UploadGoesOn, UploadSlot, p
  <2>3. p.received # p.len
    BY <1>1, <2>1, NotOverlong
  <2> QED BY <1>1, <2>2, <2>3 DEF UploadState
<1>6. \A j \in Slots : UploadSlot(j)' => UploadGoesOn(j)' \/ SameUpload(j)
  BY <1>4, <1>5 DEF SameUpload
<1> QED BY <1>6, UploadsGoOn DEF SameHist, SameAnswer

(* A piece that is handed on, of a body that is no firmware.                *)
LEMMA BodyUploads ==
  ASSUME Inv, UploadInv, NEW c \in Conns, NEW i, Arrives(i, c), NEW junk \in BOOLEAN,
         HandsOn(Gained(slot[i])), slot[i].req.url # "/flash/upload",
         LET res == ProcessRequest(Gained(slot[i]), [dev EXCEPT !.junk = junk])
         IN /\ Outcome(i, c, Emptied(res))
            /\ hist' = IF Stored(res) THEN Wrote(c, FirmwareNext(dev)) ELSE hist
  PROVE  UploadInv'
<1> DEFINE s   == Gained(slot[i])
           res == ProcessRequest(s, [dev EXCEPT !.junk = junk])
           e   == Emptied(res)
<1>1. /\ i \in Slots /\ slot[i].conn = c /\ s.req = slot[i].req /\ hist.asked[c] = s.req
      /\ c # NULL
  BY GainedIs
<1>2. /\ SameRest(res.slot, s) /\ SameFlash(res.dev, dev) /\ res.dev \in DevType
      /\ e.slot \in SlotType /\ e.slot.req = s.req /\ e.dev = res.dev
  BY <1>1, HandedOn
<1>3. Outcome(i, c, e) /\ hist' = IF Stored(res) THEN Wrote(c, FirmwareNext(dev)) ELSE hist
  OBVIOUS
<1> HIDE DEF s, res, e
<1>4. hist' = hist
  BY <1>1, <1>2, <1>3 DEF Stored, SameRest
<1>5. slot' = [slot EXCEPT ![i] = e.slot] /\ dev'.flash = dev.flash /\ Flush(c, e.out)
  BY <1>1, <1>2, <1>3, OutcomeIs DEF Inv, SameFlash
<1>6. OthersWait(c)
  BY <1>5, FlushIs DEF Inv, OthersWait
<1>7. NotUpload(c) /\ SameHist
  BY <1>1, <1>4 DEF NotUpload, IsUpload, SameHist
<1> QED BY <1>1, <1>2, <1>4, <1>5, <1>6, <1>7, OtherUploads

(* What the handler makes of a piece of a firmware: t is the slot after it.  *)
PieceRefused(t, c) ==
  /\ dev'.flash.cells = dev.flash.cells
  /\ t.priv # NULL /\ t.cgi = NULL /\ out'[c] \in Errors

PieceTaken(s, t, c) ==
  /\ t.priv = NULL
  /\ UploadError(s, Done(s)) = NULL /\ Priv1(s) = NULL
  /\ dev'.flash.cells = NewCells(s, dev, Done(s))
  /\ SameRunning(dev', dev)
  /\ IF s.received = s.len THEN out'[c] = Status(200) /\ t.cgi = NULL
     ELSE out'[c] = <<>> /\ pending'[c] = 0

LEMMA PieceOutcome ==
  ASSUME Inv, UploadInv, NoneOverlong, NEW c \in Conns, NEW i, Arrives(i, c), NEW junk \in BOOLEAN,
         HandsOn(Gained(slot[i])), slot[i].req.url = "/flash/upload",
         LET res == ProcessRequest(Gained(slot[i]), [dev EXCEPT !.junk = junk])
         IN Outcome(i, c, Emptied(res))
  PROVE  LET s    == Gained(slot[i])
             next == FirmwareNext(dev)
             t    == slot'[i]
             res  == ProcessRequest(s, [dev EXCEPT !.junk = junk])
         IN /\ t.conn = c /\ t.req = s.req /\ t.len = s.len /\ t.received = s.received
            /\ t.buffLen = 0 /\ Done(t) # 0
            /\ \A j \in Slots : j # i => slot'[j] = slot[j]
            /\ OthersWait(c)
            /\ FirmwareNext(dev') = next
            /\ \/ ~Stored(res) /\ PieceRefused(t, c)
               \/ Stored(res) /\ PieceTaken(s, t, c)
<1> DEFINE p   == slot[i]
           s   == Gained(p)
           d   == [dev EXCEPT !.junk = junk]
           u   == Tried(s, 9)
           r   == UploadFirmware(u, d)
           res == ProcessRequest(s, d)
           e   == Emptied(res)
           next == FirmwareNext(dev)
<1>1. /\ i \in Slots /\ p \in SlotType /\ c # NULL /\ p.len # -1 /\ p.conn = c
      /\ s \in SlotType /\ s.conn = c /\ s.req = p.req /\ s.len = p.len
      /\ s.cgi = p.cgi /\ s.priv = p.priv
      /\ s.received = p.received + 1 /\ s.buffLen = p.buffLen + 1
      /\ Done(s) = Done(p) /\ s.req \in Requests /\ Done(s) \in Nat
      /\ (p.received < p.len => Done(p) % p.buffSize = 0)
      /\ p.buffSize = IF p.len <= MaxPost THEN p.len ELSE MaxPost
      /\ hist.asked[c] = s.req /\ s.len = s.req.len /\ s.received <= s.req.sent
  BY GainedIs
<1>2. d \in DevType /\ d.flash = dev.flash
  BY JunkIs, TypeParts DEF Inv
<1>3. p.received < p.len /\ p.received \in Nat /\ p.buffLen \in Nat
  <2>1. p.received < p.req.sent /\ p.received \in Nat /\ p.buffLen \in Nat
    BY <1>1 DEF Arrives, SlotType
  <2> HIDE DEF s
  <2> QED BY <1>1, <2>1, NotOverlong
<1>4. s.received # 0 /\ s.received > 0 /\ s.received - s.buffLen >= 0
  BY <1>1, <1>3 DEF Done
<1>5. UploadState(p, dev, out[c], pending[c], hist)
  BY <1>1 DEF UploadInv, UploadGoesOn, UploadSlot
<1>6. /\ e.slot \in SlotType /\ e.slot.conn = c /\ e.slot.req = s.req /\ e.slot.len = s.len
      /\ e.slot.received = s.received /\ e.slot.buffLen = 0 /\ e.slot.cgi = res.slot.cgi
      /\ e.slot.priv = res.slot.priv /\ e.dev = res.dev /\ e.out = res.out
      /\ res.dev \in DevType /\ KeepsRunning(s, res.dev, dev) /\ SameRest(res.slot, s)
  BY HandedOn
<1>7. Outcome(i, c, e)
  OBVIOUS
<1>8. s.req.url = "/flash/upload"
  BY <1>1
<1> HIDE DEF s, d, p
<1>9. res = [slot |-> Kept(u, r), out |-> r.out, dev |-> r.dev]
  BY <1>1, <1>2, <1>4, <1>8, UploadTaker
<1>10. /\ u \in SlotType /\ SameRest(u, s) /\ u.priv = s.priv
       /\ CanCall("cgiUploadFirmware", u)
  BY <1>1, <1>4, TriedIs, Callbacks
<1> HIDE DEF u
<1>11. Done(u) = Done(s) /\ Priv1(u) = Priv1(s) /\ UploadError(u, Done(u)) = UploadError(s, Done(s))
  BY <1>10 DEF Done, Priv1, UploadError, SameRest
<1>12. \/ /\ Priv1(s) # NULL
          /\ r.ret = "DONE" /\ r.priv = Priv1(s) /\ r.out = <<>> /\ r.dev = d
       \/ /\ Priv1(s) = NULL /\ UploadError(s, Done(s)) # NULL
          /\ r.ret = "DONE" /\ r.priv = "error" /\ r.out \in Errors /\ r.dev = d
       \/ /\ Priv1(s) = NULL /\ UploadError(s, Done(s)) = NULL
          /\ r.priv = NULL
          /\ r.ret = IF s.received = s.len THEN "DONE" ELSE "MORE"
          /\ r.out = IF s.received = s.len THEN Status(200) ELSE <<>>
          /\ r.dev \in DevType /\ r.dev.flash.cells = NewCells(s, dev, Done(s))
  <2>1. /\ u.conn # NULL /\ u.req \in Requests /\ Done(u) >= 0
        /\ u.received = s.received /\ u.len = s.len /\ u.buffLen = s.buffLen /\ u.req = s.req
    BY <1>1, <1>10, <1>11 DEF SameRest
  <2>2. NewCells(u, d, Done(s)) = NewCells(s, dev, Done(s))
    BY <1>2, <2>1 DEF NewCells, FirmwareNext
  <2> HIDE DEF r, next
  <2> QED BY <1>2, <1>10, <1>11, <2>1, <2>2, UploadOutcome DEF r
<1>13. Typed(r)
  <2> HIDE DEF r
  <2>1. Called("cgiUploadFirmware", u, d, r)
    BY <1>2, <1>4, <1>10, UploadCall DEF r, SameRest
  <2> QED BY <2>1 DEF Called
<1> HIDE DEF r
<1>14. /\ res.slot.priv = r.priv /\ res.out = r.out /\ res.dev = r.dev
       /\ res.slot.cgi = IF r.ret = "MORE" THEN u.cgi ELSE NULL
  BY <1>9, <1>10, <1>13, KeptIs
<1>15. u.cgi = "cgiUploadFirmware" /\ u.cgi # NULL
  BY <1>1, <1>4, TriedIs, Callbacks, HandlersAreNames, NotNames DEF u
<1> HIDE DEF e, res
<1>16. /\ slot' = [slot EXCEPT ![i] = e.slot] /\ dev'.flash = res.dev.flash /\ Flush(c, r.out)
  BY <1>1, <1>6, <1>7, <1>14, OutcomeIs DEF Inv
<1>17. slot'[i] = e.slot /\ \A j \in Slots : j # i => slot'[j] = slot[j]
  BY <1>1, <1>6, <1>16, SlotsChange DEF Inv
<1>18. OthersWait(c) /\ out'[c] = out[c] \o r.out
       /\ pending'[c] = IF r.out = <<>> THEN pending[c] ELSE pending[c] + 1
  BY <1>16, FlushIs DEF Inv, OthersWait
<1>19. FirmwareNext(dev') = next
  BY <1>6, <1>16 DEF FirmwareNext, KeepsRunning
<1>20. /\ e.slot.conn = c /\ e.slot.req = s.req /\ e.slot.len = s.len
       /\ e.slot.received = s.received /\ e.slot.buffLen = 0 /\ Done(e.slot) # 0
  BY <1>1, <1>3, <1>4, <1>6 DEF Done
<1>21. Stored(res) <=> r.ret = "MORE" \/ r.out = Status(200)
  BY <1>6, <1>8, <1>14, <1>15 DEF Stored, SameRest
<1> DEFINE t == slot'[i]
<1>22. t = e.slot /\ t.priv = r.priv /\ t.cgi = IF r.ret = "MORE" THEN u.cgi ELSE NULL
  BY <1>6, <1>14, <1>17
<1>23. CASE /\ Priv1(s) # NULL
            /\ r.ret = "DONE" /\ r.priv = Priv1(s) /\ r.out = <<>> /\ r.dev = d
  <2>1. Done(p) # 0 /\ p.priv # NULL
    BY <1>1, <1>23 DEF Priv1
  <2>2. out[c] \in Errors
    BY <1>5, <2>1 DEF UploadState
  <2>3. out'[c] \in Errors
    BY <1>18, <1>23, <2>2, Answers
  <2>4. ~Stored(res)
    BY <1>21, <1>23, Answers
  <2>5. dev'.flash.cells = dev.flash.cells
    BY <1>2, <1>14, <1>16, <1>23
  <2>6. t.priv # NULL /\ t.cgi = NULL
    BY <1>22, <1>23
  <2> HIDE DEF t, next
  <2>7. PieceRefused(t, c)
    BY <2>3, <2>5, <2>6 DEF PieceRefused
  <2> QED BY <1>17, <1>18, <1>19, <1>20, <1>22, <2>4, <2>7 DEF s, d, p, res, t, next
<1>24. CASE /\ Priv1(s) = NULL /\ UploadError(s, Done(s)) # NULL
            /\ r.ret = "DONE" /\ r.priv = "error" /\ r.out \in Errors /\ r.dev = d
  <2>1. Done(p) = 0
    <3> SUFFICES ASSUME Done(p) # 0 PROVE FALSE
      OBVIOUS
    <3>1. p.priv = NULL /\ p.received # p.len
      BY <1>1, <1>3, <1>24 DEF Priv1
    <3>2. p.len <= FwSize /\ UploadError(s, Done(s)) = 500 /\ Done(s) % MaxPost # 0
      <4>1. p.len <= FwSize
        BY <1>5, <3>1 DEF UploadState
      <4>2. s.len = p.len /\ s.len \in Nat
        BY <1>1, <1>3, <1>24 DEF SlotType
      <4> QED BY <1>1, <1>24, <4>1, <4>2, Lengths DEF UploadError
    <3>3. Done(p) % MaxPost = 0
      <4>1. p.len \in Nat
        BY <1>1, <1>3 DEF SlotType
      <4>2. Done(p) \in Nat /\ Done(p) < p.len
        BY <1>1, <1>3, <4>1 DEF Done
      <4>3. Done(p) % p.buffSize = 0
        BY <1>1, <1>3
      <4>4. p.buffSize = MaxPost
        BY <1>1, <4>1, <4>2, <4>3, SmallMod
      <4> QED BY <4>3, <4>4
    <3> QED BY <1>1, <3>2, <3>3
  <2>2. out[c] = <<>>
    BY <1>5, <2>1 DEF UploadState
  <2>3. out'[c] \in Errors
    BY <1>18, <1>24, <2>2, Answers
  <2>4. ~Stored(res)
    BY <1>21, <1>24, Answers
  <2>5. dev'.flash.cells = dev.flash.cells
    BY <1>2, <1>14, <1>16, <1>24
  <2>6. t.priv # NULL /\ t.cgi = NULL
    BY <1>22, <1>24, CgiFlashAssumption
  <2> HIDE DEF t, next
  <2>7. PieceRefused(t, c)
    BY <2>3, <2>5, <2>6 DEF PieceRefused
  <2> QED BY <1>17, <1>18, <1>19, <1>20, <1>22, <2>4, <2>7 DEF s, d, p, res, t, next
<1>25. CASE /\ Priv1(s) = NULL /\ UploadError(s, Done(s)) = NULL
            /\ r.priv = NULL
            /\ r.ret = IF s.received = s.len THEN "DONE" ELSE "MORE"
            /\ r.out = IF s.received = s.len THEN Status(200) ELSE <<>>
            /\ r.dev.flash.cells = NewCells(s, dev, Done(s))
  <2>1. Stored(res) /\ t.priv = NULL
    BY <1>21, <1>22, <1>25
  <2>2. out[c] = <<>> /\ pending[c] = 0
    <3>1. Done(p) # 0 => p.priv = NULL
      BY <1>1, <1>25 DEF Priv1
    <3>2. p.received # p.len
      BY <1>1, <1>3
    <3> QED BY <1>5, <3>1, <3>2 DEF UploadState
  <2>3. dev'.flash.cells = NewCells(s, dev, Done(s))
    BY <1>14, <1>16, <1>25
  <2>5. SameRunning(dev', dev)
    <3>1. s.len \in Int /\ s.received \in Nat /\ p.len \in Int /\ FwSize \in Nat
      BY <1>1, Lengths DEF SlotType
    <3>2. s.received <= s.len
      BY <1>1, <1>3, <3>1
    <3>3. Fits(s)
      BY <3>1, <3>2 DEF Fits
    <3> QED BY <1>6, <1>16, <3>3 DEF KeepsRunning, SameRunning
  <2>4. IF s.received = s.len THEN out'[c] = Status(200) /\ t.cgi = NULL
        ELSE out'[c] = <<>> /\ pending'[c] = 0
    BY <1>18, <1>22, <1>25, <2>2, Answers
  <2> HIDE DEF t, next
  <2> QED BY <1>17, <1>18, <1>19, <1>20, <1>22, <1>25, <2>1, <2>3, <2>4, <2>5
         DEF s, d, p, res, t, next, PieceTaken
<1> QED BY <1>12, <1>23, <1>24, <1>25

LEMMA UploadPasses ==
  ASSUME NEW s \in SlotType, NEW off, UploadError(s, off) = NULL
  PROVE  s.len <= FwSize /\ off % MaxPost = 0
<1>1. NULL \notin {400, 500} /\ FwSize \in Nat
  BY CgiFlashAssumption
<1>2. ~(s.len > FwSize)
  BY <1>1 DEF UploadError
<1>3. ~((off % MaxPost) # 0)
  BY <1>1 DEF UploadError
<1>4. s.len \in Int
  BY DEF SlotType
<1> QED BY <1>1, <1>2, <1>3, <1>4

(* It lands where it belongs.                                               *)
LEMMA PieceLands ==
  ASSUME Aligned, Inv, UploadInv, NoneOverlong, NEW c \in Conns, NEW i, Arrives(i, c),
         slot[i].req.url = "/flash/upload", c \notin hist.clash,
         Priv1(Gained(slot[i])) = NULL, UploadError(Gained(slot[i]), Done(Gained(slot[i]))) = NULL
  PROVE  LET s == Gained(slot[i])
             w == WriteFlash(ErasedFor(Partition(dev.flash, FirmwareNext(dev)), Done(s)),
                             Done(s), s.buffLen, s.req.image)
         IN InFlash(w, s.received, s.req.image) /\ RestErased(w, s.received)
<1> DEFINE p    == slot[i]
           s    == Gained(p)
           part == Partition(dev.flash, FirmwareNext(dev))
           off  == Done(s)
           n    == s.buffLen
<1>1. /\ i \in Slots /\ p \in SlotType /\ c # NULL /\ p.len # -1 /\ p.conn = c
      /\ s \in SlotType /\ s.req = p.req /\ s.len = p.len /\ s.priv = p.priv
      /\ s.received = p.received + 1 /\ s.buffLen = p.buffLen + 1
      /\ s.req \in Requests /\ hist.asked[c] = s.req /\ s.len = s.req.len
      /\ Done(s) = Done(p) /\ Done(s) \in Nat
      /\ p.buffLen < p.buffSize /\ p.buffSize = IF p.len <= MaxPost THEN p.len ELSE MaxPost
  BY GainedIs
<1>2. p.received < p.len /\ p.received \in Nat /\ p.buffLen \in Nat /\ p.len \in Int
      /\ p.buffSize \in Nat
  <2>1. /\ p.received < p.req.sent /\ p.received \in Nat /\ p.buffLen \in Nat /\ p.len \in Int
        /\ p.buffSize \in Nat
    BY <1>1 DEF Arrives, SlotType
  <2> HIDE DEF s
  <2> QED BY <1>1, <2>1, NotOverlong
<1>3. UploadState(p, dev, out[c], pending[c], hist)
  BY <1>1 DEF UploadInv, UploadGoesOn, UploadSlot
<1>4. part \in [0..(FwSize - 1) -> CellValues]
  <2>1. /\ dev.flash.cells \in [0..(FlashLen - 1) -> CellValues]
        /\ FirmwareNext(dev) \in {0, 1}
    BY TypeParts, NextIsOther DEF Inv
  <2>2. \A a \in 0..(FwSize - 1) : PartPos(FirmwareNext(dev)) + a \in 0..(FlashLen - 1)
    BY <2>1, Places
  <2> QED BY <2>1, <2>2 DEF Partition
<1>5. s.len <= FwSize /\ off % MaxPost = 0
  BY <1>1, UploadPasses
<1> HIDE DEF part
<1>6. InFlash(part, off, s.req.image) /\ RestErased(part, off)
  <2>1. CASE off = 0
    BY <2>1, BeforeFirst
  <2>2. CASE off # 0
    <3>1. Done(p) # 0 /\ p.priv = NULL /\ p.received # p.len
      BY <1>1, <1>2, <2>2 DEF Priv1
    <3> HIDE DEF s, p
    <3> QED BY <1>1, <1>3, <3>1 DEF UploadState, part
  <2> QED BY <2>1, <2>2
<1> HIDE DEF s, p
<1>7. n \in Nat /\ n > 0 /\ n <= MaxPost /\ off + n = s.received /\ off + n <= FwSize
  <2>1. n = p.buffLen + 1 /\ off = p.received - p.buffLen /\ s.received = p.received + 1
    BY <1>1 DEF Done
  <2> HIDE DEF off, n
  <2> QED BY <1>1, <1>2, <1>5, <2>1, Lengths
<1>8. off \in Nat /\ off % MaxPost = 0
  BY <1>1, <1>5
<1> HIDE DEF off, n
<1>9. LET w == WriteFlash(ErasedFor(part, off), off, n, s.req.image)
      IN InFlash(w, off + n, s.req.image) /\ RestErased(w, off + n)
  BY <1>4, <1>6, <1>7, <1>8, PieceStored
<1> QED BY <1>7, <1>9 DEF off, n, part, s, p

LEMMA PieceUploads ==
  ASSUME Aligned, Inv, UploadInv, NoneOverlong, NEW c \in Conns, NEW i, Arrives(i, c), NEW junk \in BOOLEAN,
         HandsOn(Gained(slot[i])), slot[i].req.url = "/flash/upload",
         LET res == ProcessRequest(Gained(slot[i]), [dev EXCEPT !.junk = junk])
         IN /\ Outcome(i, c, Emptied(res))
            /\ hist' = IF Stored(res) THEN Wrote(c, FirmwareNext(dev)) ELSE hist
  PROVE  UploadInv'
<1> DEFINE s    == Gained(slot[i])
           res  == ProcessRequest(s, [dev EXCEPT !.junk = junk])
           next == FirmwareNext(dev)
           t    == slot'[i]
           w    == WriteFlash(ErasedFor(Partition(dev.flash, next), Done(s)),
                              Done(s), s.buffLen, s.req.image)
<1>1. /\ i \in Slots /\ slot[i].conn = c /\ c # NULL /\ s.req = slot[i].req /\ s.len = s.req.len
      /\ hist.asked[c] = s.req /\ s \in SlotType /\ Done(s) \in Nat
  BY GainedIs
<1>2. /\ t.conn = c /\ t.req = s.req /\ t.len = s.len /\ t.received = s.received
      /\ t.buffLen = 0 /\ Done(t) # 0
      /\ \A j \in Slots : j # i => slot'[j] = slot[j]
      /\ OthersWait(c)
      /\ FirmwareNext(dev') = next
  BY PieceOutcome
<1>3. \/ ~Stored(res) /\ PieceRefused(t, c)
      \/ Stored(res) /\ PieceTaken(s, t, c)
  BY PieceOutcome
<1>4. hist' = IF Stored(res) THEN Wrote(c, next) ELSE hist
  OBVIOUS
<1>5. \A j \in Slots : j # i /\ slot[j].conn # NULL => slot[j].conn \in Conns \ {c}
  BY <1>1, OtherSlot
<1>6. UploadError(s, Done(s)) = NULL /\ Priv1(s) = NULL /\ c \notin hist.clash =>
        InFlash(w, s.received, s.req.image) /\ RestErased(w, s.received)
  BY PieceLands
<1>7. UploadError(s, Done(s)) = NULL => s.len <= FwSize
  BY <1>1, UploadPasses
<1> HIDE DEF s, res, w
<1>8. CASE ~Stored(res) /\ PieceRefused(t, c)
  <2>1. UploadState(t, dev', out'[c], pending'[c], hist')
    BY <1>2, <1>8 DEF UploadState, PieceRefused
  <2>2. UploadGoesOn(i)'
    BY <1>2, <2>1 DEF UploadGoesOn
  <2>3. \A j \in Slots : UploadSlot(j)' => UploadGoesOn(j)' \/ SameUpload(j)
    BY <1>2, <1>5, <2>2 DEF SameUpload, UploadSlot, OthersWait
  <2>4. SameHist
    BY <1>4, <1>8 DEF SameHist
  <2>5. \A e \in Conns : SameAnswer(e) \/ out'[e] # Status(200)
    BY <1>2, <1>4, <1>8, Answers DEF PieceRefused, SameAnswer, OthersWait
  <2> QED BY <1>8, <2>3, <2>4, <2>5, UploadsGoOn DEF PieceRefused
<1>9. CASE Stored(res) /\ PieceTaken(s, t, c)
  <2>0. /\ t.priv = NULL /\ UploadError(s, Done(s)) = NULL /\ Priv1(s) = NULL
        /\ dev'.flash.cells = NewCells(s, dev, Done(s)) /\ SameRunning(dev', dev)
        /\ IF s.received = s.len THEN out'[c] = Status(200) /\ t.cgi = NULL
           ELSE out'[c] = <<>> /\ pending'[c] = 0
    BY <1>9 DEF PieceTaken
  <2>1. /\ next \in {0, 1} /\ dev.flash.running \in {0, 1} /\ next # dev.flash.running
        /\ dev \in DevType
    BY TypeParts, NextIsOther DEF Inv
  <2>2. /\ hist'.asked = hist.asked
        /\ hist'.wrote = [hist.wrote EXCEPT ![c] = next]
        /\ hist'.clash = hist.clash \cup {d \in Conns \ {c} : hist.wrote[d] = next}
    <3>1. hist' = Wrote(c, next)
      BY <1>4, <1>9
    <3> HIDE DEF next
    <3>2. TypeOK /\ next \in {0, 1}
      BY <2>1 DEF Inv
    <3>3. /\ Wrote(c, next).asked = hist.asked
          /\ Wrote(c, next).wrote = [hist.wrote EXCEPT ![c] = next]
          /\ Wrote(c, next).clash = hist.clash \cup {d \in Conns \ {c} : hist.wrote[d] = next}
      BY <3>2, WroteIs
    <3> QED BY <3>1, <3>3
  <2>3. hist.wrote \in [Conns -> {NULL, 0, 1}]
    BY TypeParts DEF Inv, HistType
  <2>11. Partition(dev'.flash, next) = w
    BY <1>1, <2>0, <2>1, PieceInPartition DEF w
  <2> HIDE DEF next
  <2>4. /\ hist'.wrote[c] = next
        /\ \A d \in Conns \ {c} : /\ hist'.wrote[d] = hist.wrote[d]
                                  /\ hist.wrote[d] = next => d \in hist'.clash
        /\ \A d \in Conns : d \in hist.clash => d \in hist'.clash
    BY <2>2, <2>3
  <2>5. /\ Partition(dev'.flash, next) = w
        /\ \A x \in {0, 1} : x # next => Partition(dev'.flash, x) = Partition(dev.flash, x)
    BY <2>0, <2>1, <2>11 DEF SameRunning
  <2>6. s.len <= FwSize
    BY <1>7, <2>0
  <2>7. c \notin hist'.clash =>
          InFlash(Partition(dev'.flash, next), s.received, s.req.image)
          /\ RestErased(Partition(dev'.flash, next), s.received)
    BY <1>6, <2>0, <2>4, <2>5
  <2>8. UploadGoesOn(i)'
    <3>1. Done(t) = s.received
      BY <1>1, <1>2 DEF Done, SlotType
    <3> HIDE DEF t
    <3>2. UploadState(t, dev', out'[c], pending'[c], hist')
      BY <1>2, <2>0, <2>4, <2>6, <2>7, <3>1 DEF UploadState
    <3> QED BY <1>2, <3>2 DEF UploadGoesOn, t
  <2>9. ASSUME NEW j \in Slots, j # i
        PROVE  UploadGoesOn(j)'
    <3> DEFINE e == slot[j].conn
    <3> SUFFICES ASSUME UploadSlot(j)'
                 PROVE  UploadState(slot[j], dev', out'[e], pending'[e], hist')
      BY <1>2, <2>9 DEF UploadGoesOn
    <3>1. UploadSlot(j) /\ e \in Conns \ {c}
      BY <1>2, <1>5, <2>9 DEF UploadSlot
    <3>2. UploadState(slot[j], dev, out[e], pending[e], hist)
      BY <3>1 DEF UploadInv, UploadGoesOn
    <3>3. out'[e] = out[e] /\ pending'[e] = pending[e]
      BY <1>2, <3>1 DEF OthersWait
    <3>4. hist.wrote[e] = next => e \in hist'.clash
      BY <2>4, <3>1
    <3>5. hist'.wrote[e] = hist.wrote[e]
      BY <2>4, <3>1
    <3> QED BY <1>2, <3>2, <3>3, <3>4, <3>5 DEF UploadState, next
  <2>10. ASSUME NEW e \in Conns
         PROVE  UploadIsDone(e)'
    <3>1. CASE e = c
      <4> SUFFICES ASSUME out'[c] = Status(200)
                   PROVE  /\ s.req.len <= FwSize /\ hist'.wrote[c] \in {0, 1}
                          /\ c \notin hist'.clash =>
                               InFlash(Partition(dev'.flash, hist'.wrote[c]), s.req.len, s.req.image)
        BY <1>1, <2>2, <3>1 DEF UploadIsDone
      <4>1. s.received = s.len
        BY <2>0, Answers
      <4> QED BY <1>1, <2>1, <2>4, <2>6, <2>7, <4>1
    <3>2. CASE e # c
      <4>1. hist'.wrote[e] = hist.wrote[e] /\ hist'.asked[e] = hist.asked[e] /\ out'[e] = out[e]
            /\ (hist.wrote[e] = next => e \in hist'.clash) /\ (e \in hist.clash => e \in hist'.clash)
        BY <1>2, <2>2, <2>4, <3>2 DEF OthersWait
      <4>2. UploadIsDone(e)
        BY DEF UploadInv
      <4> QED BY <2>5, <4>1, <4>2 DEF UploadIsDone
    <3> QED BY <3>1, <3>2
  <2> QED BY <2>8, <2>9, <2>10 DEF UploadInv
<1> QED BY <1>3, <1>8, <1>9

LEMMA RecvBodyUploads ==
  ASSUME Aligned, Inv, UploadInv, NoneOverlong, NEW c \in Conns, NEW junk \in BOOLEAN, RecvBody(c, junk)
  PROVE  UploadInv'
<1>1. PICK i \in Slots :
           /\ Arrives(i, c)
           /\ LET s == Gained(slot[i])
                  res == ProcessRequest(s, [dev EXCEPT !.junk = junk])
              IN \/ /\ HandsOn(s) /\ Outcome(i, c, Emptied(res))
                    /\ hist' = IF Stored(res) THEN Wrote(c, FirmwareNext(dev)) ELSE hist
                 \/ /\ ~HandsOn(s) /\ slot' = [slot EXCEPT ![i] = s]
                    /\ dev' = dev /\ pending' = pending /\ out' = out /\ hist' = hist
  BY BodyCases
<1>2. CASE ~HandsOn(Gained(slot[i]))
  BY <1>1, <1>2, BufferedUploads
<1>3. CASE HandsOn(Gained(slot[i])) /\ slot[i].req.url # "/flash/upload"
  BY <1>1, <1>3, BodyUploads
<1>4. CASE HandsOn(Gained(slot[i])) /\ slot[i].req.url = "/flash/upload"
  BY <1>1, <1>4, PieceUploads
<1> QED BY <1>2, <1>3, <1>4

LEMMA UploadStep ==
  ASSUME Aligned, Inv, UploadInv, NoneOverlong, [Next]_vars
  PROVE  UploadInv'
<1>1. CASE UNCHANGED vars
  <2>1. slot' = slot /\ dev' = dev /\ hist' = hist /\ out' = out /\ pending' = pending
    BY <1>1 DEF vars
  <2> QED BY <2>1, GivenBack DEF SameHist
<1>2. CASE Next
  <2>1. UNCHANGED plan
    BY <1>2 DEF Next
  <2>2. ASSUME NEW c \in Conns, ClientCloses(c) \/ ReconCb(c)
        PROVE  UploadInv'
    <3>1. slot' = slot /\ dev' = dev /\ out' = out /\ hist' = [hist EXCEPT !.fails = @ + 1]
          /\ (pending' = pending \/ pending' = [pending EXCEPT ![c] = 0])
      BY <2>2 DEF ClientCloses, ReconCb
    <3>2. hist'.asked = hist.asked /\ SameHist
      BY <3>1 DEF SameHist
    <3>3. \A e \in Conns : pending'[e] = pending[e] \/ pending'[e] = 0
      BY <3>1 DEF Inv, TypeOK
    <3> QED BY <3>1, <3>2, <3>3, GivenBack
  <2>3. ASSUME NEW ok \in BOOLEAN, NEW n \in plan.lists, WifiScanDone(ok, n)
        PROVE  UploadInv'
    <3>1. slot' = slot /\ out' = out /\ pending' = pending
          /\ hist' = [hist EXCEPT !.scans = @ + 1]
      BY <2>3 DEF WifiScanDone
    <3>2. hist'.asked = hist.asked /\ SameHist /\ dev'.flash = dev.flash
      BY <2>1, <2>3, <3>1, ScanDoneStep DEF SameHist, SameFlash
    <3> QED BY <3>1, <3>2, GivenBack
  <2>4. ASSUME ReassTimer \/ ResetTimer
        PROVE  UploadInv'
    <3>1. slot' = slot /\ out' = out /\ pending' = pending /\ hist' = hist
      BY <2>4 DEF ReassTimer, ResetTimer
    <3>2. dev'.flash = dev.flash
      BY <2>1, <2>4, TimerStep DEF SameFlash
    <3> QED BY <3>1, <3>2, GivenBack DEF SameHist
  <2>5. ASSUME NEW x \in {"off", "gotip"}, StationChanges(x)
        PROVE  UploadInv'
    <3>1. slot' = slot /\ out' = out /\ pending' = pending
          /\ hist' = [hist EXCEPT !.stations = @ + 1]
      BY <2>5 DEF StationChanges
    <3>2. hist'.asked = hist.asked /\ SameHist /\ dev'.flash = dev.flash
      BY <2>1, <2>5, <3>1, StationStep DEF SameHist, SameFlash
    <3> QED BY <3>1, <3>2, GivenBack
  <2> QED BY <1>2, <2>2, <2>3, <2>4, <2>5, ConnectUploads, RecvHeadUploads, RecvBodyUploads,
             SentUploads, DisconUploads, CrashUploads DEF Next
<1> QED BY <1>1, <1>2

LEMMA InitUploads == Init => UploadInv
<1> SUFFICES ASSUME Init PROVE UploadInv
  OBVIOUS
<1>1. slot = [i \in Slots |-> EmptySlot] /\ hist.asked = [c \in Conns |-> NULL]
  BY DEF Init
<1>2. \A i \in Slots : ~UploadSlot(i)
  BY <1>1, EmptySlotType DEF UploadSlot, IsRetired
<1>3. \A c \in Conns : UploadIsDone(c)
  BY <1>1 DEF UploadIsDone, IsUpload
<1> QED BY <1>2, <1>3 DEF UploadInv, UploadGoesOn

(* What was asked is not asked otherwise later.                             *)
LEMMA AskedStays ==
  ASSUME Inv, [Next]_vars, NEW c \in Conns
  PROVE  hist.asked[c] = NULL \/ hist'.asked[c] = hist.asked[c]
<1>1. /\ hist \in HistType /\ DOMAIN hist.asked = Conns
  BY TypeParts DEF Inv, HistType
<1>2. CASE UNCHANGED vars
  BY <1>2 DEF vars
<1>3. ASSUME NEW e \in Conns, NEW req, NEW junk, RecvHead(e, req, junk)
      PROVE  hist.asked[c] = NULL \/ hist'.asked[c] = hist.asked[c]
  <2>1. PICK i \in FindConn(e) : slot[i].len = -1
    BY <1>3 DEF RecvHead
  <2>2. hist.asked[e] = NULL
    BY <2>1, FoundSlot, NoAnswerYet
  <2>3. hist' = [hist EXCEPT !.asked[e] = req]
    BY <1>3 DEF RecvHead
  <2> QED BY <1>1, <2>2, <2>3
<1>4. ASSUME NEW e \in Conns, NEW junk \in BOOLEAN, RecvBody(e, junk)
      PROVE  hist'.asked = hist.asked
  <2>1. hist' = hist \/ hist' = Wrote(e, FirmwareNext(dev))
    BY <1>4 DEF RecvBody
  <2>2. FirmwareNext(dev) \in {0, 1}
    BY TypeParts, NextIsOther DEF Inv
  <2>3. CASE hist' = Wrote(e, FirmwareNext(dev))
    BY <2>2, <2>3, WroteIs DEF Inv
  <2> QED BY <2>1, <2>3
<1>5. ASSUME NEW e \in Conns, SentCb(e)
      PROVE  hist'.asked = hist.asked
  <2>1. PICK i \in FindConn(e) : IF slot[i].cgi = NULL THEN CloseConn(i, e) ELSE GoOn(i, e)
    BY <1>5 DEF SentCb
  <2>2. CASE CloseConn(i, e)
    BY <2>2 DEF CloseConn
  <2>3. CASE GoOn(i, e)
    <3> DEFINE r == Cgi(slot[i].cgi, slot[i], dev)
               x == IF r.dev.wifi.scanInProgress /\ ~dev.wifi.scanInProgress
                    THEN hist.disturbed \cup {d \in Conns \ {e} : link[d] = "open"}
                    ELSE hist.disturbed
    <3>1. hist' = [hist EXCEPT !.disturbed = x]
      BY <2>3 DEF GoOn
    <3> HIDE DEF x
    <3> QED BY <3>1
  <2> QED BY <2>1, <2>2, <2>3
<1>6. ASSUME NEW e \in Conns, NEW looks, DisconCb(e, looks)
      PROVE  hist'.asked = hist.asked
  <2> DEFINE acc == AbortAll(Dead(looks))
             x   == IF acc.dev.wifi.scanInProgress /\ ~dev.wifi.scanInProgress
                    THEN hist.disturbed \cup {d \in Conns \ {e} : link[d] = "open"}
                    ELSE hist.disturbed
  <2>1. hist' = [hist EXCEPT !.disturbed = x]
    BY <1>6 DEF DisconCb
  <2> HIDE DEF x
  <2> QED BY <2>1
<1>7. ASSUME NEW x \in {0, 1}, Reboot(x)
      PROVE  hist'.asked = hist.asked
  BY <1>7 DEF Reboot
<1>8. ASSUME NEW ok, NEW n, WifiScanDone(ok, n)
      PROVE  hist'.asked = hist.asked
  BY <1>8 DEF WifiScanDone
<1>9. ASSUME NEW station, StationChanges(station)
      PROVE  hist'.asked = hist.asked
  BY <1>9 DEF StationChanges
<1>10. ASSUME NEW e \in Conns, ConnectCb(e) \/ ClientCloses(e) \/ ReconCb(e)
       PROVE  hist'.asked = hist.asked
  <2>1. CASE ConnectCb(e)
    BY <2>1 DEF ConnectCb
  <2>2. CASE ClientCloses(e)
    BY <2>2 DEF ClientCloses
  <2>3. CASE ReconCb(e)
    BY <2>3 DEF ReconCb
  <2> QED BY <1>10, <2>1, <2>2, <2>3
<1>11. ASSUME NEW e, NEW looks, Restart \/ CrashInDiscon(e, looks)
       PROVE  hist'.asked = hist.asked
  BY <1>7, <1>11, RestartReboots
<1>12. ASSUME ReassTimer \/ ResetTimer
       PROVE  hist'.asked = hist.asked
  BY <1>12 DEF ReassTimer, ResetTimer
<1>13. CASE Next
  <2>1. CASE \E e \in Conns, junk \in BOOLEAN : \E req \in plan.asks[e] : RecvHead(e, req, junk)
    BY <2>1, <1>3
  <2>2. CASE \E e \in Conns :
               \/ ConnectCb(e) \/ SentCb(e) \/ ClientCloses(e) \/ ReconCb(e)
               \/ \E junk \in BOOLEAN : RecvBody(e, junk)
               \/ \E looks \in SUBSET Broken : DisconCb(e, looks) \/ CrashInDiscon(e, looks)
    BY <2>2, <1>4, <1>5, <1>6, <1>10, <1>11
  <2>3. CASE \/ ReassTimer \/ ResetTimer \/ Restart
             \/ \E station \in {"off", "gotip"} : StationChanges(station)
             \/ \E ok \in BOOLEAN, n \in plan.lists : WifiScanDone(ok, n)
    BY <2>3, <1>8, <1>9, <1>11, <1>12
  <2> QED BY <1>13, <2>1, <2>2, <2>3 DEF Next
<1> QED BY <1>2, <1>13

UploadsFit == NoneOverlong => UploadInv

LEMMA UploadsFitStep ==
  ASSUME Aligned, Inv, UploadsFit, [Next]_vars
  PROVE  UploadsFit'
<1>1. NoneOverlong' => NoneOverlong
  BY AskedStays DEF NoneOverlong, Overlong
<1> QED BY <1>1, UploadStep DEF UploadsFit

LEMMA UploadsHold ==
  ASSUME UploadsFit
  PROVE  UploadIsStored
BY DEF UploadsFit, NoneOverlong, UploadInv, UploadIsDone, UploadIsStored, IsUpload, InFlash

(***************************************************************************)
(* An upload that was answered with 200 is in the flash as it was sent,    *)
(* for every size of body, buffer, sector and partition and however the    *)
(* uploads of several clients, breaks, aborts and restarts interleave,     *)
(* unless another upload wrote to the same partition or some upload sends  *)
(* more than its head said.  Sectors are a multiple of the POST buffer     *)
(* (4096 and 1024 in cgiflash.c and httpd.c): otherwise a piece would      *)
(* cross into a sector that is not erased yet.  Partitions are a multiple  *)
(* of sectors (OTA_FLASH_SIZE_K in user_main.c): otherwise the second one  *)
(* would not begin with a sector.                                          *)
(***************************************************************************)
THEOREM UploadsAreStored ==
  ASSUME Aligned
  PROVE  Spec => []UploadIsStored
<1>1. Init => Inv /\ UploadsFit
  BY InitInv, InitUploads DEF UploadsFit
<1>2. Inv /\ UploadsFit /\ [Next]_vars => Inv' /\ UploadsFit'
  BY NextInv, UploadsFitStep
<1>3. UploadsFit => UploadIsStored
  BY UploadsHold
<1> QED BY <1>1, <1>2, <1>3, PTL DEF Spec
-----------------------------------------------------------------------------
(* The lists of access points, step by step.                                *)

(* A list grows and ends.                                                   *)
LEMMA NewListIs ==
  /\ Status(302) # <<>> /\ NoList # <<>>
  /\ \A a : Listing(NewList, a)
  /\ \A o : <<>> \o Status(302) = Status(302) /\ <<>> \o NoList = NoList /\ <<>> \o NewList = NewList
<1>1. <<"head", 200>> \in Item /\ <<"inProgress", 0>> \in Item
  BY DEF Item, ScanIds
<1> DEFINE h == <<"head", 200>>
           p == <<"inProgress", 0>>
<1>2. NewList = <<h, p>>
  BY DEF NewList
<1>3. NewList \in Seq(Item) /\ Len(NewList) = 2 /\ NewList[1] = h /\ NewList[2] = p
  <2> HIDE DEF h, p
  <2> QED BY <1>1, <1>2 DEF h, p
<1>4. 3..2 = {}
  OBVIOUS
<1>5. \A a : Listing(NewList, a)
  BY <1>3, <1>4 DEF Listing, Begun
<1>6. <<>> \o Status(302) = Status(302) /\ <<>> \o NoList = NoList /\ <<>> \o NewList = NewList
  <2>1. \A x : <<>> \o <<x>> = <<x>>
    OBVIOUS
  <2>2. \A x, y : <<>> \o <<x, y>> = <<x, y>>
    OBVIOUS
  <2> QED BY <2>1, <2>2 DEF Status, NoList, NewList
<1>7. Status(302) # <<>> /\ NoList # <<>>
  BY DEF Status, NoList
<1> QED BY <1>5, <1>6, <1>7

LEMMA TwoItems ==
  ASSUME NEW S, NEW x \in S, NEW y \in S
  PROVE  <<x>> \o <<y>> = <<x, y>>
<1> DEFINE a == <<x>>
           b == <<y>>
           c == <<x, y>>
<1>4. /\ a \in Seq(S) /\ Len(a) = 1 /\ a[1] = x
      /\ b \in Seq(S) /\ Len(b) = 1 /\ b[1] = y
  OBVIOUS
<1>5. c \in Seq(S) /\ Len(c) = 2 /\ c[1] = x /\ c[2] = y
  OBVIOUS
<1>1. /\ a \in Seq(S) /\ b \in Seq(S) /\ c \in Seq(S)
      /\ Len(a) = 1 /\ Len(b) = 1 /\ Len(c) = 2
      /\ a[1] = x /\ b[1] = y /\ c[1] = x /\ c[2] = y
  BY <1>4, <1>5
<1> HIDE DEF a, b, c
<1>2. Len(a \o b) = 2 /\ a \o b \in Seq(S) /\ (a \o b)[1] = x /\ (a \o b)[2] = y
  <2>1. /\ a \o b \in Seq(S) /\ Len(a \o b) = Len(a) + Len(b)
        /\ \A i \in 1..(Len(a) + Len(b)) :
              (a \o b)[i] = IF i <= Len(a) THEN a[i] ELSE b[i - Len(a)]
    BY <1>1, ConcatProperties
  <2> DEFINE q == a \o b
  <2>2. /\ q \in Seq(S) /\ Len(q) = 1 + 1
        /\ \A i \in 1..(1 + 1) : q[i] = IF i <= 1 THEN a[i] ELSE b[i - 1]
    BY <1>1, <2>1
  <2> HIDE DEF q
  <2>3. Len(q) = 2 /\ q \in Seq(S) /\ q[1] = x /\ q[2] = y
    BY <1>1, <2>2
  <2> QED BY <2>3 DEF q
<1>3. a \o b = c
  BY <1>1, <1>2, SeqEqual
<1> QED BY <1>3 DEF a, b, c

LEMMA OneMore ==
  ASSUME NEW o \in Seq(Item), NEW x \in Item
  PROVE  LET q == o \o <<x>>
         IN /\ q \in Seq(Item) /\ Len(q) = Len(o) + 1 /\ q[Len(o) + 1] = x
            /\ \A i \in 1..Len(o) : q[i] = o[i]
OBVIOUS

LEMMA ListGrows ==
  ASSUME NEW o, NEW a \in ScanIds, Listing(o, a)
  PROVE  Listing(o \o << <<"ap", a>> >>, a)
<1> DEFINE x == <<"ap", a>>
           q == o \o <<x>>
<1>1. o \in Seq(Item) /\ Len(o) >= 2 /\ x \in Item /\ Len(o) \in Nat
  BY DEF Listing, Begun, Item
<1> HIDE DEF x
<1>2. /\ q \in Seq(Item) /\ Len(q) = Len(o) + 1 /\ q[Len(o) + 1] = x
      /\ \A i \in 1..Len(o) : q[i] = o[i]
  BY <1>1, OneMore
<1> HIDE DEF q
<1>3. Begun(q)
  BY <1>1, <1>2 DEF Listing, Begun
<1>4. \A i \in 3..Len(q) : q[i] = x
  BY <1>1, <1>2 DEF Listing, x
<1> QED BY <1>3, <1>4 DEF Listing, q, x

LEMMA ListEnds ==
  ASSUME NEW o, NEW a \in ScanIds, Listing(o, a)
  PROVE  Ended(o \o << <<"end", 0>> >>)
<1> DEFINE x == <<"end", 0>>
           q == o \o <<x>>
<1>1. o \in Seq(Item) /\ Len(o) >= 2 /\ x \in Item /\ Len(o) \in Nat
  BY DEF Listing, Begun, Item, ScanIds
<1> HIDE DEF x
<1>2. /\ q \in Seq(Item) /\ Len(q) = Len(o) + 1 /\ q[Len(o) + 1] = x
      /\ \A i \in 1..Len(o) : q[i] = o[i]
  BY <1>1, OneMore
<1> HIDE DEF q
<1>3. Begun(q) /\ Len(q) >= 3 /\ q[Len(q)] = x
  BY <1>1, <1>2 DEF Listing, Begun
<1>4. OneScan(q, Len(q) - 1)
  <2>1. \A i \in 3..(Len(q) - 1) : q[i] = <<"ap", a>> /\ 3 \in 3..(Len(q) - 1)
    BY <1>1, <1>2 DEF Listing
  <2>2. <<"ap", a>>[1] = "ap"
    OBVIOUS
  <2> QED BY <2>1, <2>2 DEF OneScan
<1> QED BY <1>3, <1>4 DEF Ended, q, x

LEMMA LastEntry ==
  ASSUME NEW o, NEW a \in ScanIds, Listing(o, a)
  PROVE  Ended(o \o << <<"ap", a>>, <<"end", 0>> >>)
<1> DEFINE x == <<"ap", a>>
           y == <<"end", 0>>
<1>1. Listing(o \o <<x>>, a)
  BY ListGrows
<1>2. o \in Seq(Item) /\ x \in Item /\ y \in Item
  BY DEF Listing, Begun, Item, ScanIds
<1> HIDE DEF x, y
<1>3. o \o <<x, y>> = (o \o <<x>>) \o <<y>>
  <2>1. <<x>> \in Seq(Item) /\ <<y>> \in Seq(Item)
    BY <1>2
  <2>2. <<x>> \o <<y>> = <<x, y>>
    BY <1>2, TwoItems
  <2>3. (o \o <<x>>) \o <<y>> = o \o (<<x>> \o <<y>>)
    <3> DEFINE u == <<x>>
               v == <<y>>
    <3>1. u \in Seq(Item) /\ v \in Seq(Item)
      BY <2>1
    <3> HIDE DEF u, v
    <3>2. Regroups(o, u, v)
      BY <1>2, <3>1, Associative
    <3> QED BY <3>2 DEF Regroups, u, v
  <2> QED BY <2>2, <2>3
<1>4. Ended((o \o <<x>>) \o <<y>>)
  BY <1>1, ListEnds DEF y
<1> QED BY <1>3, <1>4 DEF x, y

LEMMA ListIsOne ==
  ASSUME NEW o, NEW a, Listing(o, a)
  PROVE  OneList(o)
<1>1. \A i \in 3..Len(o) : o[i] = <<"ap", a>> /\ 3 \in 3..Len(o)
  BY DEF Listing, Begun
<1>2. <<"ap", a>>[1] = "ap"
  OBVIOUS
<1> QED BY <1>1, <1>2 DEF OneList, Listing, OneScan

LEMMA StateIsOne ==
  ASSUME NEW s, NEW d, NEW o, NEW p, ListState(s, d, o, p)
  PROVE  OneList(o)
BY ListIsOne DEF ListState, OneList

(* A call that begins a list, and one that goes on with it.                 *)
LEMMA ListBegins ==
  ASSUME TwoFit, NEW s \in SlotType, s.data = NULL, NEW d \in DevType
  PROVE  LET r == WiFiScan(s, d)
         IN /\ SameScan(r.dev, d)
            /\ IF d.wifi.scanInProgress THEN r.ret = "DONE" /\ r.out = NoList
               ELSE r.ret = "MORE" /\ r.out = NewList /\ r.data = [pos |-> 1]
<1>1. /\ Send(Status(200), << <<"inProgress", 0>> >>) = NewList
      /\ Send(Status(200), << <<"inProgress", 1>> >>) = NoList
  <2>1. ~(2 > MaxSendBuff)
    BY HttpdEspFsAssumption DEF TwoFit
  <2>2. ASSUME NEW x \in Item, NEW y \in Item
        PROVE  Send(<<x>>, <<y>>) = <<x, y>>
    <3>1. <<x>> \o <<y>> = <<x, y>>
      BY TwoItems
    <3>2. Len(<<x>>) + Len(<<y>>) = 2
      OBVIOUS
    <3> QED BY <2>1, <3>1, <3>2 DEF Send
  <2>3. <<"head", 200>> \in Item /\ <<"inProgress", 0>> \in Item /\ <<"inProgress", 1>> \in Item
    BY DEF Item, ScanIds
  <2> QED BY <2>2, <2>3 DEF Status, NewList, NoList
<1>2. CASE d.wifi.scanInProgress
  <2>1. WiFiScan(s, d) = Result("DONE", s, NoList, d)
    BY <1>1, <1>2 DEF WiFiScan
  <2>2. LET r == Result("DONE", s, NoList, d)
        IN r.ret = "DONE" /\ r.out = NoList /\ r.dev = d
    BY ResultIs
  <2>3. SameScan(d, d)
    BY DEF SameScan
  <2> QED BY <1>2, <2>1, <2>2, <2>3
<1>3. CASE ~d.wifi.scanInProgress
  <2> DEFINE x == IF d.wifi.apData = NULL THEN 0 ELSE d.wifi.noAps
             e == [d EXCEPT !.wifi.noAps = x]
             t == [s EXCEPT !.data = [pos |-> 1]]
  <2>1. WiFiScan(s, d) = [ret |-> "MORE", data |-> t.data, priv |-> t.priv, out |-> NewList, dev |-> e]
    BY <1>1, <1>3 DEF WiFiScan, Result
  <2> HIDE DEF x
  <2>2. SameScan(e, d)
    BY DEF SameScan, DevType, WifiType
  <2> HIDE DEF e
  <2> QED BY <1>3, <2>1, <2>2
<1> QED BY <1>2, <1>3

LEMMA ListMoves ==
  ASSUME TwoFit, NEW s \in SlotType, s.data \in [pos : Nat], s.data.pos >= 1,
         NEW d \in DevType, ~d.wifi.scanInProgress
  PROVE  LET r == WiFiScan(s, d)
         IN \/ /\ r.ret = "DONE" /\ r.dev = StartScan(d)
               /\ r.out \in {<< <<"ap", d.wifi.apData>>, <<"end", 0>> >>, << <<"end", 0>> >>}
            \/ /\ r.ret = "MORE" /\ r.dev = d /\ r.out = << <<"ap", d.wifi.apData>> >>
               /\ r.data \in [pos : Nat] /\ r.data.pos >= 1
<1> DEFINE pos == s.data.pos
           ap  == <<"ap", d.wifi.apData>>
           end == <<"end", 0>>
           t   == [s EXCEPT !.data = [pos |-> pos + 1]]
<1>1. d.wifi \in WifiType /\ d.wifi.apData \in ScanIds /\ d.wifi.noAps \in Nat /\ pos \in Nat
  BY DevWifi DEF WifiType, ScanIds
<1>2. ap \in Item /\ end \in Item
  BY <1>1 DEF Item, ScanIds
<1>3. pos # 0 /\ s.data # NULL
  <2>1. NULL \notin [pos : Nat]
    BY NullAssumption
  <2> QED BY <1>1, <2>1
<1>4. WiFiScan(s, d) = ScanEntry(s, d, pos)
  BY <1>3 DEF WiFiScan
<1>5. t.data = [pos |-> pos + 1] /\ pos + 1 \in Nat /\ pos + 1 >= 1
  BY <1>1 DEF SlotType
<1> HIDE DEF t
<1>6. t.data \in [pos : Nat] /\ t.data.pos >= 1
  BY <1>5
<1>7. /\ Send(<<>>, <<ap>>) = <<ap>> /\ Send(<<>>, <<end>>) = <<end>>
      /\ Send(<<ap>>, <<end>>) = <<ap, end>>
  <2> HIDE DEF ap, end
  <2>1. ~(2 > MaxSendBuff) /\ ~(1 > MaxSendBuff)
    BY HttpdEspFsAssumption DEF TwoFit
  <2>2. <<ap>> \o <<end>> = <<ap, end>>
    BY <1>2, TwoItems
  <2>3. \A x : <<>> \o <<x>> = <<x>> /\ Len(<<>>) + Len(<<x>>) = 1
    OBVIOUS
  <2>4. Len(<<ap>>) + Len(<<end>>) = 2
    OBVIOUS
  <2> QED BY <2>1, <2>2, <2>3, <2>4 DEF Send
<1> DEFINE more == Result("MORE", t, <<ap>>, d)
           done == [x \in {<<ap, end>>, <<end>>} |-> Result("DONE", s, x, StartScan(d))]
<1>8. \/ ScanEntry(s, d, pos) = Result("MORE", t, <<ap>>, d)
      \/ ScanEntry(s, d, pos) = Result("DONE", s, <<ap, end>>, StartScan(d))
      \/ ScanEntry(s, d, pos) = Result("DONE", s, <<end>>, StartScan(d))
  <2>1. CASE pos - 1 < d.wifi.noAps /\ pos >= d.wifi.noAps
    BY <1>7, <2>1 DEF ScanEntry
  <2>2. CASE ~(pos - 1 < d.wifi.noAps) /\ pos >= d.wifi.noAps
    BY <1>7, <2>2 DEF ScanEntry
  <2>3. CASE pos - 1 < d.wifi.noAps /\ ~(pos >= d.wifi.noAps)
    BY <1>7, <2>3 DEF ScanEntry, t
  <2> QED BY <1>1, <2>1, <2>2, <2>3
<1> HIDE DEF pos, ap, end
<1> QED BY <1>4, <1>6, <1>8, ResultIs DEF pos, ap, end

(* A request for the list gets it, or a refusal.                            *)
LEMMA ScanEntries ==
  ASSUME NEW i \in 1..18
  PROVE  BuiltInUrls[i][1] = "/wifi/wifiscan.cgi" => i = 13
BY Urls, RowNumbers

LEMMA ProcessedScan ==
  ASSUME NEW s \in SlotType, NEW d \in DevType, s.conn # NULL, s.req \in Requests,
         s.received - s.buffLen >= 0
  PROVE  SameScan(ProcessRequest(s, d).dev, d)
<1>1. CASE s.req.url = NULL \/ Takers(s, d) = {}
  <2>1. ProcessRequest(s, d).dev = d
    BY <1>1 DEF ProcessRequest
  <2> QED BY <2>1 DEF SameScan
<1>2. CASE s.req.url # NULL /\ Takers(s, d) # {}
  <2> DEFINE i == Min(Takers(s, d))
             name == BuiltInUrls[i][2]
             u == Tried(s, i)
             r == Cgi(name, u, d)
  <2>1. i \in Takers(s, d)
    <3>1. Takers(s, d) \subseteq 1..18
      BY Urls DEF Takers
    <3>2. Takers(s, d) \subseteq Nat
      BY <3>1
    <3> QED BY <1>2, <3>2, MinIsLeast
  <2>2. i \in 1..18
    <3> HIDE DEF i
    <3> QED BY <2>1, TakersAre
  <2>3. ProcessRequest(s, d).dev = r.dev
    BY <1>2 DEF ProcessRequest
  <2> HIDE DEF i
  <2>4. u.data = NULL /\ name \in CgiNames /\ CanCall(name, u) /\ Handed(name, u)
    BY <2>2, TriedIs
  <2> HIDE DEF name, u
  <2>5. Scanning(name, u, r.dev, d)
    BY <2>4, Scans
  <2> QED BY <2>3, <2>4, <2>5 DEF Scanning
<1> QED BY <1>1, <1>2

NewState(res, d) ==
  \/ res.slot.cgi = NULL /\ res.out \in {Status(302), NoList}
  \/ /\ res.slot.cgi = "cgiWiFiScan" /\ res.slot.data = [pos |-> 1] /\ res.out = NewList
     /\ ~d.wifi.scanInProgress

LEMMA ListTaker ==
  ASSUME TwoFit, NEW s \in SlotType, NEW d \in DevType, s.conn # NULL, s.req \in Requests,
         s.received - s.buffLen >= 0, s.req.url = "/wifi/wifiscan.cgi"
  PROVE  NewState(ProcessRequest(s, d), d)
<1>1. ASSUME NEW i \in 1..18
      PROVE  /\ Tried(s, i) \in SlotType /\ SameRest(Tried(s, i), s) /\ Tried(s, i).data = NULL
             /\ Tried(s, i).cgi = BuiltInUrls[i][2]
             /\ CanCall(BuiltInUrls[i][2], Tried(s, i)) /\ Handed(BuiltInUrls[i][2], Tried(s, i))
             /\ BuiltInUrls[i][2] \in CgiNames
  BY TriedIs
<1> DEFINE r1  == Cgi(BuiltInUrls[1][2], Tried(s, 1), d)
           r13 == Cgi(BuiltInUrls[13][2], Tried(s, 13), d)
<1>2. ASSUME NEW i \in 1..18, NEW r, r = Cgi(BuiltInUrls[i][2], Tried(s, i), d)
      PROVE  LET t == Kept(Tried(s, i), r)
             IN t.data = r.data /\ t.cgi = IF r.ret = "MORE" THEN BuiltInUrls[i][2] ELSE NULL
  <2> DEFINE name == BuiltInUrls[i][2]
             u == Tried(s, i)
  <2>1. u \in SlotType /\ u.cgi = name /\ CanCall(name, u) /\ Handed(name, u) /\ name \in CgiNames
    BY <1>1
  <2> HIDE DEF name, u
  <2>2. Typed(Cgi(name, u, d))
    BY <2>1, CgiCalled DEF Called
  <2>3. Typed(r) /\ r = Cgi(name, u, d)
    BY <1>2, <2>2 DEF name, u
  <2>4. LET t == Kept(u, r)
        IN t.data = r.data /\ t.cgi = IF r.ret = "MORE" THEN name ELSE NULL
    BY <2>1, <2>3, KeptIs
  <2> QED BY <2>4 DEF name, u
<1>3. r13 = WiFiScan(Tried(s, 13), d) /\ r1 = CgiRedirectApClientToHostname(Tried(s, 1), d)
  BY Callbacks, CgiIs
<1>4. IF d.wifi.scanInProgress THEN r13.ret = "DONE" /\ r13.out = NoList
      ELSE r13.ret = "MORE" /\ r13.out = NewList /\ r13.data = [pos |-> 1]
  <2>1. Tried(s, 13) \in SlotType /\ Tried(s, 13).data = NULL
    BY <1>1
  <2> QED BY <1>3, <2>1, ListBegins
<1>5. r1.ret = "NOTFOUND" \/ (r1.ret = "DONE" /\ r1.out = Status(302))
  <2>1. Tried(s, 1).conn # NULL
    <3>1. 1 \in 1..18
      OBVIOUS
    <3>2. SameRest(Tried(s, 1), s)
      BY <1>1, <3>1
    <3> QED BY <3>2 DEF SameRest
  <2>2. LET r == CgiRedirectApClientToHostname(Tried(s, 1), d)
        IN r.ret = "NOTFOUND" \/ (r.ret = "DONE" /\ r.out = Status(302))
    BY <2>1, ResultIs DEF CgiRedirectApClientToHostname, CgiRedirectToHostname
  <2> QED BY <1>3, <2>2
<1>6. 13 \in Takers(s, d) /\ (1 \in Takers(s, d) => r1.ret # "NOTFOUND")
  BY <1>4, Urls DEF Takers
<1>7. \A i \in Takers(s, d) : i \in {1, 13, 18}
  BY Urls, Entries, ScanEntries DEF Takers
<1>8. /\ Min(Takers(s, d)) \in {1, 13} /\ Min(Takers(s, d)) \in Takers(s, d) /\ Takers(s, d) # {}
      /\ s.req.url # NULL
  <2>3. s.req.url # NULL
    BY Urls, NullAssumption
  <2>1. Takers(s, d) \subseteq Nat /\ Takers(s, d) # {}
    BY <1>6, <1>7
  <2>2. Min(Takers(s, d)) \in Takers(s, d) /\ \A y \in Takers(s, d) : Min(Takers(s, d)) <= y
    BY <2>1, MinIsLeast
  <2> QED BY <1>6, <1>7, <2>1, <2>2, <2>3
<1>9. CASE Min(Takers(s, d)) = 13
  <2>1. ProcessRequest(s, d) = [slot |-> Kept(Tried(s, 13), r13), out |-> r13.out, dev |-> r13.dev]
    BY <1>8, <1>9 DEF ProcessRequest
  <2>2. LET t == Kept(Tried(s, 13), r13)
        IN t.data = r13.data /\ t.cgi = IF r13.ret = "MORE" THEN "cgiWiFiScan" ELSE NULL
    BY <1>2, Callbacks
  <2> HIDE DEF r13
  <2> QED BY <1>4, <2>1, <2>2 DEF NewState
<1>10. CASE Min(Takers(s, d)) = 1
  <2>1. ProcessRequest(s, d) = [slot |-> Kept(Tried(s, 1), r1), out |-> r1.out, dev |-> r1.dev]
    BY <1>8, <1>10 DEF ProcessRequest
  <2>2. LET t == Kept(Tried(s, 1), r1)
        IN t.cgi = IF r1.ret = "MORE" THEN "cgiRedirectApClientToHostname" ELSE NULL
    BY <1>2, Callbacks
  <2>3. r1.ret = "DONE" /\ r1.out = Status(302)
    BY <1>5, <1>6, <1>8, <1>10
  <2> HIDE DEF r1
  <2> QED BY <2>1, <2>2, <2>3 DEF NewState
<1> QED BY <1>8, <1>9, <1>10

(* So the answer begins as one.                                             *)
LEMMA NewListState ==
  ASSUME NEW res, NEW d, NewState(res, d), NEW e, SameScan(e, d), NEW p,
         NEW t, ~(t.received < t.len), t.cgi = res.slot.cgi, t.data = res.slot.data
  PROVE  ListState(t, e, <<>> \o res.out, p)
<1>1. CASE res.slot.cgi = NULL /\ res.out \in {Status(302), NoList}
  BY <1>1, NewListIs DEF ListState, Whole
<1>2. CASE /\ res.slot.cgi = "cgiWiFiScan" /\ res.slot.data = [pos |-> 1] /\ res.out = NewList
           /\ ~d.wifi.scanInProgress
  <2>1. t.data \in [pos : Nat] /\ t.data.pos >= 1
    BY <1>2
  <2>2. "cgiWiFiScan" # NULL
    BY NotNames, Names
  <2> QED BY <1>2, <2>1, <2>2, NewListIs DEF ListState, SameScan
<1> QED BY <1>1, <1>2 DEF NewState

(* A step that leaves a list alone: no scan begins and none ends while it   *)
(* goes on, unless somebody disturbs it.                                    *)
QuietFor(e) ==
  \/ e \in hist'.disturbed
  \/ dev.wifi.scanInProgress
  \/ dev'.wifi.apData = dev.wifi.apData /\ ~dev'.wifi.scanInProgress

SameList(j) ==
  LET e == slot[j].conn
  IN /\ slot'[j] = slot[j] /\ out'[e] = out[e] /\ hist'.asked[e] = hist.asked[e]
     /\ pending'[e] = pending[e] \/ pending'[e] = 0
     /\ link'[e] = "open" => link[e] = "open" /\ QuietFor(e)

SameListAnswer(e) ==
  SameAnswer(e) /\ (e \in hist'.served => e \in hist.served)

Disturbs == hist.disturbed \subseteq hist'.disturbed

LEMMA ListKept ==
  ASSUME ListInv, Disturbs, NEW j \in Slots, SameList(j)
  PROVE  ListGoesOn(j)'
<1>1. PICK e : e = slot[j].conn
  OBVIOUS
<1>2. /\ slot'[j] = slot[j] /\ out'[e] = out[e] /\ hist'.asked[e] = hist.asked[e]
      /\ pending'[e] = pending[e] \/ pending'[e] = 0
      /\ link'[e] = "open" => link[e] = "open" /\ QuietFor(e)
  BY <1>1 DEF SameList
<1> SUFFICES ASSUME ListSlot(j)', AsksList(hist'.asked[e]), e \notin hist'.disturbed
             PROVE  ListState(slot[j], dev', out'[e], pending'[e])
  BY <1>1, <1>2 DEF ListGoesOn, Claims
<1>3. link'[e] = "open" /\ slot[j].conn # NULL /\ slot[j].len # -1
  BY <1>1, <1>2 DEF ListSlot
<1>4. ListState(slot[j], dev, out[e], pending[e])
  <2>1. ListSlot(j) /\ Claims(e)
    BY <1>1, <1>2, <1>3 DEF ListSlot, Claims, Disturbs
  <2> QED BY <1>1, <2>1 DEF ListInv, ListGoesOn
<1>5. dev.wifi.scanInProgress \/ (dev'.wifi.apData = dev.wifi.apData /\ ~dev'.wifi.scanInProgress)
  BY <1>2, <1>3 DEF QuietFor
<1> QED BY <1>2, <1>4, <1>5 DEF ListState

LEMMA AnswerKept ==
  ASSUME ListInv, Disturbs, NEW e \in Conns, SameListAnswer(e)
  PROVE  ListAnswer(e)'
<1>1. Claims(e)' => Claims(e)
  BY DEF Claims, Disturbs, SameListAnswer, SameAnswer
<1>2. ListAnswer(e)
  BY DEF ListInv
<1> QED BY <1>1, <1>2 DEF ListAnswer, SameListAnswer, SameAnswer

LEMMA ListsGoOn ==
  ASSUME ListInv, Disturbs,
         \A j \in Slots : ListSlot(j)' => ListGoesOn(j)' \/ SameList(j),
         \A e \in Conns : ListAnswer(e)' \/ SameListAnswer(e),
         ServedAreClosed'
  PROVE  ListInv'
<1>1. \A j \in Slots : ListGoesOn(j)'
  BY ListKept DEF ListGoesOn
<1>2. \A e \in Conns : ListAnswer(e)'
  BY AnswerKept
<1> QED BY <1>1, <1>2 DEF ListInv

(* One slot works on its answer.                                            *)
OnlyThis(c) ==
  /\ OthersWait(c)
  /\ \A e \in Conns \ {c} : hist'.asked[e] = hist.asked[e]
  /\ \A e \in Conns \ {c} : link[e] = "open" => QuietFor(e)

LEMMA OneSlotLists ==
  ASSUME Inv, ListInv, NEW c \in Conns, NEW i \in Slots, slot[i].conn = c, link[c] = "open",
         NEW t \in SlotType, t.conn = c, slot' = [slot EXCEPT ![i] = t], link' = link,
         OnlyThis(c), hist'.served = hist.served, Disturbs,
         Claims(c)' => ListState(t, dev', out'[c], pending'[c])
  PROVE  ListInv'
<1>1. slot'[i] = t /\ \A j \in Slots : j # i => slot'[j] = slot[j]
  BY SlotsChange DEF Inv
<1>2. c # NULL /\ c \notin hist.served
  BY NotNames DEF ListInv, ServedAreClosed
<1>3. ListGoesOn(i)'
  BY <1>1 DEF ListGoesOn
<1>4. ASSUME NEW j \in Slots, j # i, ListSlot(j)'
      PROVE  SameList(j)
  <2>1. slot'[j] = slot[j] /\ slot[j].conn # NULL
    BY <1>1, <1>4 DEF ListSlot
  <2>2. slot[j].conn \in Conns \ {c}
    BY <1>2, <1>4, <2>1, OtherSlot
  <2> QED BY <2>1, <2>2 DEF SameList, OnlyThis, OthersWait
<1>5. ListAnswer(c)'
  <2>1. Claims(c)' => OneList(out'[c])
    BY StateIsOne
  <2> QED BY <1>2, <2>1 DEF ListAnswer
<1>6. \A e \in Conns \ {c} : SameListAnswer(e)
  BY DEF SameListAnswer, SameAnswer, OnlyThis, OthersWait
<1>7. ServedAreClosed'
  BY DEF ListInv, ServedAreClosed
<1> QED BY <1>3, <1>4, <1>5, <1>6, <1>7, ListsGoOn

LEMMA QuietScan ==
  ASSUME SameScan(dev', dev)
  PROVE  \A e : QuietFor(e)
BY DEF SameScan, QuietFor

(* Nothing happens to the slots but that some are given back.               *)
LEMMA ListsAlone ==
  ASSUME Inv, ListInv, Disturbs, out' = out, hist'.asked = hist.asked,
         hist'.served = hist.served,
         \A j \in Slots : slot'[j] = slot[j] \/ IsRetired(slot'[j]),
         \A e \in Conns : pending'[e] = pending[e] \/ pending'[e] = 0,
         \A e \in Conns : link'[e] = "open" => link[e] = "open" /\ QuietFor(e),
         \A e \in Conns : link'[e] \in {"new", "refused"} => link'[e] = link[e]
  PROVE  ListInv'
<1>1. ASSUME NEW j \in Slots, ListSlot(j)'
      PROVE  SameList(j)
  <2>1. slot'[j] = slot[j] /\ slot[j].conn # NULL
    BY <1>1 DEF ListSlot, IsRetired
  <2>2. slot[j].conn \in Conns
    BY <2>1, TypeParts DEF Inv, SlotType
  <2> QED BY <2>1, <2>2 DEF SameList
<1>2. \A e \in Conns : SameListAnswer(e)
  BY DEF SameListAnswer, SameAnswer
<1>3. ServedAreClosed'
  BY TypeParts DEF ListInv, ServedAreClosed, Inv, HistType
<1> QED BY <1>1, <1>2, <1>3, ListsGoOn

LEMMA ConnectLists ==
  ASSUME Inv, ListInv, NEW c \in Conns, ConnectCb(c)
  PROVE  ListInv'
<1> DEFINE free == {i \in Slots : slot[i].conn = NULL}
           m == Min(free)
           t == [slot[m] EXCEPT !.conn = c, !.buff = FALSE, !.buffLen = 0,
                                !.received = 0, !.len = -1]
<1>1. free # {} => m \in Slots
  <2>1. free \subseteq Nat
    BY DEF Slots
  <2> HIDE DEF free
  <2>2. free # {} => m \in free
    BY <2>1, MinIsLeast
  <2> QED BY <2>2 DEF free
<1>2. slot' = slot \/ (m \in Slots /\ slot' = [slot EXCEPT ![m] = t])
  <2>1. slot' = slot \/ (free # {} /\ slot' = [slot EXCEPT ![m] = t])
    BY DEF ConnectCb
  <2> HIDE DEF free
  <2> QED BY <1>1, <2>1
<1>3. /\ dev' = dev /\ hist' = hist /\ out' = out /\ pending' = pending /\ link[c] = "new"
      /\ link' = [link EXCEPT ![c] = "refused"] \/ link' = [link EXCEPT ![c] = "open"]
  BY DEF ConnectCb
<1>4. \A j \in Slots : slot[j] \in SlotType
  BY TypeParts DEF Inv
<1> HIDE DEF m
<1>5. m \in Slots => t.len = -1
  BY <1>4 DEF SlotType
<1> HIDE DEF t
<1>6. \A j \in Slots : slot'[j] = slot[j] \/ slot'[j].len = -1
  <2>1. slot \in [Slots -> SlotType]
    BY DEF Inv, TypeOK
  <2> QED BY <1>2, <1>5, <2>1
<1>7. \A e \in Conns : e # c => link'[e] = link[e]
  BY <1>3, LinkChange DEF Inv, Links
<1>8. \A e : QuietFor(e)
  BY <1>3, QuietScan DEF SameScan
<1>9. ASSUME NEW j \in Slots, ListSlot(j)'
      PROVE  SameList(j)
  <2>1. slot'[j] = slot[j] /\ slot[j].conn # NULL
    BY <1>6, <1>9 DEF ListSlot
  <2>2. slot[j].conn \in Conns \ {c}
    <3>1. slot[j].conn \in Conns
      BY <1>4, <2>1 DEF SlotType
    <3>2. link[slot[j].conn] \in {"open", "closing", "broken"}
      BY <2>1 DEF Inv, PoolInv
    <3> QED BY <1>3, <3>1, <3>2
  <2> QED BY <1>3, <1>7, <1>8, <2>1, <2>2 DEF SameList
<1>10. ServedAreClosed'
  <2>1. c \notin hist.served /\ hist.served \subseteq Conns
    BY <1>3, TypeParts DEF ListInv, ServedAreClosed, Inv, HistType
  <2> QED BY <1>3, <1>7, <2>1 DEF ListInv, ServedAreClosed
<1> QED BY <1>3, <1>9, <1>10, ListsGoOn DEF Disturbs, SameListAnswer, SameAnswer

LEMMA FlushWaits ==
  ASSUME Inv, NEW c \in Conns, NEW sent, Flush(c, sent)
  PROVE  OthersWait(c) /\ out'[c] = out[c] \o sent
BY FlushIs DEF Inv, OthersWait

LEMMA RecvHeadLists ==
  ASSUME TwoFit, Inv, ListInv, NEW c \in Conns, NEW req \in plan.asks[c], NEW junk \in BOOLEAN,
         RecvHead(c, req, junk)
  PROVE  ListInv'
<1>1. PICK i \in FindConn(c) :
        /\ slot[i].len = -1
        /\ LET s == Parsed(slot[i], req)
           IN IF s.len = 0
              THEN Outcome(i, c, ProcessRequest(s, [dev EXCEPT !.junk = junk]))
              ELSE /\ slot' = [slot EXCEPT ![i] = s]
                   /\ UNCHANGED <<dev, pending, out>>
  BY DEF RecvHead
<1>2. /\ i \in Slots /\ slot[i].conn = c /\ slot[i] \in SlotType /\ c # NULL
      /\ SlotInv(slot[i], hist) /\ Receiving(slot[i])
  BY FoundSlot
<1>3. req \in Requests /\ req # NULL /\ req.len \in Nat
  BY TypeParts, RequestType DEF Inv
<1> DEFINE s == Parsed(slot[i], req)
<1>4. /\ s \in SlotType /\ s.conn = c /\ s.req = req /\ s.len = req.len
      /\ s.received = 0 /\ s.buffLen = 0
  BY <1>1, <1>2, <1>3, HeadIs
<1>5. hist' = [hist EXCEPT !.asked[c] = req] /\ link' = link /\ link[c] = "open"
  BY DEF RecvHead
<1>6. /\ hist'.asked[c] = req /\ hist'.served = hist.served /\ Disturbs
      /\ \A e \in Conns \ {c} : hist'.asked[e] = hist.asked[e]
  BY <1>5, TypeParts DEF Inv, HistType, Disturbs
<1>7. dev \in DevType /\ out[c] = <<>> /\ pending[c] = 0
  BY <1>1, <1>2, NoAnswerYet DEF Inv, TypeOK
<1> HIDE DEF s
<1>8. CASE s.len = 0
  <2> DEFINE d == [dev EXCEPT !.junk = junk]
             res == ProcessRequest(s, d)
  <2>1. Outcome(i, c, res)
    BY <1>1, <1>8 DEF s
  <2>2. d \in DevType /\ d.wifi = dev.wifi
    BY <1>7, JunkIs
  <2> HIDE DEF d
  <2>3. s.conn # NULL /\ s.req \in Requests /\ s.received - s.buffLen >= 0
    BY <1>2, <1>3, <1>4
  <2>4. res.slot \in SlotType /\ SameRest(res.slot, s) /\ res.dev \in DevType
    <3>1. s.cgi = NULL
      BY <1>1, <1>2, <1>3, HeadIs DEF s
    <3> QED BY <1>4, <2>2, <2>3, <3>1, Processed
  <2>5. SameScan(res.dev, d)
    BY <1>4, <2>2, <2>3, ProcessedScan
  <2>6. s.req.url = "/wifi/wifiscan.cgi" => NewState(res, d)
    BY <1>4, <2>2, <2>3, ListTaker
  <2> HIDE DEF res
  <2>7. slot' = [slot EXCEPT ![i] = res.slot] /\ dev'.wifi = res.dev.wifi /\ Flush(c, res.out)
    BY <1>2, <2>1, <2>4, OutcomeIs DEF Inv
  <2>8. OthersWait(c) /\ out'[c] = <<>> \o res.out
    <3>1. OthersWait(c) /\ out'[c] = out[c] \o res.out
      BY <2>7, FlushWaits
    <3> QED BY <1>7, <3>1
  <2>9. SameScan(dev', dev) /\ SameScan(dev', d)
    BY <2>2, <2>5, <2>7 DEF SameScan
  <2>10. Claims(c)' => ListState(res.slot, dev', out'[c], pending'[c])
    <3> SUFFICES ASSUME Claims(c)' PROVE ListState(res.slot, dev', out'[c], pending'[c])
      OBVIOUS
    <3>1. NewState(res, d)
      BY <1>4, <1>6, <2>6 DEF Claims, AsksList
    <3>2. ~(res.slot.received < res.slot.len)
      BY <1>4, <1>8, <2>4 DEF SameRest
    <3>3. ListState(res.slot, dev', <<>> \o res.out, pending'[c])
      BY <2>9, <3>1, <3>2, NewListState
    <3> QED BY <2>8, <3>3
  <2>11. OnlyThis(c) /\ res.slot.conn = c
    BY <1>4, <1>6, <2>4, <2>8, <2>9, QuietScan DEF OnlyThis, SameRest
  <2> QED BY <1>2, <1>5, <1>6, <2>4, <2>7, <2>10, <2>11, OneSlotLists
<1>9. CASE s.len # 0
  <2>1. slot' = [slot EXCEPT ![i] = s] /\ dev' = dev /\ pending' = pending /\ out' = out
    BY <1>1, <1>9 DEF s
  <2>2. s.received < s.len
    BY <1>3, <1>4, <1>9
  <2>3. ListState(s, dev', out'[c], pending'[c])
    BY <1>7, <2>1, <2>2 DEF ListState
  <2>4. OnlyThis(c)
    BY <1>6, <2>1, QuietScan DEF OnlyThis, OthersWait, SameScan
  <2> QED BY <1>2, <1>4, <1>5, <1>6, <2>1, <2>3, <2>4, OneSlotLists
<1> QED BY <1>8, <1>9

(* A body that fits the buffer is handed on when it is complete.            *)
LEMMA OneBuffer ==
  ASSUME NEW s \in SlotType, NEW req \in Requests, NEW n \in Nat,
         req.sent <= req.len, s.received < req.sent, n <= req.sent
  PROVE  s.received < req.len /\ n <= req.len
<1>1. s.received \in Nat /\ req.sent \in Nat /\ req.len \in Nat
  BY RequestsAreReal DEF SlotType
<1> QED BY <1>1

LEMMA BodyWaits ==
  ASSUME Inv, ListInv, NEW c \in Conns, NEW i, Arrives(i, c), link[c] = "open", Claims(c)
  PROVE  LET s == Gained(slot[i])
         IN /\ out[c] = <<>> /\ pending[c] = 0
            /\ s.req.url = "/wifi/wifiscan.cgi"
            /\ IF HandsOn(s) THEN s.received = s.len ELSE s.received < s.len
<1> DEFINE p == slot[i]
           s == Gained(slot[i])
<1>1. /\ i \in Slots /\ p \in SlotType /\ c # NULL /\ p.len # -1 /\ p.conn = c
      /\ s \in SlotType /\ s.req = p.req /\ s.len = p.len /\ s.buffSize = p.buffSize
      /\ s.received <= s.req.sent /\ Done(s) \in Nat
      /\ s.req \in Requests /\ hist.asked[c] = s.req /\ s.len = s.req.len
      /\ p.buffSize = IF p.len <= MaxPost THEN p.len ELSE MaxPost
  BY GainedIs
<1>3. s.req.url = "/wifi/wifiscan.cgi" /\ s.buffSize = s.len /\ s.req.sent <= s.len
  BY <1>1 DEF Claims, AsksList, InOneBuffer
<1>5. s.received \in Nat /\ s.len \in Int /\ s.buffLen \in Nat
  BY <1>1 DEF SlotType
<1>2. p.received < p.len /\ s.received <= s.len
  <2>1. p.received < p.req.sent
    BY DEF Arrives
  <2> HIDE DEF s, p
  <2> QED BY <1>1, <1>3, <1>5, <2>1, OneBuffer
<1>4. out[c] = <<>> /\ pending[c] = 0
  <2>1. ListState(p, dev, out[c], pending[c])
    BY <1>1 DEF ListInv, ListGoesOn, ListSlot
  <2> QED BY <1>2, <2>1 DEF ListState
<1> HIDE DEF s
<1>6. IF HandsOn(s) THEN s.received = s.len ELSE s.received < s.len
  BY <1>1, <1>2, <1>3, <1>5 DEF HandsOn, Done
<1> QED BY <1>3, <1>4, <1>6 DEF s

LEMMA RecvBodyLists ==
  ASSUME TwoFit, Inv, ListInv, NEW c \in Conns, NEW junk \in BOOLEAN, RecvBody(c, junk)
  PROVE  ListInv'
<1>1. PICK i \in Slots :
           /\ Arrives(i, c)
           /\ LET s == Gained(slot[i])
                  res == ProcessRequest(s, [dev EXCEPT !.junk = junk])
              IN \/ /\ HandsOn(s) /\ Outcome(i, c, Emptied(res))
                    /\ hist' = IF Stored(res) THEN Wrote(c, FirmwareNext(dev)) ELSE hist
                 \/ /\ ~HandsOn(s) /\ slot' = [slot EXCEPT ![i] = s]
                    /\ dev' = dev /\ pending' = pending /\ out' = out /\ hist' = hist
  BY BodyCases
<1> DEFINE s   == Gained(slot[i])
           d   == [dev EXCEPT !.junk = junk]
           res == ProcessRequest(s, d)
           e   == Emptied(res)
<1>2. /\ s \in SlotType /\ s.conn = c /\ slot[i].conn = c /\ s.req \in Requests /\ c # NULL
      /\ s.received - s.buffLen >= 0
  BY <1>1, GainedIs DEF Done
<1>3. link[c] = "open" /\ link' = link
  BY DEF RecvBody
<1>4. /\ hist'.asked = hist.asked /\ hist'.served = hist.served
      /\ hist'.disturbed = hist.disturbed
  <2>1. hist' = hist \/ \E p : hist' = Wrote(c, p)
    BY <1>1
  <2>2. \A p : /\ Wrote(c, p).asked = hist.asked /\ Wrote(c, p).served = hist.served
             /\ Wrote(c, p).disturbed = hist.disturbed
    BY DEF Wrote
  <2> QED BY <2>1, <2>2
<1>5. Claims(c)' => Claims(c)
  BY <1>4 DEF Claims
<1>6. d \in DevType /\ d.wifi = dev.wifi
  BY TypeParts, JunkIs DEF Inv
<1>7. CASE HandsOn(s) /\ Outcome(i, c, e)
  <2>1. /\ res.slot \in SlotType /\ SameRest(res.slot, s)
        /\ e.slot \in SlotType /\ e.slot.conn = c /\ e.slot.len = s.len
        /\ e.slot.received = s.received /\ e.slot.cgi = res.slot.cgi
        /\ e.dev = res.dev /\ e.out = res.out /\ res.dev \in DevType
    BY <1>1, <1>7, HandedOn
  <2>2. Claims(c) => /\ out[c] = <<>> /\ s.req.url = "/wifi/wifiscan.cgi"
                     /\ s.received = s.len
    BY <1>1, <1>3, <1>7, BodyWaits
  <2> HIDE DEF s, d
  <2>3. SameScan(res.dev, d)
    BY <1>2, <1>6, ProcessedScan
  <2>4. s.req.url = "/wifi/wifiscan.cgi" => NewState(res, d)
    BY <1>2, <1>6, ListTaker
  <2>5. res = [slot |-> res.slot, out |-> res.out, dev |-> res.dev]
    BY DEF ProcessRequest
  <2> HIDE DEF res
  <2>6. e = [slot |-> [res.slot EXCEPT !.buffLen = 0], out |-> res.out, dev |-> res.dev]
    BY <2>5 DEF Emptied
  <2>7. e.slot.data = res.slot.data
    BY <2>1, <2>6 DEF SlotType
  <2> HIDE DEF e
  <2>8. slot' = [slot EXCEPT ![i] = e.slot] /\ dev'.wifi = e.dev.wifi /\ Flush(c, e.out)
    BY <1>7, <2>1, OutcomeIs DEF Inv
  <2>9. OthersWait(c) /\ out'[c] = out[c] \o res.out
    BY <2>1, <2>8, FlushWaits
  <2>10. SameScan(dev', dev) /\ SameScan(dev', d)
    BY <1>6, <2>1, <2>3, <2>8 DEF SameScan
  <2>11. Claims(c)' => ListState(e.slot, dev', out'[c], pending'[c])
    <3> SUFFICES ASSUME Claims(c)' PROVE ListState(e.slot, dev', out'[c], pending'[c])
      OBVIOUS
    <3>1. NewState(res, d) /\ out[c] = <<>> /\ s.received = s.len
      BY <1>5, <2>2, <2>4
    <3>2. ~(e.slot.received < e.slot.len)
      <4>1. s.len \in Int
        BY <1>2 DEF SlotType
      <4> QED BY <2>1, <3>1, <4>1
    <3>3. ListState(e.slot, dev', <<>> \o res.out, pending'[c])
      BY <2>1, <2>7, <2>10, <3>1, <3>2, NewListState
    <3> QED BY <2>9, <3>1, <3>3
  <2>12. OnlyThis(c) /\ Disturbs
    BY <1>4, <2>9, <2>10, QuietScan DEF OnlyThis, Disturbs
  <2> QED BY <1>2, <1>3, <1>4, <2>1, <2>8, <2>11, <2>12, OneSlotLists
<1>8. CASE /\ ~HandsOn(s) /\ slot' = [slot EXCEPT ![i] = s]
           /\ dev' = dev /\ pending' = pending /\ out' = out /\ hist' = hist
  <2>1. Claims(c) => out[c] = <<>> /\ pending[c] = 0 /\ s.received < s.len
    BY <1>1, <1>3, <1>8, BodyWaits
  <2>2. Claims(c)' => ListState(s, dev', out'[c], pending'[c])
    BY <1>5, <1>8, <2>1 DEF ListState
  <2>3. OnlyThis(c) /\ Disturbs
    BY <1>8, QuietScan DEF OnlyThis, OthersWait, SameScan, Disturbs
  <2> HIDE DEF s
  <2> QED BY <1>2, <1>3, <1>4, <1>8, <2>2, <2>3, OneSlotLists
<1> QED BY <1>1, <1>7, <1>8

(* The answer goes on, or has been sent.                                    *)
LEMMA CloseLists ==
  ASSUME Inv, ListInv, NEW c \in Conns, NEW i \in FindConn(c), link[c] = "open", pending[c] > 0,
         slot[i].cgi = NULL, CloseConn(i, c)
  PROVE  ListInv'
<1>1. /\ i \in Slots /\ slot[i].conn = c /\ slot[i] \in SlotType /\ c # NULL
      /\ SlotInv(slot[i], hist) /\ Receiving(slot[i])
  BY FoundSlot
<1>2. /\ slot' = [slot EXCEPT ![i] = Retired(slot[i])]
      /\ link' = [link EXCEPT ![c] = "closing"] /\ pending' = [pending EXCEPT ![c] = 0]
      /\ hist' = [hist EXCEPT !.served = @ \cup {c}] /\ dev' = dev /\ out' = out
  BY DEF CloseConn
<1>3. Retired(slot[i]) \in SlotType /\ IsRetired(Retired(slot[i]))
  BY <1>1, RetiredIs
<1>4. /\ IsRetired(slot'[i])
      /\ \A j \in Slots : j # i => slot'[j] = slot[j]
  BY <1>1, <1>2, <1>3, SlotsChange DEF Inv
<1>5. link'[c] = "closing" /\ \A e \in Conns : e # c => link'[e] = link[e]
  BY <1>2, LinkChange DEF Links, Inv
<1>6. /\ hist'.asked = hist.asked /\ hist'.disturbed = hist.disturbed
      /\ hist'.served = hist.served \cup {c}
  BY <1>2, TypeParts DEF Inv, HistType
<1>7. \A e \in Conns : e # c => pending'[e] = pending[e]
  BY <1>2 DEF Inv, TypeOK
<1>8. slot[i].len # -1
  <2>1. slot[i].len = -1 => pending[c] = 0
    BY <1>1, NoAnswerYet
  <2> QED BY <2>1
<1>9. ListAnswer(c)'
  <2> SUFFICES ASSUME Claims(c)' PROVE OneList(out[c]) /\ Whole(out[c])
    BY <1>2 DEF ListAnswer
  <2>1. Claims(c)
    BY <1>6 DEF Claims
  <2>2. ListState(slot[i], dev, out[c], pending[c])
    BY <1>1, <1>8, <2>1 DEF ListInv, ListGoesOn, ListSlot
  <2> QED BY <2>2 DEF ListState, OneList
<1>10. ASSUME NEW j \in Slots, ListSlot(j)'
       PROVE  SameList(j)
  <2>1. j # i /\ slot'[j] = slot[j] /\ slot[j].conn # NULL
    BY <1>4, <1>10 DEF ListSlot, IsRetired
  <2>2. slot[j].conn \in Conns \ {c}
    BY <1>1, <2>1, OtherSlot
  <2>3. QuietFor(slot[j].conn)
    BY <1>2, QuietScan DEF SameScan
  <2> QED BY <1>2, <1>5, <1>6, <1>7, <2>1, <2>2, <2>3 DEF SameList
<1>11. \A e \in Conns \ {c} : SameListAnswer(e)
  BY <1>2, <1>6 DEF SameListAnswer, SameAnswer
<1>12. ServedAreClosed'
  <2>1. hist.served \subseteq Conns
    BY TypeParts DEF Inv, HistType
  <2> QED BY <1>5, <1>6, <2>1 DEF ListInv, ServedAreClosed
<1> QED BY <1>6, <1>9, <1>10, <1>11, <1>12, ListsGoOn DEF Disturbs

(* One call more.                                                           *)
LEMMA NextEntry ==
  ASSUME TwoFit, NEW s \in SlotType, NEW d \in DevType, NEW o, NEW p,
         s.cgi = "cgiWiFiScan", ListState(s, d, o, p), ~(s.received < s.len)
  PROVE  LET r == Cgi(s.cgi, s, d)
             t == Kept(s, r)
         IN Typed(r) => \A q : ListState(t, r.dev, o \o r.out, q)
<1> DEFINE r == Cgi(s.cgi, s, d)
           t == Kept(s, r)
           a == d.wifi.apData
<1> SUFFICES ASSUME Typed(r), NEW q PROVE ListState(t, r.dev, o \o r.out, q)
  OBVIOUS
<1>1. r = WiFiScan(s, d)
  BY CgiIs
<1>2. s.cgi # NULL
  BY NotNames, Names
<1>3. /\ s.data \in [pos : Nat] /\ s.data.pos >= 1
      /\ ~d.wifi.scanInProgress /\ Listing(o, a)
  BY <1>2 DEF ListState
<1>4. \/ /\ r.ret = "DONE"
         /\ r.out \in {<< <<"ap", a>>, <<"end", 0>> >>, << <<"end", 0>> >>}
      \/ /\ r.ret = "MORE" /\ r.dev = d /\ r.out = << <<"ap", a>> >>
         /\ r.data \in [pos : Nat] /\ r.data.pos >= 1
  BY <1>1, <1>3, ListMoves
<1>5. a \in ScanIds
  BY DevWifi DEF WifiType, ScanIds
<1> HIDE DEF r, a
<1>6. /\ SameRest(t, s) /\ t.data = r.data
      /\ t.cgi = IF r.ret = "MORE" THEN s.cgi ELSE NULL
  BY KeptIs
<1> HIDE DEF t
<1>7. ~(t.received < t.len)
  BY <1>6 DEF SameRest
<1>8. CASE /\ r.ret = "DONE"
           /\ r.out \in {<< <<"ap", a>>, <<"end", 0>> >>, << <<"end", 0>> >>}
  <2>1. Whole(o \o r.out)
    BY <1>3, <1>5, <1>8, ListEnds, LastEntry DEF Whole
  <2> QED BY <1>6, <1>7, <1>8, <2>1 DEF ListState
<1>9. CASE /\ r.ret = "MORE" /\ r.dev = d /\ r.out = << <<"ap", a>> >>
           /\ r.data \in [pos : Nat] /\ r.data.pos >= 1
  <2>1. Listing(o \o r.out, a)
    BY <1>3, <1>5, <1>9, ListGrows
  <2> QED BY <1>2, <1>3, <1>6, <1>7, <1>9, <2>1 DEF ListState, a
<1> QED BY <1>4, <1>8, <1>9

LEMMA GoOnLists ==
  ASSUME TwoFit, Inv, ListInv, NEW c \in Conns, NEW i \in FindConn(c), link[c] = "open",
         pending[c] > 0, slot[i].cgi # NULL, GoOn(i, c)
  PROVE  ListInv'
<1> DEFINE s == slot[i]
           r == Cgi(s.cgi, s, dev)
           t == Kept(s, r)
<1>1. /\ i \in Slots /\ s.conn = c /\ s \in SlotType /\ c # NULL /\ dev \in DevType
      /\ SlotInv(s, hist) /\ Receiving(s)
  BY FoundSlot, TypeParts DEF Inv
<1>2. /\ slot' = [slot EXCEPT ![i] = t] /\ dev' = r.dev /\ link' = link
      /\ out' = [out EXCEPT ![c] = @ \o r.out]
      /\ pending' = [pending EXCEPT ![c] = IF r.out = <<>> THEN @ - 1 ELSE @]
      /\ hist' = [hist EXCEPT !.disturbed =
                      IF r.dev.wifi.scanInProgress /\ ~dev.wifi.scanInProgress
                      THEN @ \cup {d \in Conns \ {c} : link[d] = "open"} ELSE @]
  BY DEF GoOn
<1>3. s.cgi \in CgiNames /\ CanCall(s.cgi, s) /\ Handed(s.cgi, s) /\ s.len # -1
  BY <1>1, WorkingSlot
<1>4. Typed(r) /\ r.dev.wifi.apData = dev.wifi.apData
  <2> HIDE DEF s
  <2>1. Called(s.cgi, s, dev, r)
    BY <1>1, <1>3, CgiCalled
  <2>2. Scanning(s.cgi, s, r.dev, dev)
    BY <1>1, <1>3, Scans
  <2> QED BY <2>1, <2>2 DEF Called, Scanning
<1>5. t \in SlotType /\ SameRest(t, s)
  <2> HIDE DEF s, r
  <2> QED BY <1>1, <1>4, KeptIs
<1>6. /\ hist'.asked = hist.asked /\ hist'.served = hist.served /\ Disturbs
      /\ r.dev.wifi.scanInProgress /\ ~dev.wifi.scanInProgress
            => \A e \in Conns \ {c} : link[e] = "open" => e \in hist'.disturbed
  <2> HIDE DEF r, t, s
  <2> QED BY <1>2, TypeParts DEF Inv, HistType, Disturbs
<1>7. out'[c] = out[c] \o r.out /\ OthersWait(c)
  <2> HIDE DEF r, t, s
  <2> QED BY <1>2 DEF Inv, TypeOK, OthersWait
<1>8. Claims(c)' => ListState(t, dev', out'[c], pending'[c])
  <2> SUFFICES ASSUME Claims(c)' PROVE ListState(t, dev', out'[c], pending'[c])
    OBVIOUS
  <2>1. Claims(c)
    BY <1>6 DEF Claims, Disturbs
  <2>2. ListState(s, dev, out[c], pending[c])
    BY <1>1, <1>3, <2>1 DEF ListInv, ListGoesOn, ListSlot
  <2>3. s.cgi = "cgiWiFiScan" /\ ~(s.received < s.len)
    BY <2>2 DEF ListState
  <2>4. ListState(t, r.dev, out[c] \o r.out, pending'[c])
    <3> HIDE DEF s
    <3> QED BY <1>1, <1>4, <2>2, <2>3, NextEntry
  <2> HIDE DEF s, r, t
  <2> QED BY <1>2, <1>7, <2>4
<1>9. \A e \in Conns \ {c} : link[e] = "open" => QuietFor(e)
  <2> HIDE DEF s, r, t
  <2> QED BY <1>2, <1>4, <1>6 DEF QuietFor
<1>10. t.conn = c /\ slot[i].conn = c
  BY <1>1, <1>5 DEF SameRest
<1>11. OnlyThis(c)
  BY <1>6, <1>7, <1>9 DEF OnlyThis
<1> HIDE DEF r, t, s
<1> QED BY <1>1, <1>2, <1>5, <1>6, <1>8, <1>10, <1>11, OneSlotLists

LEMMA SentLists ==
  ASSUME TwoFit, Inv, ListInv, NEW c \in Conns, SentCb(c)
  PROVE  ListInv'
<1>1. /\ link[c] = "open" /\ pending[c] > 0
      /\ \E i \in FindConn(c) : IF slot[i].cgi = NULL THEN CloseConn(i, c) ELSE GoOn(i, c)
  BY DEF SentCb
<1> QED BY <1>1, CloseLists, GoOnLists

(* Connections break off and slots are given back.                          *)
LEMMA DisconLists ==
  ASSUME Inv, ListInv, NEW c \in Conns, NEW looks, DisconCb(c, looks)
  PROVE  ListInv'
<1>1. /\ dev'.wifi.apData = dev.wifi.apData
      /\ \A j \in Slots : slot'[j] = slot[j] \/ IsRetired(slot'[j])
  BY DisconIs
<1>2. /\ out' = out /\ pending' = [pending EXCEPT ![c] = 0] /\ link[c] = "closing"
      /\ link' = [link EXCEPT ![c] = "gone"]
      /\ hist' = [hist EXCEPT !.disturbed =
                      IF dev'.wifi.scanInProgress /\ ~dev.wifi.scanInProgress
                      THEN @ \cup {d \in Conns \ {c} : link[d] = "open"} ELSE @]
  BY DEF DisconCb
<1>3. /\ hist'.asked = hist.asked /\ hist'.served = hist.served /\ Disturbs
      /\ dev'.wifi.scanInProgress /\ ~dev.wifi.scanInProgress
            => \A e \in Conns \ {c} : link[e] = "open" => e \in hist'.disturbed
  BY <1>2, TypeParts DEF Inv, HistType, Disturbs
<1>4. link'[c] = "gone" /\ \A e \in Conns : e # c => link'[e] = link[e]
  BY <1>2, LinkChange DEF Links, Inv
<1>5. \A e \in Conns : link'[e] = "open" => link[e] = "open" /\ QuietFor(e)
  BY <1>1, <1>3, <1>4 DEF QuietFor
<1>6. \A e \in Conns : pending'[e] = pending[e] \/ pending'[e] = 0
  BY <1>2 DEF Inv, TypeOK
<1> QED BY <1>1, <1>2, <1>3, <1>4, <1>5, <1>6, ListsAlone

LEMMA LinkLists ==
  ASSUME Inv, ListInv, NEW c \in Conns, ClientCloses(c) \/ ReconCb(c)
  PROVE  ListInv'
<1>1. /\ slot' = slot /\ dev' = dev /\ out' = out
      /\ link' = [link EXCEPT ![c] = "closing"] \/ link' = [link EXCEPT ![c] = "broken"]
      /\ pending' = pending \/ pending' = [pending EXCEPT ![c] = 0]
      /\ hist' = [hist EXCEPT !.fails = @ + 1]
  BY DEF ClientCloses, ReconCb
<1>2. hist'.asked = hist.asked /\ hist'.served = hist.served /\ Disturbs
  BY <1>1 DEF Disturbs
<1>3. link'[c] \in {"closing", "broken"} /\ \A e \in Conns : e # c => link'[e] = link[e]
  BY <1>1, LinkChange DEF Links, Inv
<1>4. \A e \in Conns : pending'[e] = pending[e] \/ pending'[e] = 0
  BY <1>1 DEF Inv, TypeOK
<1>5. \A e : QuietFor(e)
  BY <1>1, QuietScan DEF SameScan
<1> QED BY <1>1, <1>2, <1>3, <1>4, <1>5, ListsAlone

LEMMA RestartLists ==
  ASSUME Inv, ListInv, NEW x \in {0, 1}, Reboot(x)
  PROVE  ListInv'
<1>1. /\ slot' = [i \in Slots |-> EmptySlot] /\ out' = out /\ pending' = [c \in Conns |-> 0]
      /\ link' = [c \in Conns |-> IF link[c] \in {"open", "closing", "broken"} THEN "gone"
                                ELSE link[c]]
      /\ hist' = [hist EXCEPT !.restarts = @ + 1]
  BY DEF Reboot
<1>2. hist'.asked = hist.asked /\ hist'.served = hist.served /\ Disturbs
  BY <1>1 DEF Disturbs
<1>3. \A j \in Slots : IsRetired(slot'[j])
  BY <1>1, EmptySlotType
<1>4. \A e \in Conns : link'[e] # "open" /\ (link'[e] \in {"new", "refused"} => link'[e] = link[e])
  BY <1>1
<1> QED BY <1>1, <1>2, <1>3, <1>4, ListsAlone

(* A list that goes on is not there when a scan ends.                       *)
LEMMA SdkLists ==
  ASSUME Inv, ListInv,
         \/ \E ok \in BOOLEAN, n \in plan.lists : WifiScanDone(ok, n)
         \/ ReassTimer \/ ResetTimer \/ \E x \in {"off", "gotip"} : StationChanges(x)
         \/ UNCHANGED vars
  PROVE  ListInv'
<1>1. /\ slot' = slot /\ out' = out /\ pending' = pending /\ link' = link
      /\ hist'.asked = hist.asked /\ hist'.served = hist.served /\ Disturbs
  <2>1. ASSUME NEW ok, NEW n, WifiScanDone(ok, n)
        PROVE  hist' = [hist EXCEPT !.scans = @ + 1]
               /\ slot' = slot /\ out' = out /\ pending' = pending /\ link' = link
    BY <2>1 DEF WifiScanDone
  <2>2. ASSUME NEW x, StationChanges(x)
        PROVE  hist' = [hist EXCEPT !.stations = @ + 1]
               /\ slot' = slot /\ out' = out /\ pending' = pending /\ link' = link
    BY <2>2 DEF StationChanges
  <2>3. ASSUME ReassTimer \/ ResetTimer \/ UNCHANGED vars
        PROVE  hist' = hist
               /\ slot' = slot /\ out' = out /\ pending' = pending /\ link' = link
    BY <2>3 DEF ReassTimer, ResetTimer, vars
  <2>4. /\ slot' = slot /\ out' = out /\ pending' = pending /\ link' = link
        /\ \/ hist' = hist
           \/ hist' = [hist EXCEPT !.scans = @ + 1]
           \/ hist' = [hist EXCEPT !.stations = @ + 1]
    BY <2>1, <2>2, <2>3
  <2>5. /\ hist'.asked = hist.asked /\ hist'.served = hist.served
        /\ hist'.disturbed = hist.disturbed
    BY <2>4, TypeParts DEF Inv, HistType
  <2> QED BY <2>4, <2>5 DEF Disturbs
<1>2. \A e : QuietFor(e)
  <2>0. dev \in DevType
    BY TypeParts DEF Inv
  <2>1. ASSUME NEW ok, NEW n, WifiScanDone(ok, n)
        PROVE  dev.wifi.scanInProgress
    BY <2>1 DEF WifiScanDone
  <2>2. ASSUME NEW x, StationChanges(x)
        PROVE  SameScan(dev', dev)
    BY <2>0, <2>2 DEF StationChanges, SameScan, DevType, WifiType
  <2>3. ASSUME ReassTimer
        PROVE  SameScan(dev', dev)
    BY <2>0, <2>3 DEF ReassTimer, ReassTimerCb, SameScan, DevType, WifiType
  <2>4. ASSUME ResetTimer
        PROVE  SameScan(dev', dev)
    BY <2>0, <2>4 DEF ResetTimer, ResetTimerCb, SameScan, DevType, WifiType
  <2>5. ASSUME UNCHANGED vars
        PROVE  SameScan(dev', dev)
    BY <2>5 DEF vars, SameScan
  <2> QED BY <2>1, <2>2, <2>3, <2>4, <2>5, QuietScan DEF QuietFor
<1> QED BY <1>1, <1>2, ListsAlone

LEMMA ListStep ==
  ASSUME TwoFit, Inv, ListInv, [Next]_vars
  PROVE  ListInv'
<1>1. ASSUME NEW c \in Conns, ConnectCb(c)
      PROVE  ListInv'
  BY <1>1, ConnectLists
<1>2. ASSUME NEW c \in Conns, NEW req \in plan.asks[c], NEW junk \in BOOLEAN,
             RecvHead(c, req, junk)
      PROVE  ListInv'
  BY <1>2, RecvHeadLists
<1>3. ASSUME NEW c \in Conns, NEW junk \in BOOLEAN, RecvBody(c, junk)
      PROVE  ListInv'
  BY <1>3, RecvBodyLists
<1>4. ASSUME NEW c \in Conns, SentCb(c)
      PROVE  ListInv'
  BY <1>4, SentLists
<1>5. ASSUME NEW c \in Conns, ClientCloses(c) \/ ReconCb(c)
      PROVE  ListInv'
  BY <1>5, LinkLists
<1>6. ASSUME NEW c \in Conns, NEW looks \in SUBSET Broken, DisconCb(c, looks)
      PROVE  ListInv'
  BY <1>6, DisconLists
<1>7. ASSUME \/ \E ok \in BOOLEAN, n \in plan.lists : WifiScanDone(ok, n)
             \/ ReassTimer \/ ResetTimer \/ \E x \in {"off", "gotip"} : StationChanges(x)
             \/ UNCHANGED vars
      PROVE  ListInv'
  BY <1>7, SdkLists
<1>8. ASSUME NEW c, NEW looks, Restart \/ CrashInDiscon(c, looks)
      PROVE  ListInv'
  BY <1>8, RestartReboots, RestartLists
<1> QED BY <1>1, <1>2, <1>3, <1>4, <1>5, <1>6, <1>7, <1>8 DEF Next

LEMMA InitLists == Init => ListInv
<1> SUFFICES ASSUME Init PROVE ListInv
  OBVIOUS
<1>1. /\ slot = [i \in Slots |-> EmptySlot] /\ hist.served = {}
      /\ \A c \in Conns : hist.asked[c] = NULL
  BY DEF Init
<1>2. \A i \in Slots : ~ListSlot(i)
  BY <1>1, EmptySlotType DEF ListSlot, IsRetired
<1>3. \A c \in Conns : ListAnswer(c)
  BY <1>1 DEF ListAnswer, Claims, AsksList
<1>4. ServedAreClosed
  BY <1>1 DEF ServedAreClosed
<1> QED BY <1>2, <1>3, <1>4 DEF ListInv, ListGoesOn

(* What the property says of one answer.                                    *)
Entries3(o) == {i \in DOMAIN o : o[i][1] = "ap"}

HeadsFirst(o) == \A i \in DOMAIN o : o[i][1] = "head" <=> i = 1
OneKind(o)    == \A i, j \in Entries3(o) : o[i] = o[j]

LEMMA RefusalsAre ==
  /\ Status(302) \in Refusal /\ Len(NoList) = 2 /\ NoList[1] = <<"head", 200>>
  /\ NoList[2] = <<"inProgress", 1>> /\ DOMAIN NoList = 1..2
BY DEF Refusal, NoList

LEMMA ShortList ==
  HeadsFirst(NoList) /\ OneKind(NoList) /\ NoList[2] # <<"inProgress", 0>>
<1>1. \A i \in 1..2 : i = 1 \/ i = 2
  OBVIOUS
<1>2. /\ NoList[1][1] = "head" /\ NoList[2][1] = "inProgress"
  BY RefusalsAre
<1>3. NoList[2] # <<"inProgress", 0>>
  <2>1. <<"inProgress", 1>>[2] = 1 /\ <<"inProgress", 0>>[2] = 0
    OBVIOUS
  <2> QED BY <2>1, RefusalsAre
<1>4. HeadsFirst(NoList)
  BY <1>1, <1>2, RefusalsAre DEF HeadsFirst
<1>5. Entries3(NoList) = {}
  BY <1>1, <1>2, RefusalsAre DEF Entries3
<1> QED BY <1>3, <1>4, <1>5 DEF OneKind

LEMMA BegunIs ==
  ASSUME NEW o, Begun(o)
  PROVE  /\ Len(o) \in Nat /\ Len(o) >= 2 /\ DOMAIN o = 1..Len(o)
         /\ o[1][1] = "head" /\ o[2][1] = "inProgress"
         /\ \A i \in 3..Len(o) : o[i] \in Item
BY DEF Begun

LEMMA LongList ==
  ASSUME NEW o, Begun(o), OneScan(o, Len(o))
  PROVE  HeadsFirst(o) /\ OneKind(o)
<1>1. \A i \in DOMAIN o : i = 1 \/ i = 2 \/ i \in 3..Len(o)
  BY BegunIs
<1>2. \A i \in 3..Len(o) : o[i] = o[3] /\ o[i][1] = "ap"
  BY DEF OneScan
<1>3. HeadsFirst(o)
  BY <1>1, <1>2, BegunIs DEF HeadsFirst
<1>4. \A i \in Entries3(o) : i \in 3..Len(o)
  BY <1>1, BegunIs DEF Entries3
<1> QED BY <1>2, <1>3, <1>4 DEF OneKind

LEMMA EndedList ==
  ASSUME NEW o, Ended(o)
  PROVE  HeadsFirst(o) /\ OneKind(o) /\ Entries3(o) = 3..(Len(o) - 1)
<1> DEFINE n == Len(o)
<1>1. /\ n \in Nat /\ n >= 3 /\ DOMAIN o = 1..n /\ o[1][1] = "head" /\ o[2][1] = "inProgress"
      /\ o[n][1] = "end"
  BY BegunIs DEF Ended
<1>2. \A i \in 3..(n - 1) : o[i] = o[3] /\ o[i][1] = "ap"
  BY DEF Ended, OneScan
<1> HIDE DEF n
<1>3. \A i \in DOMAIN o : i = 1 \/ i = 2 \/ i \in 3..(n - 1) \/ i = n
  BY <1>1
<1>4. HeadsFirst(o)
  BY <1>1, <1>2, <1>3 DEF HeadsFirst
<1>5. Entries3(o) = 3..(n - 1)
  <2>1. \A i \in 3..(n - 1) : i \in DOMAIN o
    BY <1>1
  <2> QED BY <1>1, <1>2, <1>3, <2>1 DEF Entries3
<1> QED BY <1>2, <1>4, <1>5 DEF OneKind, n

LEMMA NotEmpty == <<>> # Status(302) /\ <<>> # NoList
BY DEF Status, NoList

LEMMA EmptyList == HeadsFirst(<<>>) /\ OneKind(<<>>)
BY DEF HeadsFirst, OneKind, Entries3

LEMMA ListsHold ==
  ASSUME Inv, ListInv
  PROVE  ScanListIsOne
<1> SUFFICES ASSUME NEW c \in Conns \ hist.disturbed,
                    hist.asked[c] # NULL, hist.asked[c].url = "/wifi/wifiscan.cgi",
                    ~Restarted(c), out[c] \notin Refusal
             PROVE  /\ HeadsFirst(out[c]) /\ OneKind(out[c])
                    /\ (c \in hist.served /\ out[c][2] = <<"inProgress", 0>>) =>
                          /\ out[c][Len(out[c])] = <<"end", 0>>
                          /\ Entries3(out[c]) = 3..(Len(out[c]) - 1)
  BY DEF ScanListIsOne, HeadsFirst, OneKind, Entries3
<1> DEFINE o == out[c]
<1>1. InOneBuffer(hist.asked[c])
  BY DEF Restarted
<1>2. OneList(o) /\ (c \in hist.served => Whole(o)) /\ o # Status(302)
  BY <1>1, RefusalsAre DEF ListInv, ListAnswer, Claims, AsksList
<1> HIDE DEF o
<1>3. CASE o = <<>>
  <2>1. ~Ended(<<>>)
    BY BegunIs DEF Ended
  <2>2. c \notin hist.served
    BY <1>2, <1>3, <2>1, NotEmpty DEF Whole
  <2> QED BY <1>3, <2>2, EmptyList DEF o
<1>4. CASE o = NoList
  BY <1>4, ShortList DEF o
<1>5. CASE Ended(o)
  <2>1. o[Len(o)] = <<"end", 0>>
    BY <1>5 DEF Ended
  <2> QED BY <1>5, <2>1, EndedList DEF o
<1>6. CASE Begun(o) /\ OneScan(o, Len(o)) /\ o # NoList /\ ~Ended(o)
  <2>1. c \notin hist.served
    BY <1>2, <1>6 DEF Whole
  <2> QED BY <1>6, <2>1, LongList DEF o
<1> QED BY <1>2, <1>3, <1>4, <1>5, <1>6 DEF OneList, Whole

(***************************************************************************)
(* A list of access points is one list: the connections that page through  *)
(* it share it, but while one of them does no scan is in progress, so each *)
(* reads one scan to its end (cgiWiFiScan, httpdSentCb). The head and the  *)
(* status, and the last entry and the end, are sent in one call each and   *)
(* have to fit the buffer (httpdSend).                                     *)
(***************************************************************************)
THEOREM ListsAreOne ==
  ASSUME TwoFit
  PROVE  Spec => []ScanListIsOne
<1>1. Init => Inv /\ ListInv
  BY InitInv, InitLists
<1>2. Inv /\ ListInv /\ [Next]_vars => Inv' /\ ListInv'
  BY NextInv, ListStep
<1>3. Inv /\ ListInv => ScanListIsOne
  BY ListsHold
<1> QED BY <1>1, <1>2, <1>3, PTL DEF Spec
-----------------------------------------------------------------------------
(* What an answer is made of.                                               *)

(* Joining sequences.                                                       *)
LEMMA Joined ==
  ASSUME NEW S, NEW a \in Seq(S), NEW b \in Seq(S)
  PROVE  /\ a \o b \in Seq(S) /\ Len(a \o b) = Len(a) + Len(b)
         /\ Len(a) \in Nat /\ Len(b) \in Nat
         /\ \A k \in 1..Len(a) : (a \o b)[k] = a[k]
         /\ \A k \in 1..Len(b) : (a \o b)[Len(a) + k] = b[k]
<1>1. a \o b \in Seq(S) /\ Len(a \o b) = Len(a) + Len(b) /\ Len(a) \in Nat /\ Len(b) \in Nat
  BY ConcatProperties
<1>2. \A k \in 1..(Len(a) + Len(b)) : (a \o b)[k] = IF k <= Len(a) THEN a[k] ELSE b[k - Len(a)]
  BY ConcatProperties
<1>3. ASSUME NEW k \in 1..Len(b)
      PROVE  (a \o b)[Len(a) + k] = b[k]
  <2> DEFINE m == Len(a) + k
  <2>1. m \in 1..(Len(a) + Len(b)) /\ ~(m <= Len(a)) /\ m - Len(a) = k
    BY <1>1
  <2> QED BY <1>2, <2>1
<1>4. \A k \in 1..Len(a) : (a \o b)[k] = a[k]
  BY <1>1, <1>2
<1> QED BY <1>1, <1>3, <1>4

LEMMA NothingAdded ==
  ASSUME NEW S, NEW a \in Seq(S)
  PROVE  a \o <<>> = a /\ <<>> \o a = a
OBVIOUS

LEMMA AppendedIs ==
  ASSUME NEW S, NEW a \in Seq(S), NEW x \in S
  PROVE  Append(a, x) \in Seq(S) /\ Append(a, x) # <<>>
BY AppendProperties

LEMMA Single ==
  ASSUME NEW S, NEW x \in S
  PROVE  <<x>> \in Seq(S) /\ Len(<<x>>) = 1 /\ <<x>>[1] = x /\ <<x>> # <<>>
OBVIOUS

(* A function on 1..(m + n), cut after m.                                   *)
LEMMA JoinedFcns ==
  ASSUME NEW S, NEW m \in Nat, NEW n \in Nat, NEW c \in [1..(m + n) -> S]
  PROVE  [k \in 1..m |-> c[k]] \o [k \in 1..n |-> c[m + k]] = c
<1> DEFINE a == [k \in 1..m |-> c[k]]
           b == [k \in 1..n |-> c[m + k]]
<1>1. a \in Seq(S) /\ Len(a) = m /\ b \in Seq(S) /\ Len(b) = n /\ c \in Seq(S) /\ Len(c) = m + n
  OBVIOUS
<1>2. /\ \A k \in 1..m : a[k] = c[k]
      /\ \A k \in 1..n : b[k] = c[m + k]
  OBVIOUS
<1> HIDE DEF a, b
<1>3. a \o b \in Seq(S) /\ Len(a \o b) = Len(c)
  BY <1>1, Joined
<1>4. ASSUME NEW k \in 1..(m + n)
      PROVE  (a \o b)[k] = c[k]
  <2>0. k \in Nat
    OBVIOUS
  <2>1. CASE k <= m
    BY <1>1, <1>2, <2>1, Joined
  <2>2. CASE ~(k <= m)
    <3> DEFINE j == k - m
    <3>1. j \in 1..n /\ m + j = k
      BY <2>2
    <3> HIDE DEF j
    <3>2. (a \o b)[m + j] = b[j]
      BY <1>1, <3>1, Joined
    <3> QED BY <1>2, <3>1, <3>2
  <2> QED BY <2>1, <2>2
<1>5. a \o b = c
  BY <1>1, <1>3, <1>4, SeqEqual
<1> QED BY <1>5 DEF a, b

(* The values of tokens are left open.                                      *)
Open(x) == IF x[1] \in {"hits", "junk", "unknown", "mode"} THEN <<"value", 0>> ELSE x

LEMMA OpenItem ==
  ASSUME NEW x \in PageItems
  PROVE  Open(x) \in PageItems
BY DEF Open, PageItems

LEMMA ValuelessIs ==
  ASSUME NEW o \in Seq(PageItems)
  PROVE  /\ Valueless(o) \in Seq(PageItems) /\ Len(Valueless(o)) = Len(o)
         /\ \A k \in 1..Len(o) : Valueless(o)[k] = Open(o[k])
<1>1. Valueless(o) = [k \in 1..Len(o) |-> Open(o[k])]
  BY DEF Valueless, Open
<1>2. \A k \in 1..Len(o) : Open(o[k]) \in PageItems
  BY OpenItem
<1>3. Len(o) \in Nat
  OBVIOUS
<1> QED BY <1>1, <1>2, <1>3

LEMMA ValuelessJoined ==
  ASSUME NEW a \in Seq(PageItems), NEW b \in Seq(PageItems)
  PROVE  Valueless(a \o b) = Valueless(a) \o Valueless(b)
<1> DEFINE c == a \o b
           u == Valueless(a)
           v == Valueless(b)
           w == Valueless(c)
           x == u \o v
<1>1. /\ c \in Seq(PageItems) /\ Len(c) = Len(a) + Len(b) /\ Len(a) \in Nat /\ Len(b) \in Nat
      /\ \A k \in 1..Len(a) : c[k] = a[k]
      /\ \A k \in 1..Len(b) : c[Len(a) + k] = b[k]
  BY Joined
<1> HIDE DEF c
<1>2. /\ u \in Seq(PageItems) /\ Len(u) = Len(a) /\ \A k \in 1..Len(a) : u[k] = Open(a[k])
      /\ v \in Seq(PageItems) /\ Len(v) = Len(b) /\ \A k \in 1..Len(b) : v[k] = Open(b[k])
      /\ w \in Seq(PageItems) /\ Len(w) = Len(c) /\ \A k \in 1..Len(c) : w[k] = Open(c[k])
  BY <1>1, ValuelessIs
<1> HIDE DEF u, v, w
<1>3. /\ x \in Seq(PageItems) /\ Len(x) = Len(u) + Len(v)
      /\ \A k \in 1..Len(u) : x[k] = u[k]
      /\ \A k \in 1..Len(v) : x[Len(u) + k] = v[k]
  <2>1. u \in Seq(PageItems) /\ v \in Seq(PageItems)
    BY <1>2
  <2> QED BY <2>1, Joined
<1> HIDE DEF x
<1>4. ASSUME NEW k \in 1..Len(w)
      PROVE  w[k] = x[k]
  <2>1. CASE k <= Len(a)
    BY <1>1, <1>2, <1>3, <2>1
  <2>2. CASE k > Len(a)
    <3> DEFINE j == k - Len(a)
    <3>1. j \in 1..Len(b) /\ Len(a) + j = k
      BY <1>1, <1>2, <2>2
    <3> HIDE DEF j
    <3>2. w[k] = Open(b[j])
      BY <1>1, <1>2, <3>1
    <3>3. x[k] = Open(b[j])
      BY <1>2, <1>3, <3>1
    <3> QED BY <3>2, <3>3
  <2> QED BY <1>1, <1>2, <2>1, <2>2
<1>5. w = x
  BY <1>1, <1>2, <1>3, <1>4, SeqEqual
<1> QED BY <1>5 DEF w, x, u, v, c

(* What has no values is not changed.                                       *)
Closed4(x) == x[1] \notin {"hits", "junk", "unknown", "mode"}

LEMMA NoValues ==
  ASSUME NEW o \in Seq(PageItems), \A k \in 1..Len(o) : Closed4(o[k])
  PROVE  Valueless(o) = o
<1>1. /\ Valueless(o) \in Seq(PageItems) /\ Len(Valueless(o)) = Len(o) /\ Len(o) \in Nat
      /\ \A k \in 1..Len(o) : Valueless(o)[k] = Open(o[k])
  BY ValuelessIs
<1>2. \A k \in 1..Len(o) : Open(o[k]) = o[k]
  BY DEF Open, Closed4
<1> HIDE DEF Open
<1> QED BY <1>1, <1>2, SeqEqual

LEMMA OneValue ==
  ASSUME NEW x \in PageItems
  PROVE  Valueless(<<x>>) = <<Open(x)>> /\ (Closed4(x) => Open(x) = x)
<1> DEFINE o == <<x>>
           q == <<Open(x)>>
<1>1. o \in Seq(PageItems) /\ Len(o) = 1 /\ o[1] = x
  BY Single
<1>2. q \in Seq(PageItems) /\ Len(q) = 1 /\ q[1] = Open(x)
  BY OpenItem, Single
<1> HIDE DEF o, q
<1>3. /\ Valueless(o) \in Seq(PageItems) /\ Len(Valueless(o)) = 1
      /\ Valueless(o)[1] = Open(x)
  BY <1>1, ValuelessIs
<1>4. Valueless(o) = q
  BY <1>2, <1>3, SeqEqual
<1> QED BY <1>4 DEF o, q, Open, Closed4

LEMMA StatusIs ==
  ASSUME NEW code \in Nat
  PROVE  /\ Status(code) \in Seq(PageItems) /\ Valueless(Status(code)) = Status(code)
         /\ Status(code) # <<>> /\ Len(Status(code)) = 1 /\ Status(code)[1] = <<"head", code>>
<1> DEFINE x == <<"head", code>>
<1>1. x \in PageItems /\ Closed4(x)
  BY DEF PageItems, Closed4
<1>2. Status(code) = <<x>>
  BY DEF Status
<1> HIDE DEF x
<1>3. <<x>> \in Seq(PageItems) /\ Len(<<x>>) = 1 /\ <<x>>[1] = x /\ <<x>> # <<>>
  BY <1>1, Single
<1>4. Valueless(<<x>>) = <<x>>
  <2>1. \A k \in 1..Len(<<x>>) : Closed4(<<x>>[k])
    BY <1>1, <1>3
  <2> QED BY <1>3, <2>1, NoValues
<1> QED BY <1>2, <1>3, <1>4 DEF x

LEMMA CharsAre ==
  ASSUME NEW text \in Seq(Nat)
  PROVE  /\ Chars(text) \in Seq(PageItems) /\ Len(Chars(text)) = Len(text)
         /\ \A k \in 1..Len(text) : Chars(text)[k] = <<"char", text[k]>>
         /\ Valueless(Chars(text)) = Chars(text)
<1> DEFINE F(k) == <<"char", text[k]>>
<1>1. Chars(text) = [k \in 1..Len(text) |-> F(k)] /\ Len(text) \in Nat
  BY DEF Chars
<1>2. \A k \in 1..Len(text) : F(k) \in PageItems /\ Closed4(F(k))
  BY DEF PageItems, Closed4
<1>3. /\ Chars(text) \in Seq(PageItems) /\ Len(Chars(text)) = Len(text)
      /\ \A k \in 1..Len(text) : Chars(text)[k] = F(k)
  BY <1>1, <1>2
<1>4. Valueless(Chars(text)) = Chars(text)
  BY <1>2, <1>3, NoValues
<1> QED BY <1>3, <1>4

(* Tokens open and close at every '%'.                                      *)
LEMMA Parity ==
  ASSUME NEW text \in Seq(Nat), NEW n \in 1..Len(text)
  PROVE  /\ text[n] = Percent => (InToken(text, n) <=> ~InToken(text, n - 1))
         /\ text[n] # Percent => (InToken(text, n) <=> InToken(text, n - 1))
<1> DEFINE S == Percents(text, n - 1)
           T == Percents(text, n)
<1>1. IsFiniteSet(S) /\ Cardinality(S) \in Nat /\ n \notin S
  <2>1. IsFiniteSet(1..(n - 1))
    BY FS_Interval
  <2>2. S \subseteq 1..(n - 1)
    BY DEF Percents
  <2>3. IsFiniteSet(S)
    BY <2>1, <2>2, FS_Subset
  <2> QED BY <2>2, <2>3, FS_CardinalityType
<1>2. T = IF text[n] = Percent THEN S \cup {n} ELSE S
  BY DEF Percents
<1> HIDE DEF S, T
<1>3. text[n] = Percent => Cardinality(T) = Cardinality(S) + 1
  BY <1>1, <1>2, FS_AddElement
<1>4. text[n] # Percent => Cardinality(T) = Cardinality(S)
  BY <1>2
<1>5. \A k \in Nat : ((k + 1) % 2 = 1) <=> ~(k % 2 = 1)
  OBVIOUS
<1> QED BY <1>1, <1>3, <1>4, <1>5 DEF InToken, S, T

LEMMA NoneAtFirst ==
  ASSUME NEW text
  PROVE  ~InToken(text, 0)
<1>1. Percents(text, 0) = {}
  BY DEF Percents
<1>2. Cardinality({}) = 0
  BY FS_EmptySet
<1> QED BY <1>1, <1>2 DEF InToken

LEMMA AddedIs ==
  ASSUME NEW text \in Seq(Nat), NEW n \in 1..Len(text)
  PROVE  /\ Added(text, n) \in Seq(PageItems)
         /\ InToken(text, n) => Added(text, n) = <<>>
         /\ ~InToken(text, n) /\ text[n] # Percent => Added(text, n) = << <<"char", text[n]>> >>
         /\ ~InToken(text, n) /\ text[n] = Percent /\ text[n - 1] = Percent
              => Added(text, n) = << <<"char", Percent>> >>
         /\ ~InToken(text, n) /\ text[n] = Percent /\ text[n - 1] # Percent
              => Added(text, n) = << <<"value", 0>> >>
<1>1. <<"char", text[n]>> \in PageItems /\ <<"char", Percent>> \in PageItems
      /\ <<"value", 0>> \in PageItems
  BY DEF PageItems, Percent
<1> DEFINE x == <<"char", text[n]>>
           y == <<"char", Percent>>
           z == <<"value", 0>>
<1>2. \/ Added(text, n) = <<>> \/ Added(text, n) = <<x>> \/ Added(text, n) = <<y>>
      \/ Added(text, n) = <<z>>
  BY DEF Added
<1> HIDE DEF x, y, z
<1>3. <<x>> \in Seq(PageItems) /\ <<y>> \in Seq(PageItems) /\ <<z>> \in Seq(PageItems)
      /\ <<>> \in Seq(PageItems)
  BY <1>1, Single DEF x, y, z
<1>4. Added(text, n) \in Seq(PageItems)
  BY <1>2, <1>3
<1> QED BY <1>4 DEF Added

(* What a template becomes.                                                 *)
Longer(a, text, n) == a \o Added(text, n)

IsExpansion(f, text, k) ==
  f = [n \in 0..k |-> IF n = 0 THEN <<>> ELSE Longer(f[n - 1], text, n)]

LEMMA ExpansionExists ==
  ASSUME NEW text, NEW N \in Nat
  PROVE  \E f : IsExpansion(f, text, N)
<1> DEFINE Bad == {k \in Nat : ~\E f : IsExpansion(f, text, k)}
<1> SUFFICES ASSUME Bad # {} PROVE FALSE
  OBVIOUS
<1>1. PICK k \in Bad : \A j \in Bad : k <= j
  BY LeastNumber
<1>2. CASE k = 0
  <2> DEFINE g == [n \in 0..0 |-> <<>>]
  <2>1. IsExpansion(g, text, k)
    BY <1>2 DEF IsExpansion
  <2> QED BY <2>1
<1>3. CASE k # 0
  <2>1. k - 1 \in Nat /\ k - 1 \notin Bad
    BY <1>1, <1>3
  <2>2. PICK f : IsExpansion(f, text, k - 1)
    BY <2>1
  <2> DEFINE g == [n \in 0..k |-> IF n < k THEN f[n] ELSE Longer(f[n - 1], text, n)]
  <2>3. IsExpansion(g, text, k)
    BY <2>2, <1>3 DEF IsExpansion
  <2> QED BY <2>3
<1> QED BY <1>2, <1>3

LEMMA ExpansionIs ==
  ASSUME NEW text \in Seq(Nat)
  PROVE  LET E == Expansion(text)
         IN /\ E[0] = <<>>
            /\ \A n \in 1..Len(text) : E[n] = E[n - 1] \o Added(text, n)
            /\ \A n \in 0..Len(text) : E[n] \in Seq(PageItems)
<1> DEFINE E == CHOOSE f : IsExpansion(f, text, Len(text))
<1>0. Len(text) \in Nat
  OBVIOUS
<1>1. Expansion(text) = E
  BY DEF Expansion, IsExpansion, Longer
<1>2. \E f : IsExpansion(f, text, Len(text))
  BY <1>0, ExpansionExists
<1>3. IsExpansion(E, text, Len(text))
  BY <1>2
<1> HIDE DEF E
<1>4. E[0] = <<>> /\ \A n \in 1..Len(text) : E[n] = E[n - 1] \o Added(text, n)
  <2>0. E = [n \in 0..Len(text) |-> IF n = 0 THEN <<>> ELSE Longer(E[n - 1], text, n)]
    BY <1>3 DEF IsExpansion
  <2> DEFINE F(n) == IF n = 0 THEN <<>> ELSE Longer(E[n - 1], text, n)
  <2>3. E = [n \in 0..Len(text) |-> F(n)]
    BY <2>0
  <2>4. F(0) = <<>> /\ \A n \in 1..Len(text) : F(n) = Longer(E[n - 1], text, n)
    OBVIOUS
  <2> HIDE DEF F
  <2>5. \A n \in 0..Len(text) : E[n] = F(n)
    BY <2>3
  <2>1. E[0] = <<>>
    BY <1>0, <2>4, <2>5
  <2>2. ASSUME NEW n \in 1..Len(text)
        PROVE  E[n] = Longer(E[n - 1], text, n)
    BY <1>0, <2>4, <2>5
  <2> QED BY <2>1, <2>2 DEF Longer
<1>5. \A n \in 0..Len(text) : E[n] \in Seq(PageItems)
  <2> DEFINE Bad == {n \in 0..Len(text) : E[n] \notin Seq(PageItems)}
  <2> SUFFICES ASSUME Bad # {} PROVE FALSE
    OBVIOUS
  <2>1. PICK n \in Bad : \A m \in Bad : n <= m
    <3>1. Bad \subseteq Nat
      BY <1>0
    <3> HIDE DEF Bad
    <3> QED BY <3>1, LeastNumber
  <2>2. n # 0
    <3>1. <<>> \in Seq(PageItems)
      OBVIOUS
    <3> QED BY <1>4, <2>1, <3>1
  <2>3. n \in 1..Len(text) /\ n - 1 \in 0..Len(text) /\ n - 1 \notin Bad
    BY <1>0, <2>1, <2>2
  <2>4. E[n - 1] \in Seq(PageItems) /\ Added(text, n) \in Seq(PageItems)
    BY <2>3, AddedIs
  <2>5. E[n - 1] \o Added(text, n) \in Seq(PageItems)
    BY <2>4, Joined
  <2> QED BY <1>4, <2>1, <2>3, <2>5
<1> QED BY <1>1, <1>4, <1>5

(* An answer begins with what it was before.                                *)
LEMMA BeginsJoined ==
  ASSUME NEW S, NEW a \in Seq(S), NEW b \in Seq(S)
  PROVE  Begins(a, a \o b)
BY Joined DEF Begins

LEMMA BeginsOnwards ==
  ASSUME NEW S, NEW a \in Seq(S), NEW b \in Seq(S), NEW c \in Seq(S), Begins(a, b), Begins(b, c)
  PROVE  Begins(a, c)
<1>1. Len(a) \in Nat /\ Len(b) \in Nat /\ Len(c) \in Nat
  OBVIOUS
<1> QED BY <1>1 DEF Begins

LEMMA BeginsBehind ==
  ASSUME NEW S, NEW h \in Seq(S), NEW a \in Seq(S), NEW b \in Seq(S), Begins(a, b)
  PROVE  Begins(h \o a, h \o b)
<1> DEFINE x == h \o a
           y == h \o b
<1>1. /\ Len(x) = Len(h) + Len(a) /\ Len(h) \in Nat /\ Len(a) \in Nat
      /\ \A k \in 1..Len(h) : x[k] = h[k]
      /\ \A k \in 1..Len(a) : x[Len(h) + k] = a[k]
  BY Joined
<1>2. /\ Len(y) = Len(h) + Len(b) /\ Len(b) \in Nat
      /\ \A k \in 1..Len(h) : y[k] = h[k]
      /\ \A k \in 1..Len(b) : y[Len(h) + k] = b[k]
  BY Joined
<1> HIDE DEF x, y
<1>3. ASSUME NEW k \in 1..Len(x)
      PROVE  x[k] = y[k]
  <2>1. CASE k <= Len(h)
    BY <1>1, <1>2, <2>1
  <2>2. CASE ~(k <= Len(h))
    <3> DEFINE j == k - Len(h)
    <3>1. j \in 1..Len(a) /\ j \in 1..Len(b) /\ Len(h) + j = k
      BY <1>1, <1>2, <2>2 DEF Begins
    <3> HIDE DEF j
    <3> QED BY <1>1, <1>2, <3>1 DEF Begins
  <2> QED BY <1>1, <2>1, <2>2
<1>4. Len(x) <= Len(y)
  BY <1>1, <1>2 DEF Begins
<1> QED BY <1>3, <1>4 DEF Begins, x, y

LEMMA ExpansionGrows ==
  ASSUME NEW text \in Seq(Nat), NEW n \in 0..Len(text), NEW m \in n..Len(text)
  PROVE  Begins(Expansion(text)[n], Expansion(text)[m])
<1> DEFINE E == Expansion(text)
           Bad == {k \in n..Len(text) : ~Begins(E[n], E[k])}
<1>0. Len(text) \in Nat
  OBVIOUS
<1>1. /\ \A k \in 1..Len(text) : E[k] = E[k - 1] \o Added(text, k)
      /\ \A k \in 0..Len(text) : E[k] \in Seq(PageItems)
  BY ExpansionIs
<1> HIDE DEF E
<1> SUFFICES ASSUME Bad # {} PROVE FALSE
  BY DEF E
<1>2. PICK k \in Bad : \A j \in Bad : k <= j
  <2>1. Bad \subseteq Nat
    BY <1>0
  <2> HIDE DEF Bad
  <2> QED BY <2>1, LeastNumber
<1>3. k # n
  BY <1>2 DEF Begins
<1>4. k \in 1..Len(text) /\ k - 1 \in n..Len(text) /\ k - 1 \notin Bad
  BY <1>0, <1>2, <1>3
<1>5. Begins(E[n], E[k - 1])
  BY <1>4
<1>6. /\ E[n] \in Seq(PageItems) /\ E[k - 1] \in Seq(PageItems) /\ E[k] \in Seq(PageItems)
      /\ Added(text, k) \in Seq(PageItems)
  BY <1>0, <1>1, <1>4, AddedIs
<1>7. Begins(E[k - 1], E[k])
  BY <1>1, <1>4, <1>6, BeginsJoined
<1>8. Begins(E[n], E[k])
  BY <1>5, <1>6, <1>7, BeginsOnwards
<1> QED BY <1>2, <1>8

(* A block of a template. What was sent, and what waits to be sent.         *)
Said(st) == st.out \o Chars(st.text)

LoopPage(st, text, p, k, d) ==
  /\ TplState(st, d)
  /\ st.out \in Seq(PageItems) /\ st.text \in Seq(Nat) /\ Len(Said(st)) <= k
  /\ st.token # NULL => st.text = <<>>
  /\ TokenIs(text, p + k, st.token)
  /\ Expansion(text)[p] \o Valueless(Said(st)) = Expansion(text)[p + k]

LEMMA SaidIs ==
  ASSUME NEW st, st.out \in Seq(PageItems), st.text \in Seq(Nat)
  PROVE  /\ Said(st) \in Seq(PageItems) /\ Len(Said(st)) = Len(st.out) + Len(st.text)
         /\ Len(st.out) \in Nat /\ Len(st.text) \in Nat
         /\ Chars(st.text) \in Seq(PageItems) /\ Len(Chars(st.text)) = Len(st.text)
<1>1. Chars(st.text) \in Seq(PageItems) /\ Len(Chars(st.text)) = Len(st.text)
  BY CharsAre
<1>2. /\ st.out \o Chars(st.text) \in Seq(PageItems)
      /\ Len(st.out \o Chars(st.text)) = Len(st.out) + Len(Chars(st.text))
  BY <1>1, Joined
<1>3. Len(st.out) \in Nat /\ Len(st.text) \in Nat
  OBVIOUS
<1> QED BY <1>1, <1>2, <1>3 DEF Said

LEMMA NoChars == Chars(<<>>) = <<>>
BY DEF Chars

LEMMA SendFits ==
  ASSUME BlockFits, NEW a, NEW b, NEW n \in Nat, Len(a) + Len(b) \in Nat, Len(a) + Len(b) <= n,
         n <= BlockLen
  PROVE  Send(a, b) = a \o b
<1>1. BlockLen \in Nat /\ MaxSendBuff \in Nat
  BY HttpdEspFsAssumption
<1> QED BY <1>1 DEF Send, BlockFits

LEMMA NullIsNoToken == NULL \notin Seq(Nat) /\ NULL # <<>>
<1>1. NULL \notin Seq(Nat)
  BY NullAssumption
<1>2. <<>> \in Seq(Nat)
  OBVIOUS
<1> QED BY <1>1, <1>2

(* What is called for the next character: x is what it adds.                *)
Adds(st, t, x) ==
  /\ t.out \in Seq(PageItems) /\ t.text \in Seq(Nat) /\ (t.token # NULL => t.text = <<>>)
  /\ x \in Seq(PageItems) /\ Len(x) <= 1 /\ Said(t) = Said(st) \o x

(* What waits is sent before a token.                                       *)
LEMMA TokenBegins ==
  ASSUME BlockFits, NEW st, NEW d, TplState(st, d), NEW k \in Nat, k <= BlockLen,
         st.out \in Seq(PageItems), st.text \in Seq(Nat), Len(Said(st)) <= k
  PROVE  Adds(st, [st EXCEPT !.out = Send(st.out, Chars(st.text)), !.text = <<>>, !.token = <<>>],
              <<>>)
<1> DEFINE o == Send(st.out, Chars(st.text))
           t == [st EXCEPT !.out = o, !.text = <<>>, !.token = <<>>]
<1>1. o = Said(st) /\ o \in Seq(PageItems)
  <2>1. Send(st.out, Chars(st.text)) = st.out \o Chars(st.text)
    <3>1. /\ Len(Said(st)) = Len(st.out) + Len(st.text) /\ Len(Chars(st.text)) = Len(st.text)
          /\ Len(st.out) \in Nat /\ Len(st.text) \in Nat
      BY SaidIs
    <3> DEFINE a == Len(st.out)
               b == Len(Chars(st.text))
    <3>2. a \in Nat /\ b \in Nat /\ a + b <= k
      BY <3>1
    <3> HIDE DEF a, b
    <3>3. a + b \in Nat
      BY <3>2
    <3> QED BY <3>2, <3>3, SendFits DEF a, b
  <2> QED BY <2>1, SaidIs DEF Said
<1> HIDE DEF o
<1>2. t.out = o /\ t.text = <<>> /\ t.token = <<>>
  BY DEF TplState
<1> HIDE DEF t
<1>3. <<>> \in Seq(PageItems) /\ <<>> \in Seq(Nat) /\ Len(<<>>) = 0
  OBVIOUS
<1>4. Said(t) = o
  <2>1. o \o <<>> = o
    BY <1>1, NothingAdded
  <2> QED BY <1>2, <2>1, NoChars DEF Said
<1>5. Said(st) \o <<>> = Said(st)
  BY <1>1, NothingAdded
<1> QED BY <1>1, <1>2, <1>3, <1>4, <1>5 DEF Adds, t, o

LEMMA TextGrows ==
  ASSUME NEW st, NEW d, TplState(st, d), NEW c \in Nat, st.token = NULL,
         st.out \in Seq(PageItems), st.text \in Seq(Nat)
  PROVE  Adds(st, [st EXCEPT !.text = Append(@, c)], << <<"char", c>> >>)
<1> DEFINE u == Append(st.text, c)
           t == [st EXCEPT !.text = u]
           x == <<"char", c>>
<1>1. u \in Seq(Nat) /\ Len(u) = Len(st.text) + 1 /\ Len(st.text) \in Nat
      /\ (\A k \in 1..Len(st.text) : u[k] = st.text[k]) /\ u[Len(st.text) + 1] = c
  OBVIOUS
<1>2. x \in PageItems
  BY DEF PageItems
<1>3. t.out = st.out /\ t.text = u /\ t.token = NULL
  BY DEF TplState
<1> HIDE DEF t, u
<1>4. Chars(u) = Chars(st.text) \o <<x>>
  <2>1. /\ Chars(st.text) \in Seq(PageItems) /\ Len(Chars(st.text)) = Len(st.text)
        /\ \A k \in 1..Len(st.text) : Chars(st.text)[k] = <<"char", st.text[k]>>
    BY CharsAre
  <2>2. /\ Chars(u) \in Seq(PageItems) /\ Len(Chars(u)) = Len(u)
        /\ \A k \in 1..Len(u) : Chars(u)[k] = <<"char", u[k]>>
    BY <1>1, CharsAre
  <2> DEFINE a == Chars(st.text)
             b == Chars(u)
             w == a \o <<x>>
  <2>3. <<x>> \in Seq(PageItems) /\ Len(<<x>>) = 1 /\ <<x>>[1] = x
    BY <1>2, Single
  <2>4. /\ w \in Seq(PageItems) /\ Len(w) = Len(a) + 1 /\ (\A k \in 1..Len(a) : w[k] = a[k])
        /\ w[Len(a) + 1] = x
    <3> HIDE DEF a, x
    <3>1. a \in Seq(PageItems)
      BY <2>1 DEF a
    <3> QED BY <2>3, <3>1, Joined
  <2> HIDE DEF a, b, w
  <2>5. ASSUME NEW k \in 1..Len(b)
        PROVE  b[k] = w[k]
    <3>1. CASE k \in 1..Len(st.text)
      BY <1>1, <2>1, <2>2, <2>4, <3>1 DEF a, b
    <3>2. CASE k = Len(st.text) + 1
      BY <1>1, <2>1, <2>2, <2>4, <3>2 DEF a, b, x
    <3> QED BY <1>1, <2>2, <3>1, <3>2 DEF b
  <2>6. b = w
    BY <1>1, <2>1, <2>2, <2>4, <2>5, SeqEqual DEF a, b
  <2> QED BY <2>6 DEF a, b, w
<1> HIDE DEF x
<1>5. st.out \o (Chars(st.text) \o <<x>>) = (st.out \o Chars(st.text)) \o <<x>>
  <2>1. Chars(st.text) \in Seq(PageItems) /\ <<x>> \in Seq(PageItems)
    BY <1>2, CharsAre, Single
  <2> DEFINE a == st.out
             b == Chars(st.text)
             e == <<x>>
  <2>2. a \in Seq(PageItems) /\ b \in Seq(PageItems) /\ e \in Seq(PageItems)
    BY <1>2, <2>1
  <2> HIDE DEF a, b, e
  <2>3. Regroups(a, b, e)
    BY <2>2, Associative
  <2> QED BY <2>3 DEF Regroups, a, b, e
<1>6. Said(t) = Said(st) \o <<x>>
  BY <1>3, <1>4, <1>5 DEF Said
<1>7. <<x>> \in Seq(PageItems) /\ Len(<<x>>) <= 1
  BY <1>2, Single
<1> QED BY <1>1, <1>3, <1>6, <1>7 DEF Adds, t, u, x

(* One item for a token, or for the '%' that "%%" stands for.               *)
LEMMA ItemSent ==
  ASSUME BlockFits, NEW st, NEW d, TplState(st, d), NEW k \in Nat, k + 1 <= BlockLen,
         st.out \in Seq(PageItems), st.text = <<>>, Len(Said(st)) <= k, NEW x \in PageItems,
         NEW t, t.out = Send(st.out, <<x>>), t.text = st.text, t.token = NULL
  PROVE  Adds(st, t, <<x>>)
<1>1. <<x>> \in Seq(PageItems) /\ Len(<<x>>) = 1 /\ <<>> \in Seq(Nat)
  BY Single
<1>2. Said(st) = st.out /\ Len(st.out) \in Nat
  <2>1. st.out \o <<>> = st.out
    BY NothingAdded
  <2> QED BY <2>1, NoChars DEF Said
<1>3. t.out = st.out \o <<x>>
  <2>1. Len(st.out) + Len(<<x>>) \in Nat /\ Len(st.out) + Len(<<x>>) <= k + 1 /\ k + 1 \in Nat
    BY <1>1, <1>2
  <2> QED BY <2>1, SendFits
<1>4. st.out \o <<x>> \in Seq(PageItems)
  BY <1>1, Joined
<1>5. Said(t) = st.out \o <<x>>
  <2>1. (st.out \o <<x>>) \o <<>> = st.out \o <<x>>
    BY <1>4, NothingAdded
  <2> QED BY <1>3, <2>1, NoChars DEF Said
<1>6. t.out \in Seq(PageItems) /\ t.text \in Seq(Nat) /\ (t.token # NULL => t.text = <<>>)
  BY <1>1, <1>3, <1>4
<1>7. Said(t) = Said(st) \o <<x>>
  BY <1>2, <1>5
<1>8. Len(<<x>>) <= 1
  BY <1>1
<1> QED BY <1>1, <1>6, <1>7, <1>8 DEF Adds

LEMMA TokenValue ==
  ASSUME NEW callback \in TplCallbacks, NEW token, NEW d \in DevType
  PROVE  \E x \in PageItems : /\ TplValue(callback, token, d).text = <<x>>
                              /\ Open(x) = <<"value", 0>>
<1>1. d.hits + 1 \in Nat /\ d.wifi.opmode \in Nat
  BY DEF DevType, WifiType
<1> DEFINE a == <<"unknown", 0>>
           b == <<"hits", d.hits + 1>>
           c == <<"junk", 0>>
           e == <<"mode", d.wifi.opmode>>
<1>2. \A x \in {a, b, c, e} : x \in PageItems /\ Open(x) = <<"value", 0>>
  BY <1>1 DEF PageItems, Open
<1>3. \E x \in {a, b, c, e} : TplValue(callback, token, d).text = <<x>>
  BY DEF TplValue, TplLed, TplCounter, TplWlan, Text, TplCallbacks
<1> QED BY <1>2, <1>3

(* What a step adds is what the character adds to the page.                 *)
LEMMA PageGrows ==
  ASSUME NEW text \in Seq(Nat), NEW p \in Nat, NEW k \in Nat, p + k + 1 <= Len(text),
         NEW st, NEW t, NEW x, NEW d, NEW e, LoopPage(st, text, p, k, d), Adds(st, t, x),
         Valueless(x) = Added(text, p + k + 1), TokenIs(text, p + k + 1, t.token),
         TplState(t, e)
  PROVE  LoopPage(t, text, p, k + 1, e)
<1> DEFINE N == p + k + 1
           E == Expansion(text)
           a == Said(st)
           b == Said(t)
<1>0. N \in 1..Len(text) /\ N - 1 = p + k /\ p + (k + 1) = N /\ N - 1 \in 0..Len(text)
      /\ p \in 0..Len(text)
  OBVIOUS
<1>1. /\ a \in Seq(PageItems) /\ Len(a) <= k /\ Len(a) \in Nat
      /\ x \in Seq(PageItems) /\ Len(x) <= 1 /\ Len(x) \in Nat /\ b = a \o x
  <2>1. st.out \in Seq(PageItems) /\ st.text \in Seq(Nat) /\ Len(a) <= k
    BY DEF LoopPage
  <2>2. a \in Seq(PageItems)
    BY <2>1, SaidIs
  <2>3. x \in Seq(PageItems) /\ Len(x) <= 1 /\ b = a \o x
    BY DEF Adds
  <2> HIDE DEF a, b
  <2>4. Len(a) \in Nat /\ Len(x) \in Nat
    BY <2>2, <2>3
  <2> QED BY <2>1, <2>2, <2>3, <2>4
<1>2. t.out \in Seq(PageItems) /\ t.text \in Seq(Nat) /\ (t.token # NULL => t.text = <<>>)
  BY DEF Adds
<1>3. E[p] \o Valueless(a) = E[N - 1]
  BY <1>0 DEF LoopPage
<1>4. E[N] = E[N - 1] \o Added(text, N) /\ E[p] \in Seq(PageItems)
  BY <1>0, ExpansionIs
<1>5. Valueless(x) = Added(text, N) /\ TokenIs(text, p + (k + 1), t.token)
  BY <1>0
<1> HIDE DEF N, E, a, b
<1>6. Len(b) <= k + 1
  <2>1. Len(b) = Len(a) + Len(x)
    BY <1>1, Joined
  <2> QED BY <1>1, <2>1
<1>7. E[p] \o Valueless(b) = E[N]
  <2>1. Valueless(b) = Valueless(a) \o Valueless(x)
    BY <1>1, ValuelessJoined
  <2>2. Valueless(a) \in Seq(PageItems) /\ Valueless(x) \in Seq(PageItems)
    BY <1>1, ValuelessIs
  <2>3. E[p] \o (Valueless(a) \o Valueless(x)) = (E[p] \o Valueless(a)) \o Valueless(x)
    <3> DEFINE w == E[p]
               u == Valueless(a)
               v == Valueless(x)
    <3>1. w \in Seq(PageItems) /\ u \in Seq(PageItems) /\ v \in Seq(PageItems)
      BY <1>4, <2>2
    <3> HIDE DEF w, u, v
    <3>2. Regroups(w, u, v)
      BY <3>1, Associative
    <3> QED BY <3>2 DEF Regroups, w, u, v
  <2> QED BY <1>3, <1>4, <1>5, <2>1, <2>3
<1> QED BY <1>0, <1>2, <1>5, <1>6, <1>7 DEF LoopPage, N, E, b

LEMMA PageStep ==
  ASSUME BlockFits, NEW callback \in TplCallbacks, NEW text \in Seq(Nat),
         NEW p \in Nat, NEW k \in Nat, p + k + 1 <= Len(text), k + 1 <= BlockLen,
         NEW st, NEW d \in DevType, LoopPage(st, text, p, k, d)
  PROVE  LoopPage(TplStep(st, text[p + k + 1], callback), text, p, k + 1, d)
<1> DEFINE N == p + k + 1
           c == text[N]
           t == TplStep(st, c, callback)
<1>0. N \in 1..Len(text) /\ c \in Nat /\ N - 1 = p + k /\ k <= BlockLen
  BY HttpdEspFsAssumption
<1>1. /\ TplState(st, d) /\ st.out \in Seq(PageItems) /\ st.text \in Seq(Nat)
      /\ Len(Said(st)) <= k /\ (st.token # NULL => st.text = <<>>)
      /\ TokenIs(text, N - 1, st.token)
  BY <1>0 DEF LoopPage
<1>2. TplState(t, d)
  BY <1>0, <1>1, TplStepKeeps
<1>3. /\ c = Percent => (InToken(text, N) <=> ~InToken(text, N - 1))
      /\ c # Percent => (InToken(text, N) <=> InToken(text, N - 1))
  BY <1>0, Parity
<1>4. st.token # NULL <=> InToken(text, N - 1)
  BY <1>1 DEF TokenIs
<1>5. st.token # NULL => (st.token = <<>> <=> text[N - 1] = Percent)
  BY <1>1 DEF TokenIs
<1>6. st.token # NULL => st.token \in Seq(Nat)
  BY <1>1 DEF TplState, TokenType
<1>7. /\ InToken(text, N) => Added(text, N) = <<>>
      /\ ~InToken(text, N) /\ c # Percent => Added(text, N) = << <<"char", c>> >>
      /\ ~InToken(text, N) /\ c = Percent /\ text[N - 1] = Percent
           => Added(text, N) = << <<"char", Percent>> >>
      /\ ~InToken(text, N) /\ c = Percent /\ text[N - 1] # Percent
           => Added(text, N) = << <<"value", 0>> >>
  BY <1>0, AddedIs
<1>8. Valueless(<<>>) = <<>>
  BY DEF Valueless
<1>9. \E x : Adds(st, t, x) /\ Valueless(x) = Added(text, N) /\ TokenIs(text, N, t.token)
  <2> HIDE DEF N, c
  <2>1. CASE st.token = NULL /\ c = Percent
    <3> DEFINE v == [st EXCEPT !.out = Send(st.out, Chars(st.text)), !.text = <<>>, !.token = <<>>]
    <3>1. t = v
      BY <2>1 DEF TplStep
    <3>2. Adds(st, v, <<>>)
      BY <1>0, <1>1, TokenBegins
    <3>3. v.token = <<>>
      BY <1>1 DEF TplState
    <3> HIDE DEF v, t
    <3>4. TokenIs(text, N, t.token)
      BY <1>3, <1>4, <2>1, <3>1, <3>3, NullIsNoToken DEF TokenIs, c
    <3>5. Added(text, N) = <<>>
      BY <1>3, <1>4, <1>7, <2>1
    <3> QED BY <1>8, <3>1, <3>2, <3>4, <3>5
  <2>2. CASE st.token = NULL /\ c # Percent
    <3> DEFINE v == [st EXCEPT !.text = Append(@, c)]
               x == <<"char", c>>
    <3>1. t = v
      BY <2>2 DEF TplStep
    <3>2. Adds(st, v, <<x>>)
      BY <1>0, <1>1, <2>2, TextGrows
    <3>3. v.token = NULL
      BY <1>1, <2>2 DEF TplState
    <3>4. x \in PageItems /\ Closed4(x)
      BY <1>0 DEF PageItems, Closed4
    <3>5. Added(text, N) = <<x>>
      BY <1>3, <1>4, <1>7, <2>2
    <3> HIDE DEF v, t, x
    <3>6. Valueless(<<x>>) = <<x>>
      BY <3>4, OneValue
    <3>7. TokenIs(text, N, t.token)
      BY <1>3, <1>4, <2>2, <3>1, <3>3 DEF TokenIs
    <3> QED BY <3>1, <3>2, <3>5, <3>6, <3>7
  <2>3. CASE st.token # NULL /\ c # Percent
    <3> DEFINE u == IF Len(st.token) < TokenMax THEN Append(st.token, c) ELSE st.token
               v == [st EXCEPT !.token = u]
    <3>1. t = v
      BY <2>3 DEF TplStep
    <3>2. u \in Seq(Nat) /\ u # <<>>
      <4>1. st.token \in Seq(Nat) /\ TokenMax >= 1 /\ TokenMax \in Nat
        BY <1>6, <2>3, HttpdEspFsAssumption
      <4>2. CASE Len(st.token) < TokenMax
        <5>1. Append(st.token, c) \in Seq(Nat) /\ Append(st.token, c) # <<>>
          <6> HIDE DEF c
          <6> DEFINE q == st.token
          <6>1. q \in Seq(Nat) /\ c \in Nat
            BY <1>0, <4>1
          <6> HIDE DEF q
          <6>2. Append(q, c) \in Seq(Nat) /\ Len(Append(q, c)) = Len(q) + 1 /\ Len(q) \in Nat
            BY <6>1
          <6> QED BY <6>1, AppendedIs DEF q
        <5> QED BY <4>2, <5>1
      <4>3. CASE ~(Len(st.token) < TokenMax)
        <5>1. st.token # <<>>
          BY <4>1, <4>3
        <5> QED BY <4>1, <4>3, <5>1
      <4> QED BY <4>2, <4>3
    <3>3. v.token = u /\ v.out = st.out /\ v.text = st.text
      BY <1>1 DEF TplState
    <3> HIDE DEF u, v, t
    <3>4. Adds(st, v, <<>>)
      <4>1. Said(v) = Said(st)
        BY <3>3 DEF Said
      <4>2. Said(st) \o <<>> = Said(st)
        BY <1>1, SaidIs, NothingAdded
      <4>3. <<>> \in Seq(PageItems) /\ Len(<<>>) <= 1
        OBVIOUS
      <4> QED BY <1>1, <2>3, <3>3, <4>1, <4>2, <4>3 DEF Adds
    <3>5. TokenIs(text, N, t.token)
      BY <1>3, <1>4, <2>3, <3>1, <3>2, <3>3, NullIsNoToken DEF TokenIs, c
    <3>6. Added(text, N) = <<>>
      BY <1>3, <1>4, <1>7, <2>3
    <3> QED BY <1>8, <3>1, <3>4, <3>5, <3>6
  <2>4. CASE st.token # NULL /\ c = Percent /\ st.token = <<>>
    <3> DEFINE x == <<"char", Percent>>
               v == [st EXCEPT !.out = Send(st.out, <<x>>), !.token = NULL]
    <3>1. t = v
      <4>1. Chars(<<Percent>>) = <<x>>
        BY DEF Chars
      <4> QED BY <2>4, <4>1 DEF TplStep
    <3>2. x \in PageItems /\ Closed4(x)
      BY DEF PageItems, Closed4, Percent
    <3>3. Added(text, N) = <<x>>
      BY <1>3, <1>4, <1>5, <1>7, <2>4
    <3>4. v.out = Send(st.out, <<x>>) /\ v.text = st.text /\ v.token = NULL
      BY <1>1 DEF TplState
    <3> HIDE DEF x, v, t
    <3>5. Adds(st, v, <<x>>)
      BY <1>1, <2>4, <3>2, <3>4, ItemSent
    <3>6. Valueless(<<x>>) = <<x>>
      BY <3>2, OneValue
    <3>7. TokenIs(text, N, t.token)
      BY <1>3, <1>4, <2>4, <3>1, <3>4 DEF TokenIs
    <3> QED BY <3>1, <3>3, <3>5, <3>6, <3>7
  <2>5. CASE st.token # NULL /\ c = Percent /\ st.token # <<>>
    <3>0. st.dev \in DevType
      BY <1>1 DEF TplState, SameButHits
    <3> DEFINE w == TplValue(callback, st.token, st.dev)
    <3>1. PICK x \in PageItems : w.text = <<x>> /\ Open(x) = <<"value", 0>>
      BY <3>0, TokenValue
    <3> DEFINE v == [st EXCEPT !.out = Send(st.out, w.text), !.dev = w.dev, !.token = NULL]
    <3>2. t = v
      BY <2>5 DEF TplStep
    <3>3. Added(text, N) = << <<"value", 0>> >>
      BY <1>3, <1>4, <1>5, <1>7, <2>5
    <3> HIDE DEF w
    <3>4. v.out = Send(st.out, <<x>>) /\ v.text = st.text /\ v.token = NULL
      BY <1>1, <3>1 DEF TplState
    <3> HIDE DEF v, t
    <3>5. Adds(st, v, <<x>>)
      BY <1>1, <2>5, <3>4, ItemSent
    <3>6. Valueless(<<x>>) = << <<"value", 0>> >>
      BY <3>1, OneValue
    <3>7. TokenIs(text, N, t.token)
      BY <1>3, <1>4, <2>5, <3>2, <3>4 DEF TokenIs
    <3> QED BY <3>2, <3>3, <3>5, <3>6, <3>7
  <2> QED BY <2>1, <2>2, <2>3, <2>4, <2>5
<1>10. PICK x : Adds(st, t, x) /\ Valueless(x) = Added(text, N) /\ TokenIs(text, N, t.token)
  BY <1>9
<1> HIDE DEF t
<1> QED BY <1>0, <1>2, <1>10, PageGrows DEF t

(* The whole block.                                                         *)
LEMMA TplLoopIs ==
  ASSUME NEW f, NEW buff, NEW token, NEW d, NEW callback, NEW N \in Nat,
         IsTplLoop(f, buff, token, d, callback, N), NEW n \in 1..N
  PROVE  f[n] = TplStep(f[n - 1], buff[n], callback)
BY DEF IsTplLoop

(* What a template says between two of its characters.                      *)
Says(text, p, q, st) ==
  /\ st.out \in Seq(PageItems) /\ TokenIs(text, q, st.token)
  /\ Expansion(text)[p] \o Valueless(st.out) = Expansion(text)[q]

LEMMA BlockSaid ==
  ASSUME BlockFits, NEW callback \in TplCallbacks, NEW text \in Seq(Nat), NEW p \in Nat,
         NEW buff \in Seq(Nat), Len(buff) <= BlockLen, p + Len(buff) <= Len(text),
         \A k \in 1..Len(buff) : buff[k] = text[p + k],
         NEW token \in TokenType, TokenIs(text, p, token), NEW d \in DevType
  PROVE  Says(text, p, p + Len(buff), TplBlock(buff, token, d, callback))
<1> DEFINE upto == CHOOSE f : IsTplLoop(f, buff, token, d, callback, Len(buff))
           st   == upto[Len(buff)]
           M    == Len(buff)
           E    == Expansion(text)
<1>0. M \in Nat /\ p \in 0..Len(text) /\ p + M \in 0..Len(text) /\ M <= BlockLen
  BY HttpdEspFsAssumption
<1>1. TplBlock(buff, token, d, callback) = [st EXCEPT !.out = Send(st.out, Chars(st.text))]
  BY DEF TplBlock, IsTplLoop
<1>2. \E f : IsTplLoop(f, buff, token, d, callback, M)
  BY <1>0, TplLoopExists
<1>3. IsTplLoop(upto, buff, token, d, callback, M)
  BY <1>2
<1> HIDE DEF upto
<1>4. LoopPage(upto[0], text, p, 0, d)
  <2> DEFINE t == [token |-> token, text |-> <<>>, out |-> <<>>, dev |-> d]
  <2>1. upto[0] = t
    BY <1>0, <1>3 DEF IsTplLoop
  <2>2. SameButHits(d, d)
    BY DEF SameButHits
  <2>3. TplState(t, d) /\ t.out = <<>> /\ t.text = <<>> /\ t.token = token
    BY <2>2 DEF TplState
  <2> HIDE DEF t
  <2>4. <<>> \in Seq(PageItems) /\ <<>> \in Seq(Nat) /\ Len(<<>>) = 0
    OBVIOUS
  <2>5. Said(t) = <<>>
    BY <2>3, <2>4, NoChars, NothingAdded DEF Said
  <2>6. Valueless(<<>>) = <<>>
    BY DEF Valueless
  <2>7. E[p] \in Seq(PageItems)
    BY <1>0, ExpansionIs
  <2>8. E[p] \o Valueless(Said(t)) = E[p + 0]
    BY <1>0, <2>5, <2>6, <2>7, NothingAdded
  <2>9. TokenIs(text, p + 0, t.token) /\ Len(Said(t)) <= 0
    BY <1>0, <2>3, <2>4, <2>5
  <2> QED BY <2>1, <2>3, <2>4, <2>8, <2>9 DEF LoopPage
<1>5. ASSUME NEW n \in 1..M, LoopPage(upto[n - 1], text, p, n - 1, d)
      PROVE  LoopPage(upto[n], text, p, n, d)
  <2> DEFINE k == n - 1
  <2>1. upto[n] = TplStep(upto[k], buff[n], callback)
    <3>1. upto[n] = TplStep(upto[n - 1], buff[n], callback)
      BY <1>0, <1>3, TplLoopIs
    <3> QED BY <3>1
  <2>2. k \in Nat /\ k + 1 = n /\ p + k + 1 = p + n /\ p + k + 1 <= Len(text) /\ k + 1 <= BlockLen
    BY <1>0, HttpdEspFsAssumption
  <2>3. buff[n] = text[p + k + 1]
    BY <2>2
  <2>4. LoopPage(upto[k], text, p, k, d)
    BY <1>5
  <2> HIDE DEF k
  <2>5. LoopPage(TplStep(upto[k], text[p + k + 1], callback), text, p, k + 1, d)
    BY <2>2, <2>4, PageStep
  <2> QED BY <2>1, <2>2, <2>3, <2>5
<1>6. \A n \in 0..M : LoopPage(upto[n], text, p, n, d)
  <2> DEFINE Bad == {n \in 0..M : ~LoopPage(upto[n], text, p, n, d)}
  <2> SUFFICES ASSUME Bad # {} PROVE FALSE
    OBVIOUS
  <2>1. PICK n \in Bad : \A m \in Bad : n <= m
    <3>1. Bad \subseteq Nat
      BY <1>0
    <3> HIDE DEF Bad
    <3> QED BY <3>1, LeastNumber
  <2>2. n # 0
    BY <1>4, <2>1
  <2>3. n \in 1..M /\ n - 1 \in 0..M /\ n - 1 \notin Bad
    <3>1. n \in 0..M
      OBVIOUS
    <3> HIDE DEF Bad
    <3> QED BY <1>0, <2>1, <2>2, <3>1
  <2> QED BY <1>5, <2>1, <2>3
<1>7. LoopPage(st, text, p, M, d)
  BY <1>0, <1>6
<1> HIDE DEF st, M, E
<1>8. /\ st.out \in Seq(PageItems) /\ st.text \in Seq(Nat) /\ Len(Said(st)) <= M
      /\ TplState(st, d) /\ TokenIs(text, p + M, st.token)
      /\ E[p] \o Valueless(Said(st)) = E[p + M]
  BY <1>7 DEF LoopPage, E
<1>9. Send(st.out, Chars(st.text)) = Said(st) /\ Said(st) \in Seq(PageItems)
  <2>1. /\ Said(st) \in Seq(PageItems) /\ Len(Said(st)) = Len(st.out) + Len(st.text)
        /\ Len(Chars(st.text)) = Len(st.text)
    BY <1>8, SaidIs
  <2> DEFINE a == st.out
             b == Chars(st.text)
  <2>2. Len(a) + Len(b) \in Nat /\ Len(a) + Len(b) <= M
    <3>1. Len(Said(st)) \in Nat
      BY <2>1, LenProperties
    <3> QED BY <1>8, <2>1, <3>1
  <2> HIDE DEF a, b
  <2>3. Send(a, b) = a \o b
    BY <1>0, <2>2, SendFits
  <2> QED BY <2>1, <2>3 DEF Said, a, b
<1> DEFINE u == TplBlock(buff, token, d, callback)
<1>10. u.out = Said(st) /\ u.token = st.token
  BY <1>1, <1>8, <1>9 DEF TplState
<1> HIDE DEF u
<1>11. Expansion(text)[p] \o Valueless(u.out) = Expansion(text)[p + Len(buff)]
  BY <1>8, <1>10 DEF E, M
<1>12. u.out \in Seq(PageItems) /\ TokenIs(text, p + Len(buff), u.token)
  BY <1>8, <1>9, <1>10 DEF M
<1> QED BY <1>11, <1>12 DEF Says, u

(* What is read of a file: a full block, or the rest.                       *)
LEMMA BlockIs ==
  ASSUME NEW file, file.name \in DOMAIN Files, file.pos \in Nat,
         file.pos <= Len(Files[file.name].data)
  PROVE  LET data == Files[file.name].data
             buff == Block(file)
         IN /\ data \in Seq(Nat) /\ buff \in Seq(Nat) /\ Len(buff) <= BlockLen
            /\ file.pos + Len(buff) <= Len(data)
            /\ \A k \in 1..Len(buff) : buff[k] = data[file.pos + k]
            /\ Len(buff) # BlockLen => file.pos + Len(buff) = Len(data)
<1> DEFINE data == Files[file.name].data
           p == file.pos
           N == Len(data)
           L == p + BlockLen
           last == Min({L, N})
           buff == Block(file)
<1>1. data \in Seq(Nat) /\ N \in Nat
  BY HttpdEspFsAssumption
<1>2. L \in Nat /\ BlockLen \in Nat /\ p \in Nat /\ p <= N
  BY HttpdEspFsAssumption
<1>3. buff = SubSeq(data, p + 1, last)
  BY DEF Block
<1>4. L = p + BlockLen
  OBVIOUS
<1> HIDE DEF data, p, L, buff
<1>5. last \in {L, N} /\ last <= L /\ last <= N
  <2> HIDE DEF N
  <2> QED BY <1>1, <1>2, MinOfTwo
<1> HIDE DEF last
<1>6. last \in Nat /\ p <= last
  BY <1>1, <1>2, <1>4, <1>5
<1>7. Len(buff) = last - p /\ \A k \in 1..(last - p) : buff[k] = data[p + k]
  <2>1. p + 1 \in 1..(N + 1) /\ last \in (p + 1 - 1)..N
    BY <1>1, <1>2, <1>5, <1>6
  <2>2. \A k \in 1..(last - p) : p + 1 + k - 1 = p + k
    BY <1>2, <1>6
  <2>3. last - (p + 1) + 1 = last - p
    BY <1>2, <1>6
  <2>4. CASE p = last
    <3>1. SubSeq(data, p + 1, last) = <<>>
      BY <1>1, <1>2, <2>4
    <3> QED BY <1>2, <1>3, <2>4, <3>1
  <2>5. CASE p < last
    <3>1. /\ Len(SubSeq(data, p + 1, last)) = last - (p + 1) + 1
          /\ \A k \in 1..(last - (p + 1) + 1) : SubSeq(data, p + 1, last)[k] = data[p + 1 + k - 1]
      BY <1>1, <1>2, <1>5, <1>6, <2>5
    <3> QED BY <1>3, <2>2, <2>3, <3>1
  <2> QED BY <1>2, <1>6, <2>4, <2>5
<1>8. buff \in Seq(Nat)
  BY BlockType DEF buff
<1>9. /\ Len(buff) <= BlockLen /\ p + Len(buff) <= N
      /\ Len(buff) # BlockLen => p + Len(buff) = N
  BY <1>1, <1>2, <1>4, <1>5, <1>6, <1>7
<1>10. \A k \in 1..Len(buff) : buff[k] = data[p + k]
  BY <1>7
<1> QED BY <1>1, <1>8, <1>9, <1>10 DEF data, p, buff

(* The body of an answer, as far as it has been sent.                       *)
LEMMA FileIs ==
  ASSUME NEW f \in DOMAIN Files
  PROVE  Files[f].data \in Seq(Nat) /\ Len(Files[f].data) \in Nat /\ Files[f].gzip \in BOOLEAN
<1>1. Files[f].data \in Seq(Nat) /\ Files[f].gzip \in BOOLEAN
  BY HttpdEspFsAssumption
<1> QED BY <1>1, LenProperties

Numbered(c, n) == [k \in 1..n |-> c[k]]

LEMMA NumberedIs ==
  ASSUME NEW S, NEW N \in Nat, NEW c \in [1..N -> S], NEW n \in 0..N
  PROVE  /\ Numbered(c, n) \in Seq(S) /\ Len(Numbered(c, n)) = n
         /\ \A k \in 1..n : Numbered(c, n)[k] = c[k]
         /\ \A m \in n..N : Begins(Numbered(c, n), Numbered(c, m))
<1>1. \A m \in 0..N : /\ Numbered(c, m) \in Seq(S) /\ Len(Numbered(c, m)) = m
                      /\ \A k \in 1..m : Numbered(c, m)[k] = c[k]
  <2> SUFFICES ASSUME NEW m \in 0..N
               PROVE  /\ Numbered(c, m) \in Seq(S) /\ Len(Numbered(c, m)) = m
                      /\ \A k \in 1..m : Numbered(c, m)[k] = c[k]
    OBVIOUS
  <2>1. \A k \in 1..m : c[k] \in S
    OBVIOUS
  <2>2. Numbered(c, m) \in [1..m -> S] /\ m \in Nat
    BY <2>1 DEF Numbered
  <2>3. \A k \in 1..m : Numbered(c, m)[k] = c[k]
    BY DEF Numbered
  <2> HIDE DEF Numbered
  <2> QED BY <2>2, <2>3
<1>2. ASSUME NEW m \in n..N
      PROVE  Begins(Numbered(c, n), Numbered(c, m))
  <2>1. m \in 0..N /\ n <= m
    OBVIOUS
  <2>2. \A k \in 1..n : k \in 1..m
    OBVIOUS
  <2> QED BY <1>1, <2>1, <2>2 DEF Begins
<1> QED BY <1>1, <1>2

(* The characters of a file, the blocks of the flash.                       *)
LEMMA BodyIsNumbered ==
  ASSUME NEW req
  PROVE  /\ AsksFlash(req) =>
              LET c == [k \in 1..Size(req) |-> <<"block", k - 1>>]
              IN /\ c \in [1..Size(req) -> PageItems] /\ Size(req) \in Nat
                 /\ \A n \in 0..Size(req) : Body(req, n) = Numbered(c, n)
                 /\ Expected(req) = Status(200) \o Numbered(c, Size(req))
         /\ req.url \in DOMAIN Files /\ ~AsksFlash(req) /\ ~AsksTemplate(req) =>
              LET c == [k \in 1..Size(req) |-> <<"char", Files[req.url].data[k]>>]
              IN /\ c \in [1..Size(req) -> PageItems] /\ Size(req) \in Nat
                 /\ \A n \in 0..Size(req) : Body(req, n) = Numbered(c, n)
                 /\ Expected(req) = Status(200) \o Numbered(c, Size(req))
<1>1. ASSUME AsksFlash(req)
      PROVE  LET c == [k \in 1..Size(req) |-> <<"block", k - 1>>]
             IN /\ c \in [1..Size(req) -> PageItems] /\ Size(req) \in Nat
                /\ \A n \in 0..Size(req) : Body(req, n) = Numbered(c, n)
                /\ Expected(req) = Status(200) \o Numbered(c, Size(req))
  <2> DEFINE N == Size(req)
             c == [k \in 1..N |-> <<"block", k - 1>>]
  <2>1. N = FlashBlocks /\ N \in Nat
    BY <1>1, CgiFlashAssumption DEF Size
  <2> HIDE DEF N
  <2>2. c \in [1..N -> PageItems]
    BY <2>1 DEF PageItems
  <2>3. ASSUME NEW n \in 0..N
        PROVE  Body(req, n) = Numbered(c, n)
    <3>1. \A k \in 1..n : k \in 1..N
      BY <2>1
    <3>2. Body(req, n) = [k \in 1..n |-> <<"block", k - 1>>]
      BY <1>1 DEF Body
    <3> QED BY <3>1, <3>2 DEF Numbered
  <2>4. Expected(req) = Status(200) \o Blocks
    BY <1>1 DEF Expected, AsksFlash
  <2>5. Blocks = Numbered(c, N)
    BY <2>1 DEF Blocks, Numbered
  <2> QED BY <2>1, <2>2, <2>3, <2>4, <2>5 DEF N
<1>2. ASSUME req.url \in DOMAIN Files, ~AsksFlash(req), ~AsksTemplate(req)
      PROVE  LET c == [k \in 1..Size(req) |-> <<"char", Files[req.url].data[k]>>]
             IN /\ c \in [1..Size(req) -> PageItems] /\ Size(req) \in Nat
                /\ \A n \in 0..Size(req) : Body(req, n) = Numbered(c, n)
                /\ Expected(req) = Status(200) \o Numbered(c, Size(req))
  <2> DEFINE data == Files[req.url].data
             N == Size(req)
             c == [k \in 1..N |-> <<"char", data[k]>>]
  <2>1. N = Len(data) /\ N \in Nat /\ data \in Seq(Nat)
    BY <1>2, FileIs DEF Size
  <2>4. Expected(req) = Status(200) \o Chars(data)
    BY <1>2 DEF Expected, AsksFlash, AsksTemplate
  <2>5. \A n \in 0..N : Body(req, n) = [k \in 1..n |-> <<"char", data[k]>>]
    BY <1>2 DEF Body
  <2> HIDE DEF N, data
  <2>2. c \in [1..N -> PageItems]
    <3>1. \A k \in 1..N : data[k] \in Nat
      BY <2>1
    <3> QED BY <3>1 DEF PageItems
  <2>3. ASSUME NEW n \in 0..N
        PROVE  Body(req, n) = Numbered(c, n)
    <3>1. \A k \in 1..n : k \in 1..N
      BY <2>1
    <3> QED BY <2>5, <3>1 DEF Numbered
  <2>6. Chars(data) = Numbered(c, N)
    <3>1. DOMAIN data = 1..N
      BY <2>1, LenProperties
    <3> QED BY <3>1 DEF Chars, Numbered
  <2> QED BY <2>1, <2>2, <2>3, <2>4, <2>6 DEF N, data
<1> QED BY <1>1, <1>2

LEMMA TemplateIs ==
  ASSUME NEW req, AsksTemplate(req), req.url \in DOMAIN Files
  PROVE  /\ Size(req) \in Nat /\ Size(req) = Len(Files[req.url].data)
         /\ \A n : Body(req, n) = Expansion(Files[req.url].data)[n]
         /\ Expected(req) = Status(200) \o Expansion(Files[req.url].data)[Size(req)]
<1>1. ~AsksFlash(req) /\ req.url \in Templates /\ ~Files[req.url].gzip /\ req.url # "/flash.bin"
  BY DEF AsksTemplate, AsksFlash
<1>2. Size(req) = Len(Files[req.url].data) /\ Size(req) \in Nat
  BY <1>1, FileIs DEF Size
<1> QED BY <1>1, <1>2 DEF Body, Expected

LEMMA BodyIs ==
  ASSUME NEW req, Streamed(req), NEW n \in 0..Size(req)
  PROVE  /\ Size(req) \in Nat /\ Body(req, n) \in Seq(PageItems)
         /\ Body(req, 0) = <<>>
         /\ Expected(req) = Status(200) \o Body(req, Size(req))
         /\ \A m \in n..Size(req) : Begins(Body(req, n), Body(req, m))
<1>0. AsksFlash(req) \/ req.url \in DOMAIN Files
  BY DEF Streamed, AsksFlash
<1>1. ASSUME NEW c \in [1..Size(req) -> PageItems], Size(req) \in Nat,
             \A k \in 0..Size(req) : Body(req, k) = Numbered(c, k),
             Expected(req) = Status(200) \o Numbered(c, Size(req))
      PROVE  /\ Size(req) \in Nat /\ Body(req, n) \in Seq(PageItems)
             /\ Body(req, 0) = <<>>
             /\ Expected(req) = Status(200) \o Body(req, Size(req))
             /\ \A m \in n..Size(req) : Begins(Body(req, n), Body(req, m))
  <2> DEFINE N == Size(req)
  <2>1. N \in 0..N /\ 0 \in 0..N /\ n \in 0..N /\ \A m \in n..N : m \in 0..N
    BY <1>1
  <2>2. Numbered(c, 0) = <<>>
    BY DEF Numbered
  <2>3. Body(req, 0) = <<>> /\ Body(req, N) = Numbered(c, N) /\ Body(req, n) = Numbered(c, n)
    BY <1>1, <2>1, <2>2
  <2>4. \A m \in n..N : Body(req, m) = Numbered(c, m)
    BY <1>1, <2>1
  <2>5. Numbered(c, n) \in Seq(PageItems) /\ \A m \in n..N : Begins(Numbered(c, n), Numbered(c, m))
    BY <1>1, <2>1, NumberedIs
  <2> QED BY <1>1, <2>3, <2>4, <2>5
<1>2. CASE AsksFlash(req)
  BY <1>1, <1>2, BodyIsNumbered
<1>3. CASE req.url \in DOMAIN Files /\ ~AsksFlash(req) /\ ~AsksTemplate(req)
  BY <1>1, <1>3, BodyIsNumbered
<1>4. CASE req.url \in DOMAIN Files /\ AsksTemplate(req)
  <2> DEFINE text == Files[req.url].data
             E == Expansion(text)
  <2>1. Size(req) \in Nat /\ Size(req) = Len(text) /\ text \in Seq(Nat)
        /\ Expected(req) = Status(200) \o E[Size(req)] /\ \A m : Body(req, m) = E[m]
    BY <1>4, TemplateIs, FileIs
  <2> HIDE DEF text
  <2>2. E[0] = <<>> /\ E[n] \in Seq(PageItems)
    BY <2>1, ExpansionIs
  <2>3. \A m \in n..Size(req) : Begins(E[n], E[m])
    BY <2>1, ExpansionGrows
  <2> HIDE DEF E
  <2> QED BY <2>1, <2>2, <2>3
<1> QED BY <1>0, <1>2, <1>3, <1>4

(* A piece more.                                                            *)
LEMMA PageMore ==
  ASSUME NEW req, Streamed(req), NEW n \in 0..Size(req), NEW m \in 0..Size(req),
         NEW o \in Seq(PageItems), Valueless(o) = Sofar(req, n), NEW x \in Seq(PageItems),
         Body(req, n) \o Valueless(x) = Body(req, m)
  PROVE  /\ o \o x \in Seq(PageItems) /\ Valueless(o \o x) = Sofar(req, m)
         /\ m = Size(req) => PageIsDone(req, o \o x)
<1> DEFINE h == Status(200)
           a == Body(req, n)
           v == Valueless(x)
<1>1. h \in Seq(PageItems) /\ a \in Seq(PageItems) /\ v \in Seq(PageItems)
  BY StatusIs, BodyIs, ValuelessIs
<1>2. o \o x \in Seq(PageItems)
  BY Joined
<1>3. Valueless(o \o x) = (h \o a) \o v
  <2>1. Valueless(o \o x) = Valueless(o) \o Valueless(x)
    BY ValuelessJoined
  <2> QED BY <2>1 DEF Sofar
<1> HIDE DEF h, a, v
<1>5. Regroups(h, a, v)
  BY <1>1, Associative
<1>6. Valueless(o \o x) = Status(200) \o Body(req, m)
  <2>1. (h \o a) \o v = h \o (a \o v)
    BY <1>5 DEF Regroups
  <2> QED BY <1>3, <2>1 DEF h, a, v
<1>7. m = Size(req) => Valueless(o \o x) = Expected(req)
  BY <1>6, BodyIs
<1> QED BY <1>2, <1>6, <1>7 DEF Sofar, PageIsDone

(* The calls that send it.                                                  *)
LEMMA FlashMoves ==
  ASSUME NEW s \in SlotType, s.conn # NULL, s.data \in [pos : Nat], NEW d
  PROVE  LET r == ReadFlash(s, d)
         IN /\ r.out = << <<"block", s.data.pos>> >> /\ r.data = [pos |-> s.data.pos + 1]
            /\ r.ret = IF s.data.pos + 1 >= FlashBlocks THEN "DONE" ELSE "MORE"
<1>1. s.data # NULL
  BY NullAssumption
<1> DEFINE t == [s EXCEPT !.data.pos = @ + 1]
           ret == IF s.data.pos + 1 >= FlashBlocks THEN "DONE" ELSE "MORE"
           o == << <<"block", s.data.pos>> >>
<1>2. ReadFlash(s, d) = Result(ret, t, o, d)
  BY <1>1 DEF ReadFlash
<1>3. t.data = [pos |-> s.data.pos + 1]
  BY DEF SlotType
<1> HIDE DEF t
<1> QED BY <1>2, <1>3, ResultIs

LEMMA FileMoves ==
  ASSUME NEW s \in SlotType, s.conn # NULL, s.data \in EspFsFile, NEW d
  PROVE  LET r == EspFsHook(s, d)
             buff == Block(s.data)
         IN /\ r.out = Chars(buff)
            /\ Len(buff) # BlockLen => r.ret = "DONE"
            /\ Len(buff) = BlockLen =>
                  r.ret = "MORE" /\ r.data = [s.data EXCEPT !.pos = @ + BlockLen]
<1>1. s.data # NULL
  BY NullAssumption
<1> DEFINE buff == Block(s.data)
           t == [s EXCEPT !.data.pos = @ + BlockLen]
<1>2. EspFsHook(s, d) = IF Len(buff) # BlockLen THEN Result("DONE", s, Chars(buff), Closed(d))
                        ELSE Result("MORE", t, Chars(buff), d)
  BY <1>1 DEF EspFsHook
<1>3. t.data = [s.data EXCEPT !.pos = @ + BlockLen]
  BY DEF SlotType
<1> HIDE DEF t, buff
<1> QED BY <1>2, <1>3, ResultIs DEF buff

LEMMA TemplateMoves ==
  ASSUME NEW s \in SlotType, s.conn # NULL, s.data \in TplData, NEW d, NEW callback,
         NEW buff, buff = Block(s.data), NEW st, st = TplBlock(buff, s.data.token, d, callback),
         NEW r, r = EspFsTemplate(s, d, callback)
  PROVE  /\ r.out = st.out
         /\ Len(buff) # BlockLen => r.ret = "DONE"
         /\ Len(buff) = BlockLen =>
               /\ r.ret = "MORE"
               /\ r.data = [name |-> s.data.name, pos |-> s.data.pos + BlockLen, token |-> st.token]
<1>1. s.data # NULL
  BY NullAssumption
<1> DEFINE t == [s EXCEPT !.data.pos = @ + BlockLen, !.data.token = st.token]
<1>2. r = IF Len(buff) # BlockLen THEN Result("DONE", s, st.out, Closed(st.dev))
          ELSE Result("MORE", t, st.out, st.dev)
  BY <1>1 DEF EspFsTemplate
<1>3. t.data = [name |-> s.data.name, pos |-> s.data.pos + BlockLen, token |-> st.token]
  <2> DEFINE q == s.data
             y == st.token
             m == q.pos + BlockLen
  <2>1. q \in TplData
    OBVIOUS
  <2>2. t.data = [q EXCEPT !.pos = m, !.token = y]
    BY DEF SlotType
  <2> HIDE DEF q, y, m
  <2>3. [q EXCEPT !.pos = m, !.token = y] = [name |-> q.name, pos |-> m, token |-> y]
    <3> DEFINE a == q.name
               w == [q EXCEPT !.pos = m, !.token = y]
    <3>1. w \in [name : {a}, pos : {m}, token : {y}]
      BY <2>1 DEF TplData
    <3> HIDE DEF a, w
    <3>2. w = [name |-> a, pos |-> m, token |-> y]
      BY <3>1
    <3> QED BY <3>2 DEF a, w
  <2> QED BY <2>2, <2>3 DEF q, y, m
<1> HIDE DEF t
<1> QED BY <1>2, <1>3, ResultIs

(* One call more.                                                           *)
LEMMA FlashPage ==
  ASSUME NEW s \in SlotType, s.conn # NULL, NEW d, AsksFlash(s.req), s.cgi = "cgiReadFlash",
         s.data \in [pos : Nat], s.data.pos < FlashBlocks,
         NEW o \in Seq(PageItems), Valueless(o) = Sofar(s.req, s.data.pos), ~(s.received < s.len),
         NEW r, r = ReadFlash(s, d), NEW t, SameRest(t, s), t.data = r.data,
         t.cgi = IF r.ret = "MORE" THEN s.cgi ELSE NULL
  PROVE  PageState(t, o \o r.out)
<1> DEFINE p == s.data.pos
           N == Size(s.req)
           x == <<"block", p>>
<1>1. p \in Nat /\ N \in Nat /\ N = FlashBlocks /\ p \in 0..N /\ p + 1 \in 0..N /\ Streamed(s.req)
  BY CgiFlashAssumption DEF Size, AsksFlash, Streamed
<1>2. r.out = <<x>> /\ r.data = [pos |-> p + 1]
      /\ r.ret = IF p + 1 >= FlashBlocks THEN "DONE" ELSE "MORE"
  BY FlashMoves
<1>3. x \in PageItems /\ Closed4(x)
  BY <1>1 DEF PageItems, Closed4
<1>4. Body(s.req, p) \o <<x>> = Body(s.req, p + 1)
  <2> DEFINE c == [k \in 1..(p + 1) |-> <<"block", k - 1>>]
  <2>1. c \in [1..(p + 1) -> PageItems]
    BY <1>1 DEF PageItems
  <2>2. c = [k \in 1..p |-> c[k]] \o [k \in 1..1 |-> c[p + k]]
    <3> HIDE DEF c, p
    <3> QED BY <1>1, <2>1, JoinedFcns
  <2>3. Body(s.req, p) = [k \in 1..p |-> c[k]] /\ Body(s.req, p + 1) = c
    BY <1>1 DEF Body
  <2>4. [k \in 1..1 |-> c[p + k]] = <<x>>
    <3>1. c[p + 1] = x
      BY <1>1
    <3> HIDE DEF c, p, x
    <3> QED BY <3>1
  <2> QED BY <2>2, <2>3, <2>4
<1> HIDE DEF x
<1>5. <<x>> \in Seq(PageItems) /\ Valueless(<<x>>) = <<x>>
  BY <1>3, OneValue, Single
<1> HIDE DEF p, N
<1>6. /\ o \o <<x>> \in Seq(PageItems) /\ Valueless(o \o <<x>>) = Sofar(s.req, p + 1)
      /\ p + 1 = N => PageIsDone(s.req, o \o <<x>>)
  <2>1. Valueless(o) = Sofar(s.req, p) /\ Body(s.req, p) \o Valueless(<<x>>) = Body(s.req, p + 1)
    BY <1>4, <1>5 DEF p
  <2> QED BY <1>1, <1>5, <2>1, PageMore DEF N
<1>7. t.req = s.req /\ ~(t.received < t.len)
  BY DEF SameRest
<1>8. CASE p + 1 >= FlashBlocks
  BY <1>1, <1>2, <1>6, <1>7, <1>8 DEF PageState
<1>9. CASE ~(p + 1 >= FlashBlocks)
  <2>1. t.cgi = "cgiReadFlash" /\ "cgiReadFlash" # NULL
    BY <1>2, <1>9, Names, NotNames
  <2>2. t.data \in [pos : Nat] /\ t.data.pos = p + 1 /\ p + 1 < FlashBlocks /\ p + 1 <= N
    BY <1>1, <1>2, <1>9
  <2>3. PageHandler(t)
    BY <1>7, <2>1, <2>2 DEF PageHandler
  <2> QED BY <1>2, <1>6, <1>7, <2>1, <2>2, <2>3 DEF PageState, N
<1> QED BY <1>8, <1>9

LEMMA FilePage ==
  ASSUME NEW s \in SlotType, s.conn # NULL, NEW d, ~AsksFlash(s.req), ~AsksTemplate(s.req),
         s.cgi = "cgiEspFsHook", s.data \in EspFsFile, s.data.name = s.req.url,
         s.data.pos <= Size(s.req),
         NEW o \in Seq(PageItems), Valueless(o) = Sofar(s.req, s.data.pos), ~(s.received < s.len),
         NEW r, r = EspFsHook(s, d), NEW t, SameRest(t, s), t.data = r.data,
         t.cgi = IF r.ret = "MORE" THEN s.cgi ELSE NULL
  PROVE  PageState(t, o \o r.out)
<1> DEFINE p == s.data.pos
           N == Size(s.req)
           data == Files[s.req.url].data
           buff == Block(s.data)
           n == Len(buff)
           m == p + n
           x == Chars(buff)
<1>1. p \in Nat /\ s.req.url \in DOMAIN Files /\ s.data.name \in DOMAIN Files /\ Streamed(s.req)
  BY DEF EspFsFile, Streamed
<1>2. N = Len(data) /\ N \in Nat /\ data \in Seq(Nat)
  BY <1>1, FileIs DEF Size
<1>3. /\ buff \in Seq(Nat) /\ n <= BlockLen /\ m <= N /\ n \in Nat
      /\ \A k \in 1..n : buff[k] = data[p + k]
      /\ n # BlockLen => m = N
  <2>1. s.data.pos <= Len(Files[s.data.name].data)
    BY <1>2
  <2> QED BY <1>1, <1>2, <2>1, BlockIs, LenProperties
<1>4. r.out = x /\ (n # BlockLen => r.ret = "DONE")
      /\ (n = BlockLen => r.ret = "MORE" /\ r.data = [s.data EXCEPT !.pos = @ + BlockLen])
  BY FileMoves
<1>5. x \in Seq(PageItems) /\ Valueless(x) = x /\ Len(x) = n
      /\ \A k \in 1..n : x[k] = <<"char", buff[k]>>
  BY <1>3, CharsAre
<1>6. x = [k \in 1..n |-> <<"char", buff[k]>>]
  <2>1. DOMAIN buff = 1..n
    BY <1>3, LenProperties
  <2> QED BY <2>1 DEF Chars
<1>7. \A k \in 0..N : Body(s.req, k) = [j \in 1..k |-> <<"char", data[j]>>]
  BY DEF Body
<1> HIDE DEF p, N, data, n, x, buff
<1>8. Body(s.req, p) \o x = Body(s.req, m)
  <2> DEFINE c == [k \in 1..m |-> <<"char", data[k]>>]
  <2>1. c \in [1..m -> PageItems]
    <3>1. \A k \in 1..m : data[k] \in Nat
      BY <1>1, <1>2, <1>3
    <3> QED BY <3>1 DEF PageItems
  <2>2. c = [k \in 1..p |-> c[k]] \o [k \in 1..n |-> c[p + k]]
    <3> HIDE DEF c
    <3> QED BY <1>1, <1>3, <2>1, JoinedFcns
  <2>3. Body(s.req, m) = c
    <3>1. m \in 0..N
      BY <1>1, <1>2, <1>3
    <3> HIDE DEF m
    <3> QED BY <1>7, <3>1
  <2>4. Body(s.req, p) = [k \in 1..p |-> c[k]]
    <3>1. \A k \in 1..p : k \in 1..m
      BY <1>1, <1>3
    <3>2. p \in 0..N
      BY <1>1, <1>2, <1>3
    <3> QED BY <1>7, <3>1, <3>2
  <2>5. [k \in 1..n |-> c[p + k]] = x
    <3>1. \A k \in 1..n : c[p + k] = <<"char", buff[k]>>
      <4>1. \A k \in 1..n : p + k \in 1..m
        BY <1>1, <1>3
      <4> QED BY <1>3, <4>1
    <3> HIDE DEF c
    <3> QED BY <1>6, <3>1
  <2> QED BY <2>2, <2>3, <2>4, <2>5
<1>9. p \in 0..N /\ m \in 0..N
  BY <1>1, <1>2, <1>3
<1> HIDE DEF m
<1>10. /\ o \o x \in Seq(PageItems) /\ Valueless(o \o x) = Sofar(s.req, m)
       /\ m = N => PageIsDone(s.req, o \o x)
  <2>1. Valueless(o) = Sofar(s.req, p) /\ Body(s.req, p) \o Valueless(x) = Body(s.req, m)
    BY <1>5, <1>8 DEF p
  <2> QED BY <1>1, <1>5, <1>9, <2>1, PageMore DEF N
<1>11. t.req = s.req /\ ~(t.received < t.len)
  BY DEF SameRest
<1>12. CASE n # BlockLen
  <2>1. t.cgi = NULL
    BY <1>4, <1>12
  <2>2. o \o r.out \in Seq(PageItems) /\ PageIsDone(t.req, o \o r.out)
    BY <1>3, <1>4, <1>10, <1>11, <1>12
  <2> QED BY <1>11, <2>1, <2>2 DEF PageState
<1>13. CASE n = BlockLen
  <2>1. t.cgi = "cgiEspFsHook" /\ "cgiEspFsHook" # NULL
    BY <1>4, <1>13, Names, NotNames
  <2>2. t.data = [s.data EXCEPT !.pos = m]
    BY <1>4, <1>13 DEF p, m
  <2>3. t.data \in EspFsFile /\ t.data.name = s.req.url /\ t.data.pos = m
    BY <1>9, <2>2 DEF EspFsFile
  <2>4. PageHandler(t)
    BY <1>11, <2>1, <2>3 DEF PageHandler
  <2>5. m <= Size(t.req)
    BY <1>9, <1>11 DEF N
  <2>6. o \o r.out \in Seq(PageItems) /\ Valueless(o \o r.out) = Sofar(t.req, t.data.pos)
    BY <1>4, <1>10, <1>11, <2>3
  <2> QED BY <1>11, <2>1, <2>3, <2>4, <2>5, <2>6 DEF PageState
<1> QED BY <1>12, <1>13

LEMMA TemplatePage ==
  ASSUME BlockFits, NEW s \in SlotType, s.conn # NULL, NEW d \in DevType, AsksTemplate(s.req),
         NEW callback \in TplCallbacks, s.cgi = callback, s.data \in TplData,
         s.data.name = s.req.url, TokenIs(Files[s.req.url].data, s.data.pos, s.data.token),
         s.data.pos <= Size(s.req),
         NEW o \in Seq(PageItems), Valueless(o) = Sofar(s.req, s.data.pos), ~(s.received < s.len),
         NEW r, r = EspFsTemplate(s, d, callback), NEW t, SameRest(t, s), t.data = r.data,
         t.cgi = IF r.ret = "MORE" THEN s.cgi ELSE NULL
  PROVE  PageState(t, o \o r.out)
<1> DEFINE p == s.data.pos
           N == Size(s.req)
           data == Files[s.req.url].data
           buff == Block(s.data)
           n == Len(buff)
           m == p + n
           st == TplBlock(buff, s.data.token, d, callback)
           x == st.out
<1>1. p \in Nat /\ s.req.url \in DOMAIN Files /\ s.data.name \in DOMAIN Files /\ Streamed(s.req)
      /\ s.data.token \in TokenType
  BY DEF TplData, Streamed, TokenType
<1>2. N = Len(data) /\ N \in Nat /\ data \in Seq(Nat)
  BY <1>1, TemplateIs, FileIs
<1>3. /\ buff \in Seq(Nat) /\ n <= BlockLen /\ m <= N /\ n \in Nat
      /\ \A k \in 1..n : buff[k] = data[p + k]
      /\ n # BlockLen => m = N
  <2>1. s.data.pos <= Len(Files[s.data.name].data)
    BY <1>2
  <2> QED BY <1>1, <1>2, <2>1, BlockIs, LenProperties
<1>4. r.out = x /\ (n # BlockLen => r.ret = "DONE")
      /\ (n = BlockLen => /\ r.ret = "MORE"
                          /\ r.data = [name |-> s.data.name, pos |-> p + BlockLen, token |-> st.token])
  <2> HIDE DEF st
  <2>1. st = TplBlock(buff, s.data.token, d, callback)
    BY DEF st
  <2> HIDE DEF buff
  <2>2. buff = Block(s.data)
    BY DEF buff
  <2>3. /\ r.out = st.out
        /\ Len(buff) # BlockLen => r.ret = "DONE"
        /\ Len(buff) = BlockLen =>
              /\ r.ret = "MORE"
              /\ r.data = [name |-> s.data.name, pos |-> s.data.pos + BlockLen, token |-> st.token]
    BY <2>1, <2>2, TemplateMoves
  <2> QED BY <2>3
<1>5. x \in Seq(PageItems) /\ TokenIs(data, m, st.token)
      /\ Expansion(data)[p] \o Valueless(x) = Expansion(data)[m]
  <2> HIDE DEF buff, data
  <2>1. p + Len(buff) <= Len(data) /\ TokenIs(data, p, s.data.token)
    BY <1>2, <1>3 DEF data
  <2>2. \A k \in 1..Len(buff) : buff[k] = data[p + k]
    BY <1>3
  <2> HIDE DEF p
  <2>3. Says(data, p, p + Len(buff), TplBlock(buff, s.data.token, d, callback))
    BY <1>1, <1>2, <1>3, <2>1, <2>2, BlockSaid
  <2> QED BY <2>3 DEF Says
<1>6. st.token \in TokenType
  <2> HIDE DEF buff
  <2> QED BY <1>1, <1>3, TplBlockKeeps
<1>7. Body(s.req, p) \o Valueless(x) = Body(s.req, m)
  <2>1. Body(s.req, p) = Expansion(data)[p] /\ Body(s.req, m) = Expansion(data)[m]
    BY <1>1, TemplateIs
  <2> QED BY <1>5, <2>1
<1> HIDE DEF p, N, data, n, x, st, buff
<1>9. p \in 0..N /\ m \in 0..N
  BY <1>1, <1>2, <1>3
<1>8. m = p + n
  OBVIOUS
<1> HIDE DEF m
<1>10. /\ o \o x \in Seq(PageItems) /\ Valueless(o \o x) = Sofar(s.req, m)
       /\ m = N => PageIsDone(s.req, o \o x)
  <2>1. Valueless(o) = Sofar(s.req, p)
    BY DEF p
  <2> QED BY <1>1, <1>5, <1>7, <1>9, <2>1, PageMore DEF N
<1>11. t.req = s.req /\ ~(t.received < t.len)
  BY DEF SameRest
<1>12. CASE n # BlockLen
  <2>1. t.cgi = NULL
    BY <1>4, <1>12
  <2>2. o \o r.out \in Seq(PageItems) /\ PageIsDone(t.req, o \o r.out)
    BY <1>3, <1>4, <1>10, <1>11, <1>12
  <2> QED BY <1>11, <2>1, <2>2 DEF PageState
<1>13. CASE n = BlockLen
  <2>1. t.cgi \in TplCallbacks /\ t.cgi # NULL
    BY <1>4, <1>13, HandlersAreNames, NotNames
  <2>2. t.data = [name |-> s.data.name, pos |-> m, token |-> st.token]
    BY <1>4, <1>8, <1>13
  <2>3. t.data \in TplData /\ t.data.name = s.req.url /\ t.data.pos = m /\ t.data.token = st.token
    <3>1. m \in Nat
      BY <1>2, <1>9
    <3>2. st.token \in {NULL} \cup Seq(Nat)
      BY <1>6 DEF TokenType
    <3> QED BY <1>1, <2>2, <3>1, <3>2 DEF TplData
  <2>4. PageHandler(t)
    BY <1>5, <1>11, <2>1, <2>3 DEF PageHandler, data
  <2>5. m <= Size(t.req)
    BY <1>9, <1>11 DEF N
  <2>6. o \o r.out \in Seq(PageItems) /\ Valueless(o \o r.out) = Sofar(t.req, t.data.pos)
    BY <1>4, <1>10, <1>11, <2>3
  <2> QED BY <1>11, <2>1, <2>3, <2>4, <2>5, <2>6 DEF PageState
<1> QED BY <1>12, <1>13

LEMMA NextPiece ==
  ASSUME BlockFits, NEW s \in SlotType, s.conn # NULL, NEW d \in DevType, NEW o, PageState(s, o),
         s.cgi # NULL, ~(s.received < s.len), NEW r, r = Cgi(s.cgi, s, d), Typed(r)
  PROVE  PageState(Kept(s, r), o \o r.out)
<1> DEFINE t == Kept(s, r)
<1>1. o \in Seq(PageItems) /\ PageHandler(s) /\ s.data.pos <= Size(s.req)
      /\ Valueless(o) = Sofar(s.req, s.data.pos)
  BY DEF PageState
<1>2. SameRest(t, s) /\ t.data = r.data /\ t.cgi = IF r.ret = "MORE" THEN s.cgi ELSE NULL
  BY KeptIs
<1> HIDE DEF t
<1>3. CASE /\ AsksFlash(s.req) /\ s.cgi = "cgiReadFlash" /\ s.data \in [pos : Nat]
           /\ s.data.pos < FlashBlocks
  <2>1. r = ReadFlash(s, d)
    BY <1>3, CgiIs
  <2>2. PageState(t, o \o r.out)
    BY <1>1, <1>2, <1>3, <2>1, FlashPage
  <2> QED BY <2>2 DEF t
<1>4. CASE /\ AsksTemplate(s.req) /\ s.cgi \in TplCallbacks /\ s.data \in TplData
           /\ s.data.name = s.req.url /\ TokenIs(Files[s.req.url].data, s.data.pos, s.data.token)
  <2>1. r = EspFsTemplate(s, d, s.cgi)
    BY <1>4, CgiIs
  <2>2. PageState(t, o \o r.out)
    BY <1>1, <1>2, <1>4, <2>1, TemplatePage
  <2> QED BY <2>2 DEF t
<1>5. CASE /\ ~AsksFlash(s.req) /\ ~AsksTemplate(s.req) /\ s.cgi = "cgiEspFsHook"
           /\ s.data \in EspFsFile /\ s.data.name = s.req.url
  <2>1. r = EspFsHook(s, d)
    BY <1>5, CgiIs
  <2>2. PageState(t, o \o r.out)
    BY <1>1, <1>2, <1>5, <2>1, FilePage
  <2> QED BY <2>2 DEF t
<1> QED BY <1>1, <1>3, <1>4, <1>5 DEF PageHandler

(* An answer that has begun, and one that was refused.                      *)
LEMMA BegunPage ==
  ASSUME NEW t, PageHandler(t), t.data.pos = 0, t.cgi # NULL, Streamed(t.req),
         ~(t.received < t.len)
  PROVE  PageState(t, Status(200))
<1> DEFINE h == Status(200)
<1>1. h \in Seq(PageItems) /\ Valueless(h) = h
  BY StatusIs
<1>2. Size(t.req) \in Nat
  <2>1. AsksFlash(t.req) \/ t.req.url \in DOMAIN Files
    BY DEF Streamed, AsksFlash
  <2> QED BY <2>1, FileIs, CgiFlashAssumption DEF Size
<1>3. 0 \in 0..Size(t.req) /\ 0 <= Size(t.req)
  BY <1>2
<1>4. Body(t.req, 0) = <<>>
  BY <1>3, BodyIs
<1> HIDE DEF h
<1>5. h \o <<>> = h
  BY <1>1, NothingAdded
<1>6. Sofar(t.req, 0) = h
  BY <1>4, <1>5 DEF Sofar, h
<1> QED BY <1>1, <1>3, <1>6 DEF PageState, h

LEMMA RefusedPage ==
  ASSUME NEW t, t.cgi = NULL, ~(t.received < t.len), NEW code \in {302, 501}
  PROVE  PageState(t, Status(code))
<1>1. Status(code) \in Seq(PageItems) /\ Status(code) \in Refusal
  BY StatusIs DEF Refusal
<1> QED BY <1>1 DEF PageState, PageIsDone

(* The rows of the table that may answer such a request.                    *)
LEMMA PageRows ==
  ASSUME PagesAreFiles, NEW i \in 1..18, NEW req, Streamed(req),
         BuiltInUrls[i][1] \in {"*", req.url}
  PROVE  \/ i = 1 \/ i = 18
         \/ AsksFlash(req) /\ i = 3
         \/ ~AsksFlash(req) /\ req.url \in Templates /\ BuiltInUrls[i][2] \in TplCallbacks
<1>1. CASE BuiltInUrls[i][1] = "*"
  BY <1>1, Entries
<1>2. CASE BuiltInUrls[i][1] # "*" /\ AsksFlash(req)
  BY <1>2, Urls, RowNumbers DEF AsksFlash
<1>3. CASE BuiltInUrls[i][1] # "*" /\ ~AsksFlash(req)
  <2>1. BuiltInUrls[i][1] = req.url /\ req.url \in DOMAIN Files /\ i \in DOMAIN BuiltInUrls
    BY <1>3, Urls DEF Streamed, AsksFlash
  <2>2. BuiltInUrls[i][2] \in TplCallbacks
    BY <2>1 DEF PagesAreFiles
  <2> QED BY <1>3, <2>1, <2>2 DEF Templates
<1> QED BY <1>1, <1>2, <1>3

(* What they answer.                                                        *)
LEMMA RedirectRow ==
  ASSUME NEW u, u.conn # NULL, NEW d
  PROVE  LET r == CgiRedirectApClientToHostname(u, d)
         IN r.ret = "NOTFOUND" \/ (r.ret = "DONE" /\ r.out = Status(302))
BY ResultIs DEF CgiRedirectApClientToHostname, CgiRedirectToHostname

LEMMA FlashRow ==
  ASSUME NEW u \in SlotType, u.conn # NULL, u.data = NULL, NEW d
  PROVE  LET r == ReadFlash(u, d)
         IN r.ret = "MORE" /\ r.out = Status(200) /\ r.data = [pos |-> 0]
<1> DEFINE t == [u EXCEPT !.data = [pos |-> 0]]
<1>1. ReadFlash(u, d) = Result("MORE", t, Status(200), d)
  BY DEF ReadFlash
<1>2. t.data = [pos |-> 0]
  BY DEF SlotType
<1> HIDE DEF t
<1> QED BY <1>1, <1>2, ResultIs

LEMMA TemplateRow ==
  ASSUME NEW u \in SlotType, u.conn # NULL, u.data = NULL, NEW d, NEW callback
  PROVE  LET r == EspFsTemplate(u, d, callback)
         IN IF u.req.url \notin DOMAIN Files \/ Files[u.req.url].gzip THEN r.ret = "NOTFOUND"
            ELSE /\ r.ret = "MORE" /\ r.out = Status(200)
                 /\ r.data = [name |-> u.req.url, pos |-> 0, token |-> NULL]
<1> DEFINE x == [name |-> u.req.url, pos |-> 0, token |-> NULL]
           t == [u EXCEPT !.data = x]
<1>1. EspFsTemplate(u, d, callback)
        = IF u.req.url \notin DOMAIN Files \/ Files[u.req.url].gzip
          THEN Result("NOTFOUND", u, <<>>, d) ELSE Result("MORE", t, Status(200), Opened(d))
  BY DEF EspFsTemplate
<1> HIDE DEF x
<1>2. t.data = x
  BY DEF SlotType
<1> HIDE DEF t
<1> QED BY <1>1, <1>2, ResultIs DEF x

LEMMA TemplateMore ==
  ASSUME NEW u \in SlotType, u.conn # NULL, u.data = NULL, NEW d, NEW callback,
         u.req.url \in DOMAIN Files, ~Files[u.req.url].gzip
  PROVE  EspFsTemplate(u, d, callback).ret = "MORE"
<1> DEFINE t == [u EXCEPT !.data = [name |-> u.req.url, pos |-> 0, token |-> NULL]]
<1>1. EspFsTemplate(u, d, callback) = Result("MORE", t, Status(200), Opened(d))
  BY DEF EspFsTemplate
<1> HIDE DEF t
<1>2. Result("MORE", t, Status(200), Opened(d)).ret = "MORE"
  BY ResultIs
<1> QED BY <1>1, <1>2

LEMMA FileRow ==
  ASSUME NEW u \in SlotType, u.conn # NULL, u.data = NULL, NEW d, u.req.url \in DOMAIN Files
  PROVE  LET r == EspFsHook(u, d)
         IN \/ r.ret = "DONE" /\ r.out = Status(501)
            \/ /\ r.ret = "MORE" /\ r.out = Status(200)
               /\ r.data = [name |-> u.req.url, pos |-> 0]
<1> DEFINE x == [name |-> u.req.url, pos |-> 0]
           t == [u EXCEPT !.data = x]
<1>1. \/ EspFsHook(u, d) = Result("DONE", u, Status(501), d)
      \/ EspFsHook(u, d) = Result("MORE", t, Status(200), Opened(d))
  BY DEF EspFsHook, EspFsOpenFile
<1> HIDE DEF x
<1>2. t.data = x
  BY DEF SlotType
<1> HIDE DEF t
<1> QED BY <1>1, <1>2, ResultIs DEF x

LEMMA PageRow ==
  ASSUME PagesAreFiles, NEW s \in SlotType, NEW d \in DevType, s.conn # NULL, s.req \in Requests,
         s.received - s.buffLen >= 0, Streamed(s.req), ~(s.received < s.len),
         NEW i \in Takers(s, d), i = 18 => ~AsksFlash(s.req) /\ ~AsksTemplate(s.req)
  PROVE  LET r == Cgi(BuiltInUrls[i][2], Tried(s, i), d)
         IN PageState(Kept(Tried(s, i), r), r.out)
<1> DEFINE name == BuiltInUrls[i][2]
           u == Tried(s, i)
           r == Cgi(name, u, d)
           t == Kept(u, r)
<1>1. i \in 1..18 /\ BuiltInUrls[i][1] \in {"*", s.req.url} /\ r.ret # "NOTFOUND"
  BY Urls DEF Takers
<1>2. /\ u \in SlotType /\ SameRest(u, s) /\ u.data = NULL /\ u.cgi = name
      /\ CanCall(name, u) /\ Handed(name, u) /\ name \in CgiNames
  BY <1>1, TriedIs
<1>3. i = 1 \/ i = 18 \/ (AsksFlash(s.req) /\ i = 3)
      \/ (~AsksFlash(s.req) /\ s.req.url \in Templates /\ name \in TplCallbacks)
  BY <1>1, PageRows
<1>4. (i = 1 => name = "cgiRedirectApClientToHostname") /\ (i = 3 => name = "cgiReadFlash")
      /\ (i = 18 => name = "cgiEspFsHook")
  BY Callbacks
<1>5. r = Cgi(name, u, d)
  OBVIOUS
<1> HIDE DEF name, u, r
<1>6. Typed(r)
  BY <1>2, <1>5, CgiCalled DEF Called
<1>7. SameRest(t, u) /\ t.data = r.data /\ t.cgi = IF r.ret = "MORE" THEN name ELSE NULL
  BY <1>2, <1>6, KeptIs
<1>8. PageState(t, r.out)
  <2> HIDE DEF t
  <2>1. t.req = s.req /\ u.req = s.req /\ ~(t.received < t.len) /\ u.conn # NULL
        /\ Streamed(t.req)
    BY <1>2, <1>7 DEF SameRest
  <2>2. name # NULL
    BY <1>2, NotNames
  <2>3. CASE i = 1
    <3>1. r = CgiRedirectApClientToHostname(u, d)
      BY <1>4, <1>5, <2>3, CgiIs
    <3>2. r.ret = "DONE" /\ r.out = Status(302)
      BY <1>1, <2>1, <3>1, RedirectRow
    <3> QED BY <1>7, <2>1, <3>2, RefusedPage
  <2>4. CASE AsksFlash(s.req) /\ i = 3
    <3>1. r = ReadFlash(u, d) /\ name = "cgiReadFlash"
      BY <1>4, <1>5, <2>4, CgiIs
    <3>2. r.ret = "MORE" /\ r.out = Status(200) /\ r.data = [pos |-> 0]
      BY <1>2, <2>1, <3>1, FlashRow
    <3>3. t.data \in [pos : Nat] /\ t.data.pos = 0 /\ 0 < FlashBlocks
      BY <1>7, <3>2, CgiFlashAssumption
    <3>4. PageHandler(t)
      BY <1>7, <2>1, <2>4, <3>1, <3>2, <3>3 DEF PageHandler
    <3> QED BY <1>7, <2>1, <2>2, <3>2, <3>3, <3>4, BegunPage
  <2>5. CASE ~AsksFlash(s.req) /\ s.req.url \in Templates /\ name \in TplCallbacks
    <3>1. r = EspFsTemplate(u, d, name)
      BY <1>5, <2>5, CgiIs
    <3>2. /\ s.req.url \in DOMAIN Files /\ ~Files[s.req.url].gzip
          /\ r.ret = "MORE" /\ r.out = Status(200)
          /\ r.data = [name |-> s.req.url, pos |-> 0, token |-> NULL]
      BY <1>1, <1>2, <2>1, <3>1, TemplateRow
    <3>3. AsksTemplate(s.req)
      BY <2>5, <3>2 DEF AsksTemplate
    <3>4. t.data \in TplData /\ t.data.name = t.req.url /\ t.data.pos = 0 /\ t.data.token = NULL
      BY <1>7, <2>1, <3>2 DEF TplData
    <3>5. TokenIs(Files[t.req.url].data, t.data.pos, t.data.token)
      BY <3>4, NoneAtFirst DEF TokenIs
    <3>6. PageHandler(t)
      BY <1>7, <2>1, <2>5, <3>2, <3>3, <3>4, <3>5 DEF PageHandler
    <3> QED BY <1>7, <2>1, <2>2, <3>2, <3>4, <3>6, BegunPage
  <2>6. CASE i = 18
    <3>1. r = EspFsHook(u, d) /\ name = "cgiEspFsHook"
      BY <1>4, <1>5, <2>6, CgiIs
    <3>2. ~AsksFlash(s.req) /\ ~AsksTemplate(s.req) /\ s.req.url \in DOMAIN Files
      BY <2>6 DEF Streamed, AsksFlash
    <3>3. \/ r.ret = "DONE" /\ r.out = Status(501)
          \/ /\ r.ret = "MORE" /\ r.out = Status(200)
             /\ r.data = [name |-> s.req.url, pos |-> 0]
      BY <1>2, <2>1, <3>1, <3>2, FileRow
    <3>4. CASE r.ret = "DONE" /\ r.out = Status(501)
      BY <1>7, <2>1, <3>4, RefusedPage
    <3>5. CASE /\ r.ret = "MORE" /\ r.out = Status(200)
               /\ r.data = [name |-> s.req.url, pos |-> 0]
      <4>1. t.data \in EspFsFile /\ t.data.name = t.req.url /\ t.data.pos = 0
        BY <1>7, <2>1, <3>2, <3>5 DEF EspFsFile
      <4>2. PageHandler(t)
        BY <1>7, <2>1, <3>1, <3>2, <3>5, <4>1 DEF PageHandler
      <4> QED BY <1>7, <2>1, <2>2, <3>5, <4>1, <4>2, BegunPage
    <3> QED BY <3>3, <3>4, <3>5
  <2> QED BY <1>3, <2>3, <2>4, <2>5, <2>6
<1> QED BY <1>8 DEF name, u, r

(* The first row that answers.                                              *)
LEMMA NewPage ==
  ASSUME PagesAreFiles, NEW s \in SlotType, NEW d \in DevType, s.conn # NULL, s.req \in Requests,
         s.received - s.buffLen >= 0, Streamed(s.req), ~(s.received < s.len)
  PROVE  LET res == ProcessRequest(s, d) IN PageState(res.slot, res.out)
<1> DEFINE T == Takers(s, d)
           m == Min(T)
<1>1. ASSUME NEW i \in 1..18
      PROVE  /\ Tried(s, i) \in SlotType /\ SameRest(Tried(s, i), s) /\ Tried(s, i).data = NULL
  BY TriedIs
<1>2. AsksFlash(s.req) => 3 \in T
  <2> SUFFICES ASSUME AsksFlash(s.req) PROVE 3 \in T
    OBVIOUS
  <2>1. Tried(s, 3) \in SlotType /\ Tried(s, 3).conn # NULL /\ Tried(s, 3).data = NULL
    BY <1>1 DEF SameRest
  <2>2. Cgi(BuiltInUrls[3][2], Tried(s, 3), d) = ReadFlash(Tried(s, 3), d)
    BY Callbacks, CgiIs
  <2>3. ReadFlash(Tried(s, 3), d).ret = "MORE"
    BY <2>1, FlashRow
  <2> QED BY <2>2, <2>3, Urls DEF Takers, AsksFlash
<1>3. AsksTemplate(s.req) => \E i \in T : i < 18
  <2> SUFFICES ASSUME AsksTemplate(s.req) PROVE \E i \in T : i < 18
    OBVIOUS
  <2>1. /\ s.req.url \in Templates /\ ~Files[s.req.url].gzip /\ s.req.url \in DOMAIN Files
    BY DEF AsksTemplate, AsksFlash, Streamed
  <2>2. PICK i \in 1..18 : BuiltInUrls[i][1] = s.req.url /\ BuiltInUrls[i][2] \in TplCallbacks
    BY <2>1, Urls DEF Templates
  <2>3. i # 18
    BY <2>2, Callbacks, HandlersAreNames
  <2>4. /\ Tried(s, i) \in SlotType /\ Tried(s, i).conn # NULL /\ Tried(s, i).data = NULL
        /\ Tried(s, i).req = s.req
    BY <1>1 DEF SameRest
  <2>5. Cgi(BuiltInUrls[i][2], Tried(s, i), d) = EspFsTemplate(Tried(s, i), d, BuiltInUrls[i][2])
    BY <2>2, CgiIs
  <2>6. EspFsTemplate(Tried(s, i), d, BuiltInUrls[i][2]).ret = "MORE"
    <3> DEFINE v == Tried(s, i)
               callback == BuiltInUrls[i][2]
    <3>1. /\ v \in SlotType /\ v.conn # NULL /\ v.data = NULL
          /\ v.req.url \in DOMAIN Files /\ ~Files[v.req.url].gzip
      BY <2>1, <2>4
    <3> HIDE DEF v, callback
    <3>2. EspFsTemplate(v, d, callback).ret = "MORE"
      BY <3>1, TemplateMore
    <3> QED BY <3>2 DEF v, callback
  <2>7. i \in T
    BY <2>2, <2>5, <2>6, Urls DEF Takers
  <2> QED BY <2>3, <2>7
<1>4. ~AsksFlash(s.req) => 18 \in T
  <2> SUFFICES ASSUME ~AsksFlash(s.req) PROVE 18 \in T
    OBVIOUS
  <2>1. s.req.url \in DOMAIN Files
    BY DEF AsksFlash, Streamed
  <2>2. /\ Tried(s, 18) \in SlotType /\ Tried(s, 18).conn # NULL /\ Tried(s, 18).data = NULL
        /\ Tried(s, 18).req = s.req
    BY <1>1 DEF SameRest
  <2>3. Cgi(BuiltInUrls[18][2], Tried(s, 18), d) = EspFsHook(Tried(s, 18), d)
    BY Callbacks, CgiIs
  <2>4. EspFsHook(Tried(s, 18), d).ret \in {"DONE", "MORE"}
    BY <2>1, <2>2, FileRow
  <2> QED BY <2>3, <2>4, Urls DEF Takers
<1>5. T \subseteq 1..18
  BY Urls DEF Takers
<1>6. m \in T /\ \A i \in T : m <= i
  <2>1. T \subseteq Nat
    BY <1>5
  <2>2. T # {}
    BY <1>2, <1>4
  <2> HIDE DEF T
  <2> QED BY <2>1, <2>2, MinIsLeast
<1> HIDE DEF m
<1>7. m = 18 => ~AsksFlash(s.req) /\ ~AsksTemplate(s.req)
  <2> HIDE DEF T
  <2> QED BY <1>2, <1>3, <1>5, <1>6
<1> DEFINE r == Cgi(BuiltInUrls[m][2], Tried(s, m), d)
<1>8. PageState(Kept(Tried(s, m), r), r.out)
  BY <1>6, <1>7, PageRow
<1>10. s.req.url # NULL
  BY Urls, NullAssumption DEF Streamed
<1>9. ProcessRequest(s, d) = [slot |-> Kept(Tried(s, m), r), out |-> r.out, dev |-> r.dev]
  BY <1>6, <1>10 DEF ProcessRequest, m
<1> HIDE DEF r
<1> QED BY <1>8, <1>9

(* What a call sends.                                                       *)
LEMMA IsSequence ==
  ASSUME NEW S, NEW o \in Seq(S)
  PROVE  IsSeq(o)
<1> DEFINE R == {o[k] : k \in DOMAIN o}
<1>1. Len(o) \in Nat /\ o \in [1..Len(o) -> S] /\ DOMAIN o = 1..Len(o)
  BY LenProperties
<1>2. \A k \in 1..Len(o) : o[k] \in R
  BY <1>1
<1>3. o = [k \in 1..Len(o) |-> o[k]]
  BY <1>1
<1> HIDE DEF R
<1>4. o \in [1..Len(o) -> R]
  BY <1>2, <1>3
<1>5. o \in Seq(R)
  BY <1>1, <1>4
<1> QED BY <1>5 DEF IsSeq, R

LEMMA SequencesJoined ==
  ASSUME NEW a, NEW b, IsSeq(a), IsSeq(b)
  PROVE  IsSeq(a \o b) /\ (a # <<>> \/ b # <<>> => a \o b # <<>>)
<1> DEFINE A == {a[k] : k \in DOMAIN a}
           B == {b[k] : k \in DOMAIN b}
           S == A \cup B
<1>1. a \in Seq(A) /\ b \in Seq(B) /\ A \subseteq S /\ B \subseteq S
  BY DEF IsSeq
<1> HIDE DEF A, B, S
<1>2. a \in Seq(S) /\ b \in Seq(S)
  <2>1. ASSUME NEW T, T \subseteq S, NEW c \in Seq(T)
        PROVE  c \in Seq(S)
    <3>1. Len(c) \in Nat /\ c \in [1..Len(c) -> T]
      BY LenProperties
    <3>2. c \in [1..Len(c) -> S]
      BY <2>1, <3>1
    <3> QED BY <3>1, <3>2
  <2> QED BY <1>1, <2>1
<1>3. a \o b \in Seq(S) /\ Len(a \o b) = Len(a) + Len(b) /\ Len(a) \in Nat /\ Len(b) \in Nat
  BY <1>2, Joined
<1>4. IsSeq(a \o b)
  BY <1>3, IsSequence
<1>5. (a # <<>> => Len(a) > 0) /\ (b # <<>> => Len(b) > 0)
  BY <1>2
<1>6. a # <<>> \/ b # <<>> => Len(a \o b) # 0
  BY <1>3, <1>5
<1> QED BY <1>4, <1>6

LEMMA Sequences ==
  /\ IsSeq(<<>>) /\ \A x : IsSeq(<<x>>) /\ \A code : IsSeq(Status(code))
  /\ \A text \in Seq(Nat) : IsSeq(Chars(text))
<1>1. <<>> \in Seq({})
  OBVIOUS
<1>2. ASSUME NEW x
      PROVE  IsSeq(<<x>>)
  <2>1. <<x>> \in Seq({x})
    BY Single
  <2> QED BY <2>1, IsSequence
<1>3. ASSUME NEW text \in Seq(Nat)
      PROVE  IsSeq(Chars(text))
  BY CharsAre, IsSequence
<1> QED BY <1>1, <1>2, <1>3, IsSequence DEF Status

LEMMA NothingIsSeq == IsSeq(<<>>)
BY Sequences

LEMMA StatusIsSeq ==
  ASSUME NEW code
  PROVE  IsSeq(Status(code))
BY Sequences

LEMMA SendIsSeq ==
  ASSUME NEW a, NEW b, IsSeq(a), IsSeq(b)
  PROVE  IsSeq(Send(a, b))
BY SequencesJoined DEF Send

LEMMA TokenSent ==
  ASSUME NEW callback \in TplCallbacks, NEW token, NEW d
  PROVE  IsSeq(TplValue(callback, token, d).text)
<1>1. \E x : TplValue(callback, token, d).text = <<x>>
  BY DEF TplValue, TplLed, TplCounter, TplWlan, Text, TplCallbacks
<1> QED BY <1>1, Sequences

(* The loop of a template.                                                  *)
Sends(st) == IsSeq(st.out) /\ st.text \in Seq(Nat)

LEMMA StepSends ==
  ASSUME NEW callback \in TplCallbacks, NEW st, NEW d, TplState(st, d), Sends(st), NEW c \in Nat
  PROVE  Sends(TplStep(st, c, callback))
<1> DEFINE v == TplValue(callback, st.token, st.dev)
           tok == IF Len(st.token) < TokenMax THEN Append(st.token, c) ELSE st.token
<1>1. IsSeq(st.out) /\ st.text \in Seq(Nat) /\ IsSeq(v.text) /\ IsSeq(Chars(<<Percent>>))
  <2>1. <<Percent>> \in Seq(Nat)
    BY DEF Percent
  <2> QED BY <2>1, TokenSent, Sequences DEF Sends
<1>2. IsSeq(Send(st.out, Chars(st.text))) /\ IsSeq(Send(st.out, v.text))
      /\ IsSeq(Send(st.out, Chars(<<Percent>>)))
  BY <1>1, Sequences, SendIsSeq
<1>3. Append(st.text, c) \in Seq(Nat) /\ <<>> \in Seq(Nat)
  BY <1>1, AppendProperties
<1> HIDE DEF v, tok
<1>4. TplStep(st, c, callback) \in
        {[st EXCEPT !.out = Send(st.out, Chars(st.text)), !.text = <<>>, !.token = <<>>],
         [st EXCEPT !.text = Append(st.text, c)], [st EXCEPT !.token = tok],
         [st EXCEPT !.out = Send(st.out, Chars(<<Percent>>)), !.token = NULL],
         [st EXCEPT !.out = Send(st.out, v.text), !.dev = v.dev, !.token = NULL]}
  <2>1. CASE st.token = NULL /\ c = Percent
    BY <2>1 DEF TplStep
  <2>2. CASE st.token = NULL /\ c # Percent
    <3>1. TplStep(st, c, callback) = [st EXCEPT !.text = Append(@, c)]
      BY <2>2 DEF TplStep
    <3> QED BY <3>1 DEF TplState
  <2>3. CASE st.token # NULL /\ c # Percent
    <3>1. TplStep(st, c, callback)
            = [st EXCEPT !.token = IF Len(@) < TokenMax THEN Append(@, c) ELSE @]
      BY <2>3 DEF TplStep
    <3> QED BY <2>3, <3>1 DEF tok, TplState
  <2>4. CASE st.token # NULL /\ c = Percent /\ st.token = <<>>
    BY <2>4 DEF TplStep
  <2>5. CASE st.token # NULL /\ c = Percent /\ st.token # <<>>
    BY <2>5 DEF TplStep, v
  <2> QED BY <2>1, <2>2, <2>3, <2>4, <2>5
<1> DEFINE w == TplStep(st, c, callback)
           o1 == Send(st.out, Chars(st.text))
           o2 == Send(st.out, Chars(<<Percent>>))
           o3 == Send(st.out, v.text)
           q == Append(st.text, c)
<1> HIDE DEF w, o1, o2, o3, q
<1>5. /\ w.out = st.out \/ w.out = o1 \/ w.out = o2 \/ w.out = o3
      /\ w.text = st.text \/ w.text = <<>> \/ w.text = q
  <2>1. w \in {[st EXCEPT !.out = o1, !.text = <<>>, !.token = <<>>],
               [st EXCEPT !.text = q], [st EXCEPT !.token = tok],
               [st EXCEPT !.out = o2, !.token = NULL],
               [st EXCEPT !.out = o3, !.dev = v.dev, !.token = NULL]}
    BY <1>4 DEF w, o1, o2, o3, q
  <2> QED BY <2>1 DEF TplState
<1> QED BY <1>1, <1>2, <1>3, <1>5 DEF Sends, w, o1, o2, o3, q

LEMMA BlockSends ==
  ASSUME NEW callback \in TplCallbacks, NEW buff \in Seq(Nat), NEW token \in TokenType,
         NEW d \in DevType
  PROVE  IsSeq(TplBlock(buff, token, d, callback).out)
<1> DEFINE upto == CHOOSE f : IsTplLoop(f, buff, token, d, callback, Len(buff))
           st   == upto[Len(buff)]
           Good(n) == TplState(upto[n], d) /\ Sends(upto[n])
<1>0. Len(buff) \in Nat
  OBVIOUS
<1>1. TplBlock(buff, token, d, callback) = [st EXCEPT !.out = Send(st.out, Chars(st.text))]
  BY DEF TplBlock, IsTplLoop
<1>2. \E f : IsTplLoop(f, buff, token, d, callback, Len(buff))
  BY <1>0, TplLoopExists
<1>3. IsTplLoop(upto, buff, token, d, callback, Len(buff))
  BY <1>2
<1> HIDE DEF upto
<1>4. Good(0)
  <2>1. upto[0] = [token |-> token, text |-> <<>>, out |-> <<>>, dev |-> d]
    BY <1>0, <1>3 DEF IsTplLoop
  <2>2. SameButHits(d, d) /\ <<>> \in Seq(Nat)
    BY DEF SameButHits
  <2> QED BY <2>1, <2>2, Sequences DEF TplState, Sends
<1>5. ASSUME NEW n \in 1..Len(buff), Good(n - 1)
      PROVE  Good(n)
  <2>1. upto[n] = TplStep(upto[n - 1], buff[n], callback)
    BY <1>0, <1>3, TplLoopIs
  <2>2. buff[n] \in Nat
    OBVIOUS
  <2> QED BY <1>5, <2>1, <2>2, TplStepKeeps, StepSends
<1>6. \A n \in 0..Len(buff) : Good(n)
  <2> DEFINE Bad == {n \in 0..Len(buff) : ~Good(n)}
  <2> SUFFICES ASSUME Bad # {} PROVE FALSE
    OBVIOUS
  <2>1. PICK n \in Bad : \A m \in Bad : n <= m
    <3>1. Bad \subseteq Nat
      BY <1>0
    <3> HIDE DEF Bad
    <3> QED BY <3>1, LeastNumber
  <2>2. n # 0
    BY <1>4, <2>1
  <2>3. n \in 1..Len(buff) /\ n - 1 \in 0..Len(buff) /\ n - 1 \notin Bad
    BY <1>0, <2>1, <2>2
  <2> QED BY <1>5, <2>1, <2>3
<1>7. TplState(st, d) /\ Sends(st)
  BY <1>0, <1>6
<1> HIDE DEF st
<1>8. IsSeq(Send(st.out, Chars(st.text)))
  BY <1>7, Sequences, SendIsSeq DEF Sends
<1> QED BY <1>1, <1>7, <1>8 DEF TplState

(* The handlers.                                                            *)
LEMMA TemplateSends ==
  ASSUME NEW callback \in TplCallbacks, NEW s, s.data \in {NULL} \cup TplData, NEW d \in DevType
  PROVE  IsSeq(EspFsTemplate(s, d, callback).out)
<1> DEFINE buff == Block(s.data)
           st == TplBlock(buff, s.data.token, d, callback)
<1>1. EspFsTemplate(s, d, callback).out \in {<<>>, Status(200), st.out}
      /\ (s.data = NULL => EspFsTemplate(s, d, callback).out \in {<<>>, Status(200)})
  <2> HIDE DEF st
  <2>1. CASE s.conn = NULL \/ s.data = NULL
    BY <2>1, ResultIs DEF EspFsTemplate
  <2>2. CASE s.conn # NULL /\ s.data # NULL
    <3> DEFINE t == [s EXCEPT !.data.pos = @ + BlockLen, !.data.token = st.token]
    <3>1. \/ EspFsTemplate(s, d, callback) = Result("DONE", s, st.out, Closed(st.dev))
          \/ EspFsTemplate(s, d, callback) = Result("MORE", t, st.out, st.dev)
      BY <2>2 DEF EspFsTemplate, st
    <3> HIDE DEF t
    <3> QED BY <2>2, <3>1, ResultIs
  <2> QED BY <2>1, <2>2
<1>2. s.data # NULL => IsSeq(st.out)
  <2> SUFFICES ASSUME s.data # NULL PROVE IsSeq(st.out)
    OBVIOUS
  <2>1. s.data.name \in DOMAIN Files /\ s.data.pos \in Nat /\ s.data.token \in TokenType
    BY DEF TplData, TokenType
  <2>2. buff \in Seq(Nat)
    BY <2>1, BlockType
  <2> HIDE DEF buff
  <2> QED BY <2>1, <2>2, BlockSends
<1> HIDE DEF st
<1> QED BY <1>1, <1>2, Sequences

LEMMA FileSends ==
  ASSUME NEW s, s.data \in {NULL} \cup EspFsFile, NEW d
  PROVE  IsSeq(EspFsHook(s, d).out)
<1> DEFINE buff == Block(s.data)
           t == [s EXCEPT !.data.pos = @ + BlockLen]
           q == [s EXCEPT !.data = [name |-> s.req.url, pos |-> 0]]
<1>1. \/ EspFsHook(s, d) = Result("DONE", s, <<>>, Closed(d))
      \/ EspFsHook(s, d) = Result("NOTFOUND", s, <<>>, d)
      \/ EspFsHook(s, d) = Result("DONE", s, Status(501), d)
      \/ EspFsHook(s, d) = Result("MORE", q, Status(200), Opened(d))
      \/ s.data # NULL /\ EspFsHook(s, d) = Result("DONE", s, Chars(buff), Closed(d))
      \/ s.data # NULL /\ EspFsHook(s, d) = Result("MORE", t, Chars(buff), d)
  BY DEF EspFsHook, EspFsOpenFile
<1> HIDE DEF t, q
<1>2. s.data # NULL => IsSeq(Chars(buff))
  <2>1. s.data # NULL => buff \in Seq(Nat)
    BY BlockType DEF EspFsFile
  <2> HIDE DEF buff
  <2> QED BY <2>1, Sequences
<1> DEFINE o == Chars(buff)
<1> HIDE DEF o
<1>3. EspFsHook(s, d).out \in {<<>>, Status(501), Status(200)}
      \/ (s.data # NULL /\ EspFsHook(s, d).out = o)
  BY <1>1, ResultIs DEF o
<1>4. CASE EspFsHook(s, d).out \in {<<>>, Status(501), Status(200)}
  BY <1>4, NothingIsSeq, StatusIsSeq
<1>5. CASE s.data # NULL /\ EspFsHook(s, d).out = o
  BY <1>2, <1>5 DEF o
<1> QED BY <1>3, <1>4, <1>5

LEMMA UploadSends ==
  ASSUME NEW s, NEW d
  PROVE  IsSeq(UploadFirmware(s, d).out)
<1>1. \A t, e : UploadChunk(t, e, t.received - t.buffLen).out \in {<<>>, Status(200)}
  BY ResultIs DEF UploadChunk
<1>2. \A t, e, off : UploadChunk(t, e, off).out \in {<<>>, Status(200)}
  BY ResultIs DEF UploadChunk
<1>3. \/ UploadFirmware(s, d).out = <<>>
      \/ \E code : UploadFirmware(s, d).out = Status(code)
      \/ \E t, off : UploadFirmware(s, d).out = UploadChunk(t, d, off).out
  BY ResultIs DEF UploadFirmware
<1>4. ASSUME NEW t, NEW off
      PROVE  IsSeq(UploadChunk(t, d, off).out)
  <2> DEFINE o == UploadChunk(t, d, off).out
  <2>1. o = <<>> \/ o = Status(200)
    BY <1>2
  <2> HIDE DEF o
  <2>2. IsSeq(o)
    BY <2>1, NothingIsSeq, StatusIsSeq
  <2> QED BY <2>2 DEF o
<1>5. IsSeq(<<>>) /\ \A code : IsSeq(Status(code))
  BY Sequences
<1> QED BY <1>3, <1>4, <1>5

LEMMA ScanSends ==
  ASSUME NEW s, NEW d
  PROVE  IsSeq(WiFiScan(s, d).out)
<1>2. \A pos : IsSeq(ScanEntry(s, d, pos).out)
  <2> SUFFICES ASSUME NEW pos PROVE IsSeq(ScanEntry(s, d, pos).out)
    OBVIOUS
  <2> DEFINE ap == << <<"ap", d.wifi.apData>> >>
             end == << <<"end", 0>> >>
             entry == IF pos - 1 < d.wifi.noAps THEN Send(<<>>, ap) ELSE <<>>
             t == [s EXCEPT !.data = [pos |-> pos + 1]]
  <2>1. \/ ScanEntry(s, d, pos) = Result("DONE", s, Send(entry, end), StartScan(d))
        \/ ScanEntry(s, d, pos) = Result("MORE", t, entry, d)
    BY DEF ScanEntry
  <2>2. IsSeq(ap) /\ IsSeq(end) /\ IsSeq(<<>>)
    BY Sequences
  <2> HIDE DEF ap, end, t
  <2>3. IsSeq(entry)
    BY <2>2, SendIsSeq
  <2> HIDE DEF entry
  <2> QED BY <2>1, <2>2, <2>3, SendIsSeq, ResultIs
<1> DEFINE o0 == Send(Status(200), << <<"inProgress", 0>> >>)
           o1 == Send(Status(200), << <<"inProgress", 1>> >>)
<1>3. \/ \E pos : WiFiScan(s, d) = ScanEntry(s, d, pos)
      \/ WiFiScan(s, d) = Result("DONE", s, o1, d)
      \/ \E t, e : WiFiScan(s, d) = Result("MORE", t, o0, e)
  BY DEF WiFiScan
<1>4. IsSeq(o0) /\ IsSeq(o1)
  BY Sequences, SendIsSeq
<1> HIDE DEF o0, o1
<1> QED BY <1>2, <1>3, <1>4, ResultIs

LEMMA ResultSends ==
  ASSUME NEW ret, NEW s, NEW d
  PROVE  IsSeq(Result(ret, s, <<>>, d).out) /\ \A code : IsSeq(Result(ret, s, Status(code), d).out)
<1>1. \A o : Result(ret, s, o, d).out = o
  BY ResultIs
<1> QED BY <1>1, Sequences

LEMMA OthersSend ==
  ASSUME NEW s, NEW d
  PROVE  /\ IsSeq(CgiRedirectApClientToHostname(s, d).out)
         /\ IsSeq(CgiRedirect(s, d).out) /\ IsSeq(ReadFlash(s, d).out) /\ IsSeq(CgiLed(s, d).out)
         /\ IsSeq(GetFirmwareNext(s, d).out) /\ IsSeq(RebootFirmware(s, d).out)
         /\ IsSeq(WiFiConnect(s, d).out) /\ IsSeq(WiFiConnStatus(s, d).out)
         /\ IsSeq(WiFiSetMode(s, d).out)
<1>1. \A code, x : IsSeq(Send(Status(code), <<x>>))
  BY Sequences, SendIsSeq
<1>2. IsSeq(CgiRedirectApClientToHostname(s, d).out)
  BY ResultSends DEF CgiRedirectApClientToHostname, CgiRedirectToHostname
<1>3. IsSeq(CgiRedirect(s, d).out)
  <2>1. CASE s.conn = NULL
    <3>1. CgiRedirect(s, d).out = <<>>
      BY <2>1, ResultIs DEF CgiRedirect
    <3>2. IsSeq(<<>>)
      BY NothingIsSeq
    <3> QED BY <3>1, <3>2
  <2>2. CASE s.conn # NULL
    <3>1. CgiRedirect(s, d).out = Status(302)
      BY <2>2, ResultIs DEF CgiRedirect
    <3>2. IsSeq(Status(302))
      BY StatusIsSeq
    <3> QED BY <3>1, <3>2
  <2> QED BY <2>1, <2>2
<1>4. IsSeq(ReadFlash(s, d).out)
  BY Sequences, ResultIs DEF ReadFlash
<1>5. IsSeq(CgiLed(s, d).out)
  BY <1>1, Sequences, ResultIs DEF CgiLed
<1>6. IsSeq(GetFirmwareNext(s, d).out)
  BY <1>1, Sequences, ResultIs DEF GetFirmwareNext
<1>7. IsSeq(RebootFirmware(s, d).out)
  <2> DEFINE e == [d EXCEPT !.restart = "upgrade"]
  <2>1. \/ RebootFirmware(s, d) = Result("DONE", s, <<>>, d)
        \/ RebootFirmware(s, d) = Result("DONE", s, Status(200), e)
    BY DEF RebootFirmware
  <2> HIDE DEF e
  <2>2. IsSeq(Result("DONE", s, <<>>, d).out) /\ IsSeq(Result("DONE", s, Status(200), e).out)
    <3>1. IsSeq(<<>>) /\ IsSeq(Status(200))
      BY NothingIsSeq, StatusIsSeq
    <3>2. \A x : Result("DONE", s, <<>>, d).out = <<>> /\ Result("DONE", s, x, e).out = x
      BY ResultIs
    <3> QED BY <3>1, <3>2
  <2> QED BY <2>1, <2>2
<1>8. IsSeq(WiFiConnect(s, d).out)
  BY ResultSends DEF WiFiConnect
<1>9. IsSeq(WiFiConnStatus(s, d).out)
  BY <1>1, ResultIs DEF WiFiConnStatus
<1>10. IsSeq(WiFiSetMode(s, d).out)
  BY ResultSends DEF WiFiSetMode
<1> QED BY <1>2, <1>3, <1>4, <1>5, <1>6, <1>7, <1>8, <1>9, <1>10

LEMMA CgiSends ==
  ASSUME NEW name \in CgiNames, NEW s, NEW d \in DevType, CanCall(name, s)
  PROVE  IsSeq(Cgi(name, s, d).out)
<1>1. CASE name \in TplCallbacks
  <2>1. s.data \in {NULL} \cup TplData
    BY <1>1 DEF CanCall
  <2>2. Cgi(name, s, d) = EspFsTemplate(s, d, name)
    BY <1>1, CgiIs
  <2> QED BY <1>1, <2>1, <2>2, TemplateSends
<1>2. CASE name = "cgiEspFsHook"
  <2>1. s.data \in {NULL} \cup EspFsFile
    BY <1>2 DEF CanCall
  <2> QED BY <1>2, <2>1, CgiIs, FileSends
<1>3. CASE name = "cgiUploadFirmware"
  BY <1>3, CgiIs, UploadSends
<1>4. CASE name = "cgiWiFiScan"
  BY <1>4, CgiIs, ScanSends
<1>5. CASE name \in {"cgiWiFiConnect", "cgiWiFiConnStatus", "cgiWiFiSetMode",
                     "cgiRedirectApClientToHostname", "cgiRedirect", "cgiReadFlash", "cgiLed",
                     "cgiGetFirmwareNext", "cgiRebootFirmware"}
  BY <1>5, CgiIs, OthersSend
<1> QED BY <1>1, <1>2, <1>3, <1>4, <1>5, NameCases

LEMMA ProcessSends ==
  ASSUME NEW s \in SlotType, NEW d \in DevType, s.conn # NULL, s.req \in Requests,
         s.received - s.buffLen >= 0
  PROVE  IsSeq(ProcessRequest(s, d).out)
<1>3. CASE s.req.url = NULL
  <2>1. ProcessRequest(s, d).out = <<>>
    BY <1>3 DEF ProcessRequest
  <2> QED BY <2>1, NothingIsSeq
<1>1. CASE s.req.url # NULL /\ Takers(s, d) = {}
  <2>1. ProcessRequest(s, d).out = Status(404)
    BY <1>1 DEF ProcessRequest
  <2>2. IsSeq(Status(404))
    BY StatusIsSeq
  <2> QED BY <2>1, <2>2
<1>2. CASE s.req.url # NULL /\ Takers(s, d) # {}
  <2> DEFINE i == Min(Takers(s, d))
             name == BuiltInUrls[i][2]
             u == Tried(s, i)
             r == Cgi(name, u, d)
  <2>1. i \in Takers(s, d)
    <3>1. Takers(s, d) \subseteq 1..18
      BY Urls DEF Takers
    <3>2. Takers(s, d) \subseteq Nat
      BY <3>1
    <3> QED BY <1>2, <3>2, MinIsLeast
  <2>2. i \in 1..18
    <3> HIDE DEF i
    <3> QED BY <2>1, TakersAre
  <2>3. ProcessRequest(s, d).out = r.out
    BY <1>2 DEF ProcessRequest
  <2> HIDE DEF i
  <2>4. name \in CgiNames /\ CanCall(name, u)
    BY <2>2, TriedIs
  <2> HIDE DEF name, u
  <2> QED BY <2>3, <2>4, CgiSends
<1> QED BY <1>1, <1>2, <1>3

(* An answer in the making is a beginning of the whole.                     *)
LEMMA HandlerAt ==
  ASSUME NEW s, PageHandler(s), s.data.pos <= Size(s.req), Streamed(s.req)
  PROVE  s.data.pos \in 0..Size(s.req)
<1>1. s.data.pos \in Nat
  BY DEF PageHandler, TplData, EspFsFile
<1>2. Size(s.req) \in Nat
  <2>1. AsksFlash(s.req) \/ s.req.url \in DOMAIN Files
    BY DEF Streamed, AsksFlash
  <2> QED BY <2>1, FileIs, CgiFlashAssumption DEF Size
<1> QED BY <1>1, <1>2

LEMMA ExpectedIs ==
  ASSUME NEW req, Streamed(req)
  PROVE  /\ Expected(req) \in Seq(PageItems)
         /\ \A n \in 0..Size(req) :
              Sofar(req, n) \in Seq(PageItems) /\ Begins(Sofar(req, n), Expected(req))
<1>1. Size(req) \in Nat
  <2>1. AsksFlash(req) \/ req.url \in DOMAIN Files
    BY DEF Streamed, AsksFlash
  <2> QED BY <2>1, FileIs, CgiFlashAssumption DEF Size
<1> DEFINE N == Size(req)
           h == Status(200)
           B(n) == Body(req, n)
<1>2. N \in 0..N
  BY <1>1
<1>3. \A n \in 0..N : B(n) \in Seq(PageItems) /\ Begins(B(n), B(N))
  <2> SUFFICES ASSUME NEW n \in 0..N PROVE B(n) \in Seq(PageItems) /\ Begins(B(n), B(N))
    OBVIOUS
  <2>1. N \in n..N
    BY <1>1
  <2> QED BY <2>1, BodyIs
<1>4. Expected(req) = h \o B(N) /\ h \in Seq(PageItems)
  BY <1>2, BodyIs, StatusIs
<1>5. ASSUME NEW n \in 0..N
      PROVE  Sofar(req, n) \in Seq(PageItems) /\ Begins(Sofar(req, n), Expected(req))
  <2>1. Sofar(req, n) = h \o B(n)
    BY DEF Sofar
  <2>2. B(n) \in Seq(PageItems) /\ B(N) \in Seq(PageItems) /\ Begins(B(n), B(N))
    BY <1>2, <1>3
  <2> HIDE DEF B, h
  <2>3. Begins(h \o B(n), h \o B(N)) /\ h \o B(n) \in Seq(PageItems)
    BY <1>4, <2>2, BeginsBehind, Joined
  <2> QED BY <1>4, <2>1, <2>3
<1>6. Expected(req) \in Seq(PageItems)
  <2>1. B(N) \in Seq(PageItems)
    BY <1>2, <1>3
  <2> HIDE DEF B, h
  <2> QED BY <1>4, <2>1, Joined
<1> QED BY <1>5, <1>6

LEMMA StateAnswers ==
  ASSUME NEW s, NEW o, AsksPage(s.req), PageState(s, o)
  PROVE  /\ o \in Seq(PageItems)
         /\ o \in Refusal \/ Begins(Valueless(o), Expected(s.req))
<1> DEFINE e == Expected(s.req)
<1>1. Streamed(s.req) /\ o \in Seq(PageItems) /\ e \in Seq(PageItems)
  BY ExpectedIs DEF AsksPage, PageState
<1>2. Len(e) \in Nat /\ Begins(e, e)
  <2>1. Len(e) \in Nat
    BY <1>1, LenProperties
  <2> QED BY <2>1 DEF Begins
<1> HIDE DEF e
<1>3. CASE s.received < s.len
  <2>1. o = <<>>
    BY <1>3 DEF PageState
  <2>2. Valueless(<<>>) = <<>>
    BY DEF Valueless
  <2>3. Begins(<<>>, e)
    BY <1>2 DEF Begins
  <2> QED BY <1>1, <2>1, <2>2, <2>3 DEF e
<1>4. CASE ~(s.received < s.len) /\ s.cgi = NULL
  BY <1>1, <1>2, <1>4 DEF PageState, PageIsDone, e
<1>5. CASE ~(s.received < s.len) /\ s.cgi # NULL
  <2>1. PageHandler(s) /\ s.data.pos <= Size(s.req) /\ Valueless(o) = Sofar(s.req, s.data.pos)
    BY <1>5 DEF PageState
  <2>2. s.data.pos \in 0..Size(s.req)
    BY <1>1, <2>1, HandlerAt
  <2> QED BY <1>1, <2>1, <2>2, ExpectedIs DEF e
<1> QED BY <1>3, <1>4, <1>5

(* A step that leaves a page alone.                                         *)
SamePage(j) ==
  LET e == slot[j].conn
  IN slot'[j] = slot[j] /\ out'[e] = out[e] /\ (link'[e] = "open" => link[e] = "open")

LEMMA PagesGoOn ==
  ASSUME PageInv,
         \A j \in Slots : ListSlot(j)' => PageGoesOn(j)' \/ SamePage(j),
         \A e \in Conns : PageAnswer(e)' \/ SameListAnswer(e),
         Reported', ServedAreClosed'
  PROVE  PageInv'
<1>1. ASSUME NEW j \in Slots, SamePage(j)
      PROVE  PageGoesOn(j)'
  <2>1. PageGoesOn(j)
    BY DEF PageInv
  <2> QED BY <1>1, <2>1 DEF PageGoesOn, SamePage, ListSlot
<1>2. \A j \in Slots : PageGoesOn(j)'
  BY <1>1 DEF PageGoesOn
<1>3. ASSUME NEW e \in Conns, SameListAnswer(e)
      PROVE  PageAnswer(e)'
  <2>1. PageAnswer(e)
    BY DEF PageInv
  <2> QED BY <1>3, <2>1 DEF PageAnswer, SameListAnswer, SameAnswer
<1> QED BY <1>2, <1>3 DEF PageInv

(* One slot works on its answer.                                            *)
LEMMA OneSlotPages ==
  ASSUME Inv, PageInv, NEW c \in Conns, NEW i \in Slots, slot[i].conn = c, link[c] = "open",
         NEW t \in SlotType, t.conn = c, slot' = [slot EXCEPT ![i] = t], link' = link,
         OthersWait(c), \A e \in Conns \ {c} : hist'.asked[e] = hist.asked[e],
         hist'.served = hist.served, hist'.asked[c] = t.req,
         IsSeq(out'[c]), pending'[c] > 0 => out'[c] # <<>>,
         AsksPage(t.req) => PageState(t, out'[c])
  PROVE  PageInv'
<1>1. slot'[i] = t /\ \A j \in Slots : j # i => slot'[j] = slot[j]
  BY SlotsChange DEF Inv
<1>2. c # NULL /\ c \notin hist.served /\ hist.served \subseteq Conns
  BY NotNames, TypeParts DEF PageInv, ServedAreClosed, Inv, HistType
<1>3. PageGoesOn(i)'
  BY <1>1 DEF PageGoesOn
<1>4. ASSUME NEW j \in Slots, j # i, ListSlot(j)'
      PROVE  SamePage(j)
  <2>1. slot'[j] = slot[j] /\ slot[j].conn # NULL
    BY <1>1, <1>4 DEF ListSlot
  <2>2. slot[j].conn \in Conns \ {c}
    BY <1>2, <1>4, <2>1, OtherSlot
  <2> QED BY <2>1, <2>2 DEF SamePage, OthersWait
<1>5. PageAnswer(c)'
  <2> SUFFICES ASSUME AsksPage(t.req)
               PROVE  /\ out'[c] \in Seq(PageItems)
                      /\ out'[c] \in Refusal \/ Begins(Valueless(out'[c]), Expected(t.req))
    BY <1>2 DEF PageAnswer
  <2> QED BY StateAnswers
<1>6. \A e \in Conns \ {c} : SameListAnswer(e)
  BY DEF SameListAnswer, SameAnswer, OthersWait
<1>7. ServedAreClosed'
  BY DEF PageInv, ServedAreClosed
<1>8. Reported'
  <2>1. \A e \in Conns \ {c} : IsSeq(out'[e]) /\ (pending'[e] > 0 => out'[e] # <<>>)
    BY DEF PageInv, Reported, OthersWait
  <2>2. \A e \in hist'.served : out'[e] # <<>>
    BY <1>2 DEF PageInv, Reported, OthersWait
  <2> QED BY <2>1, <2>2 DEF Reported
<1> QED BY <1>3, <1>4, <1>5, <1>6, <1>7, <1>8, PagesGoOn

(* Nothing is sent; some slots are given back.                              *)
LEMMA PagesAlone ==
  ASSUME Inv, PageInv, out' = out, hist'.asked = hist.asked, hist'.served = hist.served,
         \A j \in Slots : slot'[j] = slot[j] \/ IsRetired(slot'[j]),
         \A e \in Conns : pending'[e] = pending[e] \/ pending'[e] = 0,
         \A e \in Conns : link'[e] = "open" => link[e] = "open",
         \A e \in Conns : link'[e] \in {"new", "refused"} => link'[e] = link[e]
  PROVE  PageInv'
<1>1. ASSUME NEW j \in Slots, ListSlot(j)'
      PROVE  SamePage(j)
  <2>1. slot'[j] = slot[j] /\ slot[j].conn # NULL
    BY <1>1 DEF ListSlot, IsRetired
  <2>2. slot[j].conn \in Conns
    BY <2>1, TypeParts DEF Inv, SlotType
  <2> QED BY <2>1, <2>2 DEF SamePage
<1>2. \A e \in Conns : SameListAnswer(e)
  BY DEF SameListAnswer, SameAnswer
<1>3. ServedAreClosed'
  BY TypeParts DEF PageInv, ServedAreClosed, Inv, HistType
<1>4. Reported'
  BY DEF PageInv, Reported
<1> QED BY <1>1, <1>2, <1>3, <1>4, PagesGoOn

LEMMA ConnectPages ==
  ASSUME Inv, PageInv, NEW c \in Conns, ConnectCb(c)
  PROVE  PageInv'
<1> DEFINE free == {i \in Slots : slot[i].conn = NULL}
           m == Min(free)
           t == [slot[m] EXCEPT !.conn = c, !.buff = FALSE, !.buffLen = 0,
                                !.received = 0, !.len = -1]
<1>1. free # {} => m \in Slots
  <2>1. free \subseteq Nat
    BY DEF Slots
  <2> HIDE DEF free
  <2>2. free # {} => m \in free
    BY <2>1, MinIsLeast
  <2> QED BY <2>2 DEF free
<1>2. slot' = slot \/ (m \in Slots /\ slot' = [slot EXCEPT ![m] = t])
  <2>1. slot' = slot \/ (free # {} /\ slot' = [slot EXCEPT ![m] = t])
    BY DEF ConnectCb
  <2> HIDE DEF free
  <2> QED BY <1>1, <2>1
<1>3. /\ hist' = hist /\ out' = out /\ pending' = pending /\ link[c] = "new"
      /\ link' = [link EXCEPT ![c] = "refused"] \/ link' = [link EXCEPT ![c] = "open"]
  BY DEF ConnectCb
<1>4. \A j \in Slots : slot[j] \in SlotType
  BY TypeParts DEF Inv
<1> HIDE DEF m
<1>5. m \in Slots => t.len = -1
  BY <1>4 DEF SlotType
<1> HIDE DEF t
<1>6. \A j \in Slots : slot'[j] = slot[j] \/ slot'[j].len = -1
  <2>1. slot \in [Slots -> SlotType]
    BY DEF Inv, TypeOK
  <2> QED BY <1>2, <1>5, <2>1
<1>7. \A e \in Conns : e # c => link'[e] = link[e]
  BY <1>3, LinkChange DEF Inv, Links
<1>8. ASSUME NEW j \in Slots, ListSlot(j)'
      PROVE  SamePage(j)
  <2>1. slot'[j] = slot[j] /\ slot[j].conn # NULL
    BY <1>6, <1>8 DEF ListSlot
  <2>2. slot[j].conn \in Conns \ {c}
    <3>1. slot[j].conn \in Conns
      BY <1>4, <2>1 DEF SlotType
    <3>2. link[slot[j].conn] \in {"open", "closing", "broken"}
      BY <2>1 DEF Inv, PoolInv
    <3> QED BY <1>3, <3>1, <3>2
  <2> QED BY <1>3, <1>7, <2>1, <2>2 DEF SamePage
<1>9. ServedAreClosed'
  <2>1. c \notin hist.served /\ hist.served \subseteq Conns
    BY <1>3, TypeParts DEF PageInv, ServedAreClosed, Inv, HistType
  <2> QED BY <1>3, <1>7, <2>1 DEF PageInv, ServedAreClosed
<1>10. Reported' /\ \A e \in Conns : SameListAnswer(e)
  BY <1>3 DEF PageInv, Reported, SameListAnswer, SameAnswer
<1> QED BY <1>8, <1>9, <1>10, PagesGoOn

(* What a call has sent is a sequence, and something if the SDK will report.*)
LEMMA FlushReports ==
  ASSUME Inv, PageInv, NEW c \in Conns, NEW sent, Flush(c, sent), IsSeq(sent)
  PROVE  OthersWait(c) /\ out'[c] = out[c] \o sent /\ IsSeq(out'[c])
         /\ (pending'[c] > 0 => out'[c] # <<>>)
<1>1. OthersWait(c) /\ out'[c] = out[c] \o sent
      /\ pending'[c] = IF sent = <<>> THEN pending[c] ELSE pending[c] + 1
  BY FlushIs DEF Inv, OthersWait
<1>2. IsSeq(out[c]) /\ (pending[c] > 0 => out[c] # <<>>)
  BY DEF PageInv, Reported
<1>3. IsSeq(out[c] \o sent) /\ (out[c] # <<>> \/ sent # <<>> => out[c] \o sent # <<>>)
  BY <1>2, SequencesJoined
<1> QED BY <1>1, <1>2, <1>3

LEMMA StateMoved ==
  ASSUME NEW s, NEW t, NEW o, PageState(s, o), t.req = s.req, t.len = s.len,
         t.received = s.received, t.cgi = s.cgi, t.data = s.data
  PROVE  PageState(t, o)
BY DEF PageState, PageHandler

LEMMA RecvHeadPages ==
  ASSUME PagesAreFiles, Inv, PageInv, NEW c \in Conns, NEW req \in plan.asks[c],
         NEW junk \in BOOLEAN, RecvHead(c, req, junk)
  PROVE  PageInv'
<1>1. PICK i \in FindConn(c) :
        /\ slot[i].len = -1
        /\ LET s == Parsed(slot[i], req)
           IN IF s.len = 0
              THEN Outcome(i, c, ProcessRequest(s, [dev EXCEPT !.junk = junk]))
              ELSE /\ slot' = [slot EXCEPT ![i] = s]
                   /\ UNCHANGED <<dev, pending, out>>
  BY DEF RecvHead
<1>2. /\ i \in Slots /\ slot[i].conn = c /\ slot[i] \in SlotType /\ c # NULL
      /\ SlotInv(slot[i], hist) /\ Receiving(slot[i])
  BY FoundSlot
<1>3. req \in Requests /\ req # NULL /\ req.len \in Nat
  BY TypeParts, RequestType DEF Inv
<1> DEFINE s == Parsed(slot[i], req)
<1>4. /\ s \in SlotType /\ s.conn = c /\ s.req = req /\ s.len = req.len
      /\ s.received = 0 /\ s.buffLen = 0
  BY <1>1, <1>2, <1>3, HeadIs
<1>5. hist' = [hist EXCEPT !.asked[c] = req] /\ link' = link /\ link[c] = "open"
  BY DEF RecvHead
<1>6. /\ hist'.asked[c] = req /\ hist'.served = hist.served
      /\ \A e \in Conns \ {c} : hist'.asked[e] = hist.asked[e]
  BY <1>5, TypeParts DEF Inv, HistType
<1>7. dev \in DevType /\ out[c] = <<>> /\ pending[c] = 0
  BY <1>1, <1>2, NoAnswerYet DEF Inv, TypeOK
<1> HIDE DEF s
<1>8. CASE s.len = 0
  <2> DEFINE d == [dev EXCEPT !.junk = junk]
             res == ProcessRequest(s, d)
  <2>1. Outcome(i, c, res)
    BY <1>1, <1>8 DEF s
  <2>2. d \in DevType
    BY <1>7, JunkIs
  <2> HIDE DEF d
  <2>3. s.conn # NULL /\ s.req \in Requests /\ s.received - s.buffLen >= 0
        /\ ~(s.received < s.len)
    BY <1>2, <1>3, <1>4, <1>8
  <2>4. res.slot \in SlotType /\ SameRest(res.slot, s) /\ res.dev \in DevType
    <3>1. s.cgi = NULL
      BY <1>1, <1>2, <1>3, HeadIs DEF s
    <3> QED BY <1>4, <2>2, <2>3, <3>1, Processed
  <2>5. IsSeq(res.out)
    BY <1>4, <2>2, <2>3, ProcessSends
  <2>6. Streamed(s.req) => PageState(res.slot, res.out)
    BY <1>4, <2>2, <2>3, NewPage
  <2> HIDE DEF res
  <2>7. slot' = [slot EXCEPT ![i] = res.slot] /\ Flush(c, res.out)
    BY <1>2, <2>1, <2>4, OutcomeIs DEF Inv
  <2>8. OthersWait(c) /\ out'[c] = out[c] \o res.out /\ IsSeq(out'[c])
        /\ (pending'[c] > 0 => out'[c] # <<>>)
    BY <2>5, <2>7, FlushReports
  <2>9. out'[c] = res.out
    <3>1. res.out \in Seq({res.out[k] : k \in DOMAIN res.out})
      BY <2>5 DEF IsSeq
    <3>2. <<>> \o res.out = res.out
      BY <3>1, NothingAdded
    <3> QED BY <1>7, <2>8, <3>2
  <2>10. res.slot.conn = c /\ res.slot.req = req
    BY <1>4, <2>4 DEF SameRest
  <2>11. AsksPage(res.slot.req) => PageState(res.slot, out'[c])
    BY <1>4, <2>6, <2>9, <2>10 DEF AsksPage
  <2> QED BY <1>2, <1>5, <1>6, <2>4, <2>7, <2>8, <2>10, <2>11, OneSlotPages
<1>9. CASE s.len # 0
  <2>1. slot' = [slot EXCEPT ![i] = s] /\ pending' = pending /\ out' = out
    BY <1>1, <1>9 DEF s
  <2>2. s.received < s.len
    BY <1>3, <1>4, <1>9
  <2>3. <<>> \in Seq(PageItems)
    OBVIOUS
  <2>4. PageState(s, out'[c]) /\ IsSeq(out'[c])
    BY <1>7, <2>1, <2>2, <2>3, Sequences DEF PageState
  <2>5. OthersWait(c) /\ ~(pending'[c] > 0)
    BY <1>7, <2>1 DEF OthersWait
  <2> QED BY <1>2, <1>4, <1>5, <1>6, <2>1, <2>4, <2>5, OneSlotPages
<1> QED BY <1>8, <1>9

(* A body that fits the buffer is handed on when it is complete.            *)
LEMMA PageWaits ==
  ASSUME Inv, PageInv, NEW c \in Conns, NEW i, Arrives(i, c), link[c] = "open",
         AsksPage(slot[i].req)
  PROVE  LET s == Gained(slot[i])
         IN out[c] = <<>> /\ IF HandsOn(s) THEN s.received = s.len ELSE s.received < s.len
<1> DEFINE p == slot[i]
           s == Gained(slot[i])
<1>1. /\ i \in Slots /\ p \in SlotType /\ c # NULL /\ p.len # -1 /\ p.conn = c
      /\ s \in SlotType /\ s.req = p.req /\ s.len = p.len /\ s.buffSize = p.buffSize
      /\ s.received <= s.req.sent /\ Done(s) \in Nat
      /\ s.req \in Requests /\ hist.asked[c] = s.req /\ s.len = s.req.len
      /\ p.buffSize = IF p.len <= MaxPost THEN p.len ELSE MaxPost
  BY GainedIs
<1>3. s.buffSize = s.len /\ s.req.sent <= s.len
  BY <1>1 DEF AsksPage, InOneBuffer
<1>5. s.received \in Nat /\ s.len \in Int /\ s.buffLen \in Nat
  BY <1>1 DEF SlotType
<1>2. p.received < p.len /\ s.received <= s.len
  <2>1. p.received < p.req.sent
    BY DEF Arrives
  <2> HIDE DEF s, p
  <2> QED BY <1>1, <1>3, <1>5, <2>1, OneBuffer
<1>4. out[c] = <<>>
  <2>1. PageState(p, out[c])
    BY <1>1 DEF PageInv, PageGoesOn, ListSlot
  <2> QED BY <1>2, <2>1 DEF PageState
<1> HIDE DEF s
<1>6. IF HandsOn(s) THEN s.received = s.len ELSE s.received < s.len
  BY <1>1, <1>2, <1>3, <1>5 DEF HandsOn, Done
<1> QED BY <1>4, <1>6 DEF s

LEMMA RecvBodyPages ==
  ASSUME PagesAreFiles, Inv, PageInv, NEW c \in Conns, NEW junk \in BOOLEAN, RecvBody(c, junk)
  PROVE  PageInv'
<1>1. PICK i \in Slots :
           /\ Arrives(i, c)
           /\ LET s == Gained(slot[i])
                  res == ProcessRequest(s, [dev EXCEPT !.junk = junk])
              IN \/ /\ HandsOn(s) /\ Outcome(i, c, Emptied(res))
                    /\ hist' = IF Stored(res) THEN Wrote(c, FirmwareNext(dev)) ELSE hist
                 \/ /\ ~HandsOn(s) /\ slot' = [slot EXCEPT ![i] = s]
                    /\ dev' = dev /\ pending' = pending /\ out' = out /\ hist' = hist
  BY BodyCases
<1> DEFINE s   == Gained(slot[i])
           d   == [dev EXCEPT !.junk = junk]
           res == ProcessRequest(s, d)
           e   == Emptied(res)
<1>2. /\ s \in SlotType /\ s.conn = c /\ slot[i].conn = c /\ s.req \in Requests /\ c # NULL
      /\ s.received - s.buffLen >= 0 /\ hist.asked[c] = s.req /\ s.req = slot[i].req
  BY <1>1, GainedIs DEF Done
<1>3. link[c] = "open" /\ link' = link
  BY DEF RecvBody
<1>4. hist'.asked = hist.asked /\ hist'.served = hist.served
  <2>1. hist' = hist \/ \E p : hist' = Wrote(c, p)
    BY <1>1
  <2>2. \A p : Wrote(c, p).asked = hist.asked /\ Wrote(c, p).served = hist.served
    BY DEF Wrote
  <2> QED BY <2>1, <2>2
<1>5. d \in DevType
  BY TypeParts, JunkIs DEF Inv
<1>6. CASE HandsOn(s) /\ Outcome(i, c, e)
  <2>1. /\ res.slot \in SlotType /\ SameRest(res.slot, s)
        /\ e.slot \in SlotType /\ e.slot.conn = c /\ e.slot.len = s.len /\ e.slot.req = s.req
        /\ e.slot.received = s.received /\ e.slot.cgi = res.slot.cgi
        /\ e.dev = res.dev /\ e.out = res.out /\ res.dev \in DevType
    BY <1>1, <1>6, HandedOn
  <2>2. AsksPage(s.req) => out[c] = <<>> /\ s.received = s.len
    BY <1>1, <1>2, <1>3, <1>6, PageWaits
  <2> HIDE DEF s, d
  <2>3. IsSeq(res.out)
    BY <1>2, <1>5, ProcessSends
  <2>4. AsksPage(s.req) => PageState(res.slot, res.out)
    <3> SUFFICES ASSUME AsksPage(s.req) PROVE PageState(res.slot, res.out)
      OBVIOUS
    <3>1. Streamed(s.req)
      BY DEF AsksPage
    <3>2. ~(s.received < s.len)
      <4>1. s.received = s.len /\ s.received \in Nat
        BY <1>2, <2>2 DEF SlotType
      <4> QED BY <4>1
    <3> QED BY <1>2, <1>5, <3>1, <3>2, NewPage
  <2>5. res = [slot |-> res.slot, out |-> res.out, dev |-> res.dev]
    BY DEF ProcessRequest
  <2> HIDE DEF res
  <2>6. e = [slot |-> [res.slot EXCEPT !.buffLen = 0], out |-> res.out, dev |-> res.dev]
    BY <2>5 DEF Emptied
  <2>7. e.slot.data = res.slot.data
    BY <2>1, <2>6 DEF SlotType
  <2> HIDE DEF e
  <2>8. slot' = [slot EXCEPT ![i] = e.slot] /\ Flush(c, res.out)
    BY <1>6, <2>1, OutcomeIs DEF Inv
  <2>9. OthersWait(c) /\ out'[c] = out[c] \o res.out /\ IsSeq(out'[c])
        /\ (pending'[c] > 0 => out'[c] # <<>>)
    BY <2>3, <2>8, FlushReports
  <2>10. <<>> \o res.out = res.out
    <3>1. res.out \in Seq({res.out[k] : k \in DOMAIN res.out})
      BY <2>3 DEF IsSeq
    <3> QED BY <3>1, NothingAdded
  <2>11. AsksPage(e.slot.req) => PageState(e.slot, out'[c])
    <3> SUFFICES ASSUME AsksPage(s.req) PROVE PageState(e.slot, out'[c])
      BY <2>1
    <3>1. PageState(res.slot, res.out) /\ out'[c] = res.out
      BY <2>2, <2>4, <2>9, <2>10
    <3>2. PageState(e.slot, res.out)
      BY <2>1, <2>7, <3>1, StateMoved DEF SameRest
    <3> QED BY <3>1, <3>2
  <2>12. hist'.asked[c] = e.slot.req
    BY <1>2, <1>4, <2>1
  <2> QED BY <1>2, <1>3, <1>4, <2>1, <2>8, <2>9, <2>11, <2>12, OneSlotPages
<1>7. CASE /\ ~HandsOn(s) /\ slot' = [slot EXCEPT ![i] = s]
           /\ dev' = dev /\ pending' = pending /\ out' = out /\ hist' = hist
  <2>1. AsksPage(s.req) => out[c] = <<>> /\ s.received < s.len
    BY <1>1, <1>2, <1>3, <1>7, PageWaits
  <2>2. <<>> \in Seq(PageItems)
    OBVIOUS
  <2>3. AsksPage(s.req) => PageState(s, out'[c])
    BY <1>7, <2>1, <2>2 DEF PageState
  <2>4. OthersWait(c) /\ IsSeq(out'[c]) /\ (pending'[c] > 0 => out'[c] # <<>>)
    BY <1>7 DEF OthersWait, PageInv, Reported
  <2> HIDE DEF s
  <2>5. hist'.asked[c] = s.req
    BY <1>2, <1>4
  <2> QED BY <1>2, <1>3, <1>4, <1>7, <2>3, <2>4, <2>5, OneSlotPages
<1> QED BY <1>1, <1>6, <1>7

(* The answer goes on, or has been sent.                                    *)
LEMMA ClosePages ==
  ASSUME Inv, PageInv, NEW c \in Conns, NEW i \in FindConn(c), link[c] = "open", pending[c] > 0,
         slot[i].cgi = NULL, CloseConn(i, c)
  PROVE  PageInv'
<1>1. /\ i \in Slots /\ slot[i].conn = c /\ slot[i] \in SlotType /\ c # NULL
      /\ SlotInv(slot[i], hist) /\ Receiving(slot[i])
  BY FoundSlot
<1>2. /\ slot' = [slot EXCEPT ![i] = Retired(slot[i])]
      /\ link' = [link EXCEPT ![c] = "closing"] /\ pending' = [pending EXCEPT ![c] = 0]
      /\ hist' = [hist EXCEPT !.served = @ \cup {c}] /\ dev' = dev /\ out' = out
  BY DEF CloseConn
<1>3. Retired(slot[i]) \in SlotType /\ IsRetired(Retired(slot[i]))
  BY <1>1, RetiredIs
<1>4. /\ IsRetired(slot'[i])
      /\ \A j \in Slots : j # i => slot'[j] = slot[j]
  BY <1>1, <1>2, <1>3, SlotsChange DEF Inv
<1>5. link'[c] = "closing" /\ \A e \in Conns : e # c => link'[e] = link[e]
  BY <1>2, LinkChange DEF Links, Inv
<1>6. hist'.asked = hist.asked /\ hist'.served = hist.served \cup {c}
  BY <1>2, TypeParts DEF Inv, HistType
<1>7. /\ \A e \in Conns : e # c => pending'[e] = pending[e]
      /\ pending'[c] = 0 /\ out[c] # <<>>
  BY <1>2 DEF Inv, TypeOK, PageInv, Reported
<1>8. slot[i].len # -1 /\ hist.asked[c] = slot[i].req
  <2>1. slot[i].len = -1 => pending[c] = 0
    BY <1>1, NoAnswerYet
  <2> QED BY <1>1, <2>1 DEF SlotInv
<1>9. PageAnswer(c)'
  <2> SUFFICES ASSUME AsksPage(hist.asked[c])
               PROVE  /\ out[c] \in Seq(PageItems)
                      /\ \/ out[c] \in Refusal
                         \/ Begins(Valueless(out[c]), Expected(hist.asked[c]))
                      /\ PageIsDone(hist.asked[c], out[c])
    BY <1>2, <1>6 DEF PageAnswer
  <2>1. PageState(slot[i], out[c])
    BY <1>1, <1>8 DEF PageInv, PageGoesOn, ListSlot
  <2>2. PageAnswer(c)
    BY DEF PageInv
  <2> QED BY <1>7, <1>8, <2>1, <2>2 DEF PageState, PageAnswer
<1>10. ASSUME NEW j \in Slots, ListSlot(j)'
       PROVE  SamePage(j)
  <2>1. j # i /\ slot'[j] = slot[j] /\ slot[j].conn # NULL
    BY <1>4, <1>10 DEF ListSlot, IsRetired
  <2>2. slot[j].conn \in Conns \ {c}
    BY <1>1, <2>1, OtherSlot
  <2> QED BY <1>2, <1>5, <2>1, <2>2 DEF SamePage
<1>11. \A e \in Conns \ {c} : SameListAnswer(e)
  BY <1>2, <1>6 DEF SameListAnswer, SameAnswer
<1>12. ServedAreClosed'
  <2>1. hist.served \subseteq Conns
    BY TypeParts DEF Inv, HistType
  <2> QED BY <1>5, <1>6, <2>1 DEF PageInv, ServedAreClosed
<1>13. Reported'
  <2>1. \A e \in Conns : IsSeq(out[e]) /\ (pending'[e] > 0 => out[e] # <<>>)
    BY <1>7 DEF PageInv, Reported
  <2>2. \A e \in hist'.served : out[e] # <<>>
    BY <1>6, <1>7 DEF PageInv, Reported
  <2> QED BY <1>2, <2>1, <2>2 DEF Reported
<1> QED BY <1>9, <1>10, <1>11, <1>12, <1>13, PagesGoOn

LEMMA GoOnPages ==
  ASSUME BlockFits, Inv, PageInv, NEW c \in Conns, NEW i \in FindConn(c), link[c] = "open",
         pending[c] > 0, slot[i].cgi # NULL, GoOn(i, c)
  PROVE  PageInv'
<1> DEFINE s == slot[i]
           r == Cgi(s.cgi, s, dev)
           t == Kept(s, r)
<1>1. /\ i \in Slots /\ s.conn = c /\ s \in SlotType /\ c # NULL /\ dev \in DevType
      /\ SlotInv(s, hist) /\ Receiving(s)
  BY FoundSlot, TypeParts DEF Inv
<1>2. /\ slot' = [slot EXCEPT ![i] = t] /\ link' = link
      /\ out' = [out EXCEPT ![c] = @ \o r.out]
      /\ pending' = [pending EXCEPT ![c] = IF r.out = <<>> THEN @ - 1 ELSE @]
      /\ hist' = [hist EXCEPT !.disturbed =
                      IF r.dev.wifi.scanInProgress /\ ~dev.wifi.scanInProgress
                      THEN @ \cup {d \in Conns \ {c} : link[d] = "open"} ELSE @]
  BY DEF GoOn
<1>3. s.cgi \in CgiNames /\ CanCall(s.cgi, s) /\ Handed(s.cgi, s) /\ s.len # -1
      /\ hist.asked[c] = s.req
  BY <1>1, WorkingSlot
<1>4. Typed(r) /\ IsSeq(r.out)
  <2> HIDE DEF s
  <2>1. Called(s.cgi, s, dev, r)
    BY <1>1, <1>3, CgiCalled
  <2>2. IsSeq(r.out)
    BY <1>1, <1>3, CgiSends
  <2> QED BY <2>1, <2>2 DEF Called
<1>5. t \in SlotType /\ SameRest(t, s)
  <2> HIDE DEF s, r
  <2> QED BY <1>1, <1>4, KeptIs
<1>6. hist'.asked = hist.asked /\ hist'.served = hist.served
  <2> HIDE DEF r, t, s
  <2> QED BY <1>2, TypeParts DEF Inv, HistType
<1>7. out'[c] = out[c] \o r.out /\ OthersWait(c)
  <2> HIDE DEF r, t, s
  <2> QED BY <1>2 DEF Inv, TypeOK, OthersWait
<1>8. IsSeq(out'[c]) /\ out'[c] # <<>>
  <2> HIDE DEF r
  <2>1. IsSeq(out[c]) /\ out[c] # <<>>
    BY DEF PageInv, Reported
  <2> QED BY <1>4, <1>7, <2>1, SequencesJoined
<1>9. AsksPage(t.req) => PageState(t, out'[c])
  <2> SUFFICES ASSUME AsksPage(s.req) PROVE PageState(t, out'[c])
    BY <1>5 DEF SameRest
  <2>1. PageState(s, out[c])
    BY <1>1, <1>3 DEF PageInv, PageGoesOn, ListSlot
  <2>2. ~(s.received < s.len)
    BY <2>1 DEF PageInv, Reported, PageState
  <2>3. PageState(t, out[c] \o r.out)
    <3> HIDE DEF s
    <3>1. s.conn # NULL /\ s.cgi # NULL
      BY <1>1 DEF s
    <3> QED BY <1>1, <1>4, <2>1, <2>2, <3>1, NextPiece
  <2> HIDE DEF s, r, t
  <2> QED BY <1>7, <2>3
<1>10. t.conn = c /\ slot[i].conn = c /\ hist'.asked[c] = t.req
  BY <1>1, <1>3, <1>5, <1>6 DEF SameRest
<1> HIDE DEF r, t, s
<1> QED BY <1>1, <1>2, <1>5, <1>6, <1>7, <1>8, <1>9, <1>10, OneSlotPages

LEMMA SentPages ==
  ASSUME BlockFits, Inv, PageInv, NEW c \in Conns, SentCb(c)
  PROVE  PageInv'
<1>1. /\ link[c] = "open" /\ pending[c] > 0
      /\ \E i \in FindConn(c) : IF slot[i].cgi = NULL THEN CloseConn(i, c) ELSE GoOn(i, c)
  BY DEF SentCb
<1> QED BY <1>1, ClosePages, GoOnPages

(* Connections break off and slots are given back.                          *)
LEMMA DisconPages ==
  ASSUME Inv, PageInv, NEW c \in Conns, NEW looks, DisconCb(c, looks)
  PROVE  PageInv'
<1>1. \A j \in Slots : slot'[j] = slot[j] \/ IsRetired(slot'[j])
  BY DisconIs
<1>2. /\ out' = out /\ pending' = [pending EXCEPT ![c] = 0]
      /\ link' = [link EXCEPT ![c] = "gone"]
      /\ hist' = [hist EXCEPT !.disturbed =
                      IF dev'.wifi.scanInProgress /\ ~dev.wifi.scanInProgress
                      THEN @ \cup {d \in Conns \ {c} : link[d] = "open"} ELSE @]
  BY DEF DisconCb
<1>3. hist'.asked = hist.asked /\ hist'.served = hist.served
  BY <1>2, TypeParts DEF Inv, HistType
<1>4. link'[c] = "gone" /\ \A e \in Conns : e # c => link'[e] = link[e]
  BY <1>2, LinkChange DEF Links, Inv
<1>5. \A e \in Conns : link'[e] = "open" => link[e] = "open"
  BY <1>4
<1>6. \A e \in Conns : pending'[e] = pending[e] \/ pending'[e] = 0
  BY <1>2 DEF Inv, TypeOK
<1> QED BY <1>1, <1>2, <1>3, <1>4, <1>5, <1>6, PagesAlone

LEMMA LinkPages ==
  ASSUME Inv, PageInv, NEW c \in Conns, ClientCloses(c) \/ ReconCb(c)
  PROVE  PageInv'
<1>1. /\ slot' = slot /\ out' = out
      /\ link' = [link EXCEPT ![c] = "closing"] \/ link' = [link EXCEPT ![c] = "broken"]
      /\ pending' = pending \/ pending' = [pending EXCEPT ![c] = 0]
      /\ hist' = [hist EXCEPT !.fails = @ + 1]
  BY DEF ClientCloses, ReconCb
<1>2. hist'.asked = hist.asked /\ hist'.served = hist.served
  BY <1>1
<1>3. link'[c] \in {"closing", "broken"} /\ \A e \in Conns : e # c => link'[e] = link[e]
  BY <1>1, LinkChange DEF Links, Inv
<1>4. \A e \in Conns : pending'[e] = pending[e] \/ pending'[e] = 0
  BY <1>1 DEF Inv, TypeOK
<1> QED BY <1>1, <1>2, <1>3, <1>4, PagesAlone

LEMMA RestartPages ==
  ASSUME Inv, PageInv, NEW x \in {0, 1}, Reboot(x)
  PROVE  PageInv'
<1>1. /\ slot' = [i \in Slots |-> EmptySlot] /\ out' = out /\ pending' = [c \in Conns |-> 0]
      /\ link' = [c \in Conns |-> IF link[c] \in {"open", "closing", "broken"} THEN "gone"
                                ELSE link[c]]
      /\ hist' = [hist EXCEPT !.restarts = @ + 1]
  BY DEF Reboot
<1>2. hist'.asked = hist.asked /\ hist'.served = hist.served
  BY <1>1
<1>3. \A j \in Slots : IsRetired(slot'[j])
  BY <1>1, EmptySlotType
<1>4. \A e \in Conns : link'[e] # "open" /\ (link'[e] \in {"new", "refused"} => link'[e] = link[e])
  BY <1>1
<1>5. \A e \in Conns : pending'[e] = 0
  BY <1>1
<1> QED BY <1>1, <1>2, <1>3, <1>4, <1>5, PagesAlone

LEMMA SdkPages ==
  ASSUME Inv, PageInv,
         \/ \E ok \in BOOLEAN, n \in plan.lists : WifiScanDone(ok, n)
         \/ ReassTimer \/ ResetTimer \/ \E x \in {"off", "gotip"} : StationChanges(x)
         \/ UNCHANGED vars
  PROVE  PageInv'
<1>1. /\ slot' = slot /\ out' = out /\ pending' = pending /\ link' = link
      /\ \/ hist' = hist
         \/ hist' = [hist EXCEPT !.scans = @ + 1]
         \/ hist' = [hist EXCEPT !.stations = @ + 1]
  BY DEF WifiScanDone, StationChanges, ReassTimer, ResetTimer, vars
<1>2. hist'.asked = hist.asked /\ hist'.served = hist.served
  BY <1>1, TypeParts DEF Inv, HistType
<1> QED BY <1>1, <1>2, PagesAlone

LEMMA PagesStep ==
  ASSUME PagesAreFiles, BlockFits, Inv, PageInv, [Next]_vars
  PROVE  PageInv'
<1>1. ASSUME NEW c \in Conns, ConnectCb(c)
      PROVE  PageInv'
  BY <1>1, ConnectPages
<1>2. ASSUME NEW c \in Conns, NEW req \in plan.asks[c], NEW junk \in BOOLEAN,
             RecvHead(c, req, junk)
      PROVE  PageInv'
  BY <1>2, RecvHeadPages
<1>3. ASSUME NEW c \in Conns, NEW junk \in BOOLEAN, RecvBody(c, junk)
      PROVE  PageInv'
  BY <1>3, RecvBodyPages
<1>4. ASSUME NEW c \in Conns, SentCb(c)
      PROVE  PageInv'
  BY <1>4, SentPages
<1>5. ASSUME NEW c \in Conns, ClientCloses(c) \/ ReconCb(c)
      PROVE  PageInv'
  BY <1>5, LinkPages
<1>6. ASSUME NEW c \in Conns, NEW looks \in SUBSET Broken, DisconCb(c, looks)
      PROVE  PageInv'
  BY <1>6, DisconPages
<1>7. ASSUME \/ \E ok \in BOOLEAN, n \in plan.lists : WifiScanDone(ok, n)
             \/ ReassTimer \/ ResetTimer \/ \E x \in {"off", "gotip"} : StationChanges(x)
             \/ UNCHANGED vars
      PROVE  PageInv'
  BY <1>7, SdkPages
<1>8. ASSUME NEW c, NEW looks, Restart \/ CrashInDiscon(c, looks)
      PROVE  PageInv'
  BY <1>8, RestartReboots, RestartPages
<1> QED BY <1>1, <1>2, <1>3, <1>4, <1>5, <1>6, <1>7, <1>8 DEF Next

LEMMA InitPages == Init => PageInv
<1> SUFFICES ASSUME Init PROVE PageInv
  OBVIOUS
<1>1. /\ slot = [i \in Slots |-> EmptySlot] /\ hist.served = {}
      /\ \A c \in Conns : hist.asked[c] = NULL /\ out[c] = <<>> /\ pending[c] = 0
  BY DEF Init
<1>2. \A i \in Slots : ~ListSlot(i)
  BY <1>1, EmptySlotType DEF ListSlot, IsRetired
<1>3. \A c \in Conns : PageAnswer(c)
  BY <1>1 DEF PageAnswer, AsksPage
<1>4. ServedAreClosed /\ Reported
  BY <1>1, Sequences DEF ServedAreClosed, Reported
<1> QED BY <1>2, <1>3, <1>4 DEF PageInv, PageGoesOn

(* A beginning in the property's words.                                     *)
LEMMA BeginsIsPrefix ==
  ASSUME NEW S, NEW a \in Seq(S), NEW b \in Seq(S), Begins(a, b)
  PROVE  IsPrefix(a, b)
<1> DEFINE n == Len(a)
<1>1. n \in Nat /\ n <= Len(b) /\ Len(b) \in Nat /\ \A k \in 1..n : a[k] = b[k]
  BY LenProperties DEF Begins
<1>2. SubSeq(a, 1, n) = SubSeq(b, 1, n)
  <2> HIDE DEF n
  <2> DEFINE x == SubSeq(a, 1, n)
             y == SubSeq(b, 1, n)
  <2>1. \A k \in 1..n : a[k] \in S /\ b[k] \in S
    <3>1. n = Len(a)
      BY DEF n
    <3> QED BY <1>1, <3>1
  <2>2. /\ x \in Seq(S) /\ Len(x) = n /\ y \in Seq(S) /\ Len(y) = n
        /\ \A k \in 1..n : x[k] = a[k] /\ y[k] = b[k]
    BY <1>1, <2>1, SubSeqProperties
  <2> HIDE DEF x, y
  <2> QED BY <1>1, <2>2, SeqEqual DEF x, y
<1> QED BY <1>1, <1>2 DEF IsPrefix

LEMMA PagesHold ==
  ASSUME PagesAreFiles, Inv, PageInv
  PROVE  AnswersAreWhole
<1> SUFFICES ASSUME NEW c \in Conns, hist.asked[c] # NULL, ~Restarted(c)
             PROVE  /\ c \in hist.served => out[c] # <<>>
                    /\ (Streamed(hist.asked[c]) /\ out[c] \notin Refusal) =>
                          /\ IsPrefix(Valueless(out[c]), Expected(hist.asked[c]))
                          /\ c \in hist.served => Valueless(out[c]) = Expected(hist.asked[c])
  BY DEF AnswersAreWhole
<1> DEFINE req == hist.asked[c]
           o == out[c]
<1>1. c \in hist.served => o # <<>>
  BY DEF PageInv, Reported
<1>2. ASSUME Streamed(req), o \notin Refusal
      PROVE  /\ IsPrefix(Valueless(o), Expected(req))
             /\ c \in hist.served => Valueless(o) = Expected(req)
  <2>2. req.url # "/flash/upload"
    <3>1. 9 \in DOMAIN BuiltInUrls /\ BuiltInUrls[9][1] = "/flash/upload"
          /\ BuiltInUrls[9][2] = "cgiUploadFirmware" /\ "cgiUploadFirmware" \notin TplCallbacks
      BY Urls, Callbacks DEF TplCallbacks
    <3>2. "/flash/upload" \notin DOMAIN Files
      BY <3>1 DEF PagesAreFiles
    <3> QED BY <1>2, <3>2 DEF Streamed
  <2>3. InOneBuffer(req)
    BY <2>2 DEF Restarted
  <2>4. AsksPage(req)
    BY <1>2, <2>3 DEF AsksPage
  <2>5. PageAnswer(c)
    BY DEF PageInv
  <2>6. /\ o \in Seq(PageItems) /\ Begins(Valueless(o), Expected(req))
        /\ c \in hist.served => Valueless(o) = Expected(req)
    BY <1>2, <2>4, <2>5 DEF PageAnswer, PageIsDone
  <2>7. Valueless(o) \in Seq(PageItems) /\ Expected(req) \in Seq(PageItems)
    BY <1>2, <2>6, ValuelessIs, ExpectedIs
  <2> QED BY <2>6, <2>7, BeginsIsPrefix
<1> QED BY <1>1, <1>2

(***************************************************************************)
(* Each client gets its own answer: the file it asked for, or the template *)
(* with a value for every token and one '%' for "%%", also where a block   *)
(* ends inside a token, or the flash, however the pieces of the answers,   *)
(* aborts and the reuse of slots interleave (cgiEspFsHook,                 *)
(* cgiEspFsTemplate, cgiReadFlash, httpdSentCb).  A block has to fit the   *)
(* send buffer (httpdSend), and the image to hold no file with the name of *)
(* a page that is not a template (httpdProcessRequest takes the first).    *)
(***************************************************************************)
THEOREM PagesAreWhole ==
  ASSUME PagesAreFiles, BlockFits
  PROVE  Spec => []AnswersAreWhole
<1>1. Init => Inv /\ PageInv
  BY InitInv, InitPages
<1>2. Inv /\ PageInv /\ [Next]_vars => Inv' /\ PageInv'
  BY NextInv, PagesStep
<1>3. Inv /\ PageInv => AnswersAreWhole
  BY PagesHold
<1> QED BY <1>1, <1>2, <1>3, PTL DEF Spec
=============================================================================
