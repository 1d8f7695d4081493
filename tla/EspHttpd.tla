------------------------------ MODULE EspHttpd ------------------------------
(***************************************************************************)
(* The web server of the viewer's ESP8266 (libesphttpd, core/httpd.c): a   *)
(* pool of slots for connections, driven by the callbacks of the SDK, each *)
(* of which runs to its end.  A handler that has more to send is called    *)
(* again when the SDK reports the last piece sent.                         *)
(*                                                                         *)
(* A request is a record: url (NULL when its method is neither GET nor     *)
(* POST), len (Content-Length, 0 without), sent (how much body the client  *)
(* really sends), good and image (is the body a firmware, and which), enc  *)
(* (its Accept-Encoding), mode (its "mode" argument), foreign (it comes in *)
(* over the access point and names another host).                          *)
(***************************************************************************)
EXTENDS CgiFlash, CgiWifi, FiniteSets

CONSTANTS
    Conns,       \* connections a client may make, each used once
    MaxConn,     \* slots in the pool (8)
    Plans        \* what may happen in one run: the requests each connection
                 \* may carry, the mode the device starts in, the sizes of
                 \* the lists scans find, and bounds on the scans, restarts,
                 \* changes of the station and connections that fail

\* An upload has a body: without one its handler reads through a null pointer.
\* What a client sends after a head that announces no body is ignored.
ASSUME EspHttpdAssumption ==
    /\ MaxConn \in Nat \ {0}
    /\ NULL \notin Conns
    /\ \A p \in Plans :
          /\ DOMAIN p.asks = Conns
          /\ p.opmode \in Nat /\ p.lists \subseteq Nat
          /\ \A c \in Conns : \A req \in p.asks[c] :
                /\ req # NULL
                /\ req.len \in Nat /\ req.sent \in Nat
                /\ req.len = 0 => req.sent = 0
                /\ req.url = "/flash/upload" => req.len # 0
                /\ req.mode \in {NULL} \cup Nat

VARIABLES
    slot,    \* connData, connPrivData and connPostData
    dev,     \* files open, flash, wifi, hit counter, pending restart
    link,    \* what the SDK knows of a connection
    pending, \* pieces given to espconn_sent and not reported sent
    out,     \* everything sent over a connection
    plan,    \* the plan of this run
    hist     \* history: what each connection asked for, who disturbed whom

vars == <<slot, dev, link, pending, out, plan, hist>>

Slots == 1..MaxConn

(***************************************************************************)
(* The table of user_main.c and the callbacks it names.                    *)
(***************************************************************************)
BuiltInUrls ==
    << <<"*", "cgiRedirectApClientToHostname">>,
       <<"/", "cgiRedirect">>,
       <<"/flash.bin", "cgiReadFlash">>,
       <<"/led.tpl", "tplLed">>,
       <<"/index.tpl", "tplCounter">>,
       <<"/led.cgi", "cgiLed">>,
       <<"/flash/download", "cgiReadFlash">>,
       <<"/flash/next", "cgiGetFirmwareNext">>,
       <<"/flash/upload", "cgiUploadFirmware">>,
       <<"/flash/reboot", "cgiRebootFirmware">>,
       <<"/wifi", "cgiRedirect">>,
       <<"/wifi/", "cgiRedirect">>,
       <<"/wifi/wifiscan.cgi", "cgiWiFiScan">>,
       <<"/wifi/wifi.tpl", "tplWlan">>,
       <<"/wifi/connect.cgi", "cgiWiFiConnect">>,
       <<"/wifi/connstatus.cgi", "cgiWiFiConnStatus">>,
       <<"/wifi/setmode.cgi", "cgiWiFiSetMode">>,
       <<"*", "cgiEspFsHook">> >>

CgiNames == {BuiltInUrls[i][2] : i \in DOMAIN BuiltInUrls}

ASSUME NullAssumption ==
    /\ NULL \notin CgiNames \cup [pos : Nat] \cup EspFsFile \cup TplData \cup Seq(Nat)
    /\ NULL \notin {BuiltInUrls[i][1] : i \in DOMAIN BuiltInUrls} \cup DOMAIN Files

CgiLed(s, d) ==
    IF s.conn = NULL THEN Result("DONE", s, <<>>, d)
    ELSE Result("DONE", s, Send(Status(200), << <<"usage", 0>> >>), d)

CgiRedirect(s, d) ==
    Result("DONE", s, IF s.conn = NULL THEN <<>> ELSE Status(302), d)

\* The host name is forgotten with the first byte of a POST body.
CgiRedirectToHostname(s, d) ==
    IF s.conn = NULL THEN Result("DONE", s, <<>>, d)
    ELSE IF s.req.foreign /\ s.received = 0 THEN Result("DONE", s, Status(302), d)
    ELSE Result("NOTFOUND", s, <<>>, d)

CgiRedirectApClientToHostname(s, d) ==
    IF d.wifi.opmode \in {2, 3} THEN CgiRedirectToHostname(s, d)
    ELSE Result("NOTFOUND", s, <<>>, d)

Cgi(name, s, d) ==
    CASE name = "cgiRedirectApClientToHostname" -> CgiRedirectApClientToHostname(s, d)
      [] name = "cgiRedirect"        -> CgiRedirect(s, d)
      [] name = "cgiReadFlash"       -> ReadFlash(s, d)
      [] name \in TplCallbacks      -> EspFsTemplate(s, d, name)
      [] name = "cgiLed"             -> CgiLed(s, d)
      [] name = "cgiGetFirmwareNext" -> GetFirmwareNext(s, d)
      [] name = "cgiUploadFirmware"  -> UploadFirmware(s, d)
      [] name = "cgiRebootFirmware"  -> RebootFirmware(s, d)
      [] name = "cgiWiFiScan"        -> WiFiScan(s, d)
      [] name = "cgiWiFiConnect"     -> WiFiConnect(s, d)
      [] name = "cgiWiFiConnStatus"  -> WiFiConnStatus(s, d)
      [] name = "cgiWiFiSetMode"     -> WiFiSetMode(s, d)
      [] name = "cgiEspFsHook"       -> EspFsHook(s, d)

-----------------------------------------------------------------------------
(***************************************************************************)
(* The slot after a call: a handler that is done, or that refuses after    *)
(* having been chosen, is forgotten ("marked for destruction").            *)
(***************************************************************************)
Kept(s, r) == [s EXCEPT !.data = r.data, !.priv = r.priv,
                        !.cgi = IF r.ret = "MORE" THEN @ ELSE NULL]

(***************************************************************************)
(* httpdProcessRequest: the first entry of the table that matches the url  *)
(* and does not answer NOTFOUND; each try starts with cgiData NULL.  With  *)
(* none left, a 404; and nothing at all without a url.                     *)
(***************************************************************************)
Tried(s, i) == [s EXCEPT !.data = NULL, !.cgi = BuiltInUrls[i][2]]

Takers(s, d) ==
    {i \in DOMAIN BuiltInUrls :
        /\ BuiltInUrls[i][1] \in {"*", s.req.url}
        /\ Cgi(BuiltInUrls[i][2], Tried(s, i), d).ret # "NOTFOUND"}

\* Mutant: the 404 is put into the send buffer and not flushed.
ProcessRequestUnflushed(s, d) ==
    IF s.req.url = NULL THEN [slot |-> s, out |-> <<>>, dev |-> d]
    ELSE IF Takers(s, d) = {}
    THEN [slot |-> [s EXCEPT !.cgi = NULL, !.data = NULL], out |-> <<>>, dev |-> d]
    ELSE LET i == Min(Takers(s, d))
             r == Cgi(BuiltInUrls[i][2], Tried(s, i), d)
         IN [slot |-> Kept(Tried(s, i), r), out |-> r.out, dev |-> r.dev]

ProcessRequest(s, d) ==
    IF s.req.url = NULL THEN [slot |-> s, out |-> <<>>, dev |-> d]
    ELSE IF Takers(s, d) = {}
    THEN [slot |-> [s EXCEPT !.cgi = NULL, !.data = NULL], out |-> Status(404), dev |-> d]
    ELSE LET i == Min(Takers(s, d))
             r == Cgi(BuiltInUrls[i][2], Tried(s, i), d)
         IN [slot |-> Kept(Tried(s, i), r), out |-> r.out, dev |-> r.dev]

\* httpdFindConnData
FindConn(c) == {i \in Slots : slot[i].conn = c}

\* httpdRetireConn: the POST buffer is freed, the slot may be used again.
Retired(s) == [s EXCEPT !.buff = FALSE, !.cgi = NULL, !.conn = NULL]

\* httpdFlushSendBuffer: nothing is given to the SDK when nothing was sent.
Flush(c, sent) ==
    /\ out' = [out EXCEPT ![c] = @ \o sent]
    /\ pending' = [pending EXCEPT ![c] = IF sent = <<>> THEN @ ELSE @ + 1]

\* The outcome of a call on slot i for connection c: the device's state, with
\* its stack's contents forgotten.
Outcome(i, c, res) ==
    /\ slot' = [slot EXCEPT ![i] = res.slot]
    /\ dev' = [res.dev EXCEPT !.junk = FALSE]
    /\ Flush(c, res.out)

-----------------------------------------------------------------------------
EmptySlot == [conn |-> NULL, req |-> NULL, cgi |-> NULL, data |-> NULL, priv |-> NULL,
              len |-> -1, buffSize |-> 0, buffLen |-> 0, received |-> 0, buff |-> FALSE]

FreshWifi(opmode) ==
    [scanInProgress |-> FALSE, apData |-> NULL, noAps |-> 0, connTryStatus |-> "idle",
     resetTimer |-> FALSE, reassTimer |-> FALSE, opmode |-> opmode, station |-> "off"]

Init ==
    /\ slot = [i \in Slots |-> EmptySlot]
    /\ plan \in Plans
    /\ dev = [files |-> 0, hits |-> 0, junk |-> FALSE, restart |-> NULL,
              wifi |-> FreshWifi(plan.opmode),
              flash |-> [running |-> 0, cells |-> [a \in 0..(FlashLen - 1) |-> "old"]]]
    /\ link = [c \in Conns |-> "new"]
    /\ pending = [c \in Conns |-> 0]
    /\ out = [c \in Conns |-> <<>>]
    /\ hist = [asked |-> [c \in Conns |-> NULL], served |-> {}, disturbed |-> {},
               wrote |-> [c \in Conns |-> NULL], clash |-> {}, scans |-> 0,
               restarts |-> 0, stations |-> 0, fails |-> 0]

(***************************************************************************)
(* httpdConnectCb: the first free slot, or the connection is refused.  The *)
(* fields a former connection of the slot left are kept, but for these.    *)
(***************************************************************************)
ConnectCb(c) ==
    /\ link[c] = "new"
    /\ plan.asks[c] # {}
    /\ LET free == {i \in Slots : slot[i].conn = NULL}
       IN IF free = {}
          THEN link' = [link EXCEPT ![c] = "refused"] /\ UNCHANGED slot
          ELSE /\ slot' = [slot EXCEPT ![Min(free)] =
                             [@ EXCEPT !.conn = c, !.buff = FALSE, !.buffLen = 0,
                                       !.received = 0, !.len = -1]]
               /\ link' = [link EXCEPT ![c] = "open"]
    /\ UNCHANGED <<dev, pending, out, hist>>

(***************************************************************************)
(* httpdRecvCb, the end of the head: the head is parsed; without a body    *)
(* the request is processed at once.                                       *)
(***************************************************************************)
Parsed(s, req) ==
    [s EXCEPT !.req = req, !.len = req.len, !.buffSize = Min({req.len, MaxPost}),
              !.buff = req.len > 0]

RecvHead(c, req, junk) ==
    /\ link[c] = "open"
    /\ req \in plan.asks[c]
    /\ \E i \in FindConn(c) :
          /\ slot[i].len = -1
          /\ LET s == Parsed(slot[i], req)
             IN IF s.len = 0
                THEN Outcome(i, c, ProcessRequest(s, [dev EXCEPT !.junk = junk]))
                ELSE /\ slot' = [slot EXCEPT ![i] = s]
                     /\ UNCHANGED <<dev, pending, out>>
    /\ hist' = [hist EXCEPT !.asked[c] = req]
    /\ UNCHANGED link

(***************************************************************************)
(* httpdRecvCb, a piece of the body: when the buffer is full, or the body  *)
(* complete, the request is processed (again) and the buffer emptied.      *)
(* What comes after a complete body is treated in the same way.            *)
(***************************************************************************)
Gained(s) == [s EXCEPT !.buffLen = @ + 1, !.received = @ + 1]
Emptied(res) == [res EXCEPT !.slot.buffLen = 0]

\* History: the upload has written the piece; that of others is disturbed.
Stored(res) == /\ res.slot.req.url = "/flash/upload"
               /\ res.slot.cgi # NULL \/ res.out = Status(200)

Wrote(c, p) ==
    [hist EXCEPT !.wrote[c] = p,
                 !.clash = @ \cup {d \in Conns \ {c} : hist.wrote[d] = p}]

RecvBody(c, junk) ==
    /\ link[c] = "open"
    /\ \E i \in FindConn(c) :
          /\ slot[i].len > 0 /\ slot[i].received < slot[i].req.sent
          /\ LET s   == Gained(slot[i])
                 res == ProcessRequest(s, [dev EXCEPT !.junk = junk])
             IN IF s.buffLen >= s.buffSize \/ s.received = s.len
                THEN /\ Outcome(i, c, Emptied(res))
                     /\ hist' = IF Stored(res) THEN Wrote(c, FirmwareNext(dev)) ELSE hist
                ELSE /\ slot' = [slot EXCEPT ![i] = s]
                     /\ UNCHANGED <<dev, pending, out, hist>>
    /\ UNCHANGED link

(***************************************************************************)
(* httpdSentCb: with no handler left the connection is closed and the slot *)
(* is free; else the handler goes on.                                      *)
(***************************************************************************)
CloseConn(i, c) ==
    /\ slot' = [slot EXCEPT ![i] = Retired(@)]
    /\ link' = [link EXCEPT ![c] = "closing"]
    /\ pending' = [pending EXCEPT ![c] = 0]
    /\ hist' = [hist EXCEPT !.served = @ \cup {c}]
    /\ UNCHANGED <<dev, out>>

GoOn(i, c) ==
    LET r == Cgi(slot[i].cgi, slot[i], dev)
    IN /\ slot' = [slot EXCEPT ![i] = Kept(@, r)]
       /\ dev' = r.dev
       /\ out' = [out EXCEPT ![c] = @ \o r.out]
       /\ pending' = [pending EXCEPT ![c] = IF r.out = <<>> THEN @ - 1 ELSE @]
       /\ hist' = [hist EXCEPT !.disturbed =
                      IF r.dev.wifi.scanInProgress /\ ~dev.wifi.scanInProgress
                      THEN @ \cup {d \in Conns \ {c} : link[d] = "open"} ELSE @]
       /\ UNCHANGED link

SentCb(c) ==
    /\ link[c] = "open"
    /\ pending[c] > 0
    /\ \E i \in FindConn(c) :
          IF slot[i].cgi = NULL THEN CloseConn(i, c) ELSE GoOn(i, c)

(***************************************************************************)
(* httpdDisconCb: every slot whose connection looks closed is retired; a   *)
(* handler that was still at work is called with no connection.  The       *)
(* memory of a connection that broke off has been freed: what its state    *)
(* looks like (looks) is up to whoever uses that memory now.               *)
(***************************************************************************)
\* Mutant: the slot is retired without calling the handler.
AbortedSilently(acc, i) == [acc EXCEPT !.slot[i] = Retired([@ EXCEPT !.conn = NULL])]

Aborted(acc, i) ==
    LET s == [acc.slot[i] EXCEPT !.conn = NULL]
        r == Cgi(s.cgi, s, acc.dev)
    IN IF s.cgi = NULL THEN [acc EXCEPT !.slot[i] = Retired(s)]
       ELSE [slot |-> [acc.slot EXCEPT ![i] = Retired(Kept(s, r))], dev |-> r.dev]

\* The loop over the slots, of which those in dead look closed.
AbortAll(dead) ==
    LET upto[n \in 0..MaxConn] ==
            IF n = 0 THEN [slot |-> slot, dev |-> dev]
            ELSE IF n \in dead THEN Aborted(upto[n - 1], n) ELSE upto[n - 1]
    IN upto[MaxConn]

Dead(looks) == {i \in Slots : /\ slot[i].conn # NULL
                              /\ \/ link[slot[i].conn] = "closing"
                                 \/ slot[i].conn \in looks}

DisconCb(c, looks) ==
    LET acc == AbortAll(Dead(looks))
    IN /\ link[c] = "closing"
       /\ slot' = acc.slot
       /\ dev' = acc.dev
       /\ link' = [link EXCEPT ![c] = "gone"]
       /\ pending' = [pending EXCEPT ![c] = 0]
       /\ hist' = [hist EXCEPT !.disturbed =
                      IF acc.dev.wifi.scanInProgress /\ ~dev.wifi.scanInProgress
                      THEN @ \cup {d \in Conns \ {c} : link[d] = "open"} ELSE @]
       /\ UNCHANGED out

\* The client closes the connection: the disconnect callback follows.
ClientCloses(c) ==
    /\ link[c] = "open"
    /\ hist.fails < plan.fails
    /\ link' = [link EXCEPT ![c] = "closing"]
    /\ hist' = [hist EXCEPT !.fails = @ + 1]
    /\ UNCHANGED <<slot, dev, pending, out>>

\* httpdReconCb: the connection breaks off; the callback does nothing.
ReconCb(c) ==
    /\ link[c] = "open"
    /\ hist.fails < plan.fails
    /\ link' = [link EXCEPT ![c] = "broken"]
    /\ pending' = [pending EXCEPT ![c] = 0]
    /\ hist' = [hist EXCEPT !.fails = @ + 1]
    /\ UNCHANGED <<slot, dev, out>>

(***************************************************************************)
(* What the SDK does besides: a scan ends, a timer fires, the station's    *)
(* connection comes and goes, and a restart that was asked for happens.    *)
(***************************************************************************)
WifiScanDone(ok, n) ==
    /\ dev.wifi.scanInProgress
    /\ hist.scans < plan.scans
    /\ dev' = ScanDone(dev, ok, hist.scans + 1, n)
    /\ hist' = [hist EXCEPT !.scans = @ + 1]
    /\ UNCHANGED <<slot, link, pending, out>>

ReassTimer ==
    /\ dev.wifi.reassTimer
    /\ dev' = ReassTimerCb(dev)
    /\ UNCHANGED <<slot, link, pending, out, hist>>

ResetTimer ==
    /\ dev.wifi.resetTimer
    /\ dev' = ResetTimerCb(dev)
    /\ UNCHANGED <<slot, link, pending, out, hist>>

StationChanges(station) ==
    /\ dev.wifi.station # station
    /\ hist.stations < plan.stations
    /\ dev' = [dev EXCEPT !.wifi.station = station]
    /\ hist' = [hist EXCEPT !.stations = @ + 1]
    /\ UNCHANGED <<slot, link, pending, out>>

\* Everything in memory is lost; the mode and the flash are kept.
Reboot(running) ==
    /\ hist.restarts < plan.restarts
    /\ slot' = [i \in Slots |-> EmptySlot]
    /\ dev' = [dev EXCEPT !.files = 0, !.hits = 0, !.restart = NULL,
                          !.wifi = FreshWifi(dev.wifi.opmode), !.flash.running = running]
    /\ link' = [c \in Conns |-> IF link[c] \in {"open", "closing", "broken"} THEN "gone"
                                ELSE link[c]]
    /\ pending' = [c \in Conns |-> 0]
    /\ hist' = [hist EXCEPT !.restarts = @ + 1]
    /\ UNCHANGED out

Restart ==
    /\ dev.restart # NULL
    /\ Reboot(IF dev.restart = "upgrade" THEN FirmwareNext(dev) ELSE dev.flash.running)

(***************************************************************************)
(* httpdDisconCb once more: cgiWiFiScan does not ask whether there is a    *)
(* connection, and copies its entry to where the send buffer of an earlier *)
(* callback was.  What that overwrites is not defined: it does no harm     *)
(* (DisconCb), or the device crashes and starts again.                     *)
(***************************************************************************)
CrashInDiscon(c, looks) ==
    /\ link[c] = "closing"
    /\ \E i \in Dead(looks) : slot[i].cgi = "cgiWiFiScan"
    /\ Reboot(dev.flash.running)

Broken == {c \in Conns : link[c] = "broken"}

Next ==
    /\ UNCHANGED plan
    /\ \/ \E c \in Conns :
             \/ ConnectCb(c)
             \/ \E req \in plan.asks[c], junk \in BOOLEAN : RecvHead(c, req, junk)
             \/ \E junk \in BOOLEAN : RecvBody(c, junk)
             \/ SentCb(c)
             \/ ClientCloses(c)
             \/ ReconCb(c)
             \/ \E looks \in SUBSET Broken : DisconCb(c, looks) \/ CrashInDiscon(c, looks)
       \/ \E ok \in BOOLEAN, n \in plan.lists : WifiScanDone(ok, n)
       \/ ReassTimer
       \/ ResetTimer
       \/ \E station \in {"off", "gotip"} : StationChanges(station)
       \/ Restart

(***************************************************************************)
(* The SDK reports what it has sent, and its timers fire.  Nothing is      *)
(* assumed of the clients.  FairSentCb(c) is weak fairness of SentCb(c)    *)
(* with its condition of being enabled written out, which TLC is quicker   *)
(* with.                                                                   *)
(***************************************************************************)
CanReport(c) == link[c] = "open" /\ pending[c] > 0

FairSentCb(c) == []<>~CanReport(c) \/ []<><<SentCb(c)>>_vars

Fairness ==
    /\ \A c \in Conns : FairSentCb(c)
    /\ WF_vars(ReassTimer /\ UNCHANGED plan)
    /\ WF_vars(ResetTimer /\ UNCHANGED plan)

Spec == Init /\ [][Next]_vars /\ Fairness

-----------------------------------------------------------------------------
(***************************************************************************)
(* A body that is longer than the buffer, or than the head said, is for    *)
(* the upload handler only: httpdProcessRequest starts any other handler   *)
(* again for every full buffer.                                            *)
(***************************************************************************)
InOneBuffer(req) == req.len <= MaxPost /\ req.sent <= req.len

Restarted(c) == /\ hist.asked[c] # NULL
                /\ hist.asked[c].url # "/flash/upload"
                /\ ~InOneBuffer(hist.asked[c])

\* An upload that sends more than its head said, and more than fits the
\* partition although its head said it would fit.
Overlong(c) == /\ hist.asked[c] # NULL
               /\ hist.asked[c].url = "/flash/upload"
               /\ hist.asked[c].sent > hist.asked[c].len

Overruns(c) == /\ Overlong(c)
               /\ hist.asked[c].len <= FwSize
               /\ hist.asked[c].sent > FwSize

FileHandlers == TplCallbacks \cup {"cgiEspFsHook"}

(***************************************************************************)
(* The pool is accounted for: a slot in use belongs to one connection,     *)
(* which is there or has ended in a way the server was not told of; every  *)
(* open connection has its slot; a free slot holds no POST buffer, and the *)
(* open files are those of the handlers at work, whatever closes or breaks *)
(* off when (httpdConnectCb, httpdSentCb, httpdDisconCb, httpdRetireConn). *)
(***************************************************************************)
PoolIsAccounted ==
    /\ \A i \in Slots : slot[i].conn # NULL =>
          link[slot[i].conn] \in {"open", "closing", "broken"}
    /\ \A c \in Conns : Cardinality(FindConn(c)) <= 1
    /\ \A c \in Conns : link[c] = "open" => FindConn(c) # {}
    /\ \A i \in Slots : slot[i].conn = NULL => slot[i].cgi = NULL /\ ~slot[i].buff
    /\ (\A c \in Conns : ~Restarted(c)) =>
          dev.files = Cardinality({i \in Slots : slot[i].cgi \in FileHandlers})

(***************************************************************************)
(* What a client must get for a page: the file itself, or the template     *)
(* with a value for every token between two '%' and one '%' for "%%".      *)
(***************************************************************************)
Percents(text, n) == {i \in 1..n : text[i] = Percent}

\* Do the first n characters leave a token open?
InToken(text, n) == (Cardinality(Percents(text, n)) % 2) = 1

\* What the n-th character adds to the answer, the value of a token left open.
Added(text, n) ==
    IF InToken(text, n) THEN <<>>
    ELSE IF text[n] # Percent THEN << <<"char", text[n]>> >>
    ELSE IF text[n - 1] = Percent THEN << <<"char", Percent>> >>
    ELSE << <<"value", 0>> >>

\* What a template becomes, character by character.
Expansion(text) ==
    LET upto[n \in 0..Len(text)] == IF n = 0 THEN <<>> ELSE upto[n - 1] \o Added(text, n)
    IN upto

Valueless(items) ==
    [i \in DOMAIN items |->
        IF items[i][1] \in {"hits", "junk", "unknown", "mode"} THEN <<"value", 0>> ELSE items[i]]

Blocks == [i \in 1..FlashBlocks |-> <<"block", i - 1>>]

Templates == {BuiltInUrls[i][1] : i \in {j \in DOMAIN BuiltInUrls : BuiltInUrls[j][2] \in TplCallbacks}}

Expected(req) ==
    IF req.url = "/flash.bin" THEN Status(200) \o Blocks
    ELSE LET file == Files[req.url]
         IN IF req.url \in Templates /\ ~file.gzip
            THEN Status(200) \o Expansion(file.data)[Len(file.data)]
            ELSE Status(200) \o Chars(file.data)

Streamed(req) == \/ req.url = "/flash.bin"
                 \/ req.url \in DOMAIN Files

Refusal == {Status(302), Status(501)}

(***************************************************************************)
(* Each client gets its own answer: what has been sent over a connection   *)
(* is a beginning of the answer to its request, or a refusal, and all of   *)
(* it when the server closes the connection, however the pieces of several *)
(* answers, aborts and the reuse of slots interleave.                      *)
(***************************************************************************)
AnswersAreWhole ==
    \A c \in Conns :
        LET req == hist.asked[c]
        IN (req # NULL /\ ~Restarted(c)) =>
              /\ c \in hist.served => out[c] # <<>>
              /\ (Streamed(req) /\ out[c] \notin Refusal) =>
                    /\ IsPrefix(Valueless(out[c]), Expected(req))
                    /\ c \in hist.served => Valueless(out[c]) = Expected(req)

(***************************************************************************)
(* A list of access points is one list: if no other client ended its own   *)
(* list (and so started a scan) meanwhile, an answer has one head, entries *)
(* of one scan only, and an end when it is served (cgiWiFiScan pages       *)
(* through a list that all connections share).                             *)
(***************************************************************************)
ScanListIsOne ==
    \A c \in Conns \ hist.disturbed :
        LET items == out[c]
            aps   == {i \in DOMAIN items : items[i][1] = "ap"}
        IN (hist.asked[c] # NULL /\ hist.asked[c].url = "/wifi/wifiscan.cgi"
              /\ ~Restarted(c) /\ items \notin Refusal) =>
              /\ \A i \in DOMAIN items : items[i][1] = "head" <=> i = 1
              /\ \A i, j \in aps : items[i] = items[j]
              /\ (c \in hist.served /\ items[2] = <<"inProgress", 0>>) =>
                    /\ items[Len(items)] = <<"end", 0>>
                    /\ aps = 3..(Len(items) - 1)

(***************************************************************************)
(* An upload that was answered with 200 is in the flash, every piece of it *)
(* where it belongs and over erased sectors, unless another upload wrote   *)
(* to the same partition since it began, or some upload sends more than    *)
(* its head said (cgiUploadFirmware).                                      *)
(***************************************************************************)
UploadIsStored ==
    (\A c \in Conns : ~Overlong(c)) =>
        \A c \in Conns \ hist.clash :
            LET req == hist.asked[c]
            IN (req # NULL /\ req.url = "/flash/upload" /\ out[c] = Status(200)) =>
                  \A a \in 0..(req.len - 1) :
                      Partition(dev.flash, hist.wrote[c])[a] = req.image

(***************************************************************************)
(* The firmware that runs is never written to, whatever uploads, restarts  *)
(* and aborts come: what is written ends where the partition does.  The    *)
(* size is checked once, against the head, so that this takes a client     *)
(* that does not send more than it said and than there is room for         *)
(* (cgiUploadFirmware and system_upgrade_userbin_check).                   *)
(***************************************************************************)
RunningIsKept ==
    [][(\A c \in Conns : ~Overruns(c)) =>
          Partition(dev'.flash, dev.flash.running) = Partition(dev.flash, dev.flash.running)]_vars

(***************************************************************************)
(* A complete request is answered to the end and its connection closed by  *)
(* the server, unless the client goes first: every call of a handler that  *)
(* has more to say sends something, so that the SDK calls back.  In three  *)
(* cases the connection is left for the client to close: the last read of  *)
(* a file whose length is a multiple of the block sends nothing, a method  *)
(* other than GET and POST is not answered, and an upload that sends more  *)
(* than its head said leaves a handler waiting for yet more.               *)
(***************************************************************************)
Complete(c) == \E i \in FindConn(c) :
                  slot[i].len # -1 /\ slot[i].received >= slot[i].len

EndsOnBlock(c) == /\ hist.asked[c].url \in DOMAIN Files
                  /\ (Len(Files[hist.asked[c].url].data) % BlockLen) = 0

Unanswered(c) == hist.asked[c].url = NULL

AnswersEnd ==
    \A c \in Conns :
        (Complete(c) /\ ~EndsOnBlock(c) /\ ~Unanswered(c) /\ ~Overlong(c))
            ~> (link[c] # "open")

(***************************************************************************)
(* Outside station mode an attempt to connect comes to an end: a restart   *)
(* into station mode, or a failure the page is told of (resetTimerCb).     *)
(***************************************************************************)
AttemptEnds ==
    (dev.wifi.connTryStatus = "working" /\ dev.wifi.opmode # 1)
        ~> (dev.wifi.connTryStatus # "working" \/ dev.restart # NULL)

(***************************************************************************)
(* What a client has begun comes to an end: both of the above.             *)
(***************************************************************************)
BegunIsEnded == AnswersEnd /\ AttemptEnds
=============================================================================
