----------------------------- MODULE HttpdEspFs -----------------------------
(***************************************************************************)
(* The handlers of core/httpdespfs.c that serve the files of the image in  *)
(* flash, as operators from a slot of the connection pool and the device's *)
(* shared state to what the call leaves behind.  The other handlers        *)
(* (CgiFlash, CgiWifi) are written in the same way.  A character is a      *)
(* number; 0 stands for '%'.                                               *)
(***************************************************************************)
EXTENDS Integers, Sequences, SequencesExt

CONSTANTS
    NULL,        \* the null pointer
    Files,       \* the image: a function from names to [data, gzip]
    BlockLen,    \* what one read of a file returns at most (1024)
    MaxSendBuff, \* size of the send buffer of a callback (2048)
    TokenMax     \* characters of a token that are kept (63)

ASSUME HttpdEspFsAssumption ==
    /\ BlockLen \in Nat \ {0}
    /\ MaxSendBuff \in Nat
    /\ TokenMax \in Nat \ {0}
    /\ \A f \in DOMAIN Files : Files[f].data \in Seq(Nat) /\ Files[f].gzip \in BOOLEAN

Percent == 0

(***************************************************************************)
(* httpdSend: a piece that does not fit the send buffer is dropped whole.  *)
(* A response head counts as one item.                                     *)
(***************************************************************************)
Send(buff, piece) ==
    IF Len(buff) + Len(piece) > MaxSendBuff THEN buff ELSE buff \o piece

\* httpdStartResponse, its headers and httpdEndHeaders.
Status(code) == << <<"head", code>> >>
Chars(text) == [i \in DOMAIN text |-> <<"char", text[i]>>]

\* What a call of a handler leaves: its result, the slot's cgiData and
\* cgiPrivData, what it has sent, and the shared state.
Result(ret, s, out, dev) ==
    [ret |-> ret, data |-> s.data, priv |-> s.priv, out |-> out, dev |-> dev]

\* espFsOpen and espFsClose, by the number of files open; espFsRead.
Opened(dev) == [dev EXCEPT !.files = @ + 1]
Closed(dev) == [dev EXCEPT !.files = @ - 1]
\* (Mutant: the last character is taken for an end mark.)
BlockShort(file) ==
    LET data == Files[file.name].data
    IN SubSeq(data, file.pos + 1, Min({file.pos + BlockLen, Len(data) - 1}))

Block(file) == LET data == Files[file.name].data
               IN SubSeq(data, file.pos + 1, Min({file.pos + BlockLen, Len(data)}))

\* What cgiData points to: the open file, and for a template also the token.
EspFsFile == [name : DOMAIN Files, pos : Nat]
TplData   == [name : DOMAIN Files, pos : Nat, token : {NULL} \cup Seq(Nat)]

(***************************************************************************)
(* cgiEspFsHook.  Without an Accept-Encoding header the buffer it looks in *)
(* holds whatever the stack held: dev.junk.                                *)
(***************************************************************************)
TakesGzip(s, dev) == \/ s.req.enc = "gzip"
                     \/ s.req.enc = "missing" /\ dev.junk

EspFsOpenFile(s, dev) ==
    IF s.req.url \notin DOMAIN Files THEN Result("NOTFOUND", s, <<>>, dev)
    ELSE IF Files[s.req.url].gzip /\ ~TakesGzip(s, dev)
    THEN Result("DONE", s, Status(501), dev)
    ELSE Result("MORE", [s EXCEPT !.data = [name |-> s.req.url, pos |-> 0]],
                Status(200), Opened(dev))

EspFsHook(s, dev) ==
    IF s.conn = NULL THEN Result("DONE", s, <<>>, Closed(dev))
    ELSE IF s.data = NULL THEN EspFsOpenFile(s, dev)
    ELSE LET buff == Block(s.data)
         IN IF Len(buff) # BlockLen
            THEN Result("DONE", s, Chars(buff), Closed(dev))
            ELSE Result("MORE", [s EXCEPT !.data.pos = @ + BlockLen], Chars(buff), dev)

(***************************************************************************)
(* The callbacks of the templates (user/cgi.c, util/cgiwifi.c): the value  *)
(* of a token.                                                             *)
(***************************************************************************)
\* Tokens of the pages, one character each.
CounterToken == <<101>>
WiFiModeToken == <<102>>

Text(item, d) == [text |-> <<item>>, dev |-> d]

TplLed(token, d) == Text(<<"unknown", 0>>, d)

\* For any other token the buffer is sent as the stack left it.
TplCounter(token, d) ==
    IF token = CounterToken
    THEN Text(<<"hits", d.hits + 1>>, [d EXCEPT !.hits = @ + 1])
    ELSE Text(<<"junk", 0>>, d)

TplWlan(token, d) ==
    IF token = WiFiModeToken THEN Text(<<"mode", d.wifi.opmode>>, d)
    ELSE Text(<<"unknown", 0>>, d)

TplCallbacks == {"tplLed", "tplCounter", "tplWlan"}

TplValue(callback, token, d) ==
    CASE callback = "tplLed"     -> TplLed(token, d)
      [] callback = "tplCounter" -> TplCounter(token, d)
      [] callback = "tplWlan"    -> TplWlan(token, d)

(***************************************************************************)
(* cgiEspFsTemplate.  Its state goes from block to block in TplData: the   *)
(* token that is being collected, or NULL inside ordinary text.            *)
(*   text: ordinary text not sent yet; out: what has been sent.            *)
(***************************************************************************)
TplStep(st, c, callback) ==
    IF st.token = NULL
    THEN IF c = Percent
         THEN [st EXCEPT !.out = Send(st.out, Chars(st.text)), !.text = <<>>, !.token = <<>>]
         ELSE [st EXCEPT !.text = Append(@, c)]
    ELSE IF c # Percent
    THEN [st EXCEPT !.token = IF Len(@) < TokenMax THEN Append(@, c) ELSE @]
    ELSE IF st.token = <<>>
    THEN [st EXCEPT !.out = Send(st.out, Chars(<<Percent>>)), !.token = NULL]
    ELSE LET t == TplValue(callback, st.token, st.dev)
         IN [st EXCEPT !.out = Send(st.out, t.text), !.dev = t.dev, !.token = NULL]

TplBlock(buff, token, dev, callback) ==
    LET upto[n \in 0..Len(buff)] ==
            IF n = 0 THEN [token |-> token, text |-> <<>>, out |-> <<>>, dev |-> dev]
            ELSE TplStep(upto[n - 1], buff[n], callback)
        st == upto[Len(buff)]
    IN [st EXCEPT !.out = Send(st.out, Chars(st.text))]

EspFsTemplate(s, dev, callback) ==
    IF s.conn = NULL THEN Result("DONE", s, <<>>, Closed(dev))
    ELSE IF s.data = NULL
    THEN IF s.req.url \notin DOMAIN Files \/ Files[s.req.url].gzip
         THEN Result("NOTFOUND", s, <<>>, dev)
         ELSE Result("MORE",
                     [s EXCEPT !.data = [name |-> s.req.url, pos |-> 0, token |-> NULL]],
                     Status(200), Opened(dev))
    ELSE LET buff == Block(s.data)
             st == TplBlock(buff, s.data.token, dev, callback)
         IN IF Len(buff) # BlockLen
            THEN Result("DONE", s, st.out, Closed(st.dev))
            ELSE Result("MORE", [s EXCEPT !.data.pos = @ + BlockLen, !.data.token = st.token],
                        st.out, st.dev)
=============================================================================
