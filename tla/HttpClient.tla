----------------------------- MODULE HttpClient -----------------------------
(***************************************************************************)
(* The HTTP client of the viewer's ESP8266 (esphttpclient/httpclient.c):   *)
(* requests that run side by side, each driven by the callbacks of the     *)
(* name service and of its connection, and the cache of one resolved name  *)
(* they share.  A handler that calls the user's callback is an action here *)
(* that frees the request; the user conjoins what its callback does with   *)
(* the answer.  The network is external.                                   *)
(***************************************************************************)
EXTENDS Integers

CONSTANTS
  Hosts,         \* names; an address is the name it belongs to
  NoHost,        \* the empty name, and the address 0.0.0.0
  InFlight,      \* bound: requests in flight
  OLD,           \* bound: ages are counted up to OLD
  MAXFAULTS      \* bound: what goes wrong in the network

ASSUME HttpAssumption == NoHost \notin Hosts /\ OLD \in Nat /\ MAXFAULTS \in Nat

VARIABLES
  req,                                   \* the requests
  cacheValid, cachedHostname, cachedAddr,
  faults                                 \* how often the network failed

http == <<req, cacheValid, cachedHostname, cachedAddr, faults>>

Request(w, h, ph) ==
  [what |-> w, host |-> h, phase |-> ph, addr |-> NoHost, buffer |-> "empty", age |-> 0]
Free == Request(0, NoHost, "free")

Requests ==
  [what : Int, host : Hosts \cup {NoHost}, addr : Hosts \cup {NoHost}, age : 0..OLD,
   phase : {"free", "lookup", "connecting", "sent"},
   buffer : {"empty", "part", "picture", "page", "other", "discarded"}]

HttpInit ==
  /\ req = [i \in InFlight |-> Free]
  /\ cacheValid = FALSE /\ cachedHostname = NoHost /\ cachedAddr = NoHost
  /\ faults = 0

-----------------------------------------------------------------------------
Fault    == faults < MAXFAULTS /\ faults' = faults + 1
NoFault  == UNCHANGED faults
Set(i, q) == req' = [req EXCEPT ![i] = q]
KeepCache == UNCHANGED <<cacheValid, cachedHostname, cachedAddr>>

\* The cache is asked when the name is the cached one, and when it is not valid.
CacheUsed(h) == cachedHostname = h \/ ~cacheValid

\* dns_callback with an address remembers it and connects to it.
ConnectTo(i, q, a) ==
  /\ Set(i, [q EXCEPT !.phase = "connecting", !.addr = a])
  /\ cacheValid' = TRUE /\ cachedAddr' = a

HttpGet(i, w, h) ==
  /\ req[i].phase = "free"
  /\ \/ /\ CacheUsed(h)
        /\ ConnectTo(i, Request(w, h, "lookup"), cachedAddr) /\ NoFault
        /\ UNCHANGED cachedHostname
     \/ /\ ~CacheUsed(h)
        /\ cachedHostname' = h
        /\ \/ ConnectTo(i, Request(w, h, "lookup"), h) /\ NoFault
           \/ /\ Set(i, Request(w, h, "lookup")) /\ NoFault
              /\ cacheValid' = FALSE /\ UNCHANGED cachedAddr
           \/ /\ Fault /\ cacheValid' = FALSE
              /\ UNCHANGED <<req, cachedAddr>>

\* The name service answers a request that waits for it ...
Found(i) ==
  /\ req[i].phase = "lookup"
  /\ ConnectTo(i, req[i], req[i].host)
  /\ NoFault /\ UNCHANGED cachedHostname

\* ... or not: the request ends, the user's callback is called with an error.
NotFound(i) ==
  /\ req[i].phase = "lookup"
  /\ Set(i, Free) /\ Fault /\ KeepCache

\* Nobody answers at address 0.0.0.0; elsewhere that is a failure of the network.
Unreachable(i) == IF req[i].addr = NoHost THEN NoFault ELSE Fault

\* connect_callback sends the request.
Connected(i) ==
  /\ req[i].phase = "connecting" /\ req[i].addr # NoHost
  /\ req' = [req EXCEPT ![i].phase = "sent"] /\ NoFault /\ KeepCache

\* error_callback: the user's callback is called with an error.
Refused(i) ==
  /\ req[i].phase = "connecting"
  /\ Set(i, Free) /\ Unreachable(i) /\ KeepCache

\* What espconn_connect returns is not looked at, and nothing watches a connection
\* on which no answer comes: such a request is never heard of again.
Lost(i) ==
  /\ req[i].phase \in {"connecting", "sent"}
  /\ Set(i, Free) /\ Unreachable(i) /\ KeepCache

\* receive_callback appends what has come: the picture, the first part of it (with
\* the header), a page with another status, or no HTTP/1.1 at all.
Received(i, b) ==
  /\ req[i].phase = "sent"
  /\ \/ req[i].buffer = "empty" /\ b \in {"part", "picture", "page", "other"}
     \/ req[i].buffer = "part"  /\ b = "picture"
  /\ req' = [req EXCEPT ![i].buffer = b]
  /\ IF b \in {"page", "other"} THEN Fault ELSE NoFault
  /\ KeepCache

\* More than BUFFER_SIZE_MAX, or no memory: the answer is discarded.
TooLong(i) ==
  /\ req[i].phase = "sent" /\ req[i].buffer \in {"part", "page", "other"}
  /\ req' = [req EXCEPT ![i].buffer = "discarded"]
  /\ Fault /\ KeepCache

\* disconnect_callback: the user's callback gets the body and the status.
Closed(i) ==
  /\ req[i].phase = "sent"
  /\ Set(i, Free) /\ KeepCache
  /\ IF req[i].buffer \in {"empty", "part"} THEN Fault ELSE NoFault

\* Does the callback get a body?  Of an empty, discarded or strange answer it does not.
Body(q) == IF q.buffer \in {"part", "picture", "page"} THEN q.buffer ELSE "none"

\* The name was looked up once, without success, and is taken for cached ever since.
NameLost(h) ==
  /\ cachedHostname = h /\ cachedAddr = NoHost
  /\ \A i \in InFlight : req[i].phase # "lookup"

\* Time, as far as the requests know of it.
Older(q) == IF q.phase # "free" /\ q.age < OLD THEN [q EXCEPT !.age = @ + 1] ELSE q
=============================================================================
