----------------------------- MODULE MCEspHttpd -----------------------------
(* Requests and files for the model checking of EspHttpd. *)
EXTENDS EspHttpd

CONSTANTS c1, c2, c3

MCConns == {c1, c2, c3}

\* Blocks of two characters: pages whose token and whose "%%" cross a block, a
\* file that ends on a block and a compressed one.
MCFiles ==
    [f \in {"/index.tpl", "/led.tpl", "/even.png", "/page.gz"} |->
        CASE f = "/index.tpl" -> [data |-> <<1, 0, 101, 0, 2>>, gzip |-> FALSE]
          [] f = "/led.tpl"   -> [data |-> <<1, 0, 0>>, gzip |-> FALSE]
          [] f = "/even.png"  -> [data |-> <<1, 2>>, gzip |-> FALSE]
          [] f = "/page.gz"   -> [data |-> <<3, 1, 2>>, gzip |-> TRUE]]

Get(url) == [url |-> url, len |-> 0, sent |-> 0, good |-> TRUE, image |-> NULL,
             enc |-> "missing", mode |-> NULL, foreign |-> FALSE]
NoMethod == Get(NULL)
Post(url, len, sent) == [Get(url) EXCEPT !.len = len, !.sent = sent]
Upload(c, len) == [Post("/flash/upload", len, len) EXCEPT !.image = c]

Scan == Get("/wifi/wifiscan.cgi")
Plan(asks1, asks2, asks3) ==
    [asks |-> [c \in MCConns |-> CASE c = c1 -> asks1 [] c = c2 -> asks2 [] c = c3 -> asks3],
     opmode |-> 3, lists |-> {1}, scans |-> 0, restarts |-> 0, stations |-> 0, fails |-> 1]

\* Pages on two slots, with a third client that finds the pool full or takes
\* over a slot, and connections that fail.
Pages ==
    Plan({Get(url) : url \in {"/", "/index.tpl", "/led.tpl", "/page.gz", "/none", "/flash.bin",
                              "/led.cgi", "/flash/next"}}
           \cup {[Get("/") EXCEPT !.foreign = TRUE], NoMethod, Post("/index.tpl", 3, 3),
                   Post("/page.gz", 1, 2), Post("/led.tpl", 2, 2),
                 [Get("/page.gz") EXCEPT !.enc = "gzip"]},
         {Get("/index.tpl"), Get("/even.png")}, {Get("/led.cgi")})

\* Two clients page through the list of access points; one that is aborted
\* may take the device down.
Scans == [Plan({Scan}, {Scan}, {}) EXCEPT !.lists = {1, 2}, !.scans = 2, !.restarts = 1]
ThreeScans == [Plan({Scan}, {Scan}, {Scan}) EXCEPT !.lists = {2}, !.scans = 2, !.fails = 0]

\* An attempt to connect, and polls of its status.
Connects ==
    [Plan({Post("/wifi/connect.cgi", 1, 1)}, {Get("/wifi/connstatus.cgi")},
          {Get("/wifi/connstatus.cgi"), [Get("/wifi/setmode.cgi") EXCEPT !.mode = 2]})
       EXCEPT !.stations = 2, !.restarts = 1, !.fails = 0]

\* Uploads that overlap, ones too long and one that is no firmware, and a
\* restart into what was uploaded.
Uploads ==
    [Plan({Upload(c1, 5), Upload(c1, 9), [Upload(c1, 3) EXCEPT !.good = FALSE]},
          {Upload(c2, 5), Upload(c2, 14)}, {Get("/flash/reboot")})
       EXCEPT !.restarts = 1]

\* An upload that sends more than its head said, within the partition and past
\* its end, beside one that does not.
Overlongs ==
    [Plan({[Upload(c1, 4) EXCEPT !.sent = 7], [Upload(c1, 8) EXCEPT !.sent = 14]},
          {Upload(c2, 3)}, {Get("/flash/reboot")})
       EXCEPT !.restarts = 1]

MCPlans == {Pages, Scans, ThreeScans, Connects, Uploads, Overlongs,
            [Connects EXCEPT !.opmode = 1, !.asks[c3] = {}]}
=============================================================================
