# Tamagotchi Matrix: specifications, model checking and proofs

The repository runs a hive of emulated Tamagotchis: one emulator process per
tama, a server that introduces tamas to each other and collects their displays,
a web page that shows all of them, and a physical tama figure with an ESP8266
inside that shows one of them. This directory holds TLA+ models of those
programs, the TLC configurations that check them on small instances and proofs,
checked by TLAPS, of what holds at every size.

Contents: [parts](#1-the-system-and-its-parts) ·
[modules](#2-modules) · [runs](#3-runs) · [fairness](#4-fairness) ·
[proofs](#5-proofs) · [findings](#6-where-code-and-words-disagree) ·
[not modelled](#7-what-is-not-modelled) · [plan](#8-plan)

To check: `tlc -config X.cfg M` with the pairs of section 3, `tlapm M.tla` for the
modules of section 5.

## 1. The system and its parts

```
  emulator (one process per tama)                          web browser
  +--------------------------------------+                 +----------+
  | ROM on 6502 core                     |                 | tama.js  |
  |   |  registers, ports, interrupts    |                 +----------+
  | tamaemu.c --- i2c.c --- i2ceeprom.c  |                     | JSON, every second
  |   |  IR line          (mapped file)  |                 +--------------+
  | ir.c                                 |                 | gettama.php  |
  |   |  bytes        lcd.c -> lcdmatch  |                 +--------------+
  |   |                  |  which screen |                     | shared memory, no lock
  |   |            benevolentai.c        |                     |
  |   |           (player and macros)    |   UDP        +----------------+
  | udp.c / main.c ----------------------|------------->| server/main.c  |
  +--------------------------------------+  (unreliable)+----------------+
        other emulators <---- invitations, IR data --------'
                                                     web server (gettama.php too)
  figure: user/io.c (4 timers) --- esphttpclient/httpclient.c --- HTTP --'
          user/cgi.c, libesphttpd (set-up pages, WiFi, firmware upload)
```

| Part | State it keeps | Operations | What is hard about it | What makes it correct |
|---|---|---|---|---|
| TamaServer, `server/main.c` | a table of slots (address, display, last number, link) in shared memory, `currSeq`, `noTamas` | one handler for every datagram: BYE, DISPLAY, IR start, IR acknowledgement, IR data | slots are freed, reused and never cleared; numbers wrap; clients vanish without a word; it is restarted under running clients | a client has one slot, is not overwritten, links lead to clients, what changes is numbered as the newest |
| Player, `emu/benevolentai.c` | `baState`, timers, the request received, hearts counted | one step per frame: chores, feeding, games, cuddles, sessions with another tama | everything is inferred from the picture on the screen; the tama ignores presses and requests; the other tama may have left | sessions time out; nothing starves the look at the hearts; nothing is decided on hearts not counted |
| Macro engine, same file | macro, position, wait, button, attempts | one step per frame | a press may be missed, repeated or seen twice; icons are searched by pressing | each command once and in order, macros end, the right icon is selected |
| Infrared modem, `emu/ir.c` | send buffer and position, receive buffer and position, tick counters, freeze | play a datagram, sample the light, freeze the tama | timing in ticks; a datagram arrives while one is played; stale bytes behind the data | what is played is what is heard |
| I2C and EEPROM, `emu/i2c.c`, `i2ceeprom.c` | bus state, bit count, address, the memory (a mapped file) | one step per change of the two lines | a transaction may stop anywhere, the process may be replaced anywhere | the memory holds what was acknowledged |
| Emulated hardware, `emu/tamaemu.c` | registers, ports, dividers, wake and interrupt flags, a button being held | register writes and reads, a tick, a press | sleep and wake; buttons toggled; the tama frozen by infrared | no wake-up is lost; a button pressed is let go; only enabled interrupts fire |
| Main loop and UDP, `emu/main.c`, `udp.c` | the last display sent, the restart flag | frame, SIGHUP, SIGINT, send, receive | datagrams are lost and reordered; a restart in any frame; a picture is sent once | a tama that is quiet is shown as it is; only a fault leaves slots behind |
| Script, `web/gettama.php` | none; reads the server's shared memory | one request | reads while the server writes | what is new is in the answer |
| Page, `web/tama.js` | `lastseq`, the canvases, the tama shown big | poll, draw, click | a click while a request is on its way; failures | every tama ends up shown as it is |
| Figure, `viewer/esp12/user/io.c` | macro position, four timers, the tama to show, two flags | timer callbacks, the end of a request | slow answers; buttons at any time; macro and picture share pins | it goes on asking; no old answer replaces the choice |
| HTTP client, `esphttpclient/httpclient.c` | requests in flight, one cached name | callbacks of name service and connections | every way a request can fail; a cache with one entry | every request ends, or the user's timer replaces it |
| Set-up web server, `libesphttpd/core` | a pool of connections with their heads, POST buffers and handlers, open files | callbacks of the SDK per connection: connected, received, sent, disconnected, failed | a handler is called again for every piece; slots are reused; connections end anywhere; the pool is full | every connection gets its own answer, whole; slots, files and buffers are accounted for; answers end |
| Its handlers, `libesphttpd/util`, `user/cgi.c` | the list of access points, the attempt to connect and its two timers, two firmware partitions | pages, scan, connect, upload, restart | all browsers share one scan and one attempt; uploads break off and overlap | a list is of one scan; the firmware that runs is not written; what is acknowledged is stored; attempts end |
| File system, `espfs` and `mkespfsimage` | an image in flash; position and decoder of an open file | make an image; open, read a piece, close | pieces, buffers and packed tokens end in different places; the decoder holds back bytes | a reader gets the file's bytes in order, whatever it asks for |
| Compression, `lib/heatshrink` | window, backlog and bit buffer of the encoder; bits, window and state of the decoder | sink, poll, finish | every function may stop in the middle and be called again | what is decoded is what was encoded; both programs end |
| Name server, base64, SHA-1, picture matching | none or read-only | pure functions | input at its limits | (not modelled) |

The parts interact by UDP datagrams (emulators and server; unreliable, unordered),
by memory read without a lock (server and script), by HTTP polling (page and
figure), by callbacks that run one at a time (the ESP8266 programs), by plain
calls once a frame (all of an emulator), and by files and pipes (the tools that make and
read the image). There are no threads. What is hard is the
order in which messages, timers, restarts and users' actions meet, and state that
outlives its reason.

## 2. Modules

An action stands for a whole handler; its guard is the code's conditions. A picture,
a name or a payload is a member of a small set or a model value.

### Server: `TamaServer`, `ClientRegistry`, `TamaServerHistory`

`TamaServer` has the fields of `TamaClient` and of the shared header as functions of
the slot: `addr`, `lastSeq` (`UNUSED` is -1 as an unsigned number), `connectedTo`,
`display`, and `currSeq`, `noTamas`. `out` is what the latest datagram made the server
send. `Receive(a)` is one pass of the loop for a datagram from `a`: look-up or
registration (`Admit`, with `FirstUnused` for the search that may grow the table), the
branch of its type, and `Touch`, the trailing numbering of the slot. Where the code
draws random numbers for a partner, `DrawResults` gives every outcome it can have;
`DrawsMayMiss` says whether the hundred draws may all fail. Line 73 sends to
`client[x]` with `x` never assigned: the model lets the acknowledgement go to any slot
or to nobody. Numbers are taken modulo `SEQMOD`; `SeqLimit` bounds how many are handed
out in a run. A restart forgets the table, as `memset` does.

`ClientRegistry` is what a client may rely on: it gets one slot, and keeps it until it
leaves or the server restarts. `TamaServer` implements it through
`Registry == INSTANCE ClientRegistry WITH slotOf <- ...` (checked and proved).
`TamaServerHistory` adds what the code does not keep: the pairs of clients that an
invitation brought together (`met`, not a tama that drew itself), and who said BYE (`gone`:
`udpExit` closes the socket, so nothing comes from that address again).

### Player: `MacroTable`, `MacroEngine`, `MacroRunner`, `MacroOnMenu`, `BenevolentAi`

`MacroTable` is the table of macros as sequences of commands. `MacroEngine` is `macroRun()`
and its helpers at the real numbers (15 attempts, waits in milliseconds, 66 ms a frame), in
front of any screen. The icons a screen shows are a set, the bitmap of the code: one of the
nine of the menu or none, and ATTENTION beside it. `MacroRunner` is the abstract view:
commands one after the other, none skipped or repeated, presses of the right button only,
the macro ends. `MacroOnMenu` puts the engine in front of a menu with ten positions (nine
icons and none) that may ignore presses, of a tama that lights ATTENTION whenever it likes.
`BenevolentAi` is `benevolentAiRun()`: one action per state (`baState`), for any set `v` of
pictures the matcher finds on the screen. A macro is one value there: the frame after it is
the next step. That is sound because `RunnerSpec`, which includes that the macro ends, is
checked for every macro and every screen. `ReqIrComm` and `AckIrComm` are what `udpTick()`
calls, at any time.

### Modem: `IrModem`, `IrLoop`

`IrModem` is one action per tick of the modem: `Sender` plays (sync pulse, then pulses
measured by the bit, then the end), `Decoder` measures the light. The bytes have
`BITS` bits; a buffer has `MAXLEN` bytes, and the bytes behind a datagram are any.
`IrLoop` connects the two the way the code's `//HACK` line in `irTick` does, and lets
datagrams interrupt each other at chosen ticks. `owed` is what of the datagrams played
can be heard, `latest` the last of them: the buffers hold `MAXLEN` - 1 bytes, and nothing
is heard of an empty datagram.

### EEPROM: `I2cEeprom`, `I2cMaster`

`I2cEeprom` is the bus of `i2c.c` as a function from its state and the two lines to the
next state (`Handle`), with the EEPROM's callbacks behind it. `I2cMaster` is a program
that drives it. A transaction is a sequence of frames (a start, a byte sent, a byte read,
a stop); an action is a start or stop (`SetCondition`), one bit (`Bit`) or the
acknowledgement of a byte (`Acknowledge`), each with the levels it puts on the lines
(`Pulse`). Transactions may be abandoned and the emulator restarted after any of them.
`believed` is what the program may believe to be stored: bytes that were acknowledged, and
an abandoned byte whose bits were all sent (`pending`), which the clock edge of the next
start condition completes. Powers of two are a recursive function (`Two`), so that the
module can be proved about.

### Hardware: `TamaHw`

The registers that decide about sleep, wake and interrupts, port A, and the button
being held. `HwTick` is a tick outside of the CPU, `running` a batch of CPU cycles in
which the program (any program: its ROM is not in the repository as source) writes
registers. The counters behind timers are abstracted to "may expire now".

### Web: `WebViewer`

Three processes over one memory: the server writes a display, a slot's number and the
newest number as three steps; the script reads the header, then slot after slot, and
may find any of them half written; the page asks, draws and is clicked. Nothing is
locked, as in the code.

### Figure: `HttpClient`, `EspViewer`

`HttpClient` is the requests of `httpclient.c` side by side, the single cached name
and every end a request has. Its network is external and may fail `MAXFAULTS` times.
`EspViewer` EXTENDS it with `io.c`: four timers counting ticks of the clock, the macro
that starts the figure's program, polling, the buttons and the restart. A request
remembers which tama it was made for (`what`) and how old it is (`age`, up to `OLD`),
which the code does not know and the properties need.

### Hive: `UdpClient`, `Hive`

`UdpClient` is `udp.c` and the loop of `main.c` as other processes see them: `Frame` sends
what the tama and its player have to say, then the display if its pixels differ from
those sent last (`SendDisplay`), and may end with a goodbye and `Exec`, a new process
with zeroed statics and a new socket. The countdown of SIGHUP is a choice (`due`), so is
whether the frame is one that shows the display when speeded up. `Hive` puts the network
between these and an instance of `TamaServer`, whose actions it calls with the oldest
datagram of a sender. `Fault` loses a datagram, lets one overtake its predecessor, kills
an emulator or restarts the server. Three history variables say what faults excuse:
`faults` counts them, `ghosts` those that may leave a slot behind, `astray` names the
tamas whose last picture may not have arrived.

### Web server of the figure: `EspHttpd`, `HttpdEspFs`, `CgiWifi`, `CgiFlash`

`EspHttpd` is `httpd.c`: `slot` is an entry of `connData` with its private data and POST
buffer; the actions are the callbacks of the SDK (`ConnectCb`, `RecvHead` and `RecvBody` for
`httpdRecvCb`, `SentCb`, `DisconCb`, `ReconCb`) and the timers. `ProcessRequest` walks
through `BuiltInUrls`, the table of `user_main.c`, as `httpdProcessRequest` does, from
handlers that answer "not found" to the next entry. A handler is a pure operator: from the
slot's record and the device (`dev`: open files, hits, WiFi, flash) to a result with what it
sent. `HttpdEspFs` holds files and templates, `CgiWifi` the scan and the attempt to connect,
`CgiFlash` the flash: one range of addresses in which each of the two partitions lies behind
a sector of its own (`PartPos`), and a write goes on into whatever follows. A request says
how long its body is (`len`) and how much really comes (`sent`); whatever comes goes through
the buffer, and every full buffer calls the handler, as in the code. A request whose method
is neither GET nor POST has no URL (`NULL`). An aborted scan page writes through a pointer
into a stack frame that is gone (`CrashInDiscon`: no harm, or the device restarts). `link`
and `pending` are what the SDK knows. `AbortAll`, `DisconCb`'s loop over the whole pool, and
`TplBlock`, the walk through a block of a template, are recursive functions. What is sent is
a sequence of items (`<<"char", c>>`, `<<"ap", n>>`, ...), a file a sequence of characters
read in blocks of `BlockLen`. `plan` is what one behaviour may contain; `hist` remembers who
asked for what, who disturbed whom and which uploads wrote to one partition at the same time
(`wrote`, `clash`).

### Files and compression: `HeatshrinkBits`, `HeatshrinkEncoder`, `HeatshrinkDecoder`, `HeatshrinkCli`, `EspFsFormat`, `EspFsImage`, `EspFs`, `FileReader`, `EspFsTools`

Encoder and decoder are records with the fields of the C structures and one operator per
state of their machines (`EncoderStep`, `DecoderStep`); `EncoderPoll` and `DecoderPoll`
run them until the output is full or the input used up, as the C functions do, and so are
recursive. `HeatshrinkCli` is the command line program twice, as two processes with a pipe
(`wire`) between them, whose reads take any number of bytes. `EspFsImage` is
`mkespfsimage`: it packs with the same encoder (`Pack`), stores plain what does not get
smaller, pads to four. `EspFs` reads: a plain file is copied, a packed one is fed to the
decoder sixteen bytes at a time (`Feed`). `FileReader` is what a reader may rely on: the
file's own bytes in order, and a short read only at the end; `EspFsTools` composes the
two uses and shows that `EspFs` implements it (`ReaderSpec`).

`EspFsToolsAssumption` names two choices of parameters that the library accepts and that
do not work: with a lookahead as large as the window (`l = w`, which
`heatshrink_encoder_alloc` allows) the encoder makes no progress once its window is full,
and with `-w 4 -l 2` a whole token fits into the padding of the last byte.

### MC modules

`MC*` modules give values to the constants that a configuration cannot write, the symmetry
of the server's clients and of the hive's pictures, and a view of the hive's states without
the fields its properties do not depend on. Nothing else is defined in them.

## 3. Runs

`pass`: TLC explores every state and finds nothing wrong. `violation`: TLC finds a
behaviour of the code that contradicts a statement in the repository (section 6).

| Run | Module, configuration | Checks | Distinct states |
|---|---|---|---|
| `server` | `MCTamaServer`, `TamaServer.cfg` | `OneSlotPerClient SeqIsTotalOrder ChangeIsAnnounced KeptUntilBye RegistrySpec` | 76,856 |
| `macros` | `MacroOnMenu`, `MacroEngine.cfg` | `RunnerSpec RightIconSelected` | 153,435 |
| `ai` | `BenevolentAi`, `BenevolentAi.cfg` | `HeartsAreKnown SessionsEnd RefusedGameTimesOut CalmTamaIsChecked RequestsAreServed` | 4,619 |
| `ir_loop` | `MCIrLoop`, `IrLoop.cfg` | `HeardIsPlayed LatestIsHeard PlayingEnds` | 166,186 |
| `eeprom` | `MCI2cMaster`, `I2cMaster.cfg` | `StoredIffAcknowledged ReadsAreRight` | 269,916 |
| `hw` | `TamaHw`, `TamaHw.cfg` | `NoLostWakeup UnseenPortWakes ButtonsAreReleased` | 230,400 |
| `web` | `WebViewer`, `WebViewer.cfg` | `NoUpdateLost BigNotForgotten PageCatchesUp` | 240,701 |
| `viewer` | `MCEspViewer`, `EspViewer.cfg` | `KeepsAsking PinsNotShared WrongOnlyIfLate ShowsChosen` | 550,618 |
| `hive` | `MCHive`, `Hive.cfg` | `QuietTamaIsShown NoGhosts` | 5,852,834 |
| `httpd` | `MCEspHttpd`, `EspHttpd.cfg` | `PoolIsAccounted AnswersAreWhole ScanListIsOne UploadIsStored RunningIsKept BegunIsEnded` | 599,706 |
| `espfs` | `MCEspFsTools`, `EspFsTools.cfg` | `DecodesWhatWasEncoded ReaderSpec PipeEnds` | 35,710 |
| `server_history` | `TamaServerHistory`, `TamaServerHistory.cfg` | `DataStaysBetweenPartners` | violation |

What the bounds are and why they are enough:

- `server`: four clients for three slots, so that a table is full, a client is turned
  away, and a slot is freed and taken by another. `FRESH` is 2, so that a link target
  is stale within a run; `SeqLimit` 5 keeps the numbers below `SEQMOD` 8, because the
  order of the numbers is only claimed below the wrap. The code's numbers have 32 bits
  and wrap after months; that uniqueness of slots survives the wrap is proved.
- `macros`: no bound on the code's own numbers: the real table, 66 ms frames, 15
  attempts. `MAXLOST` is 5, the most a selection can stand (15 attempts, 10 positions);
  with 6 `RightIconSelected` fails.
- `ai`: every combination of pictures the states tell apart. The levels 3 and 5 lie on
  both sides of the thresholds for hunger. Times are cut down to a few frames but keep
  their order, so every timer expires both before and after every other step.
- `ir_loop`: two datagrams of up to two bytes with two bits each reach the length that
  overruns the buffer (`MAXLEN` 2), a second datagram behind a longer and a shorter
  first one, and any stale byte. Pulse lengths are the real ones. An arrival is tried
  within the sync pulse (5), between sync and data (32) and within the data (190).
- `eeprom`: 16 cells in pages of 4; transactions start in the middle and at the end of
  a page and of the memory; three in a row allow abandon, retry and read back.
- `hw`: two buttons, one timer; a press lasts two ticks and a freeze one, so that a
  press is frozen, released and repeated in all orders.
- `web`: two tamas, two pictures, two numbered datagrams before and one after a
  restart of the server. A third picture or datagram only repeats a round of polling.
  `CHECK_DEADLOCK FALSE`: a page whose request failed has stopped, and the server at
  its bound waits for nothing; both may really stop.
- `viewer`: one server name (the code knows no other), two requests in flight, one
  failure of the network, two changes of the buttons. Two requests in flight are what
  the periods allow: a third is made when the first is older than anything the
  properties tell apart (the proof covers any number). Durations keep the order
  of the code's: press = pause = 1, period 2, number 3, macro delays 2 and 3.
- `hive`: one tama is started twice, the other once, and the table has two slots: three
  sockets meet on two slots, so that the table can be full of tamas or of what they left
  behind, and every slot gets a new owner. Two pictures beside the blank one, equal but for
  their names (symmetry), tell the picture of an owner from that of the one before. One fault;
  at most three numbered datagrams, because a goodbye has no number and every step that
  matters (join, leave, reuse, a picture after a fault) takes one each; `FRESH` is 1, and a
  draw of a partner may end on any slot counted (`DrawsMayMiss`). `CHECK_DEADLOCK
  FALSE`: all emulators may have ended. The view leaves out the links and the datagrams sent,
  which decide only where infrared data goes.
- `httpd`: three connections on a pool of two, so that one is turned away or takes over a
  slot; blocks of two characters, a page whose token crosses a block, a file that ends on
  a block, a compressed one; POST bodies over one, two and three buffers, some longer than their
  heads say, and a method that is neither GET nor POST; partitions of eight units in sectors
  of four and pieces of two, so that an upload crosses a sector, may be too long, and may run
  past the end of its partition, over the sector behind it and into the other one. The
  plans (`MCPlans`) put the requests together that share state: pages, lists of access
  points (two and three clients), an attempt to connect in two modes with polls of its
  status, and uploads that overlap and are followed by a restart. One connection may fail,
  timers and changes of the station are bounded by the plan. `CHECK_DEADLOCK FALSE`: when
  every connection has been used, the server waits for ever.
- `espfs`: every text of up to four bytes from two values, and five texts over three
  windows (runs, periods just below and above the window, no matches, all mixed) with the
  smallest window (16) and matches of up to 8, through buffers of three bytes: windows,
  buffers, bytes and tokens end in all positions relative to each other. Images of five
  files (short, long and compressible, empty, zipped or not, one run) at three levels, in
  pieces of 1, 7 and 64 bytes. The count's upper byte (lookahead over 8 bits) is not
  reached with these sizes; a partial `write()` is not modelled.
  `CHECK_DEADLOCK FALSE`: both programs end.

The runs check what could go wrong, not types: `TypeOK` of the server, the player, the
macros, the figure, the hardware, the EEPROM, the web viewer and the set-up web server is
proved (section 5), the others are kept as the types of the variables.

What each property says is written above it in its module. In short:

- *Server.* A known client never gets a second slot (`OneSlotPerClient`); nothing is
  forwarded to an address nobody registered, not even over a link left behind by the
  owner before (`LinksLeadToClients`, `ForwardedToSomebody`, both proved); nobody is
  overwritten (`KeptUntilBye`); a viewer that
  has seen everything up to `currSeq` will be told of every change (`SeqIsTotalOrder`,
  `ChangeIsAnnounced`); the whole implements `ClientRegistry` (`RegistrySpec`).
- *Macros.* `RunnerSpec` is the refinement of `MacroRunner`, including that it gets on;
  `RightIconSelected` that 15 attempts find the icon although five presses are lost.
  Exception, and real: a macro that wants no icon (`s0`) never finds what it wants while
  ATTENTION is lit, and goes on past it. How long a button stays pressed is the
  emulator's business (`btnReleaseTm`, see *Hardware*), and no property of the macros
  relates the two.
- *Player.* Every session has a way out (`SessionsEnd`; that a timeout runs in each,
  `SessionHasTimeout`, is proved), and so has
  a game the tama refuses; hearts are compared only after they were counted; a quiet
  tama is looked after again and again, and requests are served. The one exception the
  last two name is real: the first picture of a game played alone switches the timeout
  off, and if its end is never shown the player stays in that game.
- *Modem.* What comes out is what was played, whatever lay behind it in the buffer
  (`HeardIsPlayed`); a datagram interrupting another is heard in full.
- *EEPROM.* `StoredIffAcknowledged` compares the memory with what the program was told,
  over broken transactions and restarts; `ReadsAreRight` what it reads back.
- *Hardware.* A source that fires in the moment the CPU goes to sleep wakes it
  (`NoLostWakeup`); a change of the port while the tama was frozen is noticed
  (`UnseenPortWakes`); a line is always let go again, although buttons are
  toggled (`ButtonsAreReleased`).
- *Web.* The order of the server's writes and of the script's reads loses no update
  (`NoUpdateLost`), and the page catches up. Exceptions, named in the property: a
  restart (section 6), a page stopped by a failed request, and a page whose first answer
  was read in the moment a freed slot below others was claimed (its canvas is never
  made, and every later drawing throws).
- *Figure.* A timer for the next request is always armed (`KeepsAsking`); the macro has
  let go of the pins before the first picture (`PinsNotShared`); an answer to an older
  choice shows only if it took longer than the number is shown (`WrongOnlyIfLate`, which
  is as much as the code can promise: `dontShowIncomingImage` is cleared by then and an
  answer does not say whose picture it is); in the end the chosen tama is shown
  (`ShowsChosen`). Exception: a name looked up once in vain counts as cached and is
  never looked up again.
- *Hive.* When nothing is under way from a tama that runs, the server shows what it sent
  last (`QuietTamaIsShown`): others that come, leave and restart do not disturb it, nobody
  is turned away while a slot is free, and a fault, or a full table, is made good by the
  next picture - but only by that, since a picture is sent once. Slots stay behind only
  after faults (`NoGhosts`).
- *Web server.* Slots, files and buffers match connections (`PoolIsAccounted`); each client
  gets a beginning of its own answer and in the end all of it (`AnswersAreWhole`); a list
  is of one scan (`ScanListIsOne`); an upload answered with 200 is in the flash
  (`UploadIsStored`), never in the partition that runs (`RunningIsKept`); answers and
  attempts to connect end (`BegunIsEnded`). Exceptions, named in the properties and all
  real: a POST body that is longer than a buffer, or longer than its head says, restarts a
  handler other than the upload for each further buffer (`Restarted`; it may send a
  second head and leave a file open); an upload that sends more than its head says keeps its
  handler waiting (`Overlong`) and, with more than there is room for, is written on
  behind its partition (`Overruns`); a client whose list was replaced by another client's
  scan; uploads that overlap. Left for the client to close is the connection of a file
  whose length is a multiple of the block and that of a method other than GET and POST. An
  attempt in station mode sets no timer.
- *Files.* What goes through compression comes out (`DecodesWhatWasEncoded`), both programs
  end (`PipeEnds`), and the reader of an image implements `FileReader` (`ReaderSpec`).

Each property of a passing run has a mutant in `PROJECT.json`: a plausible bug in the
code (`<Definition>_<What>` in the module) with which TLC finds the property violated.

## 4. Fairness

No fairness is stated where only safety is claimed (server, EEPROM, hive).

| Spec | Fair | Why the code justifies it |
|---|---|---|
| `MacroOnMenu!MSpec`, `BenevolentAi!Spec` | a frame | `main()` calls `tamaRun`, then `benevolentAiRun`, in an endless loop; a macro takes boundedly many frames |
| `IrLoop!LSpec` | a tick (`Look`) | `tamaRun` ticks the modem every 421 cycles, also while the tama is frozen |
| `TamaHw!Spec` | `HwTick`, and the end of a batch | cycles are emulated in bounded batches |
| `WebViewer!Spec` | the server finishes a datagram, the script finishes, the page's `setTimeout` fires, an answer that exists arrives | nothing in these steps waits for anybody; a request that fails is a separate, unfair step |
| `EspViewer!Spec` | every due timer, time, and the next network step of every request | the SDK's timers; a connection gets on or fails within a finite time, and fails only `MAXFAULTS` times. Users' presses are unfair and bounded |
| `EspHttpd!Spec` | `SentCb` of every open connection with something sent, both timers | the SDK reports what it has sent and its timers fire; a connection that fails is no longer open. `FairSentCb` is weak fairness with the condition written out (`CanReport`) |
| `EspFsTools!Spec` | each process of the pipe (`CliFairness`) | reads return when the other has written or closed. `CanEncode` and `CanDecode` are the conditions written out, which TLC could only find by running the encoder |

Users, other tamas, lost presses, restarts and failures are never fair.

## 5. Proofs

TLAPS checks, for all values of the constants that satisfy the named assumptions of
the modules:

| Module | Theorem | States |
|---|---|---|
| `TamaServerProofs` | `TypeCorrect` | `[]TypeOK` |
| | `ClientsHaveOneSlot` | `[]OneSlotPerClient`, also when the numbers wrap |
| | `LinksAlwaysLeadToClients`, `AlwaysForwardedToSomebody` | nothing is sent to the zero address |
| | `AlwaysTotalOrder` | `[]SeqIsTotalOrder` below the wrap |
| | `AlwaysKeptUntilBye` | `KeptUntilBye` below the number that means "unused" |
| | `AlwaysAnnounced` | `ChangeIsAnnounced`, likewise |
| | `ServerImplementsRegistry` | the refinement of `ClientRegistry` |
| `MacroProofs` | `EngineTypeCorrect` | `[]TypeOK` of the engine |
| | `RightIconIsSelected` | `RightIconSelected`, if there are ten attempts more than lost presses |
| | `EngineImplementsRunner` | `RunnerSafety`: initial states and steps of `MacroRunner`, not its end |
| `BenevolentAiProofs` | `PlayerTypeCorrect`, `SessionsRunOut`, `HeartsCountedFirst` | types, `[]SessionHasTimeout`, `[]HeartsAreKnown` |
| `EmulatorProofs` | `TypeCorrect` | `[]TypeOK`; the freeze never adds up |
| | `OnlyTheHeldButtonIsLow` | `[]OnlyHeldIsLow` |
| | `WakeupsAreNotLost` | `NoLostWakeup`, for any number of buttons and timers |
| | `PlayedIsHeard` | `[]HeardIsPlayed` of the modem, for bytes, datagrams and buffers of any length |
| | `TheLatestIsHeard` | `[]LatestIsHeard`, whenever one datagram interrupts another |
| | `EepromTypeCorrect` | `[]MTypeOK` of bus and EEPROM |
| | `MemoryIsAcknowledged` | `[]StoredIffAcknowledged`, for bytes, pages and transactions of any size, abandoned and restarted anywhere |
| | `ReadsDeliver` | `[]ReadsAreRight`, likewise |
| `WebViewerProofs` | `TypeCorrect` | `[]TypeOK` of server, script and page |
| | `NoUpdateIsLost` | `[]NoUpdateLost`, for any number of slots and pictures |
| | `BigIsNotForgotten` | `[]BigNotForgotten` |
| `EspViewerProofs` | `ViewerTypeCorrect` | `[]TypeOK` of the viewer and its requests |
| | `PollingGoesOn` | `[]KeepsAsking` |
| | `PinsAreLeft` | `[]PinsNotShared` |
| | `OnlyLateAnswersMislead` | `[]WrongOnlyIfLate` |
| `HiveProofs` | `GhostsAreCounted` | `[]NoGhosts`, for any number of emulators, starts and faults, also when the numbers wrap |
| | `QuietTamasAreShown` | `[]QuietTamaIsShown` below the number that means "unused" |
| `EspHttpdProofs` | `TypeCorrect` | `[]TypeOK` of pool, device and links |
| | `RunningIsNeverWritten` | `RunningIsKept`, for partitions, sectors and pieces of any size and every pool and set of requests |
| | `PoolAlwaysAccounted` | `[]PoolIsAccounted` |
| | `UploadsAreStored` | `[]UploadIsStored`, if sectors are a multiple of the POST buffer and partitions one of sectors |
| | `ListsAreOne` | `[]ScanListIsOne`, if the send buffer holds two pieces of an answer |
| | `PagesAreWhole` | `[]AnswersAreWhole`, for every image, if a block fits the send buffer and only templates are both page and file |

### Assumptions

- *Server* (`ServerAssumption`): sizes and `SEQMOD` are positive numbers, `NoAddr` is no
  address. `SeqLimit < SEQMOD` or `SeqLimit < UNUSED` where a theorem says so: in that many
  numbered datagrams the 32-bit counter does not wrap, or does not reach the number that
  marks a slot unused. Beyond, the statements are false, and section 6 says why.
- *Macros* (`MacroAssumption`, `MenuAssumption`): a frame takes some time, there is an
  attempt. `ATTEMPTS >= MAXLOST + 10`: the code has 15 attempts, so that five presses may
  be lost; with one attempt fewer TLC finds a wrong icon selected.
- *Player* (`AiAssumption`): intervals are natural numbers, the timeout is not zero,
  `Unknown` is not a level.
- *Hardware* (`HwAssumption`): a button is held for some time, the values a run lets the
  ROM write are values of those registers, and the IR input is no button.
- *Modem* (`ModemAssumption`, `LoopAssumption`): a byte has two bits or more, and there is
  room in the buffers; the code has 8 and 32. With bytes of one bit, the edge of the sync
  pulse that follows an empty datagram would count as a whole byte.
- *EEPROM* (`BusAssumption`, `MasterAssumption`): pages divide the memory, as 32 divides
  65,536, and the device addresses the program uses have a bit less than a byte, which
  also holds the direction.
- *Web viewer* (`ViewerAssumption`): there is a slot, and bounds are natural numbers.
- *Figure* (`HttpAssumption`, `EspViewerAssumption`): durations are positive, the macro has
  at least one press, every delay in it exceeds the time a button is held, and ages are
  counted up to the time the number is shown. The code's macro has delays of 500 ms and
  more against 200 ms, and a number is shown for 2000 ms.
- *Hive* (`HiveAssumption`, `ClientAssumption`): bounds are natural numbers, sockets are no
  model of "nobody"; the server's own assumption follows from it (`ServerAssumed`).
- *Web server* (`EspHttpdAssumption`, `HttpdEspFsAssumption`, `CgiFlashAssumption`,
  `NullAssumption`): sizes are positive, names, files and partitions are of their kinds, a
  null pointer is none of them and no state a handler keeps, and a request without a body
  sends none. `UploadsAreStored` needs `Aligned`: `SectorLen % MaxPost = 0`, which is 4096
  and 1024 in the code, and `FwSize % SectorLen = 0`, as the sizes of `user_main.c` 58-64
  are: otherwise a piece would reach into a sector that is not erased yet, or the second
  partition would not begin with a sector. `ListsAreOne` needs `MaxSendBuff >= 2`: an
  entry and the end go out in one call and have to fit the 2048 bytes of the buffer, or
  `httpdSend` drops the second. `PagesAreWhole` needs `BlockFits` for the same reason (a
  block of a file or template has 1024 bytes) and `PagesAreFiles`: of the entries of the
  table only templates name a file of the image, as `led.tpl`, `index.tpl` and
  `wifi/wifi.tpl` do in `html/`. A file with the name of any other page would not be what a
  client gets, since `httpdProcessRequest` takes the first entry that matches.

### Arguments

- *Server.* A client is found by its address, so a second slot could only come from
  admitting a known client, or from taking a slot in use. That the search ends on an
  unused slot needs that slots in use lie below `noTamas` (`UsedAreCounted`); that a
  link leads to a client needs that links are zero or below `noTamas` (`LinksCounted`)
  and that entries below it keep an address when they are freed. These two with the
  type, the uniqueness and the links themselves are inductive: `TableInv`. Below the
  wrap the order of the numbers is an invariant relative to it (`NumbersInOrder`), and
  from the two follow the action properties: a display is written by the branch that also
  numbers the slot, and no slot but the sender's own changes hands. For the refinement,
  every type of datagram maps to a join, a leave or a stutter of the registry.
- *Macros.* `EngineInv` is the type with what position, wait and button of a running macro
  have to do with each other. `GettingThere` is what makes a selection succeed: the icons
  still to go are at most nine less the attempts that were not lost. A press that is
  taken reduces both sides, a lost one neither. Each state of the engine then is one of
  the runner's steps or a stutter.
- *Player.* `SessionHasTimeout` and `HeartsAreKnown` together with the types are
  inductive as they stand (`PlayerInv`): every state already says what the next frame
  relies on. One lemma per group of states.
- *Hardware.* `HwInv` adds to the types that the clock is off only where the wake logic
  looked (`StoppedByOff`), that the program does not run while the tama is frozen
  (`FrozenIsDark`) and that the line that is low is that of the button being held, which
  is a button (`OnlyHeldIsLow`, `HeldIsAButton`): a second toggle can only follow its first.
- *Modem.* `LoopInv` says that the decoder is at every tick where the sender is: in the
  same pulse of the same bit of the same byte, with the bits before it collected. After an
  interruption the two have nothing to do with each other until the new sync pulse, which is
  longer than any other, has driven out what was left of the torso as a datagram of its own
  or as nothing (`InSync`). The pulse that ends a datagram lasts 24 ticks, or 22 if the bit
  that happens to lie behind the data is zero; both are more than the 21 from which on the
  decoder takes a pulse for the end. `Kept` is the number of bytes the decoder holds once
  its buffer is full.
- *EEPROM.* `EepromInv` says that the bus is where the program is. While a byte is sent
  (`Sending`), the lower bits of the register are the upper bits of the byte (`Taken`: the
  register modulo 2^k is the byte divided by 2^(n-k)); while one is read (`Reading`), the
  register holds the rest of it, shifted up (`Remaining`), and the program the bits before.
  The address counter is that of the next byte of the transaction: within the page of the
  first for a write (`WrapNext`), modulo the memory for a read (`ReadNext`). Between
  transactions the bus may be in any state at all, and a byte that the next clock would
  store is `pending` (`Storing`): only the acknowledgement of a third byte sent to
  the EEPROM can be interrupted that way. A start condition leads out of any state, because
  its clock pulse comes first and is one step of whatever went on before. The arithmetic
  (quotients of quotients, `Factor`, `ShiftIn`, `ShiftOut`) is one lemma per
  shift, since the prover multiplies variables with difficulty.
- *Web viewer.* What is lost would be a slot whose picture the page does not have and
  whose number it thinks it has. `WebInv` follows the number from the server's write
  to the page: the script and the page are behind the server (`Numbers`, `Behind`); for
  every tama either the page shows it as it is, or its number is newer than what the
  page will ask with, or the answer on its way carries it (`OnTheWay`), or the script has
  not come to the slot yet (`ReadSoFar`). The display is written before the slot's
  number and that before the newest number, the script reads in the opposite order: that
  is where each of the three steps keeps the disjunction.
- *Figure.* `WrongOnlyIfLate` says nothing about answers still on their way, which is
  what the next step depends on. `ViewerInv` adds `OthersAreOld`: a request made for
  another tama is as old as counts, or the flag is set and its age and what is left of
  the timer together reach that age. A tick moves one unit from the timer to the age;
  when the timer is zero the flag is cleared and only old ones are left. `ArmedTogether`
  (either the macro's timer runs and no request has been made, or both timers of
  the polling do) is why no end of a request stops the polling; `LetGoInTime` (a button
  held is let go strictly before the next press) is why the pins are free when the
  polling starts; `StartsEmpty` why nothing of the time before a restart is shown then.
- *Hive.* The server inside is an instance, and its lemmas are used through one of
  `TamaServerProofs` (`SP`), `TableInv` first. For the ghosts, every slot that is used
  without a process belongs to a socket of its own whose goodbye is not on its way
  (`LooseIsCounted`): sockets of that kind arise by faults only, one by each, so an
  injection bounds the slots. For the pictures, `ShownInv` says that a process that has
  not started has sent nothing (`NotStarted`), that one which runs has no goodbye under way
  (`NoByeYet`), and that the last picture of its queue, or the slot if there is none, is
  the one it remembers as sent, unless it is `astray` (`LastIsPromised`).
- *Web server.* `Inv` is the type with `PoolInv`: links, slots, files and buffers match.
  Every handler is a lemma about its result. The loops are recursive functions on a finite
  domain; that such a function exists, which TLA+ leaves to be shown, is proved by the least
  number up to which it fails (no induction theorem can be used, see below). That files are
  accounted for needs that a handler with a file is at one of the two that have one
  (`Filled`). The firmware that runs is kept because of the check of the length: an upload
  that sends no more than it was checked for writes inside the other partition (`Fits`), and
  the last sector it erases reaches at most into the sector behind it, which belongs to
  neither (`KeepsRunning`). For the uploads, `UploadInv` says of every one that nobody
  disturbed that what has been handed on is in the flash and that the rest of its sector is
  still erased; a new sector is erased exactly at its first piece, since partitions begin
  with a sector. It holds as long as nobody sends more than announced (`UploadsFit`): what
  runs past one partition may end up in the other. For the lists, `ListInv` says that while
  a list goes on no scan is in progress and that its entries are those of the stored scan;
  so the result that replaces that scan can only come after another client's list has ended
  and started one, which is what `hist.disturbed` records. Handlers other than `cgiWiFiScan`
  change neither (`SameScan`), and no slot but the one at work is called (`OneSlotLists`).
  For files, templates and the flash, `PageInv` says what the code keeps in the position of
  the handler alone: what the client was sent so far is exactly what the text becomes up to
  there (`Sofar`), and the handler is the one that the first request chose. For a template,
  a token is open where the number of `%` so far is odd, and it is empty directly behind the
  `%` that opened it (`TokenIs`), which is how `%%` is told from a name whichever block the
  two characters are in. The loop over a block is followed character by character, by the
  same argument as the loops above; what the next character adds is one lemma per case
  (`Parity` has the arithmetic). An answer that is reported sent is not empty (`Reported`),
  and a client that was served is not called again (`ServedAreClosed`).

Each inductive invariant holds in TLC on the instances of its module's run.

### Only model-checked

- Everything about liveness, where fairness and `ENABLED` are beyond the prover:
  `SessionsEnd` and its companions, `UnseenPortWakes`, `ButtonsAreReleased`,
  `PageCatchesUp`, `ShowsChosen`, `BegunIsEnded`, `PlayingEnds`, `PipeEnds` and the end of
  a macro in `RunnerSpec`.
- Compression and reader, written with recursive operators, which no theorem may reach;
  their correctness for every text would be an induction over data in any case.

## 6. Where code and words disagree

Shown by a run (`server_history`): "Forward packet to connected tama"
(`server/main.c:76`). The link is a slot number that neither BYE nor a registration
resets: TLC's behaviour introduces two tamas, one says BYE, a third takes its slot, and
the infrared data of the one that stayed reaches the third, which it has never met.

Seen while modelling, without a run (the models do what the code does):

- `server/main.c:73` looks up the partner `y` and sends to `client[x]`, with `x` never
  assigned; the log line below it names `y`. An emulator that waits for the
  acknowledgement of its invitation need not get it.
- `emu/tamaemu.c:429`: "Fire interrupts if enabled". `ioreg` is an array of `char`. With
  timer 0 enabled (bit 7 of `INTCTLLO`) the value is negative, its sign fills the upper
  byte, and interrupts that are not enabled fire (`Enabled` in `TamaHw`).
- `web/gettama.php:27`: "No update needed." is answered to a page whose number is from
  before a restart of the server, although displays have changed; the page takes over the
  small number and never asks for what it missed.
- `server/main.c:61-66`: the age of a freed slot is an unsigned difference from -1 and
  is below the limit while `currSeq` is small: a freed slot may be invited; after
  100 draws the last one is taken whatever it is. `server/main.c:87` against `28`: the
  number that wraps to `UNUSED` frees the slot of the client it was given to.
- `emu/benevolentai.c:161-164`: "press back" after an unsuccessful selection never
  happens; `340` and `369` differ about how hungry is hungry (`<=4`, `<4`); `350-353`
  and `418-424`: the branches for medicine and feeding are swapped against their
  comments; `302` starts a session as master before an acknowledgement, `315` says after;
  `273`: the timeout of a finished game or visit is not cleared.
- `emu/ir.c:127` against `116`: the freeze is shorter than the longest datagram.
- `emu/i2c.c:56`: a stop condition after a read fetches one more byte (unseen, as the
  address is set anew).
- `emu/tamaemu.c:313-316` against `333`: the wake-up register value of an immediate
  wake-up is overwritten; `393`: `fpCtr` is never reset.
- `web/gettama.php:45` reads the icons from 12 bytes behind the display, 4 are right;
  the page does not use them. `web/tama.js:83-86`: a request that fails in the network
  is not handled and ends the polling; `14`: "force update" is undone by an answer that
  is on its way.
- `viewer/esp12/user/io.c:193` speaks of one second and the README files of five; the
  code needs three, and restarts on release. `188` says "released" for bits that went
  low, which are presses. `httpclient.c:435` says "Already in the local names table" of
  the first request, for which nothing is; it goes to 0.0.0.0.
- `libesphttpd/core/httpd.c:540`: `httpdReconCb` says "No idea what to do here" and keeps
  the slot until `httpdDisconCb` runs for some other connection.
- `libesphttpd/core/httpdespfs.c:79-82`: a file of a multiple of 1024 bytes ends with a
  read of nothing; the handler is done without having sent anything, and nobody closes the
  connection.
- `libesphttpd/core/httpd.c:351-354`: "Shouldn't happen" is what every method other than GET
  and POST meets; it is not answered and its connection not closed.
- `libesphttpd/core/httpd.c:518` asks only whether there is a body, not how much of it has
  come: what follows behind `Content-Length` is buffered as well, and every full buffer calls
  the handler. `libesphttpd/util/cgiflash.c:114` compares the announced length with the
  partition; what is written (`141-153`) follows the length received, past the end of
  the partition if need be.
- `libesphttpd/util/cgiwifi.c:106-128` does not ask whether the connection is gone, as the
  other handlers do: called by `httpdDisconCb` for the last time, it sends through the
  pointer to a buffer that was on another callback's stack.
- `emu/benevolentai.c:157`: `s0` asks for an empty bitmap, which ATTENTION (`lcd.c:18-19`)
  keeps from being empty; the selection then ends with its attempts.
- `libesphttpd/util/cgiwifi.c:127`: the end of one list starts a scan under the lists of
  others.
- `mkespfsimage/main.c`: `186` cannot map an empty file, which is left out of the image;
  `344` takes the dot off every name that begins with one, not only off `./`.
- `heatshrink_encoder.c`: the last literal kept back (`has_literal`) is never used; `83`
  accepts a lookahead as large as the window, with which the encoder stops getting on.
- `emu/udp.c:96-103` compares the pixels only: a change of the icons alone is not sent.

## 7. What is not modelled

- Input and output without decisions: sockets and files being opened, SDL, the serial
  port, logging.
- Data without a property: the bits of pictures (`lcd.c`, `lcdmatch.c`, `img.c`), JSON,
  the memory banks and LCD registers of the hardware, the URL parsing of the HTTP client,
  and memory that is not freed there.
- Memory running out: a `malloc` that fails, in `espFsOpen` as elsewhere.
- Whether a macro's press has been released when the next one comes (`btnReleaseTm` stands
  still while the tama is frozen): the macros and the hardware are not composed.
- The 6502 core (`emu/M6502`, third party) and the ROMs: an arbitrary program instead.
- The figure's assembler program (`viewer/remtama`): bit banging against delays.
- Of the web server: headers longer than their buffer, `recvHdl` (only the websockets set
  it), and the setting of a mode without an argument; `auth.c`, `base64.c`, `sha1.c`,
  `cgiwebsocket.c` and `captdns.c`, which the table of `user_main.c` does not use or which
  are pure functions.
- Of the compression: the optional search index of the encoder, partial writes of the
  command line program; gzip is external.
- MooTools: vendored.
- The pacing, the keys and the command line of the emulator.

## 8. Plan

Done: (1) server with registry, history and proofs; (2) macros and player, with
proofs; (3) modem, (4) EEPROM and (5) hardware, with proofs; (6) web viewer, with proofs;
(7) figure and HTTP client, with proofs; (8) hive, with proofs; (9) web server of the
figure, with proofs; (10) files and compression.

Next:

| Step | Modules | Theorems |
|---|---|---|
| 11 | sessions: `BenevolentAi` twice in front of `Hive` | both ends agree on their roles or time out (model-checked first) |
