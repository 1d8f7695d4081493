------------------------------- MODULE CgiWifi -------------------------------
(***************************************************************************)
(* The handlers of util/cgiwifi.c: the list of access points, which is     *)
(* shared by all connections and sent one entry per call, and the attempt  *)
(* to connect to one, driven by two timers.                                *)
(*                                                                         *)
(* dev.wifi holds the static variables of that file and what the SDK tells *)
(* it: scanInProgress, apData (NULL, or the scan the list is from), noAps, *)
(* connTryStatus, the timers resetTimer and reassTimer (armed or not),     *)
(* opmode (1 station, 2 access point, 3 both) and station, the state of    *)
(* the station's connection.                                               *)
(***************************************************************************)
EXTENDS HttpdEspFs

\* wifiStartScan
StartScan(dev) == [dev EXCEPT !.wifi.scanInProgress = TRUE]

(***************************************************************************)
(* wifiScanDoneCb: the list is replaced by that of the scan, unless the    *)
(* scan failed.                                                            *)
(***************************************************************************)
ScanDone(dev, ok, scan, n) ==
    IF ~ok THEN [dev EXCEPT !.wifi.scanInProgress = FALSE]
    ELSE [dev EXCEPT !.wifi.scanInProgress = FALSE, !.wifi.apData = scan, !.wifi.noAps = n]

(***************************************************************************)
(* cgiWiFiScan: pos is 0 on the first call, then the number of the entry   *)
(* to send.  It does not ask whether the connection is still there.        *)
(***************************************************************************)
ScanEntry(s, dev, pos) ==
    LET wifi  == dev.wifi
        entry == IF pos - 1 < wifi.noAps
                 THEN Send(<<>>, << <<"ap", wifi.apData>> >>) ELSE <<>>
    IN IF pos >= wifi.noAps
       THEN Result("DONE", s, Send(entry, << <<"end", 0>> >>), StartScan(dev))
       ELSE Result("MORE", [s EXCEPT !.data = [pos |-> pos + 1]], entry, dev)

\* Mutant: a client may start to page through the list during a scan.
WiFiScanUnguarded(s, dev) ==
    IF s.data # NULL THEN ScanEntry(s, dev, s.data.pos)
    ELSE Result("MORE", [s EXCEPT !.data = [pos |-> 1]],
                Send(Status(200), << <<"inProgress", 0>> >>), dev)

WiFiScan(s, dev) ==
    LET pos == IF s.data = NULL THEN 0 ELSE s.data.pos
    IN IF ~dev.wifi.scanInProgress /\ pos # 0 THEN ScanEntry(s, dev, pos)
       ELSE IF dev.wifi.scanInProgress
       THEN Result("DONE", s, Send(Status(200), << <<"inProgress", 1>> >>), dev)
       ELSE Result("MORE", [s EXCEPT !.data = [pos |-> 1]],
                   Send(Status(200), << <<"inProgress", 0>> >>),
                   [dev EXCEPT !.wifi.noAps = IF dev.wifi.apData = NULL THEN 0 ELSE @])

(***************************************************************************)
(* reassTimerCb and resetTimerCb: the first starts the attempt, the second *)
(* ends it.                                                                *)
(***************************************************************************)
ReassTimerCb(dev) ==
    [dev EXCEPT !.wifi.reassTimer = FALSE, !.wifi.station = "off",
                !.wifi.connTryStatus = "working",
                !.wifi.resetTimer = @ \/ dev.wifi.opmode # 1]

ResetTimerCb(dev) ==
    IF dev.wifi.station = "gotip"
    THEN [dev EXCEPT !.wifi.resetTimer = FALSE, !.wifi.opmode = 1,
                     !.restart = IF @ = "upgrade" THEN @ ELSE "plain"]
    ELSE [dev EXCEPT !.wifi.resetTimer = FALSE, !.wifi.connTryStatus = "fail"]

\* cgiWiFiConnect
WiFiConnect(s, dev) ==
    IF s.conn = NULL THEN Result("DONE", s, <<>>, dev)
    ELSE Result("DONE", s, Status(302), [dev EXCEPT !.wifi.reassTimer = TRUE])

\* cgiWiFiSetMode: a "mode" argument that is not empty changes the mode.  (With
\* other arguments and no mode, an unset buffer would be read: not modelled.)
WiFiSetMode(s, dev) ==
    IF s.conn = NULL THEN Result("DONE", s, <<>>, dev)
    ELSE IF s.req.mode = NULL THEN Result("DONE", s, Status(302), dev)
    ELSE Result("DONE", s, Status(302),
                [dev EXCEPT !.wifi.opmode = s.req.mode,
                            !.restart = IF @ = "upgrade" THEN @ ELSE "plain"])

\* cgiWiFiConnStatus
ConnStatusText(wifi) ==
    CASE wifi.connTryStatus = "idle" -> "idle"
      [] wifi.connTryStatus = "working" ->
            IF wifi.station = "gotip" THEN "success" ELSE "working"
      [] OTHER -> "fail"

WiFiConnStatus(s, dev) ==
    LET text == ConnStatusText(dev.wifi)
    IN Result("DONE", s, Send(Status(200), << <<text, 0>> >>),
              [dev EXCEPT !.wifi.resetTimer = @ \/ text = "success"])
=============================================================================
