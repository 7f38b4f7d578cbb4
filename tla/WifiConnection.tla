---------------------------- MODULE WifiConnection ----------------------------
(***************************************************************************)
(* The WiFi connection sub-flow of custom.js: choosing a network in        *)
(* #wifiTable, the #WifiConnectDialog, handleConnect (POST /connect.json), *)
(* handleDisconnect (DELETE /connect.json) and the reconciliation of each  *)
(* status reply (handleWifiStatus, hasConnectionChanged, handleWifiDialog) *)
(* against the attempt in progress (ConnectingToSSID).                     *)
(*                                                                         *)
(* The device follows the development server of webpack.dev.js: a connect *)
(* request is processed one second later; it either joins the network     *)
(* (urc OK) or fails, keeping the network it had (FAILED_ATTEMPT_AND_      *)
(* RESTORE) or none (FAILED_ATTEMPT).  Which attempts fail (the mock's     *)
(* 'fail' in the name, a wrong password on a real device) is a choice.     *)
(*                                                                         *)
(* A status reply is served (the device state is read) and later          *)
(* delivered; in between the device may change, so a reply can be stale.  *)
(* Only ssid and urc of the reply are kept; gw, netmask, ip and rssi are   *)
(* only compared and displayed.                                            *)
(***************************************************************************)
EXTENDS Naturals, FiniteSets

CONSTANTS
    SSIDs,      \* network names (model values)
    NoSsid,     \* no network: '' or absent
    MaxPending, \* bound on connect requests the device has not processed
    MaxScan     \* bound on refreshAP chains in flight

ASSUME NoSsid \notin SSIDs /\ MaxPending \in Nat \ {0} /\ MaxScan \in Nat \ {0}

\* connectReturnCode
URCs == {"OK", "FAILED_ATTEMPT", "USER_DISCONNECT", "LOST_CONNECTION",
         "FAILED_ATTEMPT_AND_RESTORE"}
\* ConnectingToActions, plus the initial undefined Action
Actions == {"undefined", "CONN", "MAN", "STS"}
\* which of the $("*[class*='connecting']") sections is shown
Panels == {"none", "init", "connecting", "success", "fail", "status"}

Snapshot == [ssid : SSIDs \cup {NoSsid}, urc : URCs \cup {"undefined"}]

VARIABLES
    devSsid, devUrc,    \* the device's data.status.ssid and .urc
    devPending,         \* networks of connect requests not yet processed
    devDelete,          \* a DELETE /connect.json not yet processed
    statusReq,          \* GET /status.json: "idle", "sent" or "served"
    served,             \* the Snapshot the device served
    ConnectedToSSID,    \* the client's last changed status snapshot
    ConnectingToSSID,   \* [ssid, Action] of the attempt in progress
    visible,            \* #WifiConnectDialog shown
    panel,
    rows,               \* networks with a row in #wifiTable
    manualRow,          \* the 'Manual add' row (.manual_add) is present
    scanReq,            \* GET /scan.json in flight
    apReq               \* GET /ap.json in flight (after the 2000 ms sleep)

devVars == <<devSsid, devUrc, devPending, devDelete>>
cliVars == <<ConnectedToSSID, ConnectingToSSID, visible, panel>>
reqVars == <<statusReq, served>>
tblVars == <<rows, manualRow, scanReq, apReq>>
vars == <<devVars, reqVars, cliVars, tblVars>>

Init ==
    /\ devSsid \in SSIDs \cup {NoSsid}
    /\ devUrc = IF devSsid = NoSsid THEN "LOST_CONNECTION" ELSE "OK"
    /\ devPending = {}
    /\ devDelete = FALSE
    /\ statusReq = "idle"
    /\ served = [ssid |-> NoSsid, urc |-> "undefined"]
    /\ ConnectedToSSID = [ssid |-> NoSsid, urc |-> "undefined"]
    /\ ConnectingToSSID = [ssid |-> NoSsid, Action |-> "undefined"]
    /\ visible = FALSE
    /\ panel = "none"
    /\ rows = {} /\ manualRow = FALSE
    /\ scanReq = 0 /\ apReq = 0

-----------------------------------------------------------------------------
(* The client *)

hasConnectionChanged(d) ==
    d.urc # ConnectedToSSID.urc \/ d.ssid # ConnectedToSSID.ssid

\* Variant of handleWifiDialog that does not switch to the status section
\* once the attempt is over (Action STS): the section shown is kept.
handleWifiDialogKeepsSection(d) ==
    LET c == ConnectingToSSID
    IN CASE d.urc = "OK" /\ d.ssid # NoSsid /\ d.ssid = c.ssid ->
                [panel |-> "success", Action |-> "STS"]
         [] d.urc = "FAILED_ATTEMPT" /\ c.Action # "STS" /\ c.ssid = d.ssid ->
                [panel |-> "fail", Action |-> c.Action]
         [] d.urc = "FAILED_ATTEMPT_AND_RESTORE" /\ c.Action # "STS"
                /\ c.ssid # d.ssid ->
                [panel |-> "fail", Action |-> c.Action]
         [] OTHER -> [panel |-> panel, Action |-> c.Action]

\* handleWifiDialog(data) on a visible dialog: the section it leaves shown
\* and the Action it leaves
handleWifiDialog(d) ==
    LET c == ConnectingToSSID
        p == IF c.Action \in {"undefined", "STS"} THEN "status" ELSE panel
    IN CASE d.urc = "OK" /\ d.ssid # NoSsid /\ d.ssid = c.ssid ->
                [panel |-> "success", Action |-> "STS"]
         [] d.urc = "FAILED_ATTEMPT" /\ c.Action # "STS" /\ c.ssid = d.ssid ->
                [panel |-> "fail", Action |-> c.Action]
         [] d.urc = "FAILED_ATTEMPT_AND_RESTORE" /\ c.Action # "STS"
                /\ c.ssid # d.ssid ->
                [panel |-> "fail", Action |-> c.Action]
         [] OTHER -> [panel |-> p, Action |-> c.Action]

\* refreshAPHTML2 marks and, if it has no row, prepends the network of
\* the client's snapshot when that reports a connection
connectedShown(c) ==
    c.ssid # NoSsid /\ c.urc \in {"OK", "FAILED_ATTEMPT_AND_RESTORE"}

\* Variant of refreshAPHTML2 that repaints a scan list without prepending
\* the connected network when the scan did not see it.
refreshAPHTML2NoPrepend(list, c) ==
    IF list = {} THEN rows \cup (IF connectedShown(c) THEN {c.ssid} ELSE {})
    ELSE list

\* refreshAPHTML2(data): the rows of #wifiTable it leaves.  With a scan list
\* (data) the table is replaced by its rows ($('#wifiTable').html(h));
\* without one (refreshAPHTML2() from handleWifiStatus, here list = {})
\* the rows are kept.  'Manual add' is appended when .manual_add is gone,
\* and the connected network is prepended when no row has its name.
refreshAPHTML2(list, c) ==
    (IF list = {} THEN rows ELSE list)
        \cup (IF connectedShown(c) THEN {c.ssid} ELSE {})

\* the status timer's GET /status.json (single flight: blockAjax)
StatusSend ==
    /\ statusReq = "idle"
    /\ statusReq' = "sent"
    /\ UNCHANGED <<devVars, served, cliVars>>
    /\ UNCHANGED tblVars

\* the device answers with its current state
StatusServe ==
    /\ statusReq = "sent"
    /\ statusReq' = "served"
    /\ served' = [ssid |-> devSsid, urc |-> devUrc]
    /\ UNCHANGED <<devVars, cliVars>>
    /\ UNCHANGED tblVars

\* handleWifiStatus(data) in the success callback of checkStatus
StatusDeliver ==
    LET d == served
        r == handleWifiDialog(d)
    IN /\ statusReq = "served"
       /\ statusReq' = "idle"
       /\ ConnectedToSSID' = IF hasConnectionChanged(d) THEN d
                             ELSE ConnectedToSSID
       /\ IF hasConnectionChanged(d)
          THEN rows' = refreshAPHTML2({}, d) /\ manualRow' = TRUE
          ELSE UNCHANGED <<rows, manualRow>>
       /\ IF visible
          THEN /\ panel' = r.panel
               /\ ConnectingToSSID' = [ConnectingToSSID EXCEPT !.Action = r.Action]
          ELSE UNCHANGED <<panel, ConnectingToSSID>>
       /\ UNCHANGED <<devVars, served, visible, scanReq, apReq>>

\* the fail callback of GET /status.json
StatusFail ==
    /\ statusReq = "sent"
    /\ statusReq' = "idle"
    /\ UNCHANGED <<devVars, served, cliVars>>
    /\ UNCHANGED tblVars

\* a click on a #wifiTable row, then 'shown.bs.modal': the network already
\* connected only shows its status; another one starts an attempt
ClickRow(s) ==
    /\ ~visible /\ s \in rows
    /\ visible' = TRUE
    /\ IF s = ConnectedToSSID.ssid
       THEN /\ ConnectingToSSID' = [ConnectingToSSID EXCEPT !.Action = "STS"]
            /\ panel' = "status"
       ELSE /\ ConnectingToSSID' = [ssid |-> s, Action |-> "CONN"]
            /\ panel' = "init"
    /\ UNCHANGED <<devVars, reqVars, ConnectedToSSID>>
    /\ UNCHANGED tblVars

\* a click on the last row, "Manual add"
ClickManual ==
    /\ ~visible /\ manualRow
    /\ visible' = TRUE
    /\ ConnectingToSSID' = [ssid |-> NoSsid, Action |-> "MAN"]
    /\ panel' = "init"
    /\ UNCHANGED <<devVars, reqVars, ConnectedToSSID>>
    /\ UNCHANGED tblVars

\* handleConnect with #manual_ssid = s, from the connecting-init section;
\* the Action is left as the row click set it
HandleConnect(s) ==
    /\ visible /\ panel = "init"
    /\ Cardinality(devPending) < MaxPending
    /\ ConnectingToSSID' = [ConnectingToSSID EXCEPT !.ssid = s]
    /\ panel' = "connecting"
    /\ devPending' = devPending \cup {s}
    /\ UNCHANGED <<devSsid, devUrc, devDelete, reqVars, ConnectedToSSID,
                   visible>>
    /\ UNCHANGED tblVars

\* 'hidden.bs.modal': the inputs are cleared, ConnectingToSSID is kept
HideDialog ==
    /\ visible
    /\ visible' = FALSE
    /\ UNCHANGED <<devVars, reqVars, ConnectedToSSID, ConnectingToSSID,
                   panel>>
    /\ UNCHANGED tblVars

\* handleDisconnect: DELETE /connect.json; no callback reads the reply
HandleDisconnect ==
    /\ ~devDelete
    /\ devDelete' = TRUE
    /\ UNCHANGED <<devSsid, devUrc, devPending, reqVars, cliVars>>
    /\ UNCHANGED tblVars

\* refreshAP, from the 1500 ms timeout after 'ready' or a click on
\* #updateAP: GET /scan.json, with no test of a scan already in flight
RefreshAP ==
    /\ scanReq + apReq < MaxScan
    /\ scanReq' = scanReq + 1
    /\ UNCHANGED <<devVars, reqVars, cliVars, rows, manualRow, apReq>>

\* the scan reply: on success the callback sleeps 2000 ms and GETs
\* /ap.json; no callback handles a failure
ScanReply(ok) ==
    /\ scanReq > 0
    /\ scanReq' = scanReq - 1
    /\ apReq' = IF ok THEN apReq + 1 ELSE apReq
    /\ UNCHANGED <<devVars, reqVars, cliVars, rows, manualRow>>

\* the /ap.json reply, with the networks the device sees: a non-empty
\* list becomes apList (sorted by rssi) and is painted by refreshAPHTML2;
\* an empty list or a failure leaves the table
ApReply(list) ==
    /\ apReq > 0
    /\ apReq' = apReq - 1
    /\ IF list # {}
       THEN rows' = refreshAPHTML2(list, ConnectedToSSID) /\ manualRow' = TRUE
       ELSE UNCHANGED <<rows, manualRow>>
    /\ UNCHANGED <<devVars, reqVars, cliVars, scanReq>>

-----------------------------------------------------------------------------
(* The device *)

\* the development server's DELETE /connect.json: the ssid is cleared and
\* the urc is left as it was
DeviceDisconnect ==
    /\ devDelete
    /\ devDelete' = FALSE
    /\ devSsid' = NoSsid
    /\ UNCHANGED <<devUrc, devPending, reqVars, cliVars>>
    /\ UNCHANGED tblVars

\* Variant of DeviceConnect whose restore branch names a connectReturnCode
\* key that does not exist, i.e. assigns undefined (cf. line 119).
DeviceConnectMisnamedCode(s, ok) ==
    /\ s \in devPending
    /\ devPending' = devPending \ {s}
    /\ IF ok
       THEN devSsid' = s /\ devUrc' = "OK"
       ELSE /\ devUrc' = IF devSsid # NoSsid THEN "undefined"
                         ELSE "FAILED_ATTEMPT"
            /\ UNCHANGED devSsid
    /\ UNCHANGED devDelete
    /\ UNCHANGED <<reqVars, cliVars>>
    /\ UNCHANGED tblVars

\* the mock's setTimeout callback for POST /connect.json
DeviceConnect(s, ok) ==
    /\ s \in devPending
    /\ devPending' = devPending \ {s}
    /\ IF ok
       THEN devSsid' = s /\ devUrc' = "OK"
       ELSE /\ devUrc' = IF devSsid # NoSsid THEN "FAILED_ATTEMPT_AND_RESTORE"
                         ELSE "FAILED_ATTEMPT"
            /\ UNCHANGED devSsid
    /\ UNCHANGED devDelete
    /\ UNCHANGED <<reqVars, cliVars>>
    /\ UNCHANGED tblVars

Next ==
    \/ StatusSend \/ StatusServe \/ StatusDeliver \/ StatusFail
    \/ \E s \in SSIDs : ClickRow(s) \/ HandleConnect(s)
                        \/ \E ok \in BOOLEAN : DeviceConnect(s, ok)
    \/ ClickManual
    \/ HideDialog
    \/ HandleDisconnect
    \/ DeviceDisconnect
    \/ RefreshAP
    \/ \E ok \in BOOLEAN : ScanReply(ok)
    \/ \E list \in SUBSET SSIDs : ApReply(list)

Spec == Init /\ [][Next]_vars

-----------------------------------------------------------------------------
TypeOK ==
    /\ devSsid \in SSIDs \cup {NoSsid} /\ devUrc \in URCs
    /\ devPending \subseteq SSIDs /\ devDelete \in BOOLEAN
    /\ statusReq \in {"idle", "sent", "served"} /\ served \in Snapshot
    /\ ConnectedToSSID \in Snapshot
    /\ ConnectingToSSID \in [ssid : SSIDs \cup {NoSsid}, Action : Actions]
    /\ visible \in BOOLEAN /\ panel \in Panels
    /\ rows \subseteq SSIDs /\ manualRow \in BOOLEAN
    /\ scanReq \in 0..MaxScan /\ apReq \in 0..MaxScan

\* While the dialog shows connecting-success, the client's snapshot of the
\* connection (ConnectedToSSID, from the status replies) is the network of
\* the attempt, connected: handleWifiDialog runs on every status reply and
\* replaces the success section once a reply reports another network,
\* e.g. when an earlier attempt the device had not yet processed lands.
SuccessMatchesConnection ==
    visible /\ panel = "success" =>
        /\ ConnectedToSSID.ssid = ConnectingToSSID.ssid
        /\ ConnectedToSSID.urc = "OK"

\* Whenever the client's snapshot reports a connection (OK, or a failed
\* attempt that restored the previous network), #wifiTable has a row for
\* that network besides 'Manual add', whichever of the two repaints came
\* last: a scan list that no longer sees the network (ApReply) or a status
\* change (StatusDeliver).  The status dialog of the connected network is
\* reached only through its row.
ConnectedRowShown ==
    connectedShown(ConnectedToSSID) => ConnectedToSSID.ssid \in rows /\ manualRow

(***************************************************************************)
(* Properties the spec states and the code does not keep (violation runs). *)
(***************************************************************************)

\* spec 5: a status reply with FAILED_ATTEMPT marks the attempt failed
\* unless the pending action is STATUS_ONLY.  handleWifiDialog also asks
\* that the reported ssid equal the attempted one, and a device that fails
\* with no previous network reports no ssid: the dialog keeps waiting.
FailedAttemptReported ==
    [][StatusDeliver /\ visible /\ served.urc = "FAILED_ATTEMPT"
       /\ ConnectingToSSID.Action # "STS" => panel' = "fail"]_vars

=============================================================================
