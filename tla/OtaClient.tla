------------------------------ MODULE OtaClient ------------------------------
(***************************************************************************)
(* The browser side of the firmware update (OTA) flow of the wifi-manager  *)
(* web console, src/components/wifi-manager/webapp/src/js/custom.js:       *)
(* the flash_state machine (flash_events, process_ota_event,              *)
(* set_ota_error), the status poller that feeds it (checkStatus,           *)
(* getMessages, blockAjax) and the requests the update issues             *)
(* (/recovery.json, /flash.json, /config.json).                           *)
(*                                                                         *)
(* JavaScript runs one callback at a time, so every callback is one atomic *)
(* action.  A request in flight is a counter (or an upload slot); its      *)
(* reply is a separate action that may come at any later time, in any      *)
(* order with the other replies.  The device is open: a reply carries any  *)
(* recovery flag, percent and description from small sets.                 *)
(* flash_ota_dsc is left out: it is only displayed, and no branch reads   *)
(* it; the description the device sends is kept, since isFlashExecuting  *)
(* tests it.                                                               *)
(***************************************************************************)
EXTENDS Integers, SequencesExt

CONSTANTS
    DevicePct,    \* ota_pct values a reply may carry; -1 stands for "absent"
    DeviceDsc,    \* a non-empty ota_dsc sent by the device (model value)
    UploadPct,    \* Math.round(loaded/total*100) values of upload progress
    UploadSlots,  \* XMLHttpRequest objects for /flash.json that may coexist
    MaxInFlight,  \* bound on the requests of one kind in flight
    MaxBatch,     \* bound on the OTA messages in one /messages.json reply
    MaxRelReq     \* bound on the release-list GETs in flight

ASSUME /\ -1 \in DevicePct /\ 100 \in DevicePct /\ DevicePct \subseteq -1..100
       /\ 100 \in UploadPct /\ UploadPct \subseteq 1..100
       /\ MaxInFlight \in Nat \ {0} /\ MaxBatch \in Nat
       /\ MaxRelReq \in 1..MaxInFlight

VARIABLES
    \* status poller (checkStatus, getMessages); its other requests and
    \* its timers are the subject of StatusPoller
    blockAjax,      \* the single-flight flag of checkStatus
    statusReq,      \* GET /status.json in flight
    msgReq,         \* GET /messages.json in flight
    recovery,       \* the client's view: last status said recovery === 1
    \* OTA state machine
    flash_state,
    flash_ota_pct,
    older_recovery,
    dialog,         \* #otadiv modal shown
    file,           \* #flashfilename holds a file
    url,            \* #fw-url-input is non-empty
    startFlash,     \* #start-flash button visible
    \* requests issued by the OTA flow
    recoveryReq,    \* POST /recovery.json in flight
    cfgPostReq,     \* POST /config.json (fwurl) in flight
    upload,         \* state of each /flash.json XMLHttpRequest
    \* the release list
    relReq,         \* GET releaseURL (#chkUpdates) in flight
    releases        \* the rows of #rTable, each by whether it holds the
                    \* URL of a .bin asset (fwurl='' when it has none)

pollVars == <<blockAjax, statusReq, msgReq, recovery>>
otaVars  == <<flash_state, flash_ota_pct, older_recovery,
              dialog, file, url, startFlash>>
reqVars  == <<recoveryReq, cfgPostReq, upload>>
relVars  == <<relReq, releases>>
vars     == <<pollVars, otaVars, reqVars, relVars>>

\* flash_status_codes; flash_state starts undefined, which every test of
\* the code (lines 211, 307, 314, isFlashExecuting) treats as NONE.
States == {"NONE", "REBOOT_TO_RECOVERY", "SET_FWURL", "FLASHING", "DONE",
           "UPLOADING", "ERROR"}

\* The {ota_pct, ota_dsc} part of a status reply or an OTA message, after
\* the `?? -1` and `?? ''` defaults of lines 1213-1214 and 1465-1466.
OtaData == [pct : DevicePct, dsc : {"", DeviceDsc}]
StatusData == [recovery : BOOLEAN, ota : OtaData]

UploadStates == {"none", "sending", "sent"}   \* "sent": 100% progress seen

(***************************************************************************)
(* The OTA variables as a record, so that the handlers, which call one     *)
(* another, can be written as functions from record to record.             *)
(***************************************************************************)
Ota == [flash_state |-> flash_state, flash_ota_pct |-> flash_ota_pct,
        older_recovery |-> older_recovery,
        dialog |-> dialog, file |-> file, url |-> url]

SetOta(o) ==
    /\ flash_state' = o.flash_state
    /\ flash_ota_pct' = o.flash_ota_pct
    /\ older_recovery' = o.older_recovery
    /\ dialog' = o.dialog
    /\ file' = o.file
    /\ url' = o.url

\* show_update_dialog: opens the modal (the rest is display)
show_update_dialog(o) == [o EXCEPT !.dialog = TRUE]

\* the condition under which PROCESS_OTA and PROCESS_OTA_STATUS show it
ShowIfActive(o) ==
    IF o.flash_state # "NONE" /\ o.flash_ota_pct >= 0
    THEN show_update_dialog(o) ELSE o

isFlashExecuting(o, d) ==
    o.flash_state # "UPLOADING" /\ (d.dsc # "" \/ d.pct > 0)

\* Variant of process_ota_event with the FLASHING-at-100% test ahead of
\* isFlashExecuting (a plausible reordering of the else-if chain).
process_ota_event_done_first(o, d) ==
    LET s == [o EXCEPT !.flash_ota_pct = d.pct]
    IN CASE o.flash_state = "ERROR" -> s
         [] o.flash_state = "FLASHING" /\ s.flash_ota_pct = 100 ->
                [s EXCEPT !.flash_state = "DONE", !.file = FALSE]
         [] isFlashExecuting(o, d) -> [s EXCEPT !.flash_state = "FLASHING"]
         [] OTHER -> s

\* process_ota_event: d.pct is always defined here, so it always overwrites
process_ota_event(o, d) ==
    LET s == [o EXCEPT !.flash_ota_pct = d.pct]
    IN CASE o.flash_state = "ERROR" -> s
         [] isFlashExecuting(o, d) -> [s EXCEPT !.flash_state = "FLASHING"]
         [] o.flash_state = "FLASHING" /\ s.flash_ota_pct = 100 ->
                [s EXCEPT !.flash_state = "DONE", !.file = FALSE]
         [] o.flash_state = "FLASHING" /\ s.flash_ota_pct < 0
                /\ o.older_recovery ->
                [s EXCEPT !.flash_state = "DONE"]
         [] o.flash_state = "UPLOADING" /\ s.flash_ota_pct = 100 ->
                [s EXCEPT !.flash_ota_pct = 0, !.flash_state = "FLASHING"]
         [] OTHER -> s

\* set_ota_error(message) followed by the SET_ERROR handler
set_ota_error(o) ==
    show_update_dialog([o EXCEPT !.flash_state = "ERROR", !.flash_ota_pct = 0])

\* PROCESS_OTA: one MESSAGING_CLASS_OTA message
PROCESS_OTA(o, d) == ShowIfActive(process_ota_event(o, d))

(***************************************************************************)
(* Handlers that may issue a request return the new record and the         *)
(* request: [ota |-> ..., req |-> "none" | "upload" | "fwurl"].            *)
(***************************************************************************)
FOUND_RECOVERY(o) ==
    CASE o.file ->
           [ota |-> show_update_dialog([o EXCEPT !.flash_state = "UPLOADING"]),
            req |-> "upload"]
      [] ~o.url ->
           [ota |-> show_update_dialog([o EXCEPT !.flash_state = "NONE"]),
            req |-> "none"]
      [] OTHER ->
           [ota |-> show_update_dialog([o EXCEPT !.flash_state = "SET_FWURL"]),
            req |-> "fwurl"]

\* PROCESS_OTA_STATUS, called after handleRecoveryMode set `recovery` to rec
PROCESS_OTA_STATUS(o, d, rec) ==
    LET o1 == IF d.pct > 0 THEN [o EXCEPT !.older_recovery = TRUE] ELSE o
    IN CASE o1.flash_state = "REBOOT_TO_RECOVERY" -> FOUND_RECOVERY(o1)
         [] o1.flash_state = "DONE" /\ ~rec ->
                [ota |-> [o1 EXCEPT !.flash_state = "NONE", !.url = FALSE],
                 req |-> "none"]
         [] OTHER -> [ota |-> PROCESS_OTA(o1, d), req |-> "none"]

\* START_OTA; the /recovery.json POST is issued only outside recovery
START_OTA(o) ==
    IF o.flash_state \in {"NONE", "ERROR"}
    THEN show_update_dialog([o EXCEPT !.flash_state = "REBOOT_TO_RECOVERY"])
    ELSE o

\* the request a handler issued, as updates of the request variables
Issue(req) ==
    /\ req = "upload" =>
          \E u \in UploadSlots :
              /\ upload[u] = "none"
              /\ upload' = [upload EXCEPT ![u] = "sending"]
    /\ req # "upload" => UNCHANGED upload
    /\ cfgPostReq' = IF req = "fwurl" THEN cfgPostReq + 1 ELSE cfgPostReq
    /\ req = "fwurl" => cfgPostReq < MaxInFlight

-----------------------------------------------------------------------------
(***************************************************************************)
(* Initial state: right after $(document).ready started the status timer. *)
(***************************************************************************)
Init ==
    /\ blockAjax = FALSE
    /\ statusReq = 0 /\ msgReq = 0
    /\ recovery = FALSE
    /\ flash_state = "NONE"
    /\ flash_ota_pct = 0
    /\ older_recovery = FALSE
    /\ dialog = FALSE /\ file = FALSE /\ url = FALSE /\ startFlash = FALSE
    /\ recoveryReq = 0 /\ cfgPostReq = 0
    /\ upload = [u \in UploadSlots |-> "none"]
    /\ relReq = 0 /\ releases = {}

-----------------------------------------------------------------------------
(* Status poller *)

\* checkStatus when blockAjax is clear: getMessages() and GET /status.json.
\* When blockAjax is set it only re-arms the timer: a stuttering step.
StatusTick ==
    /\ ~blockAjax
    /\ statusReq < MaxInFlight /\ msgReq < MaxInFlight
    /\ blockAjax' = TRUE
    /\ statusReq' = statusReq + 1
    /\ msgReq' = msgReq + 1
    /\ UNCHANGED <<relVars, recovery, otaVars, reqVars>>

\* handleRecoveryMode, the first handler of a status reply: recovery is
\* true exactly when data.recovery is 1 (the rest toggles page sections)
handleRecoveryMode(d) == d.recovery

\* the success callback of GET /status.json
StatusOk(d) ==
    LET r == PROCESS_OTA_STATUS(Ota, d.ota, handleRecoveryMode(d))
    IN /\ statusReq > 0
       /\ statusReq' = statusReq - 1
       /\ recovery' = handleRecoveryMode(d)
       /\ SetOta(r.ota)
       /\ Issue(r.req)
       /\ blockAjax' = FALSE
       /\ UNCHANGED <<relVars, msgReq, startFlash, recoveryReq>>

\* the fail callback of GET /status.json
StatusFail ==
    /\ statusReq > 0
    /\ statusReq' = statusReq - 1
    /\ blockAjax' = FALSE
    /\ UNCHANGED <<relVars, msgReq, recovery, otaVars, reqVars>>

\* the success callback of GET /messages.json: its OTA messages in order
MessagesOk(batch) ==
    /\ msgReq > 0
    /\ msgReq' = msgReq - 1
    /\ SetOta(FoldLeft(PROCESS_OTA, Ota, batch))
    /\ UNCHANGED <<relVars, blockAjax, statusReq, recovery,
                   startFlash, reqVars>>

\* the fail callback of GET /messages.json: 404 hides .orec, other errors
\* are logged; neither touches the poller or the OTA state
MessagesFail ==
    /\ msgReq > 0
    /\ msgReq' = msgReq - 1
    /\ UNCHANGED <<relVars, blockAjax, statusReq, recovery,
                   otaVars, reqVars>>

-----------------------------------------------------------------------------
(* User actions on the page; the modal #otadiv blocks the page while shown *)

\* START_OTA from a click and the /recovery.json POST it may issue
StartOta(o) ==
    /\ SetOta(START_OTA(o))
    /\ LET posts == o.flash_state \in {"NONE", "ERROR"} /\ ~recovery
       IN /\ posts => recoveryReq < MaxInFlight
          /\ recoveryReq' = IF posts THEN recoveryReq + 1 ELSE recoveryReq

\* #fwUpload click: alert when no file is chosen, else START_OTA
FwUploadClick ==
    /\ ~dialog /\ file
    /\ StartOta(Ota)
    /\ UNCHANGED <<relVars, pollVars, startFlash, cfgPostReq, upload>>

\* hFlash (the #start-flash confirmation): clears the file, then START_OTA
HFlash ==
    /\ ~dialog /\ startFlash
    /\ StartOta([Ota EXCEPT !.file = FALSE])
    /\ UNCHANGED <<relVars, pollVars, startFlash, cfgPostReq, upload>>

\* choosing or clearing a file in #flashfilename
ChooseFile(b) ==
    /\ ~dialog
    /\ file' = b
    /\ UNCHANGED <<relVars, pollVars, flash_state, flash_ota_pct,
                   older_recovery, dialog, url, startFlash, reqVars>>

\* #chkUpdates: #rTable is emptied and the releases are fetched
ChkUpdates ==
    /\ ~dialog
    /\ relReq < MaxRelReq
    /\ relReq' = relReq + 1
    /\ releases' = {}
    /\ UNCHANGED <<pollVars, otaVars, reqVars>>

\* the releases reply: a row per release is appended to #rTable, each
\* holding the URL of its .bin asset, or '' when the release has none; a
\* failure only alerts.  Rows of an earlier reply are kept: only the click
\* empties the table.
ReleasesReply(ok, rows) ==
    /\ relReq > 0
    /\ relReq' = relReq - 1
    /\ releases' = IF ok THEN releases \cup rows ELSE releases
    /\ UNCHANGED <<pollVars, otaVars, reqVars>>

\* a click on a release row: #fw-url-input gets the row's fwurl (proxied
\* through LMS when lmsBaseUrl is set), '' for a release without a .bin
\* asset, with .val(); #start-flash is shown without the 'input' handler's
\* test
ReleaseClick(bin) ==
    /\ ~dialog /\ bin \in releases
    /\ url' = bin
    /\ startFlash' = TRUE
    /\ UNCHANGED <<pollVars, flash_state, flash_ota_pct, older_recovery,
                   dialog, file, reqVars, relVars>>

\* typing in #fw-url-input ('input' handler): the button shows only for a
\* URL of more than 8 characters with http(s)
EditUrl(v) ==
    /\ ~dialog
    /\ url' = (v # "empty")
    /\ startFlash' = (v = "valid")
    /\ UNCHANGED <<relVars, pollVars, flash_state, flash_ota_pct,
                   older_recovery, dialog, file, reqVars>>

\* Variant of Dismiss assigning flash_status_codes.FLASH_NONE, a key that
\* does not exist (the mistake line 119 makes), i.e. undefined.
DismissToUndefined ==
    /\ dialog
    /\ dialog' = FALSE
    /\ flash_state' = "undefined"
    /\ UNCHANGED <<relVars, pollVars, flash_ota_pct, older_recovery,
                   file, url, startFlash, reqVars>>

\* 'hidden.bs.modal' on #otadiv
Dismiss ==
    /\ dialog
    /\ dialog' = FALSE
    /\ flash_state' = "NONE"
    /\ UNCHANGED <<relVars, pollVars, flash_ota_pct, older_recovery,
                   file, url, startFlash, reqVars>>

-----------------------------------------------------------------------------
(* Replies to the requests of the OTA flow *)

\* POST /recovery.json: complete only logs; error calls set_ota_error
RecoveryReply(ok) ==
    /\ recoveryReq > 0
    /\ recoveryReq' = recoveryReq - 1
    /\ IF ok THEN UNCHANGED otaVars
       ELSE /\ SetOta(set_ota_error(Ota))
            /\ UNCHANGED startFlash
    /\ UNCHANGED <<relVars, pollVars, cfgPostReq, upload>>

\* the "progress" listener of the upload: PROCESS_OTA_UPLOAD
UploadProgress(u, p) ==
    /\ upload[u] = "sending"
    /\ upload' = [upload EXCEPT ![u] = IF p = 100 THEN "sent" ELSE "sending"]
    /\ SetOta(show_update_dialog(
                 process_ota_event([Ota EXCEPT !.flash_state = "UPLOADING"],
                                   [pct |-> p, dsc |-> "uploading"])))
    /\ UNCHANGED <<relVars, pollVars, startFlash, recoveryReq, cfgPostReq>>

\* onreadystatechange, readyState 4 with a status other than 0 and 404:
\* nothing is done.  The device may answer before the body is sent (the
\* development server does), or the file may be empty, so this can come
\* before any progress event.
UploadDone(u) ==
    /\ upload[u] \in {"sending", "sent"}
    /\ upload' = [upload EXCEPT ![u] = "none"]
    /\ UNCHANGED <<relVars, pollVars, otaVars, recoveryReq, cfgPostReq>>

\* readyState 4 with status 0 or 404: set_ota_error, then the file is cleared
UploadFailed(u) ==
    /\ upload[u] \in {"sending", "sent"}
    /\ upload' = [upload EXCEPT ![u] = "none"]
    /\ SetOta([set_ota_error(Ota) EXCEPT !.file = FALSE])
    /\ UNCHANGED <<relVars, pollVars, startFlash, recoveryReq, cfgPostReq>>

\* post_config: success does nothing, error goes to handleExceptionResponse,
\* which only logs; neither touches the OTA state
ConfigPostReply(ok) ==
    /\ cfgPostReq > 0
    /\ cfgPostReq' = cfgPostReq - 1
    /\ UNCHANGED <<relVars, pollVars, otaVars, recoveryReq, upload>>

-----------------------------------------------------------------------------
Next ==
    \/ StatusTick
    \/ \E d \in StatusData : StatusOk(d)
    \/ StatusFail
    \/ \E b \in BoundedSeq(OtaData, MaxBatch) : MessagesOk(b)
    \/ MessagesFail
    \/ FwUploadClick
    \/ HFlash
    \/ \E b \in BOOLEAN : ChooseFile(b)
    \/ \E v \in {"empty", "invalid", "valid"} : EditUrl(v)
    \/ Dismiss
    \/ \E ok \in BOOLEAN : RecoveryReply(ok)
    \/ \E u \in UploadSlots :
          \/ \E p \in UploadPct : UploadProgress(u, p)
          \/ UploadDone(u)
          \/ UploadFailed(u)
    \/ \E ok \in BOOLEAN : ConfigPostReply(ok)
    \/ ChkUpdates
    \/ \E ok \in BOOLEAN, rows \in SUBSET BOOLEAN : ReleasesReply(ok, rows)
    \/ \E bin \in BOOLEAN : ReleaseClick(bin)

Spec == Init /\ [][Next]_vars

-----------------------------------------------------------------------------
TypeOK ==
    /\ blockAjax \in BOOLEAN /\ recovery \in BOOLEAN
    /\ {statusReq, msgReq, recoveryReq, cfgPostReq, relReq}
          \subseteq 0..MaxInFlight
    /\ flash_state \in States
    /\ flash_ota_pct \in DevicePct \cup UploadPct \cup {0}
    /\ {older_recovery, dialog, file, url, startFlash} \subseteq BOOLEAN
    /\ upload \in [UploadSlots -> UploadStates]
    /\ releases \subseteq BOOLEAN

(***************************************************************************)
(* Safety.                                                                 *)
(***************************************************************************)

\* The client reaches DONE only through the older-recovery branch of
\* process_ota_event (lines 161-169): every DONE state has older_recovery
\* set, however status polls, OTA messages and upload progress interleave.
\* The 100% branch (lines 156-160) is shadowed by isFlashExecuting.
DoneOnlyViaOlderRecovery ==
    flash_state = "DONE" => older_recovery

(***************************************************************************)
(* Properties the spec states and the code does not keep (violation runs). *)
(***************************************************************************)

\* spec 4.2: ERROR is sticky; only START_OTA (or dismissing the dialog)
\* leaves it.  The upload progress listener (PROCESS_OTA_UPLOAD, line
\* 287) sets UPLOADING from any state.
ErrorLeftOnlyByUser ==
    [][flash_state = "ERROR" /\ flash_state' # "ERROR"
         => FwUploadClick \/ HFlash \/ Dismiss]_vars

\* The device is sent to recovery only with something to flash: while
\* REBOOT_TO_RECOVERY the client holds a chosen file or a firmware URL.
\* The DONE -> NONE branch of PROCESS_OTA_STATUS (lines 300-302) empties
\* #fw-url-input with .val(''), which fires no 'input' event, so
\* #start-flash stays shown and hFlash starts an update with no URL.  A
\* click on a release without a .bin asset (line 957) does the same.
RecoveryHasFirmwareSource ==
    flash_state = "REBOOT_TO_RECOVERY" => file \/ url

\* spec 7: an OTA operation failure (reboot, upload or config-save failure
\* during an update) is routed into the sticky ERROR phase.  The error
\* callback of the fwurl POST is handleExceptionResponse (line 138): the
\* client stays in SET_FWURL, waiting for a flash that never starts.
ConfigSaveFailureIsError ==
    [][ConfigPostReply(FALSE) /\ flash_state = "SET_FWURL"
         => flash_state' = "ERROR"]_vars

=============================================================================
