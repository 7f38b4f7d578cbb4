----------------------------- MODULE MessageLog -----------------------------
(***************************************************************************)
(* The message log of custom.js: the #syslogTable rows and the #msgcnt     *)
(* badge, whose number is messagecount and whose colour is                 *)
(* pillcolors[messageseverity].  Rows are added by showMessage, reached    *)
(* from the MESSAGING_CLASS_SYSTEM and MESSAGING_CLASS_BT messages of a    *)
(* GET /messages.json batch, from a status reply carrying a message        *)
(* (older recovery firmwares), from delayReboot and, through               *)
(* handleExceptionResponse, from the failure callbacks of the requests.    *)
(* #clear-syslog empties the log and resets the badge.                     *)
(*                                                                         *)
(* The text of a row is abstracted away; a row is its type.  A failed      *)
(* request hands handleExceptionResponse jQuery's thrownError, the HTTP    *)
(* status text of the response: empty for a network failure (status 0).    *)
(***************************************************************************)
EXTENDS Naturals, Sequences, SequencesExt

CONSTANTS
    BtNames,      \* names of Bluetooth sinks the device may report
    StatusMsgs,   \* non-empty values of data.message in a status reply
    MaxLog,       \* bound on messagecount
    MaxBatch      \* bound on the messages of one GET /messages.json reply

ASSUME MaxLog \in Nat /\ MaxBatch \in Nat \ {0}

VARIABLES
    messagecount,
    messageseverity,
    prevmessage,    \* the last status message logged, "" at first
    btSinks,        \* the options of #cfg-audio-bt_source-sink_name
    shown,          \* history: the types of the rows since the last clear
    failed          \* history: a request failed (not 404) since the clear

logVars == <<messagecount, messageseverity, shown>>
vars == <<messagecount, messageseverity, prevmessage, btSinks, shown, failed>>

Severities == {"MESSAGING_INFO", "MESSAGING_WARNING", "MESSAGING_ERROR"}

\* the classes of getMessages' switch; OTHER stands for OTA, STATS and
\* CFGCMD (handled elsewhere, no row) and for unknown classes (default)
Classes == {"MESSAGING_CLASS_SYSTEM", "MESSAGING_CLASS_BT", "OTHER"}
Entries == [class : Classes, type : Severities, name : BtNames]

\* the statuses a failed request may end with: network failure, a
\* capability the firmware lacks, a server error
HttpStatus == {0, 404, 500}

\* jQuery's thrownError: the status text of the response
thrownError(status) == IF status = 0 THEN "" ELSE "statusText"

\* the call sites of failure callbacks; at those of SoftDisable a 404
\* hides a section instead of calling handleExceptionResponse
Sites == {"messages", "commands", "status", "config", "post"}
SoftDisable == {"messages", "commands"}

Log == [count |-> messagecount, severity |-> messageseverity, shown |-> shown]

SetLog(l) ==
    /\ messagecount' = l.count
    /\ messageseverity' = l.severity
    /\ shown' = l.shown

\* Variant of showMessage whose WARNING branch misspells the severity.
showMessageMisnamed(l, type) ==
    [count |-> l.count + 1,
     severity |-> IF type = "MESSAGING_WARNING" /\ l.severity = "MESSAGING_INFO"
                  THEN "MESSAGING_WARN" ELSE l.severity,
     shown |-> l.shown \cup {type}]

\* Variant of showMessage that escalates to ERROR from INFO only.
showMessageErrorFromInfo(l, type) ==
    [count |-> l.count + 1,
     severity |->
        CASE type = "MESSAGING_WARNING" /\ l.severity = "MESSAGING_INFO"
               -> "MESSAGING_WARNING"
          [] type = "MESSAGING_ERROR" /\ l.severity = "MESSAGING_INFO"
               -> "MESSAGING_ERROR"
          [] OTHER -> l.severity,
     shown |-> l.shown \cup {type}]

\* showMessage: a WARNING raises INFO, an ERROR raises INFO and WARNING;
\* the count is incremented and the badge repainted with it
showMessage(l, type) ==
    [count |-> l.count + 1,
     severity |->
        CASE type = "MESSAGING_WARNING" /\ l.severity = "MESSAGING_INFO"
               -> "MESSAGING_WARNING"
          [] type = "MESSAGING_ERROR"
               /\ l.severity \in {"MESSAGING_INFO", "MESSAGING_WARNING"}
               -> "MESSAGING_ERROR"
          [] OTHER -> l.severity,
     shown |-> l.shown \cup {type}]

\* handleExceptionResponse: an ERROR row unless thrownError is empty
handleExceptionResponse(l, status) ==
    IF thrownError(status) # "" THEN showMessage(l, "MESSAGING_ERROR") ELSE l

\* one message of a batch, with the sinks known before it: a SYSTEM
\* message is a row; a BT message is a row when its sink is new
ProcessEntry(ls, m) ==
    CASE m.class = "MESSAGING_CLASS_SYSTEM"
           -> [ls EXCEPT !.log = showMessage(@, m.type)]
      [] m.class = "MESSAGING_CLASS_BT" /\ m.name \notin ls.sinks
           -> [log |-> showMessage(ls.log, m.type),
               sinks |-> ls.sinks \cup {m.name}]
      [] OTHER -> ls

Init ==
    /\ messagecount = 0
    /\ messageseverity = "MESSAGING_INFO"
    /\ prevmessage = ""
    /\ btSinks = {}
    /\ shown = {}
    /\ failed = FALSE

\* getMessages: the success callback handles the batch in order
MessagesOk(batch) ==
    LET r == FoldLeft(ProcessEntry, [log |-> Log, sinks |-> btSinks], batch)
    IN /\ r.log.count <= MaxLog
       /\ SetLog(r.log)
       /\ btSinks' = r.sinks
       /\ UNCHANGED <<prevmessage, failed>>

\* checkStatus: a status reply whose message differs from the last one
\* logged is shown as an INFO row
StatusMessage(m) ==
    /\ messagecount < MaxLog
    /\ m # prevmessage
    /\ prevmessage' = m
    /\ SetLog(showMessage(Log, "MESSAGING_INFO"))
    /\ UNCHANGED <<btSinks, failed>>

\* delayReboot without a command name: a WARNING row
RebootWarning ==
    /\ messagecount < MaxLog
    /\ SetLog(showMessage(Log, "MESSAGING_WARNING"))
    /\ UNCHANGED <<prevmessage, btSinks, failed>>

\* a failure callback: at SoftDisable sites a 404 hides the dependent
\* section; everywhere else handleExceptionResponse is called
RequestFailed(site, status) ==
    /\ messagecount < MaxLog
    /\ IF site \in SoftDisable /\ status = 404
       THEN UNCHANGED logVars
       ELSE SetLog(handleExceptionResponse(Log, status))
    /\ failed' = (failed \/ status # 404)
    /\ UNCHANGED <<prevmessage, btSinks>>

\* #clear-syslog
ClearSyslog ==
    /\ messagecount' = 0
    /\ messageseverity' = "MESSAGING_INFO"
    /\ shown' = {}
    /\ failed' = FALSE
    /\ UNCHANGED <<prevmessage, btSinks>>

Next ==
    \/ \E batch \in BoundedSeq(Entries, MaxBatch) : MessagesOk(batch)
    \/ \E m \in StatusMsgs : StatusMessage(m)
    \/ RebootWarning
    \/ \E site \in Sites, status \in HttpStatus : RequestFailed(site, status)
    \/ ClearSyslog

Spec == Init /\ [][Next]_vars

-----------------------------------------------------------------------------
TypeOK ==
    /\ messagecount \in 0..MaxLog
    /\ messageseverity \in Severities
    /\ prevmessage \in StatusMsgs \cup {""}
    /\ btSinks \subseteq BtNames
    /\ shown \subseteq Severities
    /\ failed \in BOOLEAN

\* The badge as MessageBadge describes it: `shown`, the history of the
\* row types since the last clear, is the abstract `rows`.
Badge == INSTANCE MessageBadge
            WITH count <- messagecount, rows <- shown, badge <- messageseverity

\* The log implements MessageBadge: whatever mix of message batches,
\* status messages, reboot warnings, failed requests and clears, every
\* step that adds rows repaints the badge with the worst type since the
\* last #clear-syslog, and showMessage's one-way escalation never lowers
\* the colour nor misses a step (WARNING to ERROR included).
BadgeRefinement == Badge!Spec

(***************************************************************************)
(* Properties the spec states and the code does not keep (violation runs). *)
(***************************************************************************)

\* spec 7: a transport error (network failure, non-404 non-2xx) is
\* surfaced as a log message of severity ERROR.  handleExceptionResponse
\* logs nothing when thrownError is empty, which it is when the request
\* never reached the device.
TransportErrorLogged ==
    failed => messageseverity = "MESSAGING_ERROR"

=============================================================================
