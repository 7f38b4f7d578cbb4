----------------------------- MODULE StatusPoller -----------------------------
(***************************************************************************)
(* The polling loop of custom.js: the 3000 ms checkStatus timer chains     *)
(* (startCheckStatusInterval, RepeatCheckStatusInterval), the blockAjax    *)
(* single-flight flag, the GET /messages.json and GET /status.json each    *)
(* tick issues, and the other requests that touch blockAjax: getCommands   *)
(* and getConfig, issued at page load and by the delayReboot chain.        *)
(*                                                                         *)
(* Each tick is named by an id from TickIds, reused once both of its       *)
(* requests are answered: the two replies of a tick, and those of          *)
(* successive ticks, arrive in any order.  The content of the replies is   *)
(* the subject of OtaClient, WifiConnection and MessageLog.                *)
(***************************************************************************)
EXTENDS Integers, FiniteSets

CONSTANTS
    TickIds,      \* ids of ticks whose replies may be outstanding together
    MaxTimers,    \* bound on the checkStatus timer chains
    MaxInFlight,  \* bound on the GETs of commands/config and reboot chains
    BtStatus      \* values of bt_status a status reply may carry

ASSUME MaxTimers \in Nat \ {0} /\ MaxInFlight \in Nat \ {0}
ASSUME BtStatus \subseteq Int

VARIABLES
    timers,         \* pending setTimeout(checkStatus, 3000) chains
    blockAjax,
    statusPending,  \* ticks whose GET /status.json is unanswered
    msgPending,     \* ticks whose GET /messages.json is unanswered
    cmdReq,         \* GET /commands.json in flight
    cfgReq,         \* GET /config.json in flight
    refetch         \* delayReboot chains before their getCommands/getConfig

vars == <<timers, blockAjax, statusPending, msgPending, cmdReq, cfgReq, refetch>>

\* $(document).ready: getConfig(), getCommands(), startCheckStatusInterval()
Init ==
    /\ timers = 1
    /\ blockAjax = FALSE
    /\ statusPending = {} /\ msgPending = {}
    /\ cmdReq = 1 /\ cfgReq = 1
    /\ refetch = 0

\* checkStatus: RepeatCheckStatusInterval re-arms its own chain (so timers
\* is unchanged); when blockAjax is clear it calls getMessages() and GET
\* /status.json.  When blockAjax is set the call is a stuttering step.
Tick(t) ==
    /\ ~blockAjax
    /\ t \notin statusPending \cup msgPending
    /\ blockAjax' = TRUE
    /\ statusPending' = statusPending \cup {t}
    /\ msgPending' = msgPending \cup {t}
    /\ UNCHANGED <<timers, cmdReq, cfgReq, refetch>>

\* handlebtstate indexes btStateIcons, a table of 7 entries, by
\* data.bt_status with no bounds check: for any other status
\* btStateIcons[data.bt_status].sub throws a TypeError.
handlebtstateThrows(bt) ==
    bt \notin 0..6

\* GET /status.json answered: the success callback ends with
\* blockAjax = false (line 1514), the fail callback too (line 1517).
\* handlebtstate runs at line 1463, before that assignment: when it
\* throws, the rest of the callback is skipped and blockAjax stays set.
StatusReply(t, ok, bt) ==
    /\ t \in statusPending
    /\ statusPending' = statusPending \ {t}
    /\ blockAjax' = (ok /\ handlebtstateThrows(bt) /\ blockAjax)
    /\ UNCHANGED <<timers, msgPending, cmdReq, cfgReq, refetch>>

\* GET /messages.json answered (success, 404 or error): no poller state
MessagesReply(t) ==
    /\ t \in msgPending
    /\ msgPending' = msgPending \ {t}
    /\ UNCHANGED <<timers, blockAjax, statusPending, cmdReq, cfgReq, refetch>>

\* getCommands: the fail callback clears blockAjax (line 1780)
CommandsReply(ok) ==
    /\ cmdReq > 0
    /\ cmdReq' = cmdReq - 1
    /\ blockAjax' = IF ok THEN blockAjax ELSE FALSE
    /\ UNCHANGED <<timers, statusPending, msgPending, cfgReq, refetch>>

\* getConfig: the fail callback clears blockAjax (line 1862)
ConfigReply(ok) ==
    /\ cfgReq > 0
    /\ cfgReq' = cfgReq - 1
    /\ blockAjax' = IF ok THEN blockAjax ELSE FALSE
    /\ UNCHANGED <<timers, statusPending, msgPending, cmdReq, refetch>>

\* delayReboot (from handleReboot; the calls of runCommand and saveAutoexec1
\* are never reached, see CommandForms): after its delay a POST whose complete callback, reached
\* on success and on error, schedules the refetch 6000 ms later
RebootClick ==
    /\ refetch < MaxInFlight
    /\ refetch' = refetch + 1
    /\ UNCHANGED <<timers, blockAjax, statusPending, msgPending, cmdReq, cfgReq>>

\* ... which calls getCommands() and getConfig()
RebootRefetch ==
    /\ refetch > 0
    /\ cmdReq < MaxInFlight /\ cfgReq < MaxInFlight
    /\ refetch' = refetch - 1
    /\ cmdReq' = cmdReq + 1
    /\ cfgReq' = cfgReq + 1
    /\ UNCHANGED <<timers, blockAjax, statusPending, msgPending>>

\* handleConnect ends with startCheckStatusInterval(): a new timer chain
HandleConnect ==
    /\ timers < MaxTimers
    /\ timers' = timers + 1
    /\ UNCHANGED <<blockAjax, statusPending, msgPending, cmdReq, cfgReq, refetch>>

Next ==
    \/ \E t \in TickIds : Tick(t) \/ MessagesReply(t)
                          \/ \E ok \in BOOLEAN, bt \in BtStatus :
                                 StatusReply(t, ok, bt)
    \/ \E ok \in BOOLEAN : CommandsReply(ok) \/ ConfigReply(ok)
    \/ RebootClick
    \/ RebootRefetch
    \/ HandleConnect

\* A timer chain always exists, so the timer fires; every request is
\* answered, at the latest by the browser's network error.  User clicks
\* (reboot, connect) are not fair.
Fairness ==
    /\ WF_vars(\E t \in TickIds : Tick(t))
    /\ \A t \in TickIds :
           WF_vars(\E ok \in BOOLEAN, bt \in BtStatus : StatusReply(t, ok, bt))
    /\ \A t \in TickIds : WF_vars(MessagesReply(t))
    /\ WF_vars(\E ok \in BOOLEAN : CommandsReply(ok))
    /\ WF_vars(\E ok \in BOOLEAN : ConfigReply(ok))
    /\ WF_vars(RebootRefetch)

Spec == Init /\ [][Next]_vars /\ Fairness

-----------------------------------------------------------------------------
TypeOK ==
    /\ timers \in 1..MaxTimers
    /\ blockAjax \in BOOLEAN
    /\ statusPending \subseteq TickIds /\ msgPending \subseteq TickIds
    /\ {cmdReq, cfgReq, refetch} \subseteq 0..MaxInFlight

(***************************************************************************)
(* A property the spec states and the code does not keep (violation run). *)
(***************************************************************************)

\* spec 4.1: tick() is guarded by an in-flight flag, so overlapping ticks
\* never run concurrently: at most one GET /status.json is in flight.
\* blockAjax is also cleared by the fail callbacks of getCommands (line
\* 1780) and getConfig (line 1862), which do not own it: a failed GET
\* /commands.json or /config.json while a status request is pending lets
\* the next timer tick issue a second one.
TickSingleFlight ==
    Cardinality(statusPending) <= 1

=============================================================================
