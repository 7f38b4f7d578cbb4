----------------------------- MODULE TestBench -----------------------------
(***************************************************************************)
(* The development test bench: the status page of test.js (TestStatusPage) *)
(* talking to the development server's device simulation (MockServer),     *)
(* while the console of custom.js, or any other client, drives a firmware  *)
(* update on the same server.                                              *)
(*                                                                         *)
(* A GET /status.json of the page is served by the server's handler, which *)
(* fixes its outcome and the recovery it reports, and is delivered later.  *)
(* A push of the page carries the values table: here the switch the user  *)
(* edited and the recovery the page last showed.  The page ignores the     *)
(* reply of a push, so the server's handling and the reply are one step.   *)
(* The other clients' requests are environment steps of the server.        *)
(***************************************************************************)
EXTENDS Integers, Bags, BagsExt

CONSTANTS MaxInFlight, SeqLen, MaxSeq, ItemsParse,
          MaxPushes   \* bound on the pushes in flight

VARIABLES
    sd, rf, statusReq, defReq, pushReq,          \* the page
    recovery, flags, msgSeq, msgPostEmpty,       \* the server
    statusSeq, statusPostEmpty,
    unserved,   \* page GETs of /status.json the server has not handled
    replies,    \* bag of the served replies: [ok, rec]
    shown,      \* the recovery the values table shows, NotShown before any
    pushes      \* bag of pushes in flight: [f, v, r]

Page == INSTANCE TestStatusPage
Dev == INSTANCE MockServer

pageVars == <<sd, rf, statusReq, defReq, pushReq>>
mockVars == <<recovery, flags, msgSeq, msgPostEmpty, statusSeq, statusPostEmpty>>
benchVars == <<unserved, replies, shown, pushes>>
vars == <<pageVars, mockVars, benchVars>>

\* no values table yet: no status reply has been shown
NotShown == -1

Reply == [ok : BOOLEAN, rec : {0, 1}]
Push == [f : Dev!MockFlags, v : {"off", "on"}, r : {0, 1}]

Init ==
    /\ Page!Init /\ Dev!MockInit
    /\ unserved = 0 /\ replies = EmptyBag /\ shown = NotShown /\ pushes = EmptyBag

-----------------------------------------------------------------------------
(* The page *)

\* the setInterval tick of refreshStatus; a GET of the status goes out
PageTick ==
    /\ Page!refreshStatus
    /\ unserved' = unserved + statusReq' - statusReq
    /\ UNCHANGED <<mockVars, replies, shown, pushes>>

\* the server handles a GET /status.json of the page; the reply can still
\* be lost on the way (delivered = FALSE), which the page sees as a failure
ServeStatus ==
    /\ unserved > 0
    /\ unserved' = unserved - 1
    /\ \E ok, delivered \in BOOLEAN :
          /\ Dev!GetStatus(ok)
          /\ replies' = BagAdd(replies, [ok |-> ok /\ delivered, rec |-> recovery'])
    /\ UNCHANGED <<pageVars, shown, pushes>>

\* the reply reaches the page: .done fills the values table
DeliverStatus ==
    \E r \in BagToSet(replies) :
       /\ Page!StatusReply(r.ok)
       /\ replies' = BagRemove(replies, r)
       /\ shown' = IF r.ok THEN r.rec ELSE shown
       /\ UNCHANGED <<mockVars, unserved, pushes>>

\* the definition reply; the server serves its file, a transport failure
\* is possible
DeliverDefinition ==
    /\ \E ok \in BOOLEAN : Page!DefinitionReply(ok)
    /\ UNCHANGED <<mockVars, benchVars>>

\* an edit of switch f in the values table: pushStatus with the table
PagePush(f, v) ==
    /\ shown # NotShown /\ BagCardinality(pushes) < MaxPushes
    /\ Page!PushStatus
    /\ pushes' = BagAdd(pushes, [f |-> f, v |-> v, r |-> shown])
    /\ UNCHANGED <<mockVars, unserved, replies, shown>>

\* the server applies a push, in any order of the pushes in flight
ServePush ==
    \E p \in BagToSet(pushes) :
       /\ Dev!PostStatus(p.f, p.v, p.r)
       /\ Page!PushReply
       /\ pushes' = BagRemove(pushes, p)
       /\ UNCHANGED <<unserved, replies, shown>>

-----------------------------------------------------------------------------
(* The other clients: the console's update and its polls *)

Console ==
    /\ \/ \E ok \in BOOLEAN : Dev!GetStatus(ok) \/ Dev!PostFlash(ok)
                              \/ Dev!PostRecovery(ok)
       \/ Dev!GetMessages
       \/ Dev!PostConfigFwurl
       \/ Dev!PostRebootOta
    /\ UNCHANGED <<pageVars, benchVars>>

Next ==
    \/ PageTick \/ ServeStatus \/ DeliverStatus \/ DeliverDefinition
    \/ \E f \in Dev!MockFlags, v \in {"off", "on"} : PagePush(f, v)
    \/ ServePush
    \/ Console

\* setInterval(refreshStatus, 1000) keeps ticking
Spec == Init /\ [][Next]_vars /\ WF_vars(PageTick)

-----------------------------------------------------------------------------
TypeOK ==
    /\ Page!TypeOK /\ Dev!MockTypeOK
    /\ unserved \in 0..MaxInFlight
    /\ IsABag(replies) /\ BagToSet(replies) \subseteq Reply
    /\ shown \in {NotShown, 0, 1}
    /\ IsABag(pushes) /\ BagToSet(pushes) \subseteq Push

\* Once an update has been queued on the old-recovery path (POST
\* /config.json with a fwurl while mock_old_recovery is set), the page
\* stops refreshing for good: every later GET /status.json throws on the
\* misspelt status_queue_sequence names and answers 500, and refreshStatus
\* clears rf only in .done, so a failed read leaves it set and every tick
\* returns.
PageStopsAfterOldRecoveryUpdate ==
    statusPostEmpty /\ sd ~> []rf

=============================================================================
