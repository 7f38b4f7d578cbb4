---------------------------- MODULE TestStatusPage ----------------------------
(***************************************************************************)
(* The development status page, test.js: a 1000 ms setInterval calls       *)
(* refreshStatus, which first fetches /statusdefinition.json until `sd`    *)
(* holds a definition, and from then on reads /status.json, single-flight  *)
(* through the `rf` flag.  Editing the values table (or #save_status)      *)
(* POSTs the values back (pushStatus).  No callback of the POST reads its  *)
(* reply.                                                                  *)
(*                                                                         *)
(* The values are abstracted away, a request is a count of GETs or POSTs  *)
(* in flight, and a reply says only whether it succeeded.  TestBench      *)
(* composes the page with the development server that answers it.         *)
(***************************************************************************)
EXTENDS Naturals

CONSTANTS
    MaxInFlight   \* bound on the requests of one kind in flight

ASSUME MaxInFlight \in Nat \ {0}

VARIABLES
    sd,         \* Object.keys(sd).length > 0
    rf,
    statusReq,  \* GET /status.json in flight
    defReq,     \* GET /statusdefinition.json in flight
    pushReq     \* POST /status.json in flight

vars == <<sd, rf, statusReq, defReq, pushReq>>

Init ==
    /\ sd = FALSE /\ rf = FALSE
    /\ statusReq = 0 /\ defReq = 0 /\ pushReq = 0

\* refreshStatus (the setInterval tick): with a definition, return when rf
\* is set, else set it and GET /status.json; without one, GET the
\* definition, with no test of a request already in flight
refreshStatus ==
    \/ /\ sd /\ ~rf
       /\ statusReq < MaxInFlight
       /\ rf' = TRUE
       /\ statusReq' = statusReq + 1
       /\ UNCHANGED <<sd, defReq, pushReq>>
    \/ /\ ~sd
       /\ defReq < MaxInFlight
       /\ defReq' = defReq + 1
       /\ UNCHANGED <<sd, rf, statusReq, pushReq>>

\* Variant of StatusReply that clears rf on a failure as well.
StatusReplyAlways(ok) ==
    /\ statusReq > 0
    /\ statusReq' = statusReq - 1
    /\ rf' = FALSE
    /\ UNCHANGED <<sd, defReq, pushReq>>

\* GET /status.json answered: the values table is filled and .done clears
\* rf; .fail does nothing
StatusReply(ok) ==
    /\ statusReq > 0
    /\ statusReq' = statusReq - 1
    /\ rf' = IF ok THEN FALSE ELSE rf
    /\ UNCHANGED <<sd, defReq, pushReq>>

\* GET /statusdefinition.json answered: sd = data on success (the
\* development server always serves the same, non-empty, definition)
DefinitionReply(ok) ==
    /\ defReq > 0
    /\ defReq' = defReq - 1
    /\ sd' = (sd \/ ok)
    /\ UNCHANGED <<rf, statusReq, pushReq>>

\* pushStatus, from #save_status or a change in #valuesTable
PushStatus ==
    /\ pushReq < MaxInFlight
    /\ pushReq' = pushReq + 1
    /\ UNCHANGED <<sd, rf, statusReq, defReq>>

\* the POST answered; no callback
PushReply ==
    /\ pushReq > 0
    /\ pushReq' = pushReq - 1
    /\ UNCHANGED <<sd, rf, statusReq, defReq>>

Next ==
    \/ refreshStatus
    \/ \E ok \in BOOLEAN : StatusReply(ok) \/ DefinitionReply(ok)
    \/ PushStatus
    \/ PushReply

Spec == Init /\ [][Next]_vars

-----------------------------------------------------------------------------
TypeOK ==
    /\ sd \in BOOLEAN /\ rf \in BOOLEAN
    /\ {statusReq, defReq, pushReq} \subseteq 0..MaxInFlight

=============================================================================
