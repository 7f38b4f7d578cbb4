----------------------------- MODULE MockServer -----------------------------
(***************************************************************************)
(* The device simulation of the development server, webpack.dev.js: the    *)
(* Express handlers that script a firmware update.  A fwurl saved through  *)
(* POST /config.json, or POST /flash.json in recovery, queues a scripted   *)
(* list of OTA messages and arms a post-empty callback that leaves         *)
(* recovery (recovery = 0) once the list is consumed.  The list is         *)
(* consumed one message per GET /messages.json, or, when the mock_old_     *)
(* recovery flag is set, one per GET /status.json.  On the old-recovery    *)
(* path the list goes to status_queue_sequence instead.                    *)
(*                                                                         *)
(* Node runs each handler to completion, so a handler is one action.  A   *)
(* handler that throws answers 500 and leaves the state it had changed so  *)
(* far.  The messages are counted, not told apart: the scripted files     *)
(* (mock/*.json) are not in the repository, and the server only moves     *)
(* them.  requeueMessages refills data.messagequeue, which only the reply *)
(* of GET /messages.json shows; it is left out.                           *)
(***************************************************************************)
EXTENDS Integers

CONSTANTS
    SeqLen,          \* messages in a scripted list (messages_ota*.json)
    MaxSeq,          \* bound on the messages queued in one sequence
    ItemsParse       \* JSON.parse of a queued item succeeds (its type is
                     \* that of the missing mock files)

ASSUME SeqLen \in Nat \ {0} /\ MaxSeq \in Nat /\ SeqLen <= MaxSeq
ASSUME ItemsParse \in BOOLEAN

\* the data.status.mock_* switches, set from the test page
MockFlags == {"mock_old_recovery", "mock_fail_fw_update", "mock_fail_recovery"}
\* a switch absent from status.json, '' or a non-empty string
FlagValues == {"absent", "off", "on"}

VARIABLES
    recovery,         \* data.status.recovery
    flags,            \* data.status.mock_*
    msgSeq,           \* data.message_queue_sequence.length
    msgPostEmpty,     \* data.message_queue_sequence_post_empty is set
    statusSeq,        \* data.status_queue_sequence.length
    statusPostEmpty   \* data.status_queue_sequence_post_empty is set

mockVars == <<recovery, flags, msgSeq, msgPostEmpty, statusSeq, statusPostEmpty>>

\* (data.status.mock_... ?? '') !== ''
isSet(f) == flags[f] = "on"
oldRecovery == isSet("mock_old_recovery")

MockInit ==
    /\ recovery \in {0, 1}
    /\ flags \in [MockFlags -> FlagValues]
    /\ msgSeq = 0 /\ msgPostEmpty = FALSE
    /\ statusSeq = 0 /\ statusPostEmpty = FALSE

\* the recovery branch of GET /status.json, or the body of GET
\* /messages.json: the next queued message is shifted out, or, the queue
\* being empty, the post-empty callback leaves recovery and is cleared
consumeMessage ==
    IF msgSeq > 0
    THEN /\ msgSeq' = msgSeq - 1
         /\ UNCHANGED <<recovery, msgPostEmpty>>
    ELSE IF msgPostEmpty
    THEN /\ recovery' = 0 /\ msgPostEmpty' = FALSE
         /\ UNCHANGED msgSeq
    ELSE UNCHANGED <<recovery, msgSeq, msgPostEmpty>>

\* GET /status.json answers 200 or 500.  A queued status sequence is read
\* through data.status_queue_sequence_queue_sequence and its end through
\* status_queue_sequence_post_emptyy: both are undefined and throw before
\* any change.  In old recovery a queued message is shifted out and
\* JSON.parse'd, which throws when the items are objects.
statusFails ==
    \/ statusSeq > 0 \/ statusPostEmpty
    \/ recovery = 1 /\ oldRecovery /\ msgSeq > 0 /\ ~ItemsParse

\* Variant of GetStatus with the two names spelt as meant: the status
\* sequence is consumed and its end leaves recovery.
GetStatusAsNamed(ok) ==
    /\ ok = TRUE
    /\ IF statusSeq > 0
       THEN /\ statusSeq' = statusSeq - 1
            /\ UNCHANGED <<recovery, flags, msgSeq, msgPostEmpty, statusPostEmpty>>
       ELSE IF statusPostEmpty
       THEN /\ recovery' = 0 /\ statusPostEmpty' = FALSE
            /\ UNCHANGED <<flags, msgSeq, msgPostEmpty, statusSeq>>
       ELSE UNCHANGED mockVars

\* app.get('/status.json'), answering ok (200) or not (500); the deletion
\* of ota_pct, ota_dsc and message only shapes the reply
GetStatus(ok) ==
    /\ ok = ~statusFails
    /\ IF statusSeq = 0 /\ ~statusPostEmpty /\ recovery = 1 /\ oldRecovery
       THEN consumeMessage /\ UNCHANGED <<flags, statusSeq, statusPostEmpty>>
       ELSE UNCHANGED mockVars

\* app.get('/messages.json'): 404 in old recovery
GetMessages ==
    IF recovery = 1 /\ oldRecovery
    THEN UNCHANGED mockVars
    ELSE consumeMessage /\ UNCHANGED <<flags, statusSeq, statusPostEmpty>>

\* app.post('/config.json') with a fwurl: the simulated reboot to recovery,
\* then the OTA list queued on the path mock_old_recovery selects
PostConfigFwurl ==
    /\ recovery' = 1
    /\ IF oldRecovery
       THEN /\ statusSeq + SeqLen <= MaxSeq
            /\ statusSeq' = statusSeq + SeqLen /\ statusPostEmpty' = TRUE
            /\ UNCHANGED <<msgSeq, msgPostEmpty>>
       ELSE /\ msgSeq + SeqLen <= MaxSeq
            /\ msgSeq' = msgSeq + SeqLen /\ msgPostEmpty' = TRUE
            /\ UNCHANGED <<statusSeq, statusPostEmpty>>
    /\ UNCHANGED flags

\* app.post('/flash.json'): in recovery, and with neither a failing update
\* nor an old recovery mocked, the flash list is queued; otherwise 404
PostFlash(ok) ==
    /\ ok = (recovery > 0 /\ ~isSet("mock_fail_fw_update") /\ ~oldRecovery)
    /\ IF ok
       THEN /\ msgSeq + SeqLen <= MaxSeq
            /\ msgSeq' = msgSeq + SeqLen /\ msgPostEmpty' = TRUE
            /\ UNCHANGED <<recovery, flags, statusSeq, statusPostEmpty>>
       ELSE UNCHANGED mockVars

\* app.post('/recovery.json'): 404 when mock_fail_recovery is set
PostRecovery(ok) ==
    /\ ok = ~isSet("mock_fail_recovery")
    /\ recovery' = IF ok THEN 1 ELSE recovery
    /\ UNCHANGED <<flags, msgSeq, msgPostEmpty, statusSeq, statusPostEmpty>>

\* Variant of PostRebootOta that decrements recovery instead of resetting it.
PostRebootOtaDecrements ==
    /\ recovery' = recovery - 1
    /\ UNCHANGED <<flags, msgSeq, msgPostEmpty, statusSeq, statusPostEmpty>>

\* app.post('/reboot_ota.json'): back to the application
PostRebootOta ==
    /\ recovery' = 0
    /\ UNCHANGED <<flags, msgSeq, msgPostEmpty, statusSeq, statusPostEmpty>>

\* app.post('/status.json') with the values table of the test page: every
\* property the status already has is overwritten when it differs, here
\* switch f with v and recovery with r, the value the page last showed
\* (a property the status lacks is never in the page's table)
PostStatus(f, v, r) ==
    /\ flags[f] # "absent"
    /\ flags' = [flags EXCEPT ![f] = v]
    /\ recovery' = r
    /\ UNCHANGED <<msgSeq, msgPostEmpty, statusSeq, statusPostEmpty>>

MockTypeOK ==
    /\ recovery \in {0, 1}
    /\ flags \in [MockFlags -> FlagValues]
    /\ msgSeq \in 0..MaxSeq /\ statusSeq \in 0..MaxSeq
    /\ msgPostEmpty \in BOOLEAN /\ statusPostEmpty \in BOOLEAN

=============================================================================
