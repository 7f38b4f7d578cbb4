---------------------------- MODULE CommandForms ----------------------------
(***************************************************************************)
(* The command and configuration forms of custom.js: getCommands builds a  *)
(* fieldset per command (config commands in their tab, the others in       *)
(* #commands-list), runCommand POSTs a command line to /commands.json and  *)
(* shows its result in the command's toast, saveAutoexec1 POSTs the audio  *)
(* template to /config.json, getConfig fills #nvsTable, and the delayReboot *)
(* chain (handleReboot) waits, POSTs the reboot, and once that request is  *)
(* complete waits 6000 ms more and reloads the commands and the config.    *)
(*                                                                         *)
(* The device answers each request with a status; a processed command      *)
(* also queues a MESSAGING_CLASS_CFGCMD message, which a later             *)
(* GET /messages.json delivers to the command's toast.  Field values, the  *)
(* command line and the texts are abstracted away.                         *)
(***************************************************************************)
EXTENDS Naturals

CONSTANTS
    Cmds,       \* command names of /commands.json (model values)
    CfgCmds,    \* those whose name starts with cfg-: Save and Apply buttons
    NoCmd,      \* the empty cmdname of handleReboot's delayReboot
    ChainIds,   \* delayReboot chains that may run together
    MaxReq      \* bound on the requests of one kind in flight

ASSUME CfgCmds \subseteq Cmds /\ NoCmd \notin Cmds /\ MaxReq \in Nat \ {0}

Severities == {"MESSAGING_INFO", "MESSAGING_WARNING", "MESSAGING_ERROR"}
Toasts == {"none"} \cup Severities     \* "none": display none
\* statuses a request may end with: success, a backend the firmware lacks
\* (an older recovery), a server error, a network failure
Statuses == {200, 404, 500, 0}
Stages == {"idle", "delay", "post", "settle"}

VARIABLES
    forms,      \* commands whose fieldset (and toast) exists
    orec,       \* the .orec elements are shown
    toast,      \* toast_<cmd>: hidden, or shown with the colour of a type
    tmplToast,  \* toast_cfg-audio-tmpl
    cmdPost,    \* POST /commands.json in flight, by command and reboot flag
    cfgPost,    \* saveAutoexec1's POST /config.json in flight
    cfgMsg,     \* CFGCMD messages queued by the device, by command
    chain,      \* the delayReboot chains: stage and cmdname
    cmdGet,     \* GET /commands.json in flight
    cfgGet,     \* GET /config.json in flight
    nvsLoaded   \* #nvsTable was filled by a getConfig reply

vars == <<forms, orec, toast, tmplToast, cmdPost, cfgPost, cfgMsg, chain,
          cmdGet, cfgGet, nvsLoaded>>

\* $(document).ready: getConfig(), getCommands(); .orec as the page has it
Init ==
    /\ forms = {}
    /\ orec \in BOOLEAN
    /\ toast = [c \in Cmds |-> "none"]
    /\ tmplToast = "none"
    /\ cmdPost = [k \in Cmds \X BOOLEAN |-> 0]
    /\ cfgPost = 0
    /\ cfgMsg = [c \in Cmds |-> 0]
    /\ chain = [i \in ChainIds |-> [stage |-> "idle", cmd |-> NoCmd]]
    /\ cmdGet = 1 /\ cfgGet = 1
    /\ nvsLoaded = FALSE

\* showCmdMessage(cmdname, type): the toast is shown with the colour of
\* type.  For a cmdname with no fieldset $('#msg_'+cmdname).html() is
\* undefined and reading its length throws: nothing changes.
showCmdMessage(t, c, type) ==
    IF c \in forms THEN [t EXCEPT ![c] = type] ELSE t

-----------------------------------------------------------------------------
(* The forms *)

\* runCommand(button, reboot), from Execute, Save (reboot false) or Apply
\* (reboot true, config commands only): "Executing." and the POST
RunCommand(c, reboot) ==
    /\ c \in forms
    /\ reboot => c \in CfgCmds
    /\ cmdPost[<<c, reboot>>] < MaxReq
    /\ toast' = showCmdMessage(toast, c, "MESSAGING_INFO")
    /\ cmdPost' = [cmdPost EXCEPT ![<<c, reboot>>] = @ + 1]
    /\ UNCHANGED <<forms, orec, tmplToast, cfgPost, cfgMsg, chain, cmdGet,
                   cfgGet, nvsLoaded>>

\* the success callback receives the reply as text (dataType 'text'): its
\* responseText property is undefined, so the test that would call
\* delayReboot(2500, cmdname) for Apply is never true
responseTextOf(reply) == "undefined"

\* the device's POST /commands.json (the development server): the command
\* line is parsed, a CFGCMD message with its options is queued for the
\* command, and {Result: 'Success'} is returned
sendMessaging(q, c) == [q EXCEPT ![c] = @ + 1]

\* Variant of CommandReply whose 404 branch names the type 'MESSAGING_ERR'
\* (line 1581 misspelt).
CommandReplyErrTypo(c, reboot, st) ==
    /\ cmdPost[<<c, reboot>>] > 0
    /\ st = 200 => cfgMsg[c] < MaxReq
    /\ cmdPost' = [cmdPost EXCEPT ![<<c, reboot>>] = @ - 1]
    /\ orec' = (orec \/ st = 200)
    /\ cfgMsg' = IF st = 200 THEN sendMessaging(cfgMsg, c) ELSE cfgMsg
    /\ toast' = IF st = 404 THEN showCmdMessage(toast, c, "MESSAGING_ERR")
                ELSE toast
    /\ UNCHANGED <<forms, chain, tmplToast, cfgPost, cmdGet, cfgGet, nvsLoaded>>

\* The reply to runCommand.  200: the device ran the command and queued a
\* CFGCMD message; .orec is shown.  404: the toast of the command shows an
\* error.  Otherwise handleExceptionResponse logs, then showCmdMessage is
\* called for cmd.substr(0, cmd.indexOf(' ')-1), the name less its last
\* character, which has no fieldset.
CommandReply(c, reboot, st) ==
    /\ cmdPost[<<c, reboot>>] > 0
    /\ st = 200 => cfgMsg[c] < MaxReq
    /\ cmdPost' = [cmdPost EXCEPT ![<<c, reboot>>] = @ - 1]
    /\ orec' = (orec \/ st = 200)
    /\ cfgMsg' = IF st = 200 THEN sendMessaging(cfgMsg, c) ELSE cfgMsg
    /\ toast' = IF st = 404 THEN showCmdMessage(toast, c, "MESSAGING_ERROR")
                ELSE toast
    /\ chain' = IF st = 200 /\ reboot /\ responseTextOf("Success") # "undefined"
                   /\ \E i \in ChainIds : chain[i].stage = "idle"
                THEN LET i == CHOOSE j \in ChainIds : chain[j].stage = "idle"
                     IN [chain EXCEPT ![i] = [stage |-> "delay", cmd |-> c]]
                ELSE chain
    /\ UNCHANGED <<forms, tmplToast, cfgPost, cmdGet, cfgGet, nvsLoaded>>

\* getMessages, case MESSAGING_CLASS_CFGCMD: showCmdMessage of the type
CmdMessage(c, type) ==
    /\ cfgMsg[c] > 0
    /\ cfgMsg' = [cfgMsg EXCEPT ![c] = @ - 1]
    /\ toast' = showCmdMessage(toast, c, type)
    /\ UNCHANGED <<forms, orec, tmplToast, cmdPost, cfgPost, chain, cmdGet,
                   cfgGet, nvsLoaded>>

\* saveAutoexec1(apply): "Saving." and POST /config.json
SaveAutoexec ==
    /\ cfgPost < MaxReq
    /\ tmplToast' = "MESSAGING_INFO"
    /\ cfgPost' = cfgPost + 1
    /\ UNCHANGED <<forms, orec, toast, cmdPost, cfgMsg, chain, cmdGet,
                   cfgGet, nvsLoaded>>

\* its complete callback, on success and failure alike: the test of
\* response.responseText.result reads a property of a string, undefined,
\* and the last branch shows statusText as an error
SaveAutoexecReply ==
    /\ cfgPost > 0
    /\ cfgPost' = cfgPost - 1
    /\ tmplToast' = "MESSAGING_ERROR"
    /\ UNCHANGED <<forms, orec, toast, cmdPost, cfgMsg, chain, cmdGet,
                   cfgGet, nvsLoaded>>

\* getCommands answered.  200: .orec shown and a fieldset built for every
\* command that has none.  Failure: a 404 hides .orec, anything else is
\* logged; #commands-list is emptied, removing the forms (and toasts) of
\* the commands that are not config commands.
CommandsReply(st) ==
    /\ cmdGet > 0
    /\ cmdGet' = cmdGet - 1
    /\ IF st = 200
       THEN /\ orec' = TRUE
            /\ forms' = Cmds
            /\ UNCHANGED toast
       ELSE /\ orec' = (orec /\ st # 404)
            /\ forms' = forms \cap CfgCmds
            /\ toast' = [c \in Cmds |-> IF c \in CfgCmds THEN toast[c]
                                        ELSE "none"]
    /\ UNCHANGED <<tmplToast, cmdPost, cfgPost, cfgMsg, chain, cfgGet,
                   nvsLoaded>>

\* getConfig answered: #nvsTable rebuilt on success; a failure is logged
ConfigReply(ok) ==
    /\ cfgGet > 0
    /\ cfgGet' = cfgGet - 1
    /\ nvsLoaded' = (nvsLoaded \/ ok)
    /\ UNCHANGED <<forms, orec, toast, tmplToast, cmdPost, cfgPost, cfgMsg,
                   chain, cmdGet>>

-----------------------------------------------------------------------------
(* The delayReboot chain *)

\* handleReboot(link), from the reboot and reboot_ota entries of the
\* menu: delayReboot(500, '', link)
HandleReboot(i) ==
    /\ chain[i].stage = "idle"
    /\ chain' = [chain EXCEPT ![i] = [stage |-> "delay", cmd |-> NoCmd]]
    /\ UNCHANGED <<forms, orec, toast, tmplToast, cmdPost, cfgPost, cfgMsg,
                   cmdGet, cfgGet, nvsLoaded>>

\* the delay elapsed: "System is rebooting." in the command's toast (in
\* the log for an empty cmdname) and POST /<link>.json
RebootPost(i) ==
    /\ chain[i].stage = "delay"
    /\ chain' = [chain EXCEPT ![i].stage = "post"]
    /\ toast' = IF chain[i].cmd = NoCmd THEN toast
                ELSE showCmdMessage(toast, chain[i].cmd, "MESSAGING_WARNING")
    /\ UNCHANGED <<forms, orec, tmplToast, cmdPost, cfgPost, cfgMsg, cmdGet,
                   cfgGet, nvsLoaded>>

\* Variant of RebootComplete with the reload in a success callback: a
\* failed reboot POST ends the chain.
RebootCompleteOnSuccess(i, ok) ==
    /\ chain[i].stage = "post"
    /\ chain' = [chain EXCEPT ![i].stage = IF ok THEN "settle" ELSE "idle"]
    /\ UNCHANGED <<forms, orec, toast, tmplToast, cmdPost, cfgPost, cfgMsg,
                   cmdGet, cfgGet, nvsLoaded>>

\* the reboot POST is complete, answered or failed (the device drops the
\* connection as it reboots): the complete callback starts the 6000 ms
\* delay either way; a failure is also logged
RebootComplete(i, ok) ==
    /\ chain[i].stage = "post"
    /\ chain' = [chain EXCEPT ![i].stage = "settle"]
    /\ UNCHANGED <<forms, orec, toast, tmplToast, cmdPost, cfgPost, cfgMsg,
                   cmdGet, cfgGet, nvsLoaded>>

\* the 6000 ms elapsed: HideCmdMessage(cmdname) for a command, then
\* getCommands() and getConfig()
RebootReload(i) ==
    /\ chain[i].stage = "settle"
    /\ cmdGet < MaxReq /\ cfgGet < MaxReq
    /\ chain' = [chain EXCEPT ![i] = [stage |-> "idle", cmd |-> NoCmd]]
    /\ toast' = IF chain[i].cmd = NoCmd THEN toast
                ELSE [toast EXCEPT ![chain[i].cmd] = "none"]
    /\ cmdGet' = cmdGet + 1 /\ cfgGet' = cfgGet + 1
    /\ UNCHANGED <<forms, orec, tmplToast, cmdPost, cfgPost, cfgMsg,
                   nvsLoaded>>

Next ==
    \/ \E c \in Cmds, reboot \in BOOLEAN :
          \/ RunCommand(c, reboot)
          \/ \E st \in Statuses : CommandReply(c, reboot, st)
    \/ \E c \in Cmds, type \in Severities : CmdMessage(c, type)
    \/ SaveAutoexec
    \/ SaveAutoexecReply
    \/ \E st \in Statuses : CommandsReply(st)
    \/ \E ok \in BOOLEAN : ConfigReply(ok)
    \/ \E i \in ChainIds :
          \/ HandleReboot(i)
          \/ RebootPost(i)
          \/ \E ok \in BOOLEAN : RebootComplete(i, ok)
          \/ RebootReload(i)

\* The timers of a chain fire and the browser completes every request,
\* with an answer or with a network error; the user's clicks and the
\* device's messages are not assumed.  The reload is strongly fair: in
\* the code its timer fires unconditionally, and only the model's bound
\* MaxReq on the GETs in flight can disable it, for as long as the
\* replies to other reloads are outstanding.
Fairness ==
    /\ \A i \in ChainIds :
          /\ WF_vars(RebootPost(i))
          /\ WF_vars(\E ok \in BOOLEAN : RebootComplete(i, ok))
          /\ SF_vars(RebootReload(i))
    /\ WF_vars(\E st \in Statuses : CommandsReply(st))
    /\ WF_vars(\E ok \in BOOLEAN : ConfigReply(ok))

Spec == Init /\ [][Next]_vars /\ Fairness

-----------------------------------------------------------------------------
TypeOK ==
    /\ forms \subseteq Cmds /\ orec \in BOOLEAN
    /\ toast \in [Cmds -> Toasts] /\ tmplToast \in Toasts
    /\ cmdPost \in [Cmds \X BOOLEAN -> 0..MaxReq] /\ cfgPost \in 0..MaxReq
    /\ cfgMsg \in [Cmds -> 0..MaxReq]
    /\ chain \in [ChainIds -> [stage : Stages, cmd : Cmds \cup {NoCmd}]]
    /\ {cmdGet, cfgGet} \subseteq 0..MaxReq /\ nvsLoaded \in BOOLEAN

\* Every reboot request, whether the device answers it or drops the
\* connection as it goes down, ends, and ends only with the reload of the
\* forms: the complete callback of delayReboot (line 620) runs on both outcomes
\* and starts the 6000 ms wait, which ends in getCommands() and
\* getConfig(), whatever the other reboot chains and the replies of
\* earlier reloads do meanwhile.
RebootReloadsForms ==
    /\ \A i \in ChainIds : chain[i].stage = "post" ~> chain[i].stage = "idle"
    /\ [][\A i \in ChainIds :
            chain[i].stage # "idle" /\ chain'[i].stage = "idle"
               => cmdGet' = cmdGet + 1 /\ cfgGet' = cfgGet + 1]_vars

(***************************************************************************)
(* Properties the code's own tests state and the code does not keep.      *)
(***************************************************************************)

\* runCommand's success callback calls delayReboot when the reply's Result
\* is 'Success' and the button was Apply (line 1601).  The reply is read
\* through response.responseText, a property the text reply does not
\* have, so a successful Apply never reboots the device.
ApplyReboots ==
    [][\A c \in CfgCmds :
         CommandReply(c, TRUE, 200) =>
            \E i \in ChainIds : /\ chain[i].stage = "idle"
                                /\ chain'[i] = [stage |-> "delay", cmd |-> c]]_vars

=============================================================================
