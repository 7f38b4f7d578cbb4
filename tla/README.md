# TLA+ models of the wifi-manager web console

This directory holds TLA+ models of the browser side of the squeezelite-esp32
web console, `src/components/wifi-manager/webapp/src/js/custom.js`, checked with TLC.
The device side follows the development server in `webpack/webpack.dev.js` where the
model needs one.

## 1. The system

The console is a single-page jQuery application talking to the device's JSON
HTTP API. Everything runs on the browser's one event loop, so each callback
runs to completion. The concurrency comes from requests: many can be in
flight at once, and their replies come back in any order.

| Part | Code | State | Operations |
|---|---|---|---|
| Status poller | `startCheckStatusInterval`, `RepeatCheckStatusInterval`, `checkStatus` (496-506, 1453-1519) | `blockAjax`, `StatusIntervalActive`, the timer chains, the requests in flight | a tick every 3 s: when `blockAjax` is clear, `getMessages()` and GET `/status.json`; reply callbacks |
| OTA state machine | `flash_status_codes`, `process_ota_event`, `set_ota_error`, `flash_events`, `hFlash`, `progressFunction` (110-365) | `flash_state`, `flash_ota_pct`, `flash_ota_dsc`, `older_recovery`, `recovery` | START_OTA, FOUND_RECOVERY, PROCESS_OTA_STATUS, PROCESS_OTA, PROCESS_OTA_UPLOAD, SET_ERROR; POST `/recovery.json`, POST `/flash.json` (XHR), POST `/config.json` (fwurl) |
| Messages | `getMessages` (1203-1311) | none of its own | applies OTA messages in order to the OTA machine; stats, BT sink list and log |
| WiFi connection | `handleConnect`, `#wifiTable` click, dialog handlers, `refreshAP`, `refreshAPHTML2`, `hasConnectionChanged`, `handleWifiDialog`, `handleWifiStatus` (720-823, 1053-1160, 1338-1424) | `ConnectedToSSID`, `ConnectingToSSID` {ssid, Action}, the dialog section shown, the rows of `#wifiTable` | AP scan and repaint, row click, connect, dialog shown/hidden, reconciliation with each status reply |
| Reboot, commands, config | `delayReboot`, `handleReboot`, `runCommand`, `saveAutoexec1`, `getCommands`, `getConfig` (345-353, 590-700, 1521-1864) | the forms built, `.orec`, the toast of each command, `#nvsTable`; the requests in flight | run a command and show its result; save the audio template; POST reboot, then `getCommands`/`getConfig` 6 s later, whose fail callbacks clear `blockAjax` |
| Message log | `showMessage`, `showLocalMessage`, `handleExceptionResponse`, `#clear-syslog` (406-412, 801-806, 1865-1910) | `messagecount`, `messageseverity`, `prevmessage`, the BT sink options | a row from a message batch, a status message, a reboot, a failed request; clear |
| Test page | `src/js/test.js` | `sd`, `rf` | `refreshStatus` every second, `pushStatus` |
| Development device | `webpack.dev.js` 14-47, 124-357 | `data.status` (`recovery`, the `mock_*` switches, `ssid`, `urc`), the scripted queues and their post-empty callbacks | `/status.json`, `/messages.json`, `/connect.json`, `/config.json` with a fwurl, `/recovery.json`, `/flash.json`, `/reboot_ota.json`, POST `/status.json` |
| Build | `webpack.common.js`, `webpack.prod.js`, `webapp/test.js`, `index.ts` | none at run time | not modelled |

How the parts interact:

* The poller's status reply feeds three consumers, in this order:
  - `handleRecoveryMode`, which sets `recovery`;
  - `handleWifiStatus`, for the connection;
  - `PROCESS_OTA_STATUS`, for the OTA machine.
* The messages reply of the same tick feeds `PROCESS_OTA`. It is not awaited, so it races the status reply.
* The OTA machine issues its own requests, and their callbacks re-enter it (`set_ota_error`).
* `handleConnect` restarts the poller (`startCheckStatusInterval`).
* The reboot chain ends in `getCommands`/`getConfig`, whose fail callbacks clear the poller's `blockAjax`.
* The test page reads the development server's status every second and pushes its values table back, which is how a developer sets the `mock_*` switches that choose the server's scripted update.

The hard behaviours are:

* replies applied out of order, between two ticks and within one;
* a reply of an older attempt landing in a newer one;
* a status reply served before the device acted on a request;
* a flag (`blockAjax`) that guards the status poll but is also cleared by the failures of other requests;
* timer chains that are started and never stopped.

## 2. Modules

Every callback is one atomic action.

* **A request in flight** is a counter, an id set or a slot. Its reply is a separate action that any later step may take.
* **The device** is open: a reply carries any value from a small set. The exceptions are WifiConnection and TestBench, which follow the development server.
* **User actions** are unconstrained apart from the guards the page imposes. For example, the modal `#otadiv` blocks the page while it is shown.

### OtaClient (`OtaClient.tla`, `MC_OtaClient.tla`)

The OTA state machine together with the status and messages replies that drive it.

* **Variables:** `flash_state`, `flash_ota_pct`, `older_recovery`, `recovery` and `blockAjax` are the code's variables. `dialog` stands for `#otadiv` shown. `file`, `url` and `startFlash` stand for the file input, the URL input and the `#start-flash` button. `recoveryReq` and `cfgPostReq` count the POSTs in flight, and `upload[u]` is each `/flash.json` XHR. `relReq` counts the GETs of the release list (`#chkUpdates`). `releases` is the set of row kinds `#rTable` holds: TRUE for a row whose `fwurl` is a `.bin` asset URL, FALSE for a release without one (`fwurl=''`).
* **`handleRecoveryMode`:** the first handler of a status reply; it sets `recovery` from `data.recovery` (the rest of it toggles page sections).
* **Handlers:** they call each other, so they are operators from a record of the OTA variables to a new record:
  - `process_ota_event`, `set_ota_error`, `PROCESS_OTA`, `PROCESS_OTA_STATUS`, `FOUND_RECOVERY` and `START_OTA` follow the code branch for branch;
  - a handler that issues a request also returns which one (`Issue`).
* **Actions:**
  - the poller: `StatusTick`, `StatusOk(d)`, `StatusFail`, `MessagesOk(batch)` and `MessagesFail`. `MessagesOk(batch)` folds `PROCESS_OTA` over the batch with `FoldLeft`;
  - the user: `FwUploadClick`, `HFlash`, `ChooseFile`, `EditUrl`, `Dismiss`, `ChkUpdates` and `ReleaseClick(bin)` (a release row: its `fwurl`, empty when `bin` is FALSE, set with `.val()` and `#start-flash` shown without the `input` handler's test);
  - `ReleasesReply`, the release list's reply;
  - the replies: `RecoveryReply`, `UploadProgress`, `UploadDone`, `UploadFailed` and `ConfigPostReply`. `UploadDone` is `readyState` 4 with a status other than 0 and 404, which does nothing; it may come before any progress event (the development server answers `/flash.json` without reading the body, and an empty file has no progress), so the client can stay in UPLOADING with no transfer. Status polls and OTA messages move it on from there.
* **Left out:** `flash_ota_dsc` is only displayed. The description the device sends is kept in the data, because `isFlashExecuting` tests it.
* **`ota_pct`:** an absent value becomes -1, as the `?? -1` defaults do.

### StatusPoller (`StatusPoller.tla`, `MC_StatusPoller.tla`)

The scheduling of the poll, without the content of its replies.

* **Variables:** `timers` counts the `setTimeout(checkStatus)` chains. `blockAjax`. `statusPending` and `msgPending` are the ticks whose requests are unanswered, each tick named by an id. `cmdReq` and `cfgReq` are the GETs of commands and config in flight. `refetch` counts the `delayReboot` chains waiting 6 s.
* **Actions:**
  - `Tick` is `checkStatus`;
  - `StatusReply`, `MessagesReply`, `CommandsReply` and `ConfigReply` are the replies;
  - `RebootClick` and `RebootRefetch` are `delayReboot` and its completion;
  - `HandleConnect` is the restart the connect handler makes.

### WifiConnection (`WifiConnection.tla`, `MC_WifiConnection.tla`)

The connection dialog against a device that behaves like the development server.

* **The device:**
  - it processes a POST `/connect.json` one second later (`DeviceConnect`). It then joins the network, or fails and keeps its previous ssid, with urc FAILED_ATTEMPT_AND_RESTORE or FAILED_ATTEMPT;
  - which attempts fail is a choice: the mock decides by the word 'fail' in the name, a real device by the password;
  - a status request is served (`StatusServe` reads the device) and delivered later (`StatusDeliver`), so the reply may be stale.
* **The client:**
  - `ClickRow` and `ClickManual` are the `#wifiTable` click followed by `shown.bs.modal`;
  - `HandleConnect` is `handleConnect`, from the `connecting-init` section that holds the form;
  - `HideDialog` is `hidden.bs.modal`;
  - `StatusDeliver` is `handleWifiStatus`, with `hasConnectionChanged` and `handleWifiDialog`.
* **Disconnect:** `HandleDisconnect` is `handleDisconnect`, a DELETE `/connect.json` whose reply no callback reads; `DeviceDisconnect` is the development server's DELETE route, which clears the ssid and leaves the urc.
* **The AP table:** `rows` are the networks with a row in `#wifiTable`, `manualRow` the 'Manual add' row. `RefreshAP` is `refreshAP` (the 1500 ms first scan or a click on `#updateAP`): GET `/scan.json`, with no test of a scan in flight. `ScanReply` is its callback, which sleeps 2 s and GETs `/ap.json`; `ApReply(list)` paints a non-empty list with `refreshAPHTML2`. A status change repaints too (`refreshAPHTML2()` from `handleWifiStatus`, without a list). Either repaint prepends the connected network when no row has it. A row click needs the row (`s \in rows`), 'Manual add' needs its row. The table is empty before the first repaint: its markup is not in the repository.
* **Left out:** only ssid and urc of a status are kept; gw, netmask, ip and rssi are only compared and displayed. The rssi sort, the icons and the footer are display only.

### MessageLog (`MessageLog.tla`, `MC_MessageLog.tla`)

The log table and its `#msgcnt` badge.

* **Variables:** `messagecount`, `messageseverity` and `prevmessage` are the code's globals; `btSinks` stands for the options of the BT sink select, which `btExists` reads. `shown` (the types of the rows since the last clear) and `failed` (a request failed with a status other than 404 since the last clear) are history variables.
* **Operators:** `showMessage` is the escalation and the count; `handleExceptionResponse` adds an ERROR row unless `thrownError` is empty; `ProcessEntry` is one message of a batch, folded over the batch with `FoldLeft`.
* **Actions:** `MessagesOk(batch)`, `StatusMessage(m)` (the status message of older recoveries, deduplicated by `prevmessage`), `RebootWarning` (`delayReboot` without a command), `RequestFailed(site, status)` and `ClearSyslog`.
* **`thrownError`:** jQuery hands the failure callbacks the status text of the response. It is empty when the request never reached the device (status 0) and non-empty for an HTTP error; the model keeps exactly that distinction.

### MessageBadge (`MessageBadge.tla`)

The abstract specification of the badge: what `#msgcnt` promises, without the escalation steps of `showMessage`.

* **Variables:** `count` (rows since the last clear), `rows` (their types) and `badge`.
* **Actions:** `Show(S)`, one callback adding rows of the types `S` (at least one row each), after which the badge is `Worst(rows)`; `Clear`.
* **Refinement:** `MessageLog` defines `Badge == INSTANCE MessageBadge WITH count <- messagecount, rows <- shown, badge <- messageseverity`, the history variable `shown` standing for the abstract `rows`, and checks `BadgeRefinement == Badge!Spec` as a temporal property.

### TestStatusPage (`TestStatusPage.tla`)

The development page `src/js/test.js`.

* **Variables:** `sd` (a definition is loaded), `rf`, and the GETs of the status and of the definition, and the POSTs of `pushStatus`, in flight.
* **Actions:** `refreshStatus` (the 1 s interval), `StatusReply`, `DefinitionReply`, `PushStatus` and `PushReply` (the development server's POST `/status.json`).
* **Known stall:** the `.fail` of GET `/status.json` is empty and only `.done` clears `rf`, so one failed read stops the refresh for good (test.js:84). `StatusReply(FALSE)` keeps `rf`; TestBench shows when the development server makes every read fail.

### MockServer (`MockServer.tla`)

The development server's scripted firmware update (`webpack.dev.js`). Each Express handler runs to completion and is one action; a handler that throws answers 500 with the changes made before the throw.

* **Variables:** `recovery`, the `mock_*` switches (`flags`: absent, '' or set), the lengths of `message_queue_sequence` and `status_queue_sequence` (`msgSeq`, `statusSeq`), and whether each post-empty callback is armed.
* **Actions:** `GetStatus(ok)`, `GetMessages`, `PostConfigFwurl`, `PostFlash(ok)`, `PostRecovery(ok)`, `PostRebootOta`, `PostStatus(f, v, r)`. `consumeMessage` is the shift-or-callback both GET routes share.
* **The old-recovery path:** when `mock_old_recovery` is set, a fwurl queues its list on `status_queue_sequence`. GET `/status.json` reads it as `status_queue_sequence_queue_sequence` and calls `status_queue_sequence_post_emptyy`, both undefined (line 141, 147), so it throws before any change (`statusFails`).
* **Abstracted:** messages are counted, since the scripted files `mock/*.json` are not in the repository. Whether `JSON.parse` of a queued item succeeds depends on those files and is a constant (`ItemsParse`); the runs take FALSE, the items being message objects as `/messages.json` serves them. `requeueMessages` refills `data.messagequeue`, which only the reply of `/messages.json` shows.

### TestBench (`TestBench.tla`, `MC_TestBench.tla`)

The test page composed with the development server: `Page == INSTANCE TestStatusPage` and `Dev == INSTANCE MockServer`, sharing nothing but the requests between them.

* A page read is sent (`PageTick`, the page's `refreshStatus`), handled by the server (`ServeStatus`, which fixes the outcome and the recovery it reports, or loses the reply) and delivered (`DeliverStatus`).
* `PagePush(f, v)` is `pushStatus` after an edit of switch `f`. The push carries the table: the switch and the recovery the page last showed, which may be stale. `ServePush` applies it in any order of the pushes in flight.
* `Console` is every other client, the console of `custom.js` driving an update: status and messages polls, the fwurl save, `/recovery.json`, `/flash.json`, `/reboot_ota.json`.

### CommandForms (`CommandForms.tla`, `MC_CommandForms.tla`)

The command and configuration forms and the `delayReboot` chain.

* **Variables:**
  - `forms` are the commands whose fieldset exists, and `orec` is `.orec` shown;
  - `toast[c]` is `#toast_<c>`: hidden, or shown in the colour of a message type; `tmplToast` is the audio template's toast;
  - `cmdPost`, `cfgPost`, `cmdGet` and `cfgGet` count the requests in flight;
  - `cfgMsg[c]` counts the CFGCMD messages the device queued for `c` and `getMessages` has not yet delivered;
  - `chain[i]` is one `delayReboot` chain: its stage (`delay`, `post`, `settle`) and its cmdname;
  - `nvsLoaded` is `#nvsTable` filled.
* **Actions:**
  - `RunCommand(c, reboot)` is `runCommand`: Execute, Save or Apply;
  - `CommandReply(c, reboot, status)` is its reply: a CFGCMD message queued on success, the error in the toast on a 404;
  - `CmdMessage(c, type)` is the CFGCMD case of `getMessages`;
  - `SaveAutoexec` and `SaveAutoexecReply` are `saveAutoexec1` and its complete callback;
  - `CommandsReply(status)` and `ConfigReply(ok)` are the replies to `getCommands` and `getConfig`;
  - `HandleReboot`, `RebootPost`, `RebootComplete(i, ok)` and `RebootReload` are `handleReboot` and the three callbacks of `delayReboot`.
* **`showCmdMessage`:** on a command with no fieldset it throws (`html()` is undefined), so it changes nothing.
* **Replies read as text:** both Apply paths test a property of the reply that a text reply does not have (`responseTextOf`). The reboot branches of `runCommand` and `saveAutoexec1` are kept in the model, and they are never taken.

## 3. Runs

| Run | cfg | Expect | What it shows |
|---|---|---|---|
| ota_safety | OtaClient.cfg | pass | `DoneOnlyViaOlderRecovery`: DONE is reached only through the older-recovery branch, because `isFlashExecuting` is tested first (line 152) and shadows the 100% branch; spec 4.2 and 8 say 100% while FLASHING completes the update. |
| ota_config_save_error | OtaClient_ConfigSaveFailureIsError.cfg | violation | The error callback of the fwurl POST (line 138) only logs, so a failed save in SET_FWURL leaves the client in SET_FWURL with no error and no flash; spec 7 says a config-save failure during an update goes to ERROR. |
| ota_error_sticky | OtaClient_ErrorLeftOnlyByUser.cfg | violation | A progress event of the running upload takes the client out of ERROR (line 287). |
| ota_start_without_source | OtaClient_RecoveryHasFirmwareSource.cfg | violation | `#start-flash` is shown while the URL input is empty, so clicking it reboots the device to recovery with no file and no URL. Two paths lead there. A click on a release without a `.bin` asset (line 957) is TLC's shortest trace. The other is DONE → NONE emptying the input with `.val('')`, which fires no `input` event (line 302). |
| poller_single_flight | StatusPoller_TickSingleFlight.cfg | violation | `TickSingleFlight`: at most one GET `/status.json` in flight (spec 4.1). The fail callbacks of `getCommands` (line 1780) and `getConfig` (line 1862) clear `blockAjax`, which guards the poll, not them: the trace is a tick, a failed GET `/commands.json` (the one issued at page load), and a second tick. |
| wifi_dialog | WifiConnection.cfg | pass | connecting-success is shown only while the client's snapshot is the attempted network, connected, even when an earlier attempt lands later. `ConnectedRowShown`: the connected network always has a row in `#wifiTable`, whichever of two scans or a status change repainted last. |
| wifi_failed_attempt | WifiConnection_FailedAttemptReported.cfg | violation | A FAILED_ATTEMPT from a device with no previous network is never shown (line 1389). |
| log_badge | MessageLog.cfg | pass | The log refines MessageBadge: whatever mix of batches, status messages, reboot warnings, failed requests and clears, every step that adds rows leaves the badge at the worst type since the last clear, and a clear resets it. |
| log_transport_error | MessageLog_TransportErrorLogged.cfg | violation | A request that fails with a network error (status 0) leaves no ERROR row, because `thrownError` is empty (line 409); spec 7 says every transport error is logged as ERROR. |
| testbench | TestBench.cfg | pass | `PageStopsAfterOldRecoveryUpdate`: once an update is queued on the old-recovery path, every status read fails (webpack.dev.js:141) and, as only `.done` clears `rf` (test.js:84), the page stops refreshing for good. |
| commands_reboot | CommandForms.cfg | pass | `RebootReloadsForms`: every reboot POST, answered or dropped by the rebooting device, ends, and ends only with the wait's reload of the commands and the config (`getCommands` and `getConfig` issued), because the reload hangs on `complete` (line 619), not on `success`. It holds while the other chain and the replies of earlier reloads interleave. |
| commands_apply | CommandForms_ApplyReboots.cfg | violation | A successful Apply never reboots: `runCommand`'s success callback gets the reply as a string and tests its `responseText`, which is undefined (line 1601). |

Every property of a passing run has a mutant in `PROJECT.json`. A mutant is a plausible bug in the mapped definition that TLC finds. Examples:

* the completion branch ordered first;
* a reload hung on `success` instead of `complete`;
* a misspelt message type;
* a dialog that keeps its section once the attempt is over;
* a misspelled code key that evaluates to undefined, the mistake line 119 makes.

### Bounds

* **OtaClient:**
  - `DevicePct = {-1, 0, 100}`: absent, zero, and complete. These are the values the branches of `process_ota_event` and `ShowIfActive` tell apart. A positive percent makes `isFlashExecuting` true just as 100 does.
  - `UploadPct = {50, 100}`: an intermediate event and the final one.
  - Two upload slots: an upload left running can coexist with a new one.
  - `MaxInFlight = 2`: two status or recovery requests can overlap.
  - `MaxBatch = 1`: a batch of two reaches no state that two batches of one do not, because the status reply may come in between or not.
  - `MaxRelReq = 1`: one release-list GET in flight. A second one, issued by clicking `#chkUpdates` again, only appends its rows after the first reply's; the kinds of rows in the table are the same.
* **StatusPoller:** two tick ids (the least for two status requests at once), two timer chains, and two commands, config or reboot requests.
* **StatusPoller, `BtStatus`:** `{0, 5}` (known states). With 7, the first status `btStateIcons` has no entry for, `handlebtstate` throws and leaves `blockAjax` set for good. The firmware's range of `bt_status` is not in the repository, so no run uses 7, and no run claims the poll never stalls.
* **CommandForms:** a config command and a plain one (Apply exists only for the first, and only the second loses its form when `#commands-list` is emptied), two reboot chains, and one request of each kind in flight.
* **WifiConnection:** two networks and two unprocessed connect requests. These are the least needed for an earlier attempt to land while a later one is shown. Two scan chains (`MaxScan = 2`) let two `/ap.json` replies paint in either order.
* **MessageLog:** two BT sink names (a new and an already-listed sink), two status messages (a change and a repeat), at most 3 rows between clears and batches of up to 2 messages: enough for every escalation (INFO → WARNING → ERROR and INFO → ERROR) and for a batch mixing a SYSTEM and a BT row.
* **TestBench:** two page requests of a kind in flight (the unguarded definition GETs pile up), one push in flight, scripted lists of one message and queues of at most two, so a second fwurl or flash can queue behind the first. All 27 combinations of the three switches, each absent, '' or set, start the server.

### Fairness

CommandForms and TestBench have liveness properties. StatusPoller's specification states the same fairness (the timer tick, which always has a chain that re-arms itself, and every reply, answered at the latest by the browser's network error; not the user's clicks), though its run checks only safety.

* **CommandForms:** the two timers of each `delayReboot` chain (`RebootPost`, `RebootReload`) and the completion of every request (`RebootComplete`, `CommandsReply`, `ConfigReply`) are fair, one conjunct per chain. `RebootReload` is strongly fair: the code's timer fires unconditionally, and only the model's bound `MaxReq` on GETs in flight disables it while the replies of another chain's reload are outstanding, so weak fairness would let that bound starve it. User clicks and the device's messages are not.

* **TestBench:** the page's `setInterval` tick is fair. Nothing else is: the property holds even if no reply ever comes.

OtaClient and WifiConnection check safety only and assume no fairness.

## 4. Not modelled

* DOM rendering: the fields of the forms, tables, the rows of the release list and its filters, the order of the BT sink list and the task table. `#fwcheck` and `setURL` fill `#fwurl`, an input no code reads.
* The contents of the development server's message queue and config, and its reply-only routes (`/ap.json`, `/scan.json`, GET `/config.json` and `/commands.json`, the plugin proxy check, `/reboot.json`). A push that adds a property the status lacks stores `{value: ...}` (line 284); the page never pushes such a property, so it is left out.
* The build configuration.
* `#save-nvs`, which posts the table with a log-only error callback (as `post_config` in OtaClient). Also `#save-as-nvs` and `#load-nvs`, which download the table or read a file into the inputs, and the show-commands/show-nvs toggles.
* Exceptions other than `handlebtstate`'s and `showCmdMessage`'s: JSON.parse of a malformed OTA message, `handleRecoveryMode` without `#show-nvs`.
* Some divergences met while modelling are left as hazards with a note rather than runs: FOUND_RECOVERY firing on a status that does not report recovery (line 295, spec 4.2), the status reply of a tick applied before its messages (line 1459, spec 4.1), `handleConnect` adding a second timer chain (line 743, spec 4.1), a stale status shown as the outcome of a new connection attempt (line 1381, spec 5), `runCommand`'s error toast aimed at the command name less its last character (line 1589), and `handlebtstate` throwing on an unknown `bt_status` (line 370, spec 7).

## 5. Plan

Next steps:

1. **OtaSpec:** an abstract OTA specification from spec section 4.2: NONE → REBOOT_TO_RECOVERY → (UPLOADING | SET_FWURL) → FLASHING → DONE, with ERROR sticky. OtaClient is checked against it through `INSTANCE OtaSpec WITH` a refinement mapping. The divergences above show up as refinement violations, and the refinement holds for the rest.
2. **Further OtaClient properties:**
   - ERROR keeps its report: `process_ota_event` overwrites the percent before its ERROR return;
   - at most one upload at a time: after a dismissal, a restart starts a second one;
   - a late recovery-POST error kills a newer attempt.
3. **Console:** a module composing OtaClient, StatusPoller and WifiConnection over one shared poll. It carries liveness of the OTA flow under fair replies, e.g. REBOOT_TO_RECOVERY leads to a terminal state.
4. **OtaSystem:** OtaClient composed with MockServer instead of its open device, with liveness of the update on the new-recovery path under fair replies (the old-recovery path never ends, as TestBench shows).
