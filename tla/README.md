# hms-tuya in TLA+

hms-tuya is a C++ service that bridges Tuya Wi-Fi bulbs and switches to MQTT and
Home Assistant, with an HTTP API and an Angular front end. This directory holds TLA+
models of it, the TLC runs that check them on small instances, and theorems about
them proved with TLAPS for every value of the constants.

File and line references are to the repository (`src/bridge/DeviceWorker.cpp` is the
worker, `include/` its headers, `frontend/src/app` the web application; `device-form`
stands for `components/device-form/device-form.component.ts` there, and so on).

## The system

```
 browser: device-list, device-form, cloud-discover, settings, log-viewer
        |  HTTP calls, in flight together          (Angular, over ApiService)
        v
 HTTP threads (ApiController)      MQTT client thread (MqttBridge callbacks)
        |  edits, commands                 |  commands, (re)connection
        v                                  v
  ConfigManager  <---- BridgeManager  (one mutex, the map of workers) ----> MqttBridge
                             |  enqueueCommand, stop           ^
                             v                                 | publishState, publishPower
                      DeviceWorker, one thread per device -----+
                             |
                             v
                   nanotuya: the device, over TCP
```

| Component | State | Operations | What makes it correct |
|---|---|---|---|
| `DeviceWorker` | command queue, last state, deadlines of poll and heartbeat, backoff, connection | `start`, `stop`, `enqueueCommand`; the loops `runBurst` and `runPersistent`; drain, execute, retry, poll, heartbeat, publish | every command is settled once and in order; a verdict in the log is true; what is announced is what is attempted; the retained topic follows the device; `stop()` returns |
| brightness conversion | none | `brightnessPct`, `pctToBrightness` | a percentage survives the way to the device and back |
| `BridgeManager` | the map of workers, one mutex | `start`, `stop`, `reloadDevices`, `onMqttCommand`, `sendCommand`, status | after any edits and reloads the workers are those of the list; reloads end; one worker per device |
| `MqttBridge` | subscribed devices, callback, one mutex; at the broker: subscriptions, retained topics, will | `connect`, `disconnect`, publish*, `subscribeCommands`; callbacks `connected`, `message_arrived` | connected means subscribed and shown online |
| `ConfigManager` | the list of devices, `devices.json` | `load`, `getDevices`, add, update, remove, atomic save | names unique; memory and disk agree; a crash leaves a whole file |
| `LogBuffer` | the last 500 entries | `info`, `warning`, `error`, `getRecent`, `clear` | the entries kept are the latest ones, in order |
| `ApiController` | none of its own | edits followed by a reload, commands, status, logs, cloud discovery and import | its answer says what happened; keys never leave, nor come back masked |
| front end: `DeviceListComponent`, `DeviceFormComponent`, `CloudDiscoverComponent` | the table; the form and the dialog above it, created and destroyed; a timer | load, toggle, add, edit, delete, discover, import | an answer reaches what made the call and nothing else; the buttons tell the truth; the table ends up right |
| front end: `SettingsComponent`, router | fields; which component is on the page | load, edit, save, navigate | what was typed is not overwritten |
| front end: `LogViewerComponent` | the entries shown; a timer | load, clear, filter | what is shown is a stretch of the log without gaps, and becomes the latest |
| `main` | `g_running`, condition variable | start-up, signal handler, shutdown | a signal leads to an orderly stop and an "offline" status |

Behaviours that are hard: a worker's thread is never alone (callers queue commands and
stop it, the device changes by itself, the broker comes and goes); a write may be
applied although its answer is lost, and is then retried; several server threads
reload at once; two mutexes are held across calls between `BridgeManager` and
`MqttBridge`; a clean session forgets its subscriptions; the process may be killed
while it replaces `devices.json`; in the browser calls overlap, are answered in any
order, late for what has been closed or replaced since, or not at all. `PROJECT.json` lists every such hazard at its line,
with the property that covers it or the reason why none does yet.

## Modules

| Module | What it is |
|---|---|
| `Brightness` | the two conversions, in integers |
| `CommandLedger` | abstract: commands accepted, and settled once each, in order |
| `DeviceWorker` | one worker's thread with its callers, its device and the broker; implements `CommandLedger` |
| `MCDeviceWorker` | constants of `DeviceWorker` for TLC |
| `Bridge` | `BridgeManager`, `MqttBridge` and the editing requests around the workers |
| `MCBridge` | constants of `Bridge` for TLC |
| `DeviceLists` | the lists of devices, and what adding, removing and reading back make of them |
| `DurableList` | abstract: a list on disk replaced in one step, and read back after a crash |
| `DeviceStore` | `ConfigManager` and `devices.json`, with failures and crashes; implements `DurableList` |
| `MCDeviceStore` | constants of `DeviceStore` for TLC |
| `WebApi` | the calls of the web application in flight, and the handlers of `ApiController` that serve them |
| `WebApp` | the pages of devices and settings with all their components, over `WebApi` |
| `MCWebApp` | constants of `WebApp` for TLC |
| `LogView` | `LogBuffer` with the threads that write to it, and `LogViewerComponent` |
| `MCLogView` | constants of `LogView` for TLC |
| `BrightnessProofs`, `DeviceWorkerProofs`, `BridgeProofs`, `DeviceStoreProofs`, `LogViewProofs`, `WebAppProofs` | theorems and proofs |

Operators whose comment begins with "Fault:" are plausible bugs, one beside the
definition each would replace. They are no part of a specification; replacing the
definition by its fault makes the property named in `PROJECT.json` ("mutants") fail.

### DeviceWorker

`pc` is the thread's place in the loop. `runBurst` and `runPersistent` have the same
shape, so one set of actions serves both; `config`, chosen in `Init`, says which mode
and which type of device. The actions in the order of a pass of the loop:

| Action | Code |
|---|---|
| `LoopExit`, `Connect`, `LoopPass` | the head of `runBurst` (131) and `runPersistent` (167-191) |
| `Drain`, `DropStale`, `StartCommand`, `BatchDone` | `drainCommands` (281-303), `drainCommandsPersistent` (339-361), `publishOptimistic` (615) |
| `Attempt`, `ReconnectFails`, `GiveUp`, `Retry` | the retry loop (306-331, 364-399) |
| `SetPower`, `SetLevel`, `Readback` | `executeCommand` (407), `executeCommandPersistent` (475), `publishState` (540) |
| `Poll`, `Beat` | `poll`, `pollPersistent`, heartbeat (136-154, 197-217) |
| `Enqueue`, `Stop`, `Join` | `enqueueCommand` (93), `stop` (79-91) |
| `MqttChange`, `DeviceChange` | external: the broker, the device |

Every operation on the device may fail, and a failed write may have been applied.
`Enqueue` and `Stop` may happen between any two steps of the thread. `announced`, `tried`
and `outcomes` are history variables: the power last promised by an optimistic payload,
the attempts really made of the command being executed, and how each command ended, with
the attempts made (`made`) and those its line in the log tells of (`logged`).

Abstractions. Time is left out: a command may be found too old, a poll or a heartbeat
due, whenever the passage of time could have made it so, and a sleep is a step not yet
taken. What depends on durations (how long a command waited, how long `stop()` takes,
the backoff) is therefore not in this module. A heartbeat interval and a poll interval
are positive. Of the data points power and brightness are kept; mode and colour
temperature are written and swallowed exactly as brightness is. The `power` topic,
always published after the `state` topic, is left out. A command is well formed.

### Bridge

| Action | Code |
|---|---|
| `AddDevice`, `UpdateDevice`, `DeleteDevice`, `ImportDevice`, `ImportEnds` | the handlers of `ApiController` with the edit of `ConfigManager` they make |
| `Halt` | the first half of `reloadDevices` (206-213) |
| `Begin`, `Subscribe`, `Create`, `Install`, `Finish` | `start` (35-88), `subscribeCommands` |
| `Arrive`, `Route` | `message_arrived` with `MqttBridge`'s mutex, `onMqttCommand` with `BridgeManager`'s |
| `Announce`, `Resubscribe` | `connected` |
| `LoseConnection`, `Reconnect` | external: broker and client library (clean session, will, automatic reconnection) |

Threads are the server's (`Requests`), the main thread, which runs the first `start()`,
and the client's callback thread, which runs one callback at a time. `managerLock` and
`mqttLock` are the two mutexes. A section under one mutex that takes no other one is
one action. A worker is the kind of device it was created for, which stands for its
entry: an edit that changes the kind stands for any edit. `plan`, `todo` and `fresh`
are local to `start()`, which runs under `BridgeManager`'s mutex.

Abstractions. Every edit succeeds; one that is refused changes nothing and reloads
nothing. A rename to a name already taken, which `updateDevice` does not refuse, is left
out here (names are unique by construction; `DeviceStore` has it). Publishing and subscribing take effect when
the broker is there. Commands waiting in a worker's queue, which a reload throws away,
are not modelled, nor is `sendCommand`, which only reaches that queue. `stop()` and
`disconnect()` are planned.

### DeviceStore

| Action | Code |
|---|---|
| `AddDevice`, `UpdateDevice`, `RemoveDevice` | the three edits of `ConfigManager` (81-122) |
| `Open`, `Write`, `Rename` | `saveDevices`, step by step (193-220), each of which may fail |
| `Crash` | external: the process ends, between any two steps |
| `Load` | `loadDevices` (124-165), which may fail to read the file |

An edit holds the mutex until its save is over, so `pc` is one program counter and not
one per server thread. A list is a function from ranks to entries: the order of the
vector is kept (`UpdateDevice` replaces the first entry of a name), and removing entries
needs no renumbering. `careless` remembers that `updateDevice`, which checks nothing,
gave an entry no name, no id or a name already taken; `lost` that a save or a load
failed and that neither worked since.

Abstractions. Of an entry the name and the id are kept, since they decide what is
refused and what is read back. The first list is empty. A crash ends the process; the
file system keeps what was written (there is no `fsync`, and a loss of power between
the rename and the flush is not modelled).

### WebApi and WebApp

`WebApi` holds what is outside the browser's page: the server's list, the user's calls
in flight by number (`requests`) and the loads of the list in flight (`polls`). Calls
are served and answered in any order, and the network may lose one, before or after it
took effect. `WebApp` extends it with the page.

| Action | Code |
|---|---|
| `AddDevice`, `UpdateDevice`, `DeleteDevice`, `SendCommand`, `CloudDiscover`, `CloudImport`, `GetSettings`, `UpdateSettings`, `ServePoll` | the handlers of `ApiController`, with the edit they make and what they answer |
| `Tick`, `ReceivePoll`, `TogglePower`, `ReceiveCommand` | `device-list`: the timer (120), `loadDevices` (127), `togglePower` (164) and its answer |
| `OpenAdd`, `OpenEdit`, `CloseForm`, `OpenCloud`, `CloseCloud` | `device-list` (16, 134-147, 79-84), Cancel and the overlays |
| `TypeForm`, `Save`, `ConfirmDelete`, `ReceiveForm` | `device-form`: the fields, `save` (173), `confirmDelete` (206), `onFormSaved` and `onFormDeleted` of the list |
| `TypeCreds`, `Discover`, `Select`, `Back`, `ImportSelected`, `ReceiveCloud`, `ImportTimer` | `cloud-discover`: `discover` (172), the boxes, `importSelected` (195), the timer after a success (208) |
| `EditSettings`, `SaveSettings`, `ReceiveSettings` | `settings`: `ngOnInit` (212), `save` (244) |
| `ToSettings`, `ToDevices` | the links of `nav-bar`, the routes, the browser's Back |
| `ReceiveNothing` | an answer for a component that was destroyed |

A call carries the component that waits for it. Closing a component does not cancel
the call (`Unheard`): the server serves it, and its answer finds nobody, since Angular
drops the outputs of a destroyed component. A reload of the table replaces its rows, so
a command sent from an old row has nothing to update (`Destroy({"table"})`): the closure
of `togglePower` holds the old row's object. `own` is a history variable: the calls made
by what each component of the screen is now.

Abstractions. Of a device's entry the local key is kept, as whole, masked or missing,
and of a row its presence and its power; every device is enabled. The form asks for
other fields, which are filled or not. Names are those the form's pattern accepts. The
texts of errors and successes are left out. The overlay of the form and of the dialog
covers the page, so at most one of them is open and nothing behind it is clicked;
reaching behind it with the keyboard is left out. The application is opened at
`/devices`. Cloud discovery is external: any devices, or an error. A form opened to add
has no `id`, and one opened to edit has that of its row: the fields write `device_id`.

Some things the model shows are not what a user might want, though nothing written
promises otherwise: the list never says whether a device is on, so after each load the
switch sends "on" first (`device-list` 165); the timer after an import closes the dialog
even if a new discovery is running in it (`cloud-discover` 208); settings that could not
be loaded show the component's defaults (`settings` 238).

### LogView

| Action | Code |
|---|---|
| `Stamp`, `Store` | `add`, up to the mutex (24-33) and under it (35-39) |
| `GetRecent`, `ServeLogs` | `getRecent` (42-61), called by `ApiController::getLogs` |
| `LoadLogs`, `ReceiveLogs`, `LoseLogs` | `loadLogs` of `log-viewer` (134-143), from `ngOnInit` and the timer |
| `ClearLogs` | `clearLogs` (151) |
| `TimePasses` | external: the moments at which the clock may be read |

`log` is a history variable: every entry ever stored. The threads that write are those
of the server, and main once (`ApiController.cpp` 159-446, `main.cpp` 85; the workers
print to the standard output only): any of them may write about any device, or about
"bridge", so the device is chosen when the entry is stored. What the clock shows is left
out: it is the system's, in local time, and may be set back, so an entry keeps the moment
at which its thread read it. Two times of one thread are in order if the clock was not set
back between them.
The choice in the viewer's menu, a filter on what is shown, is left out. `clear()` of `LogBuffer`, which nothing
calls, is left out, and so are counts of zero or less, which `getRecent` takes for "all".

## Runs

All passing runs finish within four minutes with two workers. `CHECK_DEADLOCK` is
off because the bounded behaviours end: workers stop, requests and commands run out.

| Run | Instance | Shows |
|---|---|---|
| `worker_commands` | 2 commands of 5 kinds, 2 attempts, every mode and type | `LedgerKept`: settled once, in order. `VerdictEarned`: the attempts the log tells of are those made, but for what `failed_attempts` shows. `PromiseKept`: a retry never turns a toggle round. `OkMeansApplied`: the device has the power of the last OK, whatever was dropped or only dimmed since. `LevelReadsBack`: a brightness acknowledged is the percentage read back. `LinkDiscipline`. `PassesEnd`: every step of a pass of the loop brings its end nearer, and after `stop()` none begins |
| `worker_liveness` | 1 command of 2 kinds, 2 attempts, 1 change at the device, 1 loss of the broker | `TopicFollows`: the retained topic leaves the last state only for an announcement or an absent broker. `StopReturns`, with nothing assumed of the device; `CommandsSettled` and `StateLearned` if it answers now and then |
| `bridge_reload` | 2 devices, 2 server threads, 2 edits, 1 command, 1 loss | `Converged`, `NoStaleWorker`: the workers end up as the list says, and none outlives its entry. `Subscribed`, `Available`. `DiscoveryUnlessLost`: what `discovery_complete` shows missing is missing for no other reason. `NoOtherDeadlock`: what `bridge_deadlock` shows is the only way threads block each other |
| `bridge_returns` | 1 device, 2 threads, 3 edits, 1 loss, no command | `ReloadReturns` |
| `store` | 2 names, 1 id, 4 edits, 2 failures, any number of crashes | `WrittenAtomically` (implements `DurableList`): a whole list on disk at every moment. `NamesDistinct`: only an update breaks the names. `RestartLosesNothing`: between two edits a restart gives back the list in memory, and a save that works makes up for those that failed |
| `web_app` | 1 name, 2 calls of the user, 2 loads in flight, 1 call lost | `KeysReal`: the mask never comes back. `BusyHonest`: a button is busy just while one call of its own is in flight. `AnswersReachTheirOwn`: an answer changes only what made the call, and brings back no row that is gone. `NothingOverwritten`: no late answer replaces results being chosen from or settings typed. `TableCatchesUp`: a table left on the screen ends up listing the server's devices, and `BusyEnds`: no button stays busy, both if the server answers |
| `web_logs` | 2 threads, 1 device, a buffer of 3, 2 entries asked for, 2 loads, 4 entries, 2 moments | `BufferIsLast`, `ShownWindow`: what is shown is a stretch of the log, nothing missing or twice. `ThreadInOrder`: entries of two threads may be out of the order in which the clock was read for them, even of one device, those of one thread never. `LogsShown`: the viewer ends up with the latest |
| `polled_state` | 1 command | violated: after a command that failed, polls do not correct the topic (552) |
| `failed_attempts` | 1 command, 2 attempts | violated: a persistent worker that cannot open its link again gives a command up (369) and logs that it failed after all its attempts (396-398), against `CHANGELOG.md` 14 |
| `bridge_deadlock` | 1 device, 1 edit, 1 command | violated: reload and command wait for each other |
| `discovery_complete` | 1 device, 1 edit, 1 loss | violated: discovery is not published after a reconnection |
| `add_device` | 1 name, 1 call | violated: a form that passes all its checks is refused, for it posts `device_id` where the server reads `id` (`device-form` 152, `ApiController.cpp` 134) |

One more disagreement met on the way is described here and not run: of two overlapping
reloads one may start a worker while the other's is still running (`BridgeManager.cpp` 80
and 213, against `CHANGELOG.md` 12), as `Create` and `Install` have it; `Converged` shows
that it does not last.

Why the bounds are enough. Two attempts make a retry. Two commands make an order, a queue
that fills while a batch is executed, and an OK followed by another command; the five
kinds of `FewCommands` reach every branch of the announcement and of the execution, and
the one level they ask for, 7 %, is one that truncating either conversion would lose. In
`worker_liveness` the two kinds of `TwoCommands` are a payload that says what it wants and
one that depends on the last state; one change and one loss can fall between any two
steps, and a second one repeats the first from a state the first already reaches. In `Bridge` two edits by
two threads make every overlap of two reloads, two devices let one be changed while the
other is reloaded, and a third edit in `bridge_returns` keeps a mutex contended. The
four edits of `DeviceStore` add two devices, make their names
collide and remove both at once; two failures put a failed save before a failed load. The
proofs below remove the bounds for the safety properties. In `WebApp` two calls are
one that is late for the component that takes the other's place, or that overtakes it;
two loads overlap and arrive in either order, with an edit between them; the one call
lost may be any of them. Names do not interact: each has its row and its entry, and one
name makes every collision. `LogView` writes one entry more than the buffer holds, which
holds one more than the viewer asks for, and two threads make every order of two times; what an entry is about decides nothing but the
menu, so one device does. `MCBridge` uses the symmetry
of devices and of server threads, in `bridge_reload` only, which has no liveness.

### Fairness

`FairSpec` of `DeviceWorker`: the thread is scheduled, `join` returns when it ended.
Nothing is assumed of the device, so every operation may fail for ever and `StopReturns`
still holds. `CommandsSettled` and `StateLearned` have `DeviceAnswers` as a premise: a
connection, a due poll and its success happen now and then if they could: the poll
deadline is finite, and without a device that ever answers there is nothing to settle a
command with or to learn. `FairSpec` of `Bridge`: each
thread that can take its next step does; a blocked thread waits for a mutex that, edits
and commands being finitely many, ends up free for good or held for good.

`FairSpec` of `WebApp` is fair to the browser only: the timer of the table fires, and what
has arrived is handled; a lost call is reported by the browser, and there are finitely
many of them. `Receive` is strongly fair because the answer that closes a form loads the
list, which in the model waits for one of `MaxPolls` places: that bound is ours. The
server need not answer: the handlers that add, update, delete, import and send commands
wait for `BridgeManager`'s mutex before they do (`ApiController.cpp` 158, 206, 232, 280,
451), and in the deadlock of `bridge_deadlock` it is never free again (`DeadlockLasts`); a
server thread stuck there may hold back other calls too. So `TableCatchesUp` and `BusyEnds`
have `ServerAnswers` as their premise, and without it a button stays busy until its
component is closed. Nothing is assumed of the user, who may leave a form open for ever,
but `BusyEnds` still holds, and `TableCatchesUp` speaks of a user who stays on the page.
`FairSpec` of `LogView`:
the timer fires, and of the loads, any of which may fail, some get through (strong
fairness of serving and receiving).

## Proofs

Every safety property the passing runs check is proved, for any
commands, levels, attempts, devices, threads and bounds, from the named assumptions on
the constants (`ParametersAssumption`, `NoStateAssumption`, `ThreadsAssumption`,
`FilesAssumption`, `LogAssumption`, `BoundsAssumption`, and that `None` is no call, no form
and so on).

`DeviceWorkerProofs`. `TypeInv` is `TypeOK` with `BatchInv`, which ties `pc` to the
batch: without it neither the head of the batch nor the counter of attempts is known to
make sense. It also says that the counter of the retry loop is the number of attempts made
before the current one, which `VerdictEarned` needs; `LinkDiscipline` and `TopicFollows`
are inductive over it too. What `VerdictsEarned` does not say, because the code does not
do it, is that a FAILED of a persistent worker made the attempts it tells of.
`PromiseKept` and `OkMeansApplied` need `CommandInv`: while a command is being executed
what it aims at is still what was announced, and once the device has acknowledged the
power it has it. For `OkMeansApplied`, `OkSettled` shows that a verdict keeps what an
earlier OK left behind, if its command left the power alone, and `OkSame` that the other
steps do. `LevelReadsBack` needs `LevelInv`, the same for the brightness, and that
the two conversions cancel out (`BrightnessRoundTrip`, for all 101 percentages: 7 %
becomes 41, which is 6.96 %, and must come back as 7). `WorkerImplementsLedger` is the refinement: `Enqueue` maps to `Accept`,
the steps that settle a command to `Settle`, the others to stuttering; it needs that the
commands issued are numbered by their place in the ledger (`Numbered`).

`PassesEndCorrect` is the safety half of `StopReturns`. `StepsLeft` counts, from where the
thread stands, its attempts, its batch and its queue, the steps it can still take in this
pass: five for each attempt left and two more for each command. Every step of the thread
lowers it but those at the head of the loop while it runs, and once `stop()` has been
called nothing raises it: the callers of `enqueueCommand` and of `stop()` hold
`BridgeManager`'s mutex, so no command is queued any more. `StopBounded` bounds it by the
commands there ever were: what `stop()` waits for is finite whatever the device does. How
long each of these steps sleeps is not in the model.

`BridgeProofs`. `StartInv`: only the holder of the mutex is inside `start()`, and what it
has yet to create is what it copied. `Converged` and `NoStaleWorker` are not inductive;
`ReloadInv` names, for every difference between the copied list, the workers, the
subscribed devices and the current list, the thread that is still to act on it.
`Subscribed` and `Available` are inductive over `TypeOK`. `DiscoveryInv` names the thread
that has not read the list yet, if the discovery lacks a device of it while the connection
was never lost.

`RouteInv` says that `MqttBridge`'s mutex is held exactly while a command is being routed;
`StartInv` says the same of `BridgeManager`'s and `start()`. So a thread that waits waits
for a reload or for a command, and for these there is one way to wait for each other:
`NoOtherDeadlock`. `GoesOn` says by the guards of the actions what `ENABLED` would say of
them. `DeadlockLasts`: once in it the two never leave it, and `BridgeManager`'s mutex is
never free again.

`DeviceStoreProofs`. `StoreInv` adds to the types that the file about to be renamed
is the whole list; `NamesInv` says of memory and of the file alike that their names are
distinct and complete, since a restart turns one into the other. With both,
`RestartLosesNothing` is inductive. `StoreImplementsDurableList` maps the edits to
`Edit`, a rename that works to `Save`, opening, writing and every failure to stuttering.

`LogViewProofs`. The last n of the last m of a sequence are its last n if n is at most m
(`LastOfLast`), which makes what the server answers a window of the log; a window stays
one when the log grows (`PrefixOfAppend`), so `WindowInv`, of the answers in flight and
of what is shown, is inductive. For `ThreadInOrder`, `OrderInv` says that a thread's
entries in the whole log are in the order in which it read the clock for them, and that
what it has read and not stored yet is not before those nor after the present; windows
of a log in order are in order.

`WebAppProofs`. There are some thirty actions and four kinds of state, so every action
is first reduced to its effect on the calls (`Effect`: components closed, calls ended,
at most one made) and every component's fields to what its own actions do. `CallsInv`
says that numbers are fresh and that a call somebody waits for is in `own` of its
component; `ScreenInv` that a component not on the screen waits for
nothing and that the flags of the others agree with their calls. `BusyHonest` follows,
and with it that a discovery and an import are never in flight together, which
`NothingOverwritten` needs. `KeyInv` adds that every save in flight carries a whole key,
since `Valid` was asked when it was made: `KeysReal`. `AnswersReachTheirOwn` comes from
`OwnInv`, which says whose the answer is, and `RowInv`: the rows a command in flight was
sent from are still there, since a reload takes it from the table.

Model-checked only: the liveness properties (`CommandsSettled`, `StateLearned`,
`StopReturns`, `ReloadReturns`, `TableCatchesUp`, `BusyEnds`, `LogsShown`), which are
out of the prover's reach (fairness and `ENABLED`), and the five violations. Of
`StopReturns` the proofs have what fairness does not give: that the steps to go are finite
and nothing adds to them.

## Plan

1. `WorkerClock`: the time `DeviceWorker` leaves out: backoff, next poll and heartbeat,
   the `now` read once per pass and per batch, the age at which a command is executed,
   the time `stop()` takes, reconnection without backoff.
2. `Shutdown`: the signal handler against the wait in `main`, `stop()` and
   `disconnect()` against `connected()`; "offline" at the end.
3. The queues of the workers in `Bridge` (commands lost by a reload, `sendCommand`
   refused during one), and workers that join while the mutex is held.
4. `Bridge` and `WebApi` composed: a reload that blocks is a call that is not answered.
5. Proofs for each as it comes; runs are merged where one instance answers two questions.

## Not modelled

The YAML parser, JSON answers and discovery payloads (wording and layout); what the
cloud answers (a call to an external service: any devices, or an error); nanotuya, the
MQTT client library and Angular (external, known by how the code uses them). Of the front
end its texts, its layout and the folding of the log panel. `getHealth`, `getStatus` and
`getDeviceState`, which only read and which the front end does not call. `main` and its
signal handler (planned as `Shutdown`). Build and deployment files, which have no
behaviour of their own.
