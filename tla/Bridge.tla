------------------------------- MODULE Bridge -------------------------------
(***************************************************************************)
(* BridgeManager and MqttBridge around the workers: the requests of the    *)
(* HTTP API that edit the list of devices and reload it, the callback      *)
(* thread of the MQTT client, the two mutexes they share, and what the     *)
(* broker keeps of them: the subscriptions of the session, the retained    *)
(* discovery and the retained status of the bridge.                        *)
(*                                                                         *)
(* A worker is here only the kind of device it was created for, which      *)
(* stands for its whole entry; what it does is DeviceWorker.  The list of  *)
(* devices is a function of their names (a rename to a name already taken  *)
(* is left out), edited in one step under ConfigManager's own mutex.  A    *)
(* section that runs under one mutex and takes no other one is a single    *)
(* action, taken when the mutex is free.                                   *)
(***************************************************************************)
EXTENDS Integers

CONSTANTS Names,        \* names of devices
          Requests,     \* the threads that serve HTTP requests
          Main,         \* the main thread
          Client,       \* the thread that calls MqttBridge's callbacks
          Nobody,       \* holder of a free mutex; no worker being created
          MaxEdits,     \* bound: devices edited
          MaxMessages,  \* bound: commands that arrive from the broker
          MaxLosses     \* bound: losses of the connection to the broker

Starters == Requests \cup {Main}
Threads  == Starters \cup {Client}

ASSUME ThreadsAssumption ==
    /\ Main \notin Requests /\ Client \notin Starters
    /\ Nobody \notin Threads /\ Nobody \notin Names

ASSUME BoundsAssumption ==
    MaxEdits \in Nat /\ MaxMessages \in Nat /\ MaxLosses \in Nat

\* An enabled device is named by the part of its topics that tells its type.
Kinds   == {"light", "switch"}
Entries == Kinds \cup {"disabled", "absent"}

VARIABLES
    devices,     \* ConfigManager's devices_: the entry of every name
    pc,          \* where every thread stands
    managerLock, \* who holds BridgeManager's mutex_
    mqttLock,    \* who holds MqttBridge's mutex_
    plan,        \* `devices', the copy start() works from
    todo,        \* names whose worker start() has not created yet
    fresh,       \* the name of the worker started and not yet in workers_
    workers,     \* workers_: the kind of device the worker was created for
    subscribed,  \* subscribed_devices_
    inbox,       \* the device of the command being routed
    up,          \* the connection to the broker
    subs,        \* broker: <<kind, name>> of the session's subscriptions
    discovery,   \* broker: <<kind, name>> of the retained discovery
    status,      \* broker: retained tuya_bridge/status
    edits, messages, losses

manager == <<plan, todo, fresh, workers>>
broker  == <<up, subs, discovery, status>>
bounds  == <<edits, messages, losses>>
vars == <<devices, pc, managerLock, mqttLock, manager, subscribed, inbox, broker, bounds>>

None == [n \in Names |-> "absent"]

At(t, label)   == pc[t] = label
Goto(t, label) == pc' = [pc EXCEPT ![t] = label]

EnabledIn(list)  == {n \in Names : list[n] \in Kinds}
Topics(list) == {<<list[n], n>> : n \in EnabledIn(list)}

\* What publishing or subscribing adds while the broker is there.
Sent(topics, more) == IF up THEN topics \cup more ELSE topics
-----------------------------------------------------------------------------
\* main() has connected to the broker; its start() and the first connected()
\* callback run side by side.  The broker retains the status of an earlier
\* run, and no discovery.
Init ==
    /\ devices \in [Names -> Entries]
    /\ pc = [t \in Threads |-> IF t = Main THEN "start"
                              ELSE IF t = Client THEN "announce" ELSE "idle"]
    /\ managerLock = Nobody /\ mqttLock = Nobody
    /\ plan = None /\ todo = {} /\ fresh = Nobody
    /\ workers = None
    /\ subscribed = None
    /\ inbox = Nobody
    /\ up = TRUE /\ subs = {} /\ discovery = {} /\ status = "offline"
    /\ edits = 0 /\ messages = 0 /\ losses = 0
-----------------------------------------------------------------------------
\* ApiController: the web server runs once start() has returned.  A handler
\* edits the list, then reloads the devices; an edit that is refused (a name
\* taken, a device not found) reloads nothing.

Editing ==
    /\ At(Main, "idle")
    /\ edits < MaxEdits
    /\ edits' = edits + 1
    /\ UNCHANGED <<managerLock, mqttLock, manager, subscribed, inbox, broker,
                   messages, losses>>

\* ConfigManager::addDevice, updateDevice (the new entry may have another
\* name) and removeDevice, when they return true.
Added ==
    \E n \in Names, e \in Entries \ {"absent"} :
        /\ devices[n] = "absent"
        /\ devices' = [devices EXCEPT ![n] = e]

Updated ==
    \E n, m \in Names, e \in Entries \ {"absent"} :
        /\ devices[n] # "absent"
        /\ m = n \/ devices[m] = "absent"
        /\ devices' = [devices EXCEPT ![n] = "absent", ![m] = e]

Removed ==
    \E n \in Names :
        /\ devices[n] # "absent"
        /\ devices' = [devices EXCEPT ![n] = "absent"]

AddDevice(t) ==
    /\ At(t, "idle") /\ Editing
    /\ Added
    /\ Goto(t, "halt")

UpdateDevice(t) ==
    /\ At(t, "idle") /\ Editing
    /\ Updated
    /\ Goto(t, "halt")

DeleteDevice(t) ==
    /\ At(t, "idle") /\ Editing
    /\ Removed
    /\ Goto(t, "halt")

\* cloudImport adds one device after the other and reloads once.
ImportDevice(t) ==
    /\ At(t, "idle") \/ At(t, "import")
    /\ Editing
    /\ Added
    /\ Goto(t, "import")

ImportEnds(t) ==
    /\ At(t, "import")
    /\ Goto(t, "halt")
    /\ UNCHANGED <<devices, managerLock, mqttLock, manager, subscribed, inbox,
                   broker, bounds>>
-----------------------------------------------------------------------------
\* reloadDevices, start

\* Fault: the workers are stopped without the mutex.
HaltUnlocked(t) ==
    /\ At(t, "halt")
    /\ workers' = None
    /\ Goto(t, "start")
    /\ UNCHANGED <<devices, managerLock, mqttLock, plan, todo, fresh, subscribed,
                   inbox, broker, bounds>>

\* Stop and forget all workers, then let go of the mutex.
Halt(t) ==
    /\ At(t, "halt") /\ managerLock = Nobody
    /\ workers' = None
    /\ Goto(t, "start")
    /\ UNCHANGED <<devices, managerLock, mqttLock, plan, todo, fresh, subscribed,
                   inbox, broker, bounds>>

\* Fault: the discovery is that of the devices MqttBridge remembers.
BeginRemembered(t) ==
    /\ At(t, "start") /\ managerLock = Nobody
    /\ managerLock' = t
    /\ plan' = devices
    /\ discovery' = Sent(discovery, Topics(subscribed))
    /\ Goto(t, "subscribe")
    /\ UNCHANGED <<devices, mqttLock, todo, fresh, workers, subscribed, inbox, up,
                   subs, status, bounds>>

\* Take the mutex again, copy the list and publish the discovery of it.
Begin(t) ==
    /\ At(t, "start") /\ managerLock = Nobody
    /\ managerLock' = t
    /\ plan' = devices
    /\ discovery' = Sent(discovery, Topics(devices))
    /\ Goto(t, "subscribe")
    /\ UNCHANGED <<devices, mqttLock, todo, fresh, workers, subscribed, inbox, up,
                   subs, status, bounds>>

\* Fault: the list is remembered only when the broker is there to be asked.
SubscribeIfUp(t) ==
    /\ At(t, "subscribe") /\ mqttLock = Nobody
    /\ subscribed' = IF up THEN plan ELSE subscribed
    /\ subs' = Sent(subs, Topics(plan))
    /\ todo' = EnabledIn(plan)
    /\ Goto(t, "create")
    /\ UNCHANGED <<devices, managerLock, mqttLock, plan, fresh, workers, inbox, up,
                   discovery, status, bounds>>

\* MqttBridge::subscribeCommands, under its own mutex.
Subscribe(t) ==
    /\ At(t, "subscribe") /\ mqttLock = Nobody
    /\ subscribed' = plan
    /\ subs' = Sent(subs, Topics(plan))
    /\ todo' = EnabledIn(plan)
    /\ Goto(t, "create")
    /\ UNCHANGED <<devices, managerLock, mqttLock, plan, fresh, workers, inbox, up,
                   discovery, status, bounds>>

\* Fault: disabled devices are not skipped.
CreateAll(t) ==
    /\ At(t, "create") /\ fresh = Nobody
    /\ fresh' \in {n \in Names : plan[n] # "absent" /\ workers[n] = "absent"}
    /\ UNCHANGED <<devices, pc, managerLock, mqttLock, plan, todo, workers,
                   subscribed, inbox, broker, bounds>>

\* worker->start()
Create(t) ==
    /\ At(t, "create") /\ fresh = Nobody
    /\ fresh' \in todo
    /\ UNCHANGED <<devices, pc, managerLock, mqttLock, plan, todo, workers,
                   subscribed, inbox, broker, bounds>>

\* workers_[dev.name] = std::move(worker): the worker that was there, if any,
\* is destroyed, which stops it.
Install(t) ==
    /\ At(t, "create") /\ fresh # Nobody
    /\ workers' = [workers EXCEPT ![fresh] = plan[fresh]]
    /\ todo' = todo \ {fresh}
    /\ fresh' = Nobody
    /\ UNCHANGED <<devices, pc, managerLock, mqttLock, plan, subscribed, inbox,
                   broker, bounds>>

\* Fault: the mutex is not released.
FinishLocked(t) ==
    /\ At(t, "create") /\ todo = {}
    /\ status' = IF up THEN "online" ELSE status
    /\ Goto(t, "idle")
    /\ UNCHANGED <<devices, managerLock, mqttLock, manager, subscribed, inbox, up,
                   subs, discovery, bounds>>

\* Announce the bridge and leave start().
Finish(t) ==
    /\ At(t, "create") /\ todo = {}
    /\ status' = IF up THEN "online" ELSE status
    /\ managerLock' = Nobody
    /\ Goto(t, "idle")
    /\ UNCHANGED <<devices, mqttLock, manager, subscribed, inbox, up, subs,
                   discovery, bounds>>
-----------------------------------------------------------------------------
\* MqttBridge's callbacks, one at a time on the client's thread

\* message_arrived takes MqttBridge's mutex, whatever the topic's kind ...
Arrive ==
    /\ At(Client, "idle") /\ mqttLock = Nobody
    /\ up /\ messages < MaxMessages
    /\ inbox' \in {topic[2] : topic \in subs}
    /\ messages' = messages + 1
    /\ mqttLock' = Client
    /\ Goto(Client, "route")
    /\ UNCHANGED <<devices, managerLock, manager, subscribed, broker, edits, losses>>

\* ... and calls onMqttCommand with it, which takes BridgeManager's.
Route ==
    /\ At(Client, "route") /\ managerLock = Nobody
    /\ inbox' = Nobody
    /\ mqttLock' = Nobody
    /\ Goto(Client, "idle")
    /\ UNCHANGED <<devices, managerLock, manager, subscribed, broker, bounds>>

\* Fault: coming back is not announced.
AnnounceNothing ==
    /\ At(Client, "announce")
    /\ Goto(Client, "resubscribe")
    /\ UNCHANGED <<devices, managerLock, mqttLock, manager, subscribed, inbox,
                   broker, bounds>>

\* connected() publishes "online" ...
Announce ==
    /\ At(Client, "announce")
    /\ status' = IF up THEN "online" ELSE status
    /\ Goto(Client, "resubscribe")
    /\ UNCHANGED <<devices, managerLock, mqttLock, manager, subscribed, inbox, up,
                   subs, discovery, bounds>>

\* Fault: connected() subscribes to nothing.
ResubscribeNothing ==
    /\ At(Client, "resubscribe") /\ mqttLock = Nobody
    /\ Goto(Client, "idle")
    /\ UNCHANGED <<devices, managerLock, mqttLock, manager, subscribed, inbox,
                   broker, bounds>>

\* ... and subscribes again to the list it remembers.
Resubscribe ==
    /\ At(Client, "resubscribe") /\ mqttLock = Nobody
    /\ subs' = Sent(subs, Topics(subscribed))
    /\ Goto(Client, "idle")
    /\ UNCHANGED <<devices, managerLock, mqttLock, manager, subscribed, inbox, up,
                   discovery, status, bounds>>
-----------------------------------------------------------------------------
\* The broker: it forgets a clean session with its connection and publishes
\* the will of the client.  The client reconnects by itself; the thread that
\* runs the callbacks is the one that finds out.

LoseConnection ==
    /\ up /\ losses < MaxLosses
    /\ up' = FALSE /\ subs' = {} /\ status' = "offline"
    /\ losses' = losses + 1
    /\ UNCHANGED <<devices, pc, managerLock, mqttLock, manager, subscribed, inbox,
                   discovery, edits, messages>>

Reconnect ==
    /\ ~up /\ At(Client, "idle")
    /\ up' = TRUE
    /\ Goto(Client, "announce")
    /\ UNCHANGED <<devices, managerLock, mqttLock, manager, subscribed, inbox, subs,
                   discovery, status, bounds>>
-----------------------------------------------------------------------------
Request(t) ==
    AddDevice(t) \/ UpdateDevice(t) \/ DeleteDevice(t) \/ ImportDevice(t) \/ ImportEnds(t)

Reload(t) ==
    Halt(t) \/ Begin(t) \/ Subscribe(t) \/ Create(t) \/ Install(t) \/ Finish(t)

Callback == Route \/ Announce \/ Resubscribe

Next ==
    \/ \E t \in Requests : Request(t)
    \/ \E t \in Starters : Reload(t)
    \/ Callback
    \/ Arrive \/ LoseConnection \/ Reconnect

Spec == Init /\ [][Next]_vars

\* Every thread that can go on does; requests, commands and losses are few,
\* so that a mutex is free for good, or held for good, in the end.
FairSpec ==
    /\ Spec
    /\ \A t \in Starters : WF_vars(Reload(t))
    /\ \A t \in Requests : WF_vars(ImportEnds(t))
    /\ WF_vars(Callback)
-----------------------------------------------------------------------------
\* Properties

Labels == {"idle", "import", "halt", "start", "subscribe", "create",
           "announce", "resubscribe", "route"}

\* Type invariant.
TypeOK ==
    /\ devices \in [Names -> Entries]
    /\ pc \in [Threads -> Labels]
    /\ managerLock \in Starters \cup {Nobody}
    /\ mqttLock \in {Client, Nobody}
    /\ plan \in [Names -> Entries]
    /\ todo \subseteq Names
    /\ fresh \in Names \cup {Nobody}
    /\ workers \in [Names -> Kinds \cup {"absent"}]
    /\ subscribed \in [Names -> Entries]
    /\ inbox \in Names \cup {Nobody}
    /\ up \in BOOLEAN
    /\ subs \subseteq Kinds \X Names /\ discovery \subseteq Kinds \X Names
    /\ status \in {"online", "offline"}
    /\ edits \in Nat /\ messages \in Nat /\ losses \in Nat

Settled == \A t \in Starters : At(t, "idle")

\* Whatever the interleaving of edits and reloads, once the last of them is
\* over there is a worker of the right kind for every enabled device, and for
\* no other, and these are the devices MqttBridge will subscribe to.
Converged ==
    Settled => /\ \A n \in Names :
                     workers[n] = IF n \in EnabledIn(devices) THEN devices[n] ELSE "absent"
               /\ subscribed = devices

\* A worker created for an entry that is no longer the current one runs only
\* until the request that changed the entry stops the workers; no other
\* reload brings it back, not even one that read the list before the change.
NoStaleWorker ==
    \A n \in Names :
        workers[n] \notin {"absent", devices[n]}
            => \E t \in Requests : At(t, "halt")

\* The commands of every enabled device reach the bridge while it is
\* connected, reconnections and reloads without a broker included.
Subscribed ==
    /\ up
    /\ pc[Client] \notin {"announce", "resubscribe"}
    => Topics(subscribed) \subseteq subs

\* While it is connected the bridge is shown as online.
Available == up /\ ~At(Client, "announce") => status = "online"

\* Discovery misses an enabled device only because the broker was away: as long
\* as the connection was never lost, no overlap of edits and reloads skips one.
DiscoveryUnlessLost == Settled /\ losses = 0 => Topics(devices) \subseteq discovery

\* Who holds the mutex that the next step of a thread takes.
WaitsFor(t) ==
    CASE pc[t] \in {"halt", "start", "route"}      -> managerLock
      [] pc[t] \in {"subscribe", "resubscribe"}    -> mqttLock
      [] OTHER                                     -> Nobody

\* A thread in the middle of something that can take its next step.
GoesOn(t) == t \in Threads /\ ~At(t, "idle") /\ WaitsFor(t) = Nobody

\* A reload that is to subscribe and a command that is to be routed, each with
\* the mutex the other needs.
Deadlocked == At(Client, "route") /\ \E t \in Starters : managerLock = t /\ At(t, "subscribe")

\* The two mutexes are nested both ways, start() in subscribeCommands and
\* message_arrived in onMqttCommand, and that is the only way to get stuck: as
\* long as it has not happened, every thread in the middle of something goes
\* on, or the thread it waits for does, or the one that thread waits for.
NoOtherDeadlock ==
    \/ Deadlocked
    \/ \A t \in Threads : ~At(t, "idle") =>
          GoesOn(t) \/ GoesOn(WaitsFor(t)) \/ GoesOn(WaitsFor(WaitsFor(t)))

\* A reload comes to an end.
ReloadReturns ==
    \A t \in Requests : pc[t] \in {"import", "halt"} ~> At(t, "idle")
-----------------------------------------------------------------------------
\* What the documentation says and the code does not do

\* README.md:123: devices appear in Home Assistant by themselves, so the
\* discovery of an enabled device is there once the bridge is settled and
\* connected.
DiscoveryComplete ==
    Settled /\ up /\ At(Client, "idle") => Topics(devices) \subseteq discovery
=============================================================================
