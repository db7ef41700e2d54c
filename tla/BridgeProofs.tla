---------------------------- MODULE BridgeProofs ----------------------------
(***************************************************************************)
(* The safety of Bridge for any devices, any number of requests and any    *)
(* bounds: the type invariant, then the three invariants that say what     *)
(* reloads and reconnections leave behind, then how reloads and commands   *)
(* may wait for each other.                                                *)
(*                                                                         *)
(* Converged and NoStaleWorker are not inductive.  ReloadInv adds who is   *)
(* still to act for every difference there is: between the list start()    *)
(* copied and the current one, between the workers and the list, and       *)
(* between what MqttBridge remembers and the list.                         *)
(***************************************************************************)
EXTENDS Bridge, TLAPS

(* Only the holder of BridgeManager's mutex is in the middle of start(), and *)
(* what it has yet to create comes from the list it copied.                  *)
StartInv ==
    /\ \A t \in Starters : managerLock = t <=> pc[t] \in {"subscribe", "create"}
    /\ \A t \in Starters :
          At(t, "create") => /\ todo \subseteq EnabledIn(plan)
                             /\ fresh \in todo \cup {Nobody}
    /\ fresh # Nobody => \E t \in Starters : At(t, "create")

(* Every step, as one of the actions of one of the threads. *)
LEMMA Steps ==
    ASSUME Next
    PROVE  \/ \E t \in Requests : AddDevice(t)
           \/ \E t \in Requests : UpdateDevice(t)
           \/ \E t \in Requests : DeleteDevice(t)
           \/ \E t \in Requests : ImportDevice(t)
           \/ \E t \in Requests : ImportEnds(t)
           \/ \E t \in Starters : Halt(t)
           \/ \E t \in Starters : Begin(t)
           \/ \E t \in Starters : Subscribe(t)
           \/ \E t \in Starters : Create(t)
           \/ \E t \in Starters : Install(t)
           \/ \E t \in Starters : Finish(t)
           \/ Arrive \/ Route \/ Announce \/ Resubscribe
           \/ LoseConnection \/ Reconnect
BY DEF Next, Request, Reload, Callback

(* The topics of a list of devices are topics. *)
LEMMA TopicsType ==
    ASSUME NEW list PROVE Topics(list) \subseteq Kinds \X Names
BY DEF Topics, EnabledIn

(* A list of devices changed at a name is a list of devices. *)
LEMMA ListType ==
    ASSUME NEW list \in [Names -> Entries], NEW n, NEW e \in Entries
    PROVE  [list EXCEPT ![n] = e] \in [Names -> Entries]
OBVIOUS

LEMMA TypeInit == Init => TypeOK
<1> SUFFICES ASSUME Init PROVE TypeOK
  OBVIOUS
<1> USE DEF Init
<1>1. None \in [Names -> Entries] /\ None \in [Names -> Kinds \cup {"absent"}]
  BY DEF None, Entries
<1>2. pc \in [Threads -> Labels]
  BY DEF Labels
<1> QED
  BY <1>1, <1>2 DEF TypeOK

LEMMA TypeStep == TypeOK /\ StartInv /\ [Next]_vars => TypeOK'
<1> SUFFICES ASSUME TypeOK, StartInv, [Next]_vars PROVE TypeOK'
  OBVIOUS
<1> USE DEF TypeOK, Goto, manager, broker, bounds
<1>1. ASSUME NEW t \in Requests, Editing,
             devices' \in [Names -> Entries], Goto(t, "halt") \/ Goto(t, "import")
      PROVE  TypeOK'
  BY <1>1 DEF Editing, Labels
<1>2. ASSUME Added PROVE devices' \in [Names -> Entries]
  BY <1>2, ListType DEF Added
<1>3. ASSUME NEW t \in Requests, AddDevice(t) PROVE TypeOK'
  BY <1>1, <1>2, <1>3 DEF AddDevice
<1>4. ASSUME NEW t \in Requests, UpdateDevice(t) PROVE TypeOK'
  <2>1. devices' \in [Names -> Entries]
    BY <1>4 DEF UpdateDevice, Updated, Entries
  <2> QED
    BY <1>1, <1>4, <2>1 DEF UpdateDevice
<1>5. ASSUME NEW t \in Requests, DeleteDevice(t) PROVE TypeOK'
  <2>1. devices' \in [Names -> Entries]
    BY <1>5 DEF DeleteDevice, Removed, Entries
  <2> QED
    BY <1>1, <1>5, <2>1 DEF DeleteDevice
<1>6. ASSUME NEW t \in Requests, ImportDevice(t) PROVE TypeOK'
  BY <1>1, <1>2, <1>6 DEF ImportDevice
<1>7. ASSUME NEW t \in Requests, ImportEnds(t) PROVE TypeOK'
  BY <1>7 DEF ImportEnds, Labels
<1>8. ASSUME NEW t \in Starters, Halt(t) PROVE TypeOK'
  <2>1. None \in [Names -> Kinds \cup {"absent"}]
    BY DEF None
  <2> QED
    BY <1>8, <2>1 DEF Halt, Labels
<1>9. ASSUME NEW t \in Starters, Begin(t) PROVE TypeOK'
  BY <1>9, TopicsType DEF Begin, Labels, Sent
<1>10. ASSUME NEW t \in Starters, Subscribe(t) PROVE TypeOK'
  BY <1>10, TopicsType DEF Subscribe, Labels, Sent, EnabledIn
<1>11. ASSUME NEW t \in Starters, Create(t) PROVE TypeOK'
  BY <1>11 DEF Create
<1>12. ASSUME NEW t \in Starters, Install(t) PROVE TypeOK'
  <2>1. fresh \in Names /\ plan[fresh] \in Kinds
    BY <1>12 DEF Install, StartInv, EnabledIn
  <2> QED
    BY <1>12, <2>1 DEF Install
<1>13. ASSUME NEW t \in Starters, Finish(t) PROVE TypeOK'
  BY <1>13 DEF Finish, Labels
<1>14. ASSUME Arrive PROVE TypeOK'
  <2>1. inbox' \in Names
    <3>1. PICK topic \in subs : inbox' = topic[2]
      BY <1>14 DEF Arrive
    <3>2. topic \in Kinds \X Names
      OBVIOUS
    <3> QED
      BY <3>1, <3>2
  <2>2. mqttLock' = Client /\ messages' = messages + 1 /\ Goto(Client, "route")
    BY <1>14 DEF Arrive
  <2>3. messages' \in Nat
    BY <2>2
  <2>4. pc' \in [Threads -> Labels]
    BY <2>2 DEF Labels
  <2>5. UNCHANGED <<devices, managerLock, plan, todo, fresh, workers, subscribed,
                    up, subs, discovery, status, edits, losses>>
    BY <1>14 DEF Arrive
  <2> QED
    BY <2>1, <2>2, <2>3, <2>4, <2>5
<1>15. ASSUME Route PROVE TypeOK'
  BY <1>15 DEF Route, Labels
<1>16. ASSUME Announce PROVE TypeOK'
  BY <1>16 DEF Announce, Labels
<1>17. ASSUME Resubscribe PROVE TypeOK'
  BY <1>17, TopicsType DEF Resubscribe, Labels, Sent
<1>18. ASSUME LoseConnection PROVE TypeOK'
  <2>1. up' \in BOOLEAN /\ subs' \subseteq Kinds \X Names /\ status' \in {"online", "offline"}
    BY <1>18 DEF LoseConnection
  <2>2. losses' \in Nat
    BY <1>18 DEF LoseConnection
  <2> QED
    BY <1>18, <2>1, <2>2 DEF LoseConnection
<1>19. ASSUME Reconnect PROVE TypeOK'
  BY <1>19 DEF Reconnect, Labels
<1>20. ASSUME UNCHANGED vars PROVE TypeOK'
  BY <1>20 DEF vars
<1> HIDE DEF TypeOK
<1> QED
  BY <1>3, <1>4, <1>5, <1>6, <1>7, <1>8, <1>9, <1>10, <1>11, <1>12, <1>13, <1>14,
     <1>15, <1>16, <1>17, <1>18, <1>19, <1>20, Steps

(* A step that is not taken by start() leaves what start() is doing alone. *)
LEMMA StartAside ==
    ASSUME TypeOK, StartInv, NEW t \in Threads, NEW label,
           Goto(t, label), label \notin {"subscribe", "create"},
           pc[t] \notin {"subscribe", "create"},
           UNCHANGED <<managerLock, plan, todo, fresh>>
    PROVE  StartInv'
BY DEF TypeOK, StartInv, Goto, At, Starters, Threads

LEMMA StartInit == Init => StartInv
BY ThreadsAssumption DEF Init, StartInv, At, Starters, Threads

LEMMA StartStep == TypeOK /\ StartInv /\ [Next]_vars => StartInv'
<1> SUFFICES ASSUME TypeOK, StartInv, [Next]_vars PROVE StartInv'
  OBVIOUS
<1> USE ThreadsAssumption DEF manager, Threads
<1>1. ASSUME NEW t \in Requests, Request(t) PROVE StartInv'
  BY <1>1, StartAside DEF Request, AddDevice, UpdateDevice, DeleteDevice,
     ImportDevice, ImportEnds, Editing, At, Starters
<1>2. ASSUME NEW t \in Starters, Halt(t) PROVE StartInv'
  BY <1>2, StartAside DEF Halt, At
<1>3. ASSUME NEW t \in Starters, Begin(t) PROVE StartInv'
  BY <1>3 DEF Begin, StartInv, TypeOK, At, Goto, Starters
<1>4. ASSUME NEW t \in Starters, Subscribe(t) PROVE StartInv'
  BY <1>4 DEF Subscribe, StartInv, TypeOK, At, Goto, Starters
<1>5. ASSUME NEW t \in Starters, Create(t) PROVE StartInv'
  BY <1>5 DEF Create, StartInv, TypeOK, At
<1>6. ASSUME NEW t \in Starters, Install(t) PROVE StartInv'
  BY <1>6 DEF Install, StartInv, TypeOK, At
<1>7. ASSUME NEW t \in Starters, Finish(t) PROVE StartInv'
  BY <1>7 DEF Finish, StartInv, TypeOK, At, Goto, Starters
<1>8. ASSUME Arrive \/ Callback PROVE StartInv'
  BY <1>8, StartAside DEF Arrive, Callback, Route, Announce, Resubscribe, At
<1>9. ASSUME LoseConnection PROVE StartInv'
  BY <1>9 DEF LoseConnection, StartInv, At
<1>10. ASSUME Reconnect PROVE StartInv'
  BY <1>10, StartAside DEF Reconnect, At
<1>11. ASSUME UNCHANGED vars PROVE StartInv'
  BY <1>11 DEF vars, StartInv, At
<1> QED
  BY <1>1, <1>2, <1>3, <1>4, <1>5, <1>6, <1>7, <1>8, <1>9, <1>10, <1>11
     DEF Next, Reload

(* The two invariants hold together. *)
LEMMA StartInvHolds == Spec => [](TypeOK /\ StartInv)
<1>1. Init => TypeOK /\ StartInv
  BY TypeInit, StartInit
<1>2. TypeOK /\ StartInv /\ [Next]_vars => (TypeOK /\ StartInv)'
  BY TypeStep, StartStep
<1> QED
  BY <1>1, <1>2, PTL DEF Spec

(* The type invariant of Bridge, for any devices and any number of requests: *)
(* in particular no worker is ever created for a disabled device.            *)
THEOREM TypeCorrect == Spec => []TypeOK
<1>1. Spec => [](TypeOK /\ StartInv)
  BY StartInvHolds
<1> QED
  BY <1>1, PTL
-----------------------------------------------------------------------------
(* Reloading *)

(* A request has changed the list and will still stop the workers ... *)
Halting  == \E t \in Requests : At(t, "halt")
Changing == \E t \in Requests : At(t, "halt") \/ At(t, "import")

(* ... or some thread has still to hand MqttBridge the list. *)
Reading ==
    \E t \in Starters : pc[t] \in {"import", "halt", "start", "subscribe"}

Creating(n) == n \in todo /\ \E t \in Starters : At(t, "create")

PlanInv ==
    \A n \in Names :
        managerLock # Nobody /\ plan[n] # devices[n]
            => Changing /\ (plan[n] \in Kinds => Halting)

WorkersInv ==
    \A n \in EnabledIn(devices) : workers[n] = devices[n] \/ Reading \/ Creating(n)

SubscribedInv == subscribed = devices \/ Reading

ReloadInv == PlanInv /\ NoStaleWorker /\ WorkersInv /\ SubscribedInv

USE DEF At, Goto, EnabledIn

LEMMA ReloadInit == Init => ReloadInv
BY ThreadsAssumption DEF Init, ReloadInv, PlanInv, NoStaleWorker, WorkersInv,
   SubscribedInv, Reading, Starters, Threads, None

(* An edit leaves the reload that follows it to repair what it changed.  An *)
(* import, which may go on for a while, only adds devices.                  *)
LEMMA EditStep ==
    ASSUME TypeOK, ReloadInv, NEW t \in Requests, NEW label \in {"halt", "import"},
           pc[t] \in {"idle", "import"}, Goto(t, label),
           label = "import" =>
               \A n \in Names : devices'[n] = devices[n] \/ devices[n] = "absent",
           UNCHANGED <<managerLock, plan, todo, workers, subscribed>>
    PROVE  ReloadInv'
<1>1. pc'[t] = label /\ \A u \in Threads : u # t => pc'[u] = pc[u]
  BY DEF TypeOK, Threads, Starters
<1>2. Halting => Halting'
  BY <1>1 DEF Halting, Threads, Starters
<1>3. Changing' /\ Reading' /\ (label = "halt" => Halting')
  BY <1>1 DEF Changing, Reading, Halting, Starters
<1>4. PlanInv'
  BY <1>2, <1>3 DEF ReloadInv, PlanInv, Kinds
<1>5. NoStaleWorker'
  BY <1>2, <1>3 DEF ReloadInv, NoStaleWorker, Halting
<1>6. WorkersInv' /\ SubscribedInv'
  BY <1>3 DEF WorkersInv, SubscribedInv
<1> QED
  BY <1>4, <1>5, <1>6 DEF ReloadInv

(* A step that changes neither the list nor what was made of it, nor where *)
(* a thread that may reload stands, changes nothing for those that reload. *)
LEMMA AsideStep ==
    ASSUME ReloadInv, \A u \in Starters : pc'[u] = pc[u],
           UNCHANGED <<devices, managerLock, plan, todo, workers, subscribed>>
    PROVE  ReloadInv'
<1>1. /\ Halting' = Halting /\ Changing' = Changing /\ Reading' = Reading
      /\ \A n : Creating(n)' = Creating(n)
  BY DEF Halting, Changing, Reading, Creating, Starters
<1> QED
  BY <1>1 DEF ReloadInv, PlanInv, NoStaleWorker, WorkersInv, SubscribedInv, Halting

LEMMA ReloadStep == TypeOK /\ StartInv /\ ReloadInv /\ [Next]_vars => ReloadInv'
<1> SUFFICES ASSUME TypeOK, StartInv, ReloadInv, [Next]_vars PROVE ReloadInv'
  OBVIOUS
<1> USE DEF manager, broker, bounds
<1>1. ASSUME Added
      PROVE  \A n \in Names : devices'[n] = devices[n] \/ devices[n] = "absent"
  BY <1>1 DEF Added, TypeOK
<1>2. ASSUME NEW t \in Requests, Request(t) PROVE ReloadInv'
  <2>1. CASE AddDevice(t)
    BY <2>1, EditStep DEF AddDevice, Editing
  <2>2. CASE UpdateDevice(t)
    BY <2>2, EditStep DEF UpdateDevice, Editing
  <2>3. CASE DeleteDevice(t)
    BY <2>3, EditStep DEF DeleteDevice, Editing
  <2>4. CASE ImportDevice(t)
    BY <1>1, <2>4, EditStep DEF ImportDevice, Editing
  <2>5. CASE ImportEnds(t)
    BY <2>5, EditStep DEF ImportEnds
  <2> QED
    BY <1>2, <2>1, <2>2, <2>3, <2>4, <2>5 DEF Request
<1>3. ASSUME NEW t \in Starters, Halt(t) PROVE ReloadInv'
  <2>1. pc'[t] = "start" /\ workers' = None /\ managerLock' = Nobody
    BY <1>3 DEF Halt, TypeOK, Threads
  <2>2. Reading'
    BY <2>1 DEF Reading
  <2>3. PlanInv' /\ NoStaleWorker'
    BY <2>1 DEF PlanInv, NoStaleWorker, None
  <2> QED
    BY <2>2, <2>3 DEF ReloadInv, WorkersInv, SubscribedInv
<1>4. ASSUME NEW t \in Starters, Begin(t) PROVE ReloadInv'
  <2>1. /\ pc'[t] = "subscribe" /\ plan' = devices
        /\ UNCHANGED <<devices, workers, subscribed>>
        /\ At(t, "start") /\ \A u \in Threads : u # t => pc'[u] = pc[u]
    BY <1>4 DEF Begin, TypeOK, Threads
  <2>2. Reading'
    BY <2>1 DEF Reading
  <2>3. PlanInv'
    BY <2>1 DEF PlanInv
  <2>4. NoStaleWorker'
    BY <2>1 DEF ReloadInv, NoStaleWorker, Threads, Starters
  <2> QED
    BY <2>2, <2>3, <2>4 DEF ReloadInv, WorkersInv, SubscribedInv
<1>5. ASSUME NEW t \in Starters, Subscribe(t) PROVE ReloadInv'
  <2>1. /\ pc'[t] = "create" /\ subscribed' = plan /\ todo' = EnabledIn(plan)
        /\ UNCHANGED <<devices, managerLock, plan, workers>>
        /\ At(t, "subscribe") /\ \A u \in Threads : u # t => pc'[u] = pc[u]
    BY <1>5 DEF Subscribe, TypeOK, Threads
  <2>2. (Halting => Halting') /\ (Changing => Changing') /\ (Changing => Reading')
    BY <2>1 DEF Halting, Changing, Reading, Threads, Starters
  <2>3. managerLock = t /\ t # Nobody
    BY <2>1, ThreadsAssumption DEF StartInv, Threads
  <2>4. PlanInv' /\ NoStaleWorker'
    BY <2>1, <2>2 DEF ReloadInv, PlanInv, NoStaleWorker, Halting
  <2>5. \A n \in Names : plan[n] # devices[n] => Reading'
    BY <2>2, <2>3 DEF ReloadInv, PlanInv
  <2>6. WorkersInv'
    BY <2>1, <2>5 DEF WorkersInv, Creating
  <2>7. plan = devices \/ \E n \in Names : plan[n] # devices[n]
    BY DEF TypeOK
  <2>8. SubscribedInv'
    BY <2>1, <2>5, <2>7 DEF SubscribedInv
  <2> QED
    BY <2>4, <2>6, <2>8 DEF ReloadInv
<1>6. ASSUME NEW t \in Starters, Create(t) PROVE ReloadInv'
  BY <1>6, AsideStep DEF Create
<1>7. ASSUME NEW t \in Starters, Install(t) PROVE ReloadInv'
  <2>1. /\ At(t, "create") /\ fresh \in todo /\ plan[fresh] \in Kinds
        /\ fresh \in Names /\ workers' = [workers EXCEPT ![fresh] = plan[fresh]]
        /\ todo' = todo \ {fresh}
        /\ UNCHANGED <<devices, pc, managerLock, plan, subscribed>>
    BY <1>7 DEF Install, StartInv
  <2>2. managerLock = t /\ t # Nobody
    BY <2>1, ThreadsAssumption DEF StartInv, Threads
  <2>3. plan[fresh] # devices[fresh] => Halting /\ Changing
    BY <2>1, <2>2 DEF ReloadInv, PlanInv
  <2>4. /\ Halting' = Halting /\ Changing' = Changing /\ Reading' = Reading
        /\ \A n : n # fresh => Creating(n)' = Creating(n)
    BY <2>1 DEF Halting, Changing, Reading, Creating
  <2>5. workers'[fresh] = plan[fresh] /\ \A n \in Names : n # fresh => workers'[n] = workers[n]
    BY <2>1 DEF TypeOK
  <2>6. PlanInv' /\ SubscribedInv'
    BY <2>1, <2>4 DEF ReloadInv, PlanInv, SubscribedInv
  <2>7. NoStaleWorker'
    BY <2>1, <2>3, <2>4, <2>5 DEF ReloadInv, NoStaleWorker, Halting
  <2>8. Changing => Reading
    BY DEF Changing, Reading, Starters
  <2>9. WorkersInv'
    BY <2>1, <2>3, <2>4, <2>5, <2>8 DEF ReloadInv, WorkersInv
  <2> QED
    BY <2>6, <2>7, <2>9 DEF ReloadInv
<1>8. ASSUME NEW t \in Starters, Finish(t) PROVE ReloadInv'
  <2>1. /\ At(t, "create") /\ todo = {} /\ managerLock' = Nobody
        /\ UNCHANGED <<devices, workers, subscribed>>
        /\ \A u \in Threads : u # t => pc'[u] = pc[u]
    BY <1>8 DEF Finish, TypeOK, Threads
  <2>2. (Halting => Halting') /\ (Reading => Reading')
    BY <2>1 DEF Halting, Reading, Threads, Starters
  <2>3. PlanInv' /\ NoStaleWorker'
    BY <2>1, <2>2 DEF ReloadInv, PlanInv, NoStaleWorker, Halting
  <2>4. WorkersInv' /\ SubscribedInv'
    BY <2>1, <2>2 DEF ReloadInv, WorkersInv, SubscribedInv, Creating
  <2> QED
    BY <2>3, <2>4 DEF ReloadInv
<1>9. ASSUME Arrive \/ Callback \/ LoseConnection \/ Reconnect PROVE ReloadInv'
  <2>1. \A u \in Starters : pc'[u] = pc[u]
    BY <1>9, ThreadsAssumption DEF Arrive, Callback, Route, Announce, Resubscribe, LoseConnection,
       Reconnect, TypeOK, Threads
  <2>2. UNCHANGED <<devices, managerLock, plan, todo, workers, subscribed>>
    BY <1>9 DEF Arrive, Callback, Route, Announce, Resubscribe, LoseConnection,
       Reconnect
  <2> QED
    BY <2>1, <2>2, AsideStep
<1>10. ASSUME UNCHANGED vars PROVE ReloadInv'
  <2>1. pc' = pc /\ UNCHANGED <<devices, managerLock, plan, todo, workers, subscribed>>
    BY <1>10 DEF vars
  <2> QED
    BY <2>1, AsideStep
<1> QED
  BY <1>2, <1>3, <1>4, <1>5, <1>6, <1>7, <1>8, <1>9, <1>10 DEF Next, Reload

LEMMA ReloadInvHolds == Spec => [](TypeOK /\ StartInv /\ ReloadInv)
<1>1. Init => ReloadInv
  BY ReloadInit
<1>2. TypeOK /\ StartInv /\ ReloadInv /\ [Next]_vars => ReloadInv'
  BY ReloadStep
<1>3. Spec => [](TypeOK /\ StartInv)
  BY StartInvHolds
<1> QED
  BY <1>1, <1>2, <1>3, PTL DEF Spec

(* However edits and reloads interleave, a worker created for an entry that *)
(* changed since runs only until the request that changed it stops it.      *)
THEOREM StaleWorkersStopped == Spec => []NoStaleWorker
<1>1. ReloadInv => NoStaleWorker
  BY DEF ReloadInv
<1> QED
  BY <1>1, ReloadInvHolds, PTL

(* However edits and reloads interleave, once all are over the workers are *)
(* those of the list of devices, and so are the subscriptions to come.     *)
THEOREM ReloadsConverge == Spec => []Converged
<1>1. ASSUME TypeOK, ReloadInv, Settled PROVE Converged
  <2>1. ~Halting /\ ~Reading /\ \A n : ~Creating(n)
    BY <1>1 DEF Settled, Halting, Reading, Creating, Starters
  <2>2. subscribed = devices
    BY <1>1, <2>1 DEF ReloadInv, SubscribedInv
  <2>3. ASSUME NEW n \in Names
        PROVE  workers[n] = IF n \in EnabledIn(devices) THEN devices[n] ELSE "absent"
    <3>1. workers[n] \in {"absent", devices[n]}
      BY <1>1, <2>1 DEF ReloadInv, NoStaleWorker, Halting
    <3>2. n \in EnabledIn(devices) => workers[n] = devices[n]
      BY <1>1, <2>1 DEF ReloadInv, WorkersInv
    <3>3. workers[n] \in Kinds \cup {"absent"}
      BY <1>1 DEF TypeOK
    <3> QED
      BY <3>1, <3>2, <3>3
  <2> QED
    BY <2>2, <2>3 DEF Converged
<1>2. TypeOK /\ ReloadInv => Converged
  BY <1>1 DEF Converged
<1> QED
  BY <1>2, ReloadInvHolds, PTL
-----------------------------------------------------------------------------
(* Discovery *)

(* A thread will still publish the discovery of a list it has not read yet. *)
Announcing == \E t \in Starters : pc[t] \in {"import", "halt", "start"}

DiscoveryInv ==
    losses = 0 => up /\ (Announcing \/ Topics(devices) \subseteq discovery)

LEMMA DiscoveryStep == TypeOK /\ DiscoveryInv /\ [Next]_vars => DiscoveryInv'
<1> SUFFICES ASSUME TypeOK, DiscoveryInv, [Next]_vars PROVE DiscoveryInv'
  OBVIOUS
<1> USE DEF manager, broker, bounds
<1>1. ASSUME NEW t \in Requests, Request(t) PROVE DiscoveryInv'
  <2>1. pc'[t] \in {"import", "halt"} /\ UNCHANGED <<up, losses>>
    BY <1>1 DEF Request, AddDevice, UpdateDevice, DeleteDevice, ImportDevice,
       ImportEnds, Editing, TypeOK, Threads, Starters
  <2> QED
    BY <2>1 DEF DiscoveryInv, Announcing, Starters
<1>2. ASSUME NEW t \in Starters, Halt(t) PROVE DiscoveryInv'
  <2>1. pc'[t] = "start" /\ UNCHANGED <<up, losses>>
    BY <1>2 DEF Halt, TypeOK, Threads
  <2> QED
    BY <2>1 DEF DiscoveryInv, Announcing
<1>3. ASSUME NEW t \in Starters, Begin(t) PROVE DiscoveryInv'
  BY <1>3 DEF Begin, DiscoveryInv, Sent, Topics
<1>4. ASSUME UNCHANGED <<devices, up, discovery, losses>>, Announcing => Announcing'
      PROVE  DiscoveryInv'
  BY <1>4 DEF DiscoveryInv, Topics
<1>5. ASSUME NEW t \in Starters,
             Subscribe(t) \/ Create(t) \/ Install(t) \/ Finish(t)
      PROVE  DiscoveryInv'
  <2>1. /\ UNCHANGED <<devices, up, discovery, losses>>
        /\ pc[t] \in {"subscribe", "create"}
        /\ \A u \in Threads : u # t => pc'[u] = pc[u]
    BY <1>5 DEF Subscribe, Create, Install, Finish, TypeOK
  <2> QED
    BY <1>4, <2>1 DEF Announcing, Threads
<1>6. ASSUME Arrive \/ Callback \/ Reconnect PROVE DiscoveryInv'
  <2>1. \A u \in Starters : pc'[u] = pc[u]
    BY <1>6, ThreadsAssumption DEF Arrive, Callback, Route, Announce, Resubscribe,
       Reconnect, TypeOK, Threads
  <2>2. UNCHANGED <<devices, discovery, losses>> /\ (up => up')
    BY <1>6 DEF Arrive, Callback, Route, Announce, Resubscribe, Reconnect
  <2> QED
    BY <2>1, <2>2 DEF DiscoveryInv, Announcing, Topics
<1>7. ASSUME LoseConnection PROVE DiscoveryInv'
  BY <1>7 DEF LoseConnection, DiscoveryInv, TypeOK
<1>8. ASSUME UNCHANGED vars PROVE DiscoveryInv'
  BY <1>4, <1>8 DEF vars, Announcing
<1> QED
  BY <1>1, <1>2, <1>3, <1>5, <1>6, <1>7, <1>8 DEF Next, Reload

(* A reload that read the list before an edit does not keep the edited device *)
(* from Home Assistant: only a loss of the connection does.                   *)
THEOREM OnlyLossHidesDevices == Spec => []DiscoveryUnlessLost
<1>1. Init => DiscoveryInv
  BY ThreadsAssumption DEF Init, DiscoveryInv, Announcing, Starters, Threads
<1>2. TypeOK /\ DiscoveryInv => DiscoveryUnlessLost
  BY DEF DiscoveryInv, DiscoveryUnlessLost, Settled, Announcing
<1>3. Spec => []TypeOK
  BY TypeCorrect
<1> QED
  BY <1>1, <1>2, <1>3, DiscoveryStep, PTL DEF Spec
-----------------------------------------------------------------------------
(* Reconnecting *)

LEMMA SubscribedStep == TypeOK /\ Subscribed /\ [Next]_vars => Subscribed'
<1> SUFFICES ASSUME TypeOK, Subscribed, [Next]_vars PROVE Subscribed'
  OBVIOUS
<1> USE ThreadsAssumption DEF Subscribed, manager, broker, bounds, Threads
<1>1. ASSUME UNCHANGED <<up, subs, subscribed>>, pc'[Client] = pc[Client] PROVE Subscribed'
  BY <1>1 DEF Topics
<1>2. ASSUME NEW t \in Requests, Request(t) PROVE Subscribed'
  <2>1. UNCHANGED <<up, subs, subscribed>>
    BY <1>2 DEF Request, AddDevice, UpdateDevice, DeleteDevice, ImportDevice,
       ImportEnds, Editing
  <2>2. pc'[Client] = pc[Client]
    BY <1>2 DEF Request, AddDevice, UpdateDevice, DeleteDevice, ImportDevice,
       ImportEnds, TypeOK, Starters
  <2> QED
    BY <1>1, <2>1, <2>2
<1>3. ASSUME NEW t \in Starters, Subscribe(t) PROVE Subscribed'
  BY <1>3 DEF Subscribe, Sent, TypeOK, Topics
<1>4. ASSUME NEW t \in Starters,
             Halt(t) \/ Begin(t) \/ Create(t) \/ Install(t) \/ Finish(t)
      PROVE  Subscribed'
  <2>1. UNCHANGED <<up, subs, subscribed>> /\ pc'[Client] = pc[Client]
    BY <1>4 DEF Halt, Begin, Create, Install, Finish, TypeOK
  <2> QED
    BY <1>1, <2>1
<1>5. ASSUME Arrive \/ Route PROVE Subscribed'
  <2>1. UNCHANGED <<up, subs, subscribed>> /\ pc[Client] \notin {"announce", "resubscribe"}
    BY <1>5 DEF Arrive, Route
  <2> QED
    BY <2>1 DEF Topics
<1>6. ASSUME Announce \/ LoseConnection \/ Reconnect PROVE Subscribed'
  BY <1>6 DEF Announce, LoseConnection, Reconnect, TypeOK
<1>7. ASSUME Resubscribe PROVE Subscribed'
  BY <1>7 DEF Resubscribe, Sent, TypeOK, Topics
<1>8. ASSUME UNCHANGED vars PROVE Subscribed'
  BY <1>1, <1>8 DEF vars
<1> QED
  BY <1>2, <1>3, <1>4, <1>5, <1>6, <1>7, <1>8 DEF Next, Reload, Callback

(* The session holds the command topic of every device MqttBridge knows,  *)
(* but for the time connected() takes after a reconnection.               *)
THEOREM SubscriptionsKept == Spec => []Subscribed
<1>1. Init => Subscribed
  BY ThreadsAssumption DEF Init, Subscribed, Threads, Starters
<1>2. TypeOK /\ Subscribed /\ [Next]_vars => Subscribed'
  BY SubscribedStep
<1> QED
  BY <1>1, <1>2, TypeCorrect, PTL DEF Spec

LEMMA AvailableStep == TypeOK /\ Available /\ [Next]_vars => Available'
<1> SUFFICES ASSUME TypeOK, Available, [Next]_vars PROVE Available'
  OBVIOUS
<1> USE ThreadsAssumption DEF Available, manager, broker, bounds, Threads
<1>1. ASSUME UNCHANGED <<up, status>>, pc'[Client] = pc[Client] PROVE Available'
  BY <1>1
<1>2. ASSUME NEW t \in Requests, Request(t) PROVE Available'
  <2>1. UNCHANGED <<up, status>> /\ pc'[Client] = pc[Client]
    BY <1>2 DEF Request, AddDevice, UpdateDevice, DeleteDevice, ImportDevice,
       ImportEnds, Editing, TypeOK, Starters
  <2> QED
    BY <1>1, <2>1
<1>3. ASSUME NEW t \in Starters,
             Halt(t) \/ Begin(t) \/ Subscribe(t) \/ Create(t) \/ Install(t)
      PROVE  Available'
  <2>1. UNCHANGED <<up, status>> /\ pc'[Client] = pc[Client]
    BY <1>3 DEF Halt, Begin, Subscribe, Create, Install, TypeOK
  <2> QED
    BY <1>1, <2>1
<1>4. ASSUME NEW t \in Starters, Finish(t) PROVE Available'
  BY <1>4 DEF Finish, TypeOK
<1>5. ASSUME Arrive \/ Route \/ Resubscribe PROVE Available'
  <2>1. UNCHANGED <<up, status>> /\ pc[Client] # "announce"
    BY <1>5 DEF Arrive, Route, Resubscribe
  <2> QED
    BY <2>1
<1>6. ASSUME Announce \/ LoseConnection \/ Reconnect PROVE Available'
  BY <1>6 DEF Announce, LoseConnection, Reconnect, TypeOK
<1>7. ASSUME UNCHANGED vars PROVE Available'
  BY <1>1, <1>7 DEF vars
<1> QED
  BY <1>2, <1>3, <1>4, <1>5, <1>6, <1>7 DEF Next, Reload, Callback

(* While it is connected, and has had the time to say so, the bridge is *)
(* shown as online.                                                     *)
THEOREM ShownOnline == Spec => []Available
<1>1. Init => Available
  BY ThreadsAssumption DEF Init, Available, Threads, Starters
<1>2. TypeOK /\ Available /\ [Next]_vars => Available'
  BY AvailableStep
<1> QED
  BY <1>1, <1>2, TypeCorrect, PTL DEF Spec
-----------------------------------------------------------------------------
(* The two mutexes *)

(* MqttBridge's mutex is held from one step to the next only while a command *)
(* is being routed.                                                          *)
RouteInv == mqttLock = Client <=> At(Client, "route")

LEMMA RouteStep == TypeOK /\ RouteInv /\ [Next]_vars => RouteInv'
<1> SUFFICES ASSUME TypeOK, RouteInv, [Next]_vars PROVE RouteInv'
  OBVIOUS
<1> USE ThreadsAssumption DEF RouteInv, manager, broker, bounds, Threads
<1>1. ASSUME mqttLock' = mqttLock, pc'[Client] = pc[Client] PROVE RouteInv'
  BY <1>1
<1>2. ASSUME NEW t \in Starters, (t \in Requests /\ Request(t)) \/ Reload(t)
      PROVE  RouteInv'
  <2>1. mqttLock' = mqttLock
    BY <1>2 DEF Request, AddDevice, UpdateDevice, DeleteDevice, ImportDevice, ImportEnds,
       Editing, Reload, Halt, Begin, Subscribe, Create, Install, Finish
  <2>2. pc' = pc \/ \E label \in Labels : pc' = [pc EXCEPT ![t] = label]
    BY <1>2 DEF Request, AddDevice, UpdateDevice, DeleteDevice, ImportDevice, ImportEnds,
       Reload, Halt, Begin, Subscribe, Create, Install, Finish, Labels
  <2>3. t # Client
    OBVIOUS
  <2> QED
    BY <1>1, <2>1, <2>2, <2>3 DEF TypeOK
<1>3. ASSUME Arrive \/ Callback PROVE RouteInv'
  BY <1>3 DEF Arrive, Callback, Route, Announce, Resubscribe, TypeOK
<1>4. ASSUME LoseConnection PROVE RouteInv'
  BY <1>1, <1>4 DEF LoseConnection
<1>5. ASSUME Reconnect PROVE RouteInv'
  BY <1>5 DEF Reconnect, TypeOK
<1>6. ASSUME UNCHANGED vars PROVE RouteInv'
  BY <1>1, <1>6 DEF vars
<1> QED
  BY <1>2, <1>3, <1>4, <1>5, <1>6 DEF Next, Starters

LEMMA LocksHold == Spec => [](TypeOK /\ StartInv /\ RouteInv)
<1>1. Init => RouteInv
  BY ThreadsAssumption DEF Init, RouteInv, Threads, Starters
<1> QED
  BY <1>1, RouteStep, StartInvHolds, PTL DEF Spec

(* For any number of devices and of threads, the reload that is to subscribe *)
(* and the command that is to be routed are the only two that can wait for   *)
(* each other: short of that, no thread waits in vain.                       *)
THEOREM NoOtherDeadlockCorrect == Spec => []NoOtherDeadlock
<1>1. ASSUME TypeOK, StartInv, RouteInv, ~Deadlocked, NEW t \in Threads, ~At(t, "idle")
      PROVE  GoesOn(t) \/ GoesOn(WaitsFor(t)) \/ GoesOn(WaitsFor(WaitsFor(t)))
  <2> USE ThreadsAssumption DEF Threads
  <2>1. ASSUME NEW u \in Starters, managerLock = u
        PROVE  GoesOn(u) \/ (At(u, "subscribe") /\ mqttLock = Client)
    <3>1. pc[u] \in {"subscribe", "create"}
      BY <1>1, <2>1 DEF StartInv
    <3> QED
      BY <1>1, <3>1 DEF TypeOK, GoesOn, WaitsFor
  <2>2. ASSUME NEW u \in Starters, managerLock = u PROVE GoesOn(u)
    BY <1>1, <2>1, <2>2 DEF RouteInv, Deadlocked
  <2>3. ASSUME mqttLock = Client PROVE GoesOn(Client) \/ GoesOn(WaitsFor(Client))
    <3>1. At(Client, "route")
      BY <1>1, <2>3 DEF RouteInv
    <3>2. WaitsFor(Client) = managerLock
      BY <3>1 DEF WaitsFor
    <3> QED
      BY <1>1, <2>2, <3>1, <3>2 DEF TypeOK, GoesOn
  <2>4. WaitsFor(t) \in {managerLock, mqttLock, Nobody}
    BY DEF WaitsFor
  <2> QED
    BY <1>1, <2>2, <2>3, <2>4 DEF TypeOK, GoesOn
<1>2. TypeOK /\ StartInv /\ RouteInv => NoOtherDeadlock
  BY <1>1 DEF NoOtherDeadlock
<1> QED
  BY <1>2, LocksHold, PTL

(* Once the two wait for each other it is for good: the reload keeps         *)
(* BridgeManager's mutex, so no other reload, no command and no status of    *)
(* the bridge is ever served again.                                          *)
THEOREM DeadlockLasts ==
    Spec => [][Deadlocked => Deadlocked' /\ managerLock' = managerLock]_vars
<1>1. ASSUME TypeOK, StartInv, RouteInv, [Next]_vars, Deadlocked
      PROVE  Deadlocked' /\ managerLock' = managerLock
  <2> USE <1>1, ThreadsAssumption DEF Deadlocked, Threads
  <2>1. PICK t \in Starters : managerLock = t /\ At(t, "subscribe")
    OBVIOUS
  <2>2. At(Client, "route") /\ mqttLock = Client /\ mqttLock # Nobody /\ managerLock # Nobody
    BY <2>1 DEF RouteInv
  <2>3. ASSUME pc' = pc, managerLock' = managerLock PROVE Deadlocked'
    BY <2>2, <2>1, <2>3
  <2>4. ASSUME NEW u \in Threads, u # t, u # Client, NEW label, Goto(u, label),
               managerLock' = managerLock
        PROVE  Deadlocked'
    BY <2>1, <2>2, <2>4 DEF TypeOK
  <2>5. ASSUME NEW u \in Requests, Request(u)
        PROVE  Deadlocked' /\ managerLock' = managerLock
    BY <2>1, <2>4, <2>5 DEF Request, AddDevice, UpdateDevice, DeleteDevice, ImportDevice,
       ImportEnds, Editing, Starters
  <2>6. ASSUME NEW u \in Starters PROVE ~Reload(u)
    <3>1. At(u, "create") => u = t
      BY <2>1 DEF StartInv
    <3> QED
      BY <2>1, <2>2, <3>1 DEF Reload, Halt, Begin, Subscribe, Create, Install, Finish
  <2>7. ~Callback /\ ~Arrive /\ ~Reconnect
    BY <2>1, <2>2 DEF Callback, Route, Announce, Resubscribe, Arrive, Reconnect
  <2>8. ASSUME LoseConnection \/ UNCHANGED vars
        PROVE  Deadlocked' /\ managerLock' = managerLock
    BY <2>3, <2>8 DEF LoseConnection, vars
  <2> QED
    BY <2>5, <2>6, <2>7, <2>8 DEF Next
<1>2. TypeOK /\ StartInv /\ RouteInv /\ [Next]_vars
        => [Deadlocked => Deadlocked' /\ managerLock' = managerLock]_vars
  BY <1>1
<1> QED
  BY <1>2, LocksHold, PTL DEF Spec
=============================================================================
