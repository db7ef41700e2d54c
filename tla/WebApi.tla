------------------------------ MODULE WebApi -------------------------------
(***************************************************************************)
(* The HTTP API as the web application sees it: the calls of ApiService,   *)
(* in flight together and answered in any order, and the handlers of       *)
(* ApiController that serve them.                                          *)
(*                                                                         *)
(* A call names the component that waits for its answer.  Closing the      *)
(* component does not cancel the call: the server serves it all the same,  *)
(* and its answer finds nobody (Angular drops the outputs of a component   *)
(* it has destroyed).  Of a device's entry the local key is kept, which    *)
(* the server never shows; names and ids decide what is refused.           *)
(***************************************************************************)
EXTENDS Naturals

CONSTANTS Names,        \* the names of devices
          None,         \* no name, no call, no component
          MaxRequests,  \* bound: calls made by the user
          MaxPolls,     \* bound: loads of the list in flight together
          MaxFaults     \* bound: calls the network loses

ASSUME NoneAssumption == None \notin Names

ASSUME BoundsAssumption ==
    /\ MaxRequests \in Nat /\ MaxFaults \in Nat
    /\ MaxPolls \in Nat \ {0}

VARIABLES
    store,     \* the list of devices: the key of each, or "absent"
    requests,  \* the user's calls in flight, by number
    sent,      \* calls made so far
    polls,     \* GET /api/devices in flight
    faults     \* calls lost so far

apiVars == <<store, requests, sent, polls, faults>>

Ids == 1 .. MaxRequests

\* 16 characters, the mask "****" (or anything else of another length), nothing
Keys == {"whole", "mask", "none"}

Components == {"table", "form", "dialog", "settings", "gone"}

Operations ==
    {"addDevice", "updateDevice", "deleteDevice", "sendCommand", "cloudDiscover",
     "cloudImport", "getSettings", "updateSettings"}

\* What the call is about, the key and the id it carries, its answer so far.
Calls == [from : Components, op : Operations, names : SUBSET Names, key : Keys,
          id : BOOLEAN, answer : {"pending", "ok", "error"}]

ASSUME CallAssumption == None \notin Calls

Poll == [at : {"free", "sent", "answered"}, names : SUBSET Names]

FreePoll == [at |-> "free", names |-> {}]

ApiInit ==
    /\ store \in [Names -> {"absent", "whole"}]
    /\ requests = [i \in Ids |-> None]
    /\ sent = 0
    /\ faults = 0
-----------------------------------------------------------------------------
\* ApiService

Call(from, op, names, key, id) ==
    [from |-> from, op |-> op, names |-> names, key |-> key, id |-> id,
     answer |-> "pending"]

\* A call made while those of `others` are in flight.
PostBeside(others, call) ==
    /\ sent < MaxRequests
    /\ sent' = sent + 1
    /\ requests' = [others EXCEPT ![sent + 1] = call]

Post(call) == PostBeside(requests, call)

\* The calls of these components are still in flight, for nobody.
Unheard(components) ==
    [i \in Ids |-> IF requests[i] # None /\ requests[i].from \in components
                   THEN [requests[i] EXCEPT !.from = "gone"]
                   ELSE requests[i]]

\* loadDevices: one more GET of the list.
LoadDevices ==
    \E p \in DOMAIN polls :
        /\ polls[p].at = "free"
        /\ \A q \in DOMAIN polls : q < p => polls[q].at # "free"
        /\ polls' = [polls EXCEPT ![p].at = "sent"]
-----------------------------------------------------------------------------
\* ApiController

Pending(i, op) ==
    /\ requests[i] # None
    /\ requests[i].op = op
    /\ requests[i].answer = "pending"

Answer(i, verdict) ==
    /\ requests' = [requests EXCEPT ![i].answer = IF verdict THEN "ok" ELSE "error"]
    /\ UNCHANGED <<sent, polls, faults>>

\* ConfigManager keeps the first device of a name; entries without a name or an
\* id are refused before.
Added(i, key) ==
    [n \in Names |->
        IF n \in requests[i].names /\ requests[i].id /\ store[n] = "absent"
        THEN key ELSE store[n]]

AddDevice(i) ==
    /\ Pending(i, "addDevice")
    /\ store' = Added(i, requests[i].key)
    /\ Answer(i, store' # store)

\* The whole entry is replaced by what the request says, key included.
UpdateDevice(i) ==
    /\ Pending(i, "updateDevice")
    /\ \E n \in requests[i].names :
          /\ store' = IF store[n] = "absent" THEN store
                      ELSE [store EXCEPT ![n] = requests[i].key]
          /\ Answer(i, store[n] # "absent")

DeleteDevice(i) ==
    /\ Pending(i, "deleteDevice")
    /\ \E n \in requests[i].names :
          /\ store' = [store EXCEPT ![n] = "absent"]
          /\ Answer(i, store[n] # "absent")

\* Refused without a worker, as while the workers are being replaced.
SendCommand(i) ==
    /\ Pending(i, "sendCommand")
    /\ \E verdict \in BOOLEAN : Answer(i, verdict)
    /\ UNCHANGED store

\* The cloud is external: any devices, or an error.
CloudDiscover(i) ==
    /\ Pending(i, "cloudDiscover")
    /\ \/ \E found \in SUBSET Names :
              requests' = [requests EXCEPT ![i].names = found, ![i].answer = "ok"]
       \/ requests' = [requests EXCEPT ![i].answer = "error"]
    /\ UNCHANGED <<store, sent, polls, faults>>

\* The key is whatever the cloud calls "key", if anything; names already taken
\* are passed over, and the answer is a success whatever was imported.
CloudImport(i) ==
    /\ Pending(i, "cloudImport")
    /\ \E key \in {"whole", "none"} : store' = Added(i, key)
    /\ Answer(i, TRUE)

GetSettings(i) ==
    /\ Pending(i, "getSettings")
    /\ Answer(i, TRUE)
    /\ UNCHANGED store

\* Fault: a return without an answer.
NoCallback(i) == FALSE

\* Always 501: the settings are read-only.
UpdateSettings(i) ==
    /\ Pending(i, "updateSettings")
    /\ Answer(i, FALSE)
    /\ UNCHANGED store

Serve(i) ==
    \/ AddDevice(i) \/ UpdateDevice(i) \/ DeleteDevice(i) \/ SendCommand(i)
    \/ CloudDiscover(i) \/ CloudImport(i) \/ GetSettings(i) \/ UpdateSettings(i)

\* getDevices
ServePoll(p) ==
    /\ polls[p].at = "sent"
    /\ polls' = [polls EXCEPT ![p] =
                    [at |-> "answered", names |-> {n \in Names : store[n] # "absent"}]]
    /\ UNCHANGED <<store, requests, sent, faults>>

\* The call, or only its answer, is lost: the browser reports an error.
Lose(i) ==
    /\ faults < MaxFaults
    /\ requests[i] # None
    /\ requests[i].answer # "error"
    /\ requests' = [requests EXCEPT ![i].answer = "error"]
    /\ faults' = faults + 1
    /\ UNCHANGED <<store, sent, polls>>

\* A load that fails changes nothing on the page.
LosePoll(p) ==
    /\ faults < MaxFaults
    /\ polls[p].at # "free"
    /\ polls' = [polls EXCEPT ![p] = FreePoll]
    /\ faults' = faults + 1
    /\ UNCHANGED <<store, requests, sent>>

Server ==
    \/ \E i \in Ids : Serve(i) \/ Lose(i)
    \/ \E p \in DOMAIN polls : ServePoll(p) \/ LosePoll(p)
=============================================================================
