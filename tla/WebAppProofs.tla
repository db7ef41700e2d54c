--------------------------- MODULE WebAppProofs ----------------------------
(***************************************************************************)
(* Theorems about WebApp for any devices and any number of calls, of loads *)
(* in flight and of losses.                                                *)
(*                                                                         *)
(* A step closes components, ends calls and makes a call, or does some of  *)
(* these: Effect says so, once for each action, and the invariants about   *)
(* the calls follow from the effects.                                      *)
(***************************************************************************)
EXTENDS WebApp, TLAPS

CallsType == requests \in [Ids -> Calls \cup {None}] /\ sent \in 0 .. MaxRequests

\* Calls are numbered in the order in which they are made.
Fresh == \A i \in Ids : sent < i => requests[i] = None

\* The call goes on, for nobody if the component it came from is closed.
Goes(i, closed) ==
    IF requests[i] = None THEN requests'[i] = None
    ELSE /\ requests'[i] # None
         /\ requests'[i].op = requests[i].op /\ requests'[i].key = requests[i].key
         /\ requests[i].op = "sendCommand" => requests'[i].names = requests[i].names
         /\ requests'[i].from = IF requests[i].from \in closed THEN "gone"
                                ELSE requests[i].from

\* Components are closed, calls are over, one may be made.
Effect(closed, over, new) ==
    /\ CallsType'
    /\ IF new = None THEN sent' = sent ELSE sent' = sent + 1 /\ new \in Calls
    /\ \A i \in Ids :
          IF new # None /\ i = sent + 1 THEN requests'[i] = new
          ELSE IF i \in over THEN requests'[i] = None
          ELSE Goes(i, closed)
    /\ own' \in [Components -> SUBSET Ids]
    /\ \A c \in Components \ {"gone"} :
          own'[c] = (IF c \in closed THEN {} ELSE own[c] \ over)
                    \cup (IF new # None /\ new.from = c THEN {sent + 1} ELSE {})

OwnType == own \in [Components -> SUBSET Ids]
-----------------------------------------------------------------------------
\* What makes an effect

LEMMA CallIn ==
    ASSUME NEW from \in Components, NEW op \in Operations, NEW names \in SUBSET Names,
           NEW key \in Keys, NEW id \in BOOLEAN
    PROVE  /\ Call(from, op, names, key, id) \in Calls
           /\ Call(from, op, names, key, id) # None
           /\ Call(from, op, names, key, id).from = from
           /\ Call(from, op, names, key, id).op = op
           /\ Call(from, op, names, key, id).key = key
  BY CallAssumption DEF Call, Calls

LEMMA SettingsCallIn ==
    ASSUME NEW op \in {"getSettings", "updateSettings"}
    PROVE  /\ Call("settings", op, {}, "none", FALSE) \in Calls
           /\ Call("settings", op, {}, "none", FALSE) # None
<1>1. Call("settings", op, {}, "none", FALSE) \in Calls
  BY DEF Call, Calls, Components, Operations, Keys
<1> QED
  BY <1>1, CallAssumption

LEMMA SendEffect ==
    ASSUME CallsType, OwnType, NEW from \in Components, NEW op \in Operations,
           NEW names \in SUBSET Names, NEW key \in Keys, NEW id \in BOOLEAN,
           Send(from, op, names, key, id)
    PROVE  Effect({}, {}, Call(from, op, names, key, id))
<1> DEFINE call == Call(from, op, names, key, id)
<1>1. call \in Calls /\ call # None /\ call.from = from
  BY CallIn
<1>2. /\ sent < MaxRequests /\ sent' = sent + 1
      /\ requests' = [requests EXCEPT ![sent + 1] = call]
      /\ own' = [own EXCEPT ![from] = own[from] \cup {sent + 1}]
  BY DEF Send, Post, PostBeside
<1> HIDE DEF call
<1>3. sent + 1 \in Ids /\ sent' \in 0 .. MaxRequests
  BY <1>2, BoundsAssumption DEF CallsType, Ids
<1>4. CallsType' /\ \A i \in Ids : requests'[i] = IF i = sent + 1 THEN call ELSE requests[i]
  BY <1>1, <1>2, <1>3 DEF CallsType
<1>5. \A i \in Ids : i # sent + 1 => Goes(i, {})
  BY <1>4 DEF Goes
<1>6. /\ own' \in [Components -> SUBSET Ids]
      /\ \A c \in Components : own'[c] = own[c] \cup (IF c = from THEN {sent + 1} ELSE {})
  BY <1>2, <1>3 DEF OwnType
<1>7. Effect({}, {}, call)
  BY <1>1, <1>2, <1>4, <1>5, <1>6 DEF Effect
<1> QED
  BY <1>7 DEF call

LEMMA UnheardProps ==
    ASSUME CallsType, NEW closed
    PROVE  /\ Unheard(closed) \in [Ids -> Calls \cup {None}]
           /\ \A i \in Ids : IF requests[i] = None THEN Unheard(closed)[i] = None
                ELSE /\ Unheard(closed)[i] # None
                     /\ Unheard(closed)[i].op = requests[i].op
                     /\ Unheard(closed)[i].key = requests[i].key
                     /\ Unheard(closed)[i].names = requests[i].names
                     /\ Unheard(closed)[i].from = IF requests[i].from \in closed THEN "gone"
                                                  ELSE requests[i].from
<1> SUFFICES ASSUME NEW i \in Ids
             PROVE  /\ Unheard(closed)[i] \in Calls \cup {None}
                    /\ IF requests[i] = None THEN Unheard(closed)[i] = None
                       ELSE /\ Unheard(closed)[i] # None
                            /\ Unheard(closed)[i].op = requests[i].op
                            /\ Unheard(closed)[i].key = requests[i].key
                            /\ Unheard(closed)[i].names = requests[i].names
                            /\ Unheard(closed)[i].from =
                                  IF requests[i].from \in closed THEN "gone"
                                  ELSE requests[i].from
  BY DEF Unheard
<1>1. CASE requests[i] = None
  BY <1>1 DEF Unheard
<1>2. CASE requests[i] # None
  <2>1. requests[i] \in Calls
    BY <1>2 DEF CallsType
  <2>2. CASE requests[i].from \in closed
    <3> DEFINE r == [requests[i] EXCEPT !.from = "gone"]
    <3>1. /\ r \in Calls /\ r.from = "gone" /\ r.op = requests[i].op
          /\ r.key = requests[i].key /\ r.names = requests[i].names
      BY <2>1 DEF Calls, Components
    <3>2. Unheard(closed)[i] = r
      BY <1>2, <2>2 DEF Unheard
    <3> HIDE DEF r
    <3> QED
      BY <1>2, <2>2, <3>1, <3>2, CallAssumption
  <2>3. CASE requests[i].from \notin closed
    BY <1>2, <2>1, <2>3 DEF Unheard
  <2> QED
    BY <2>2, <2>3
<1> QED
  BY <1>1, <1>2

LEMMA DestroyEffect ==
    ASSUME CallsType, OwnType, NEW closed, Destroy(closed), sent' = sent
    PROVE  Effect(closed, {}, None)
<1>1. CallsType' /\ \A i \in Ids : Goes(i, closed)
  BY UnheardProps DEF Destroy, CallsType, Goes
<1>2. /\ own' \in [Components -> SUBSET Ids]
      /\ \A c \in Components : own'[c] = IF c \in closed THEN {} ELSE own[c]
  BY DEF Destroy, OwnType
<1> QED
  BY <1>1, <1>2 DEF Effect

LEMMA DoneEffect ==
    ASSUME CallsType, OwnType, NEW closed, NEW i \in Ids, Done(i, closed), sent' = sent
    PROVE  Effect(closed, {i}, None)
<1>1. CallsType' /\ requests'[i] = None /\ \A j \in Ids : j # i => Goes(j, closed)
  BY UnheardProps DEF Done, CallsType, Goes
<1>2. /\ own' \in [Components -> SUBSET Ids]
      /\ \A c \in Components : own'[c] = IF c \in closed THEN {} ELSE own[c] \ {i}
  BY DEF Done, OwnType
<1> QED
  BY <1>1, <1>2 DEF Effect

LEMMA SameEffect ==
    ASSUME CallsType, OwnType, UNCHANGED <<requests, sent, own>>
    PROVE  Effect({}, {}, None)
  BY DEF Effect, CallsType, OwnType, Goes

\* An answer changes nothing else in the call, but for what a discovery found.
LEMMA AnswerEffect ==
    ASSUME CallsType, OwnType, NEW i \in Ids, requests[i] # None,
           NEW answer \in {"pending", "ok", "error"}, NEW names \in SUBSET Names,
           \/ requests' = [requests EXCEPT ![i].answer = answer]
           \/ /\ requests[i].op = "cloudDiscover"
              /\ requests' = [requests EXCEPT ![i].names = names, ![i].answer = answer],
           UNCHANGED <<sent, own>>
    PROVE  Effect({}, {}, None)
<1>1. requests[i] \in Calls
  BY DEF CallsType
<1> DEFINE r == [requests[i] EXCEPT !.answer = answer]
           s == [requests[i] EXCEPT !.names = names, !.answer = answer]
<1>2. /\ r \in Calls /\ r.from = requests[i].from /\ r.op = requests[i].op
      /\ r.key = requests[i].key /\ r.names = requests[i].names
  BY <1>1 DEF Calls
<1>3. /\ s \in Calls /\ s.from = requests[i].from /\ s.op = requests[i].op
      /\ s.key = requests[i].key
  BY <1>1 DEF Calls
<1>4. \/ requests' = [requests EXCEPT ![i] = r]
      \/ requests[i].op = "cloudDiscover" /\ requests' = [requests EXCEPT ![i] = s]
  OBVIOUS
<1> HIDE DEF r, s
<1>5. CallsType' /\ \A j \in Ids : Goes(j, {})
  BY <1>2, <1>3, <1>4, CallAssumption DEF CallsType, Goes
<1> QED
  BY <1>5 DEF Effect, OwnType
-----------------------------------------------------------------------------
\* The invariant

ScreenType ==
    /\ page \in {"devices", "settings"}
    /\ form \in Forms \cup {None}
    /\ dialog \in Dialogs \cup {None}
    /\ settings \in SettingsPages \cup {None}

DataType ==
    /\ store \in [Names -> Keys \cup {"absent"}]
    /\ faults \in 0 .. MaxFaults
    /\ polls \in [1 .. MaxPolls -> Poll]
    /\ devices \in [Names -> Rows]

\* What is on the screen goes with the page.
PageInv ==
    /\ page = "devices" <=> settings = None
    /\ page = "settings" => form = None /\ dialog = None

SaveOps == {"addDevice", "updateDevice"}

CloudOps == {"cloudDiscover", "cloudImport"}

FormInv ==
    /\ form = None => Waits("form", Operations) = {}
    /\ form # None => /\ Busy(form.saving, Waits("form", SaveOps))
                      /\ form.edit => form.name # None

\* Devices are being looked for only on the first page of the dialog.
DialogInv ==
    /\ dialog = None => Waits("dialog", Operations) = {}
    /\ dialog # None => /\ Busy(dialog.loading, Waits("dialog", CloudOps))
                        /\ Waits("dialog", {"cloudDiscover"}) # {} => dialog.step = "creds"

SettingsInv ==
    /\ settings = None => Waits("settings", Operations) = {}
    /\ settings # None => /\ Busy(settings.loading, Waits("settings", {"getSettings"}))
                          /\ Busy(settings.saving, Waits("settings", {"updateSettings"}))
                          /\ settings.shown = "typed" => ~settings.loading

OwnInv ==
    \A i \in Ids : requests[i] # None /\ requests[i].from # "gone" =>
        i \in own[requests[i].from]

\* Every key on its way to the server is one the user typed.
KeyGiven(call) == call.op \in SaveOps => call.key = "whole"

KeyInv ==
    /\ KeysReal
    /\ \A i \in Ids : requests[i] # None => KeyGiven(requests[i])

CallsInv == CallsType /\ OwnType /\ Fresh /\ OwnInv

ScreenInv == ScreenType /\ PageInv /\ FormInv /\ DialogInv /\ SettingsInv
-----------------------------------------------------------------------------
\* What an effect preserves

LEMMA EffectFresh ==
    ASSUME CallsType, Fresh, NEW closed, NEW over, NEW new, Effect(closed, over, new)
    PROVE  Fresh'
<1> SUFFICES ASSUME NEW i \in Ids, sent' < i
             PROVE  requests'[i] = None
  BY DEF Fresh
<1>1. i \in Nat /\ sent \in Nat /\ sent < i /\ ~(new # None /\ i = sent + 1)
  BY BoundsAssumption DEF Effect, CallsType, Ids
<1>2. requests[i] = None
  BY <1>1 DEF Fresh
<1> QED
  BY <1>1, <1>2 DEF Effect, Goes

LEMMA EffectOwn ==
    ASSUME CallsType, OwnInv, NEW closed, NEW over, NEW new, Effect(closed, over, new)
    PROVE  OwnInv'
<1> SUFFICES ASSUME NEW i \in Ids, requests'[i] # None, requests'[i].from # "gone"
             PROVE  i \in own'[requests'[i].from]
  BY DEF OwnInv
<1>1. requests'[i].from \in Components \ {"gone"}
  BY DEF Effect, CallsType, Calls
<1>2. CASE new # None /\ i = sent + 1
  BY <1>1, <1>2 DEF Effect
<1>3. CASE ~(new # None /\ i = sent + 1)
  <2>1. i \notin over /\ Goes(i, closed)
    BY <1>3 DEF Effect
  <2>2. /\ requests[i] # None /\ requests[i].from = requests'[i].from
        /\ requests[i].from \notin closed
    BY <2>1 DEF Goes
  <2>3. i \in own[requests[i].from]
    BY <2>2 DEF OwnInv
  <2> QED
    BY <1>1, <2>1, <2>2, <2>3 DEF Effect
<1> QED
  BY <1>2, <1>3

LEMMA EffectWaits ==
    ASSUME CallsType, Fresh, NEW closed, NEW over, NEW new, Effect(closed, over, new),
           NEW c \in Components \ {"gone"}, NEW ops
    PROVE  Waits(c, ops)' = (IF c \in closed THEN {} ELSE Waits(c, ops) \ over)
                \cup (IF new # None /\ new.from = c /\ new.op \in ops THEN {sent + 1} ELSE {})
<1>1. new # None => sent + 1 \in Ids /\ requests[sent + 1] = None
  BY BoundsAssumption DEF Effect, CallsType, Ids, Fresh
<1>2. ASSUME NEW i \in Ids
      PROVE  i \in Waits(c, ops)' <=>
                \/ c \notin closed /\ i \in Waits(c, ops) /\ i \notin over
                \/ new # None /\ new.from = c /\ new.op \in ops /\ i = sent + 1
  <2>1. CASE new # None /\ i = sent + 1
    BY <1>1, <2>1 DEF Effect, Waits
  <2>2. CASE ~(new # None /\ i = sent + 1)
    BY <2>2 DEF Effect, Goes, Waits
  <2> QED
    BY <2>1, <2>2
<1>3. Waits(c, ops) \subseteq Ids /\ Waits(c, ops)' \subseteq Ids
  BY DEF Waits
<1> QED
  BY <1>1, <1>2, <1>3

LEMMA EffectKeys ==
    ASSUME CallsType, \A i \in Ids : requests[i] # None => KeyGiven(requests[i]),
           NEW closed, NEW over, NEW new, Effect(closed, over, new), new # None => KeyGiven(new)
    PROVE  \A i \in Ids : requests'[i] # None => KeyGiven(requests'[i])
  BY DEF Effect, Goes, KeyGiven

\* Only component c is concerned.
Within(c) ==
    \E closed \in SUBSET {c}, over \in SUBSET Ids, new \in Calls \cup {None} :
        /\ Effect(closed, over, new)
        /\ new # None => new.from = c /\ KeyGiven(new)
        /\ \A i \in over : requests[i].from = c

LEMMA WithinIntro ==
    ASSUME NEW c, NEW closed \in SUBSET {c}, NEW over \in SUBSET Ids,
           NEW new \in Calls \cup {None}, Effect(closed, over, new),
           new # None => new.from = c /\ KeyGiven(new),
           \A i \in over : requests[i].from = c
    PROVE  Within(c)
  BY DEF Within

LEMMA WithinWaits ==
    ASSUME CallsType, Fresh, NEW d, Within(d), NEW c \in Components \ {"gone"}, c # d, NEW ops
    PROVE  Waits(c, ops)' = Waits(c, ops)
<1>1. PICK closed \in SUBSET {d}, over \in SUBSET Ids, new \in Calls \cup {None} :
          /\ Effect(closed, over, new)
          /\ new # None => new.from = d
          /\ \A i \in over : requests[i].from = d
  BY DEF Within
<1>2. Waits(c, ops) \ over = Waits(c, ops)
  BY <1>1 DEF Waits
<1>3. c \notin closed /\ ~(new # None /\ new.from = c)
  BY <1>1
<1>4. Waits(c, ops)' = (IF c \in closed THEN {} ELSE Waits(c, ops) \ over)
                \cup (IF new # None /\ new.from = c /\ new.op \in ops THEN {sent + 1} ELSE {})
  BY <1>1, EffectWaits
<1> QED
  BY <1>2, <1>3, <1>4

LEMMA WithinCalls ==
    ASSUME CallsInv, NEW d, Within(d)
    PROVE  CallsInv'
<1>1. PICK closed \in SUBSET {d}, over \in SUBSET Ids, new \in Calls \cup {None} :
          Effect(closed, over, new)
  BY DEF Within
<1>2. Fresh' /\ OwnInv'
  BY <1>1, EffectFresh, EffectOwn DEF CallsInv
<1> QED
  BY <1>1, <1>2 DEF CallsInv, Effect, OwnType
-----------------------------------------------------------------------------
\* Steps that leave the form, the dialog and the settings alone

Nobody == UNCHANGED <<page, form, dialog, settings>>

LEMMA QuietWithin ==
    ASSUME NEW c, Effect({}, {}, None)
    PROVE  Within(c)
<1>1. {} \in SUBSET {c} /\ {} \in SUBSET Ids /\ None \in Calls \cup {None}
  OBVIOUS
<1> QED
  BY <1>1, WithinIntro

LEMMA SameWithin ==
    ASSUME CallsInv, NEW c, UNCHANGED <<requests, sent, own>>
    PROVE  Within(c)
  BY SameEffect, QuietWithin DEF CallsInv

LEMMA SendWithin ==
    ASSUME CallsInv, NEW from \in Components, NEW op \in Operations,
           NEW names \in SUBSET Names, NEW key \in Keys, NEW id \in BOOLEAN,
           op \in SaveOps => key = "whole", Send(from, op, names, key, id)
    PROVE  Effect({}, {}, Call(from, op, names, key, id)) /\ Within(from)
<1> DEFINE call == Call(from, op, names, key, id)
<1>1. Effect({}, {}, call)
  BY SendEffect DEF CallsInv
<1>2. call \in Calls /\ call.from = from /\ KeyGiven(call)
  BY CallIn DEF KeyGiven
<1> HIDE DEF call
<1>3. Within(from)
  BY <1>1, <1>2, WithinIntro
<1> QED
  BY <1>1, <1>3 DEF call

TableAction ==
    \/ Tick
    \/ \E n \in Names : TogglePower(n)
    \/ \E p \in DOMAIN polls : ReceivePoll(p)
    \/ \E i \in Ids : ReceiveCommand(i)

LEMMA TableStep ==
    ASSUME CallsInv, TableAction
    PROVE  Within("table") /\ Nobody
<1>1. CASE Tick
  BY <1>1, SameWithin DEF Tick, pageVars, Nobody
<1>2. ASSUME NEW n \in Names, TogglePower(n)
      PROVE  Within("table") /\ Nobody
  <2>1. /\ "table" \in Components /\ "sendCommand" \in Operations /\ "none" \in Keys
        /\ {n} \in SUBSET Names /\ "sendCommand" \notin SaveOps
    BY DEF Components, Operations, Keys, SaveOps
  <2>2. Send("table", "sendCommand", {n}, "none", FALSE)
    BY <1>2 DEF TogglePower
  <2>3. Within("table")
    BY <2>1, <2>2, SendWithin
  <2> QED
    BY <1>2, <2>3 DEF TogglePower, Nobody
<1>3. ASSUME NEW p \in DOMAIN polls, ReceivePoll(p)
      PROVE  Within("table") /\ Nobody
  <2>1. Effect({"table"}, {}, None)
    BY <1>3, DestroyEffect DEF ReceivePoll, CallsInv
  <2>2. Within("table")
    BY <2>1, WithinIntro
  <2> QED
    BY <1>3, <2>2 DEF ReceivePoll, Nobody
<1>4. ASSUME NEW i \in Ids, ReceiveCommand(i)
      PROVE  Within("table") /\ Nobody
  <2>1. requests[i].from = "table" /\ Done(i, {}) /\ sent' = sent /\ Nobody
    BY <1>4 DEF ReceiveCommand, Answered, Nobody
  <2>2. Effect({}, {i}, None)
    BY <2>1, DoneEffect DEF CallsInv
  <2> QED
    BY <2>1, <2>2, WithinIntro
<1> QED
  BY <1>1, <1>2, <1>3, <1>4 DEF TableAction

LEMMA ServeEffect ==
    ASSUME CallsInv, NEW i \in Ids, Serve(i), UNCHANGED own
    PROVE  Effect({}, {}, None)
<1>1. CASE CloudDiscover(i)
  <2>1. requests[i] # None /\ requests[i].op = "cloudDiscover" /\ sent' = sent
    BY <1>1 DEF CloudDiscover, Pending
  <2>2. \/ \E found \in SUBSET Names :
              requests' = [requests EXCEPT ![i].names = found, ![i].answer = "ok"]
        \/ requests' = [requests EXCEPT ![i].answer = "error"]
    BY <1>1 DEF CloudDiscover
  <2> QED
    BY <2>1, <2>2, AnswerEffect DEF CallsInv
<1>2. ASSUME NEW verdict, Answer(i, verdict), requests[i] # None
      PROVE  Effect({}, {}, None)
  <2>1. CASE verdict
    <3>1. requests' = [requests EXCEPT ![i].answer = "ok"] /\ sent' = sent
      BY <1>2, <2>1 DEF Answer
    <3> QED
      BY <1>2, <3>1, AnswerEffect DEF CallsInv
  <2>2. CASE ~verdict
    <3>1. requests' = [requests EXCEPT ![i].answer = "error"] /\ sent' = sent
      BY <1>2, <2>2 DEF Answer
    <3> QED
      BY <1>2, <3>1, AnswerEffect DEF CallsInv
  <2> QED
    BY <2>1, <2>2
<1>3. CASE AddDevice(i)
  BY <1>3, <1>2 DEF AddDevice, Pending
<1>4. CASE UpdateDevice(i)
  BY <1>4, <1>2 DEF UpdateDevice, Pending
<1>5. CASE DeleteDevice(i)
  BY <1>5, <1>2 DEF DeleteDevice, Pending
<1>6. CASE SendCommand(i)
  BY <1>6, <1>2 DEF SendCommand, Pending
<1>7. CASE CloudImport(i) \/ GetSettings(i) \/ UpdateSettings(i)
  BY <1>7, <1>2 DEF CloudImport, GetSettings, UpdateSettings, Pending
<1> QED
  BY <1>1, <1>3, <1>4, <1>5, <1>6, <1>7 DEF Serve

RestAction ==
    \/ \E i \in Ids : ReceiveNothing(i)
    \/ Server /\ UNCHANGED pageVars
    \/ UNCHANGED vars

LEMMA RestStep ==
    ASSUME CallsInv, RestAction
    PROVE  Within("gone") /\ Nobody
<1>1. ASSUME NEW i \in Ids, ReceiveNothing(i)
      PROVE  Within("gone") /\ Nobody
  <2>1. requests[i].from = "gone" /\ Done(i, {}) /\ sent' = sent /\ Nobody
    BY <1>1 DEF ReceiveNothing, Nobody
  <2>2. Effect({}, {i}, None)
    BY <2>1, DoneEffect DEF CallsInv
  <2> QED
    BY <2>1, <2>2, WithinIntro
<1>2. CASE Server /\ UNCHANGED pageVars
  <2>1. UNCHANGED own /\ Nobody
    BY <1>2 DEF pageVars, Nobody
  <2>2. ASSUME NEW i \in Ids, Serve(i)
        PROVE  Within("gone")
    BY <2>1, <2>2, ServeEffect, QuietWithin
  <2>3. ASSUME NEW i \in Ids, Lose(i)
        PROVE  Within("gone")
    <3>1. /\ requests[i] # None /\ sent' = sent
          /\ requests' = [requests EXCEPT ![i].answer = "error"]
      BY <2>3 DEF Lose
    <3>2. Effect({}, {}, None)
      BY <2>1, <3>1, AnswerEffect DEF CallsInv
    <3> QED
      BY <3>2, QuietWithin
  <2>4. ASSUME NEW p \in DOMAIN polls, ServePoll(p) \/ LosePoll(p)
        PROVE  Within("gone")
    BY <2>1, <2>4, SameWithin DEF ServePoll, LosePoll
  <2> QED
    BY <1>2, <2>1, <2>2, <2>3, <2>4 DEF Server
<1>3. CASE UNCHANGED vars
  BY <1>3, SameWithin DEF vars, apiVars, pageVars, Nobody
<1> QED
  BY <1>1, <1>2, <1>3 DEF RestAction

LEMMA NobodyStep ==
    ASSUME CallsInv, ScreenInv, NEW c \in {"table", "gone"}, Within(c), Nobody
    PROVE  CallsInv' /\ ScreenInv'
<1>1. CallsType /\ Fresh
  BY DEF CallsInv
<1>2. \A d \in {"form", "dialog", "settings"} : \A ops : Waits(d, ops)' = Waits(d, ops)
  BY <1>1, WithinWaits DEF Components
<1>3. FormInv' /\ DialogInv' /\ SettingsInv'
  BY <1>2 DEF ScreenInv, FormInv, DialogInv, SettingsInv, Nobody, Busy
<1>4. ScreenType' /\ PageInv'
  BY DEF ScreenInv, ScreenType, PageInv, Nobody
<1> QED
  BY <1>3, <1>4, WithinCalls DEF ScreenInv
-----------------------------------------------------------------------------
\* The form

LEMMA FormsFields ==
    ASSUME NEW f \in Forms
    PROVE  /\ f.edit \in BOOLEAN /\ f.id \in BOOLEAN /\ f.name \in Names \cup {None}
           /\ f.filled \in BOOLEAN /\ f.key \in Keys /\ f.saving \in BOOLEAN
           /\ f # None
  BY PageAssumption DEF Forms

LEMMA FormsSaving ==
    ASSUME NEW f \in Forms, NEW saving \in BOOLEAN
    PROVE  /\ [f EXCEPT !.saving = saving] \in Forms
           /\ [f EXCEPT !.saving = saving].saving = saving
           /\ [f EXCEPT !.saving = saving].edit = f.edit
           /\ [f EXCEPT !.saving = saving].name = f.name
  BY DEF Forms

\* The calls of the form after a step.
LEMMA FormWaits ==
    ASSUME CallsInv, NEW closed, NEW over, NEW new, Effect(closed, over, new), NEW ops
    PROVE  Waits("form", ops)' =
              (IF "form" \in closed THEN {} ELSE Waits("form", ops) \ over)
              \cup (IF new # None /\ new.from = "form" /\ new.op \in ops THEN {sent + 1} ELSE {})
  BY EffectWaits DEF CallsInv, Components

LEMMA WaitsOfAll ==
    ASSUME NEW c, NEW ops \in SUBSET Operations, Waits(c, Operations) = {}
    PROVE  Waits(c, ops) = {}
  BY DEF Waits

FormAction ==
    \/ OpenAdd \/ \E n \in Names : OpenEdit(n)
    \/ TypeForm \/ Save \/ ConfirmDelete \/ CloseForm
    \/ \E i \in Ids : ReceiveForm(i)

LEMMA OpenStep ==
    ASSUME CallsInv, ScreenInv, OpenAdd \/ \E n \in Names : OpenEdit(n)
    PROVE  /\ Within("form") /\ FormInv' /\ form' \in Forms /\ page = "devices"
           /\ UNCHANGED <<page, dialog, settings>>
<1>1. /\ UNCHANGED <<requests, sent, own>> /\ UNCHANGED <<page, dialog, settings>>
      /\ form = None /\ page = "devices"
  BY DEF OpenAdd, OpenEdit, TableFree, apiVars
<1>2. /\ form' \in Forms /\ form'.saving = FALSE
      /\ form'.edit => form'.name # None
  <2>1. CASE OpenAdd
    BY <2>1 DEF OpenAdd, Opened, Forms, Keys
  <2>2. ASSUME NEW n \in Names, OpenEdit(n)
        PROVE  /\ form' \in Forms /\ form'.saving = FALSE
               /\ form'.edit => form'.name # None
    BY <2>2, NoneAssumption DEF OpenEdit, Opened, Forms, Keys
  <2> QED
    BY <2>1, <2>2
<1>3. Waits("form", SaveOps)' = {}
  <2>1. Waits("form", Operations) = {}
    BY <1>1 DEF ScreenInv, FormInv
  <2>2. Waits("form", SaveOps) = {}
    BY <2>1, WaitsOfAll DEF SaveOps, Operations
  <2> QED
    BY <1>1, <2>2 DEF Waits
<1>4. FormInv'
  BY <1>2, <1>3, FormsFields DEF FormInv, Busy
<1> QED
  BY <1>1, <1>2, <1>4, SameWithin

LEMMA TypeFormStep ==
    ASSUME CallsInv, ScreenInv, TypeForm
    PROVE  /\ Within("form") /\ FormInv' /\ form' \in Forms /\ form # None
           /\ UNCHANGED <<page, dialog, settings>>
<1>1. /\ UNCHANGED <<requests, sent, own>> /\ UNCHANGED <<page, dialog, settings>> /\ form # None
  BY DEF TypeForm, apiVars
<1>2. form \in Forms
  BY <1>1 DEF ScreenInv, ScreenType
<1>3. PICK n \in Names \cup {None}, key \in {"whole", form.key} :
          /\ form.edit => n = form.name
          /\ form' = [form EXCEPT !.name = n, !.filled = TRUE, !.key = key]
  BY DEF TypeForm
<1>4. key \in Keys
  BY <1>2, FormsFields DEF Keys
<1>5. form' \in Forms /\ form'.saving = form.saving /\ form'.edit = form.edit /\ form'.name = n
  BY <1>2, <1>3, <1>4 DEF Forms
<1>6. Waits("form", SaveOps)' = Waits("form", SaveOps)
  BY <1>1 DEF Waits
<1>7. FormInv'
  BY <1>1, <1>3, <1>5, <1>6, FormsFields DEF ScreenInv, FormInv, Busy
<1> QED
  BY <1>1, <1>5, <1>7, SameWithin

LEMMA SaveStep ==
    ASSUME CallsInv, ScreenInv, Save
    PROVE  /\ Within("form") /\ FormInv' /\ form' \in Forms /\ form # None
           /\ UNCHANGED <<page, dialog, settings>>
<1>1. UNCHANGED <<page, dialog, settings>> /\ form # None
  BY DEF Save
<1>2. form \in Forms
  BY <1>1 DEF ScreenInv, ScreenType
<1> DEFINE op == IF form.edit THEN "updateDevice" ELSE "addDevice"
           call == Call("form", op, {form.name}, form.key, form.id)
<1>3. /\ Send("form", op, {form.name}, form.key, form.id) /\ ~form.saving
      /\ form.key = "whole" /\ form.name # None
  BY DEF Save, Valid
<1>4. form' = [form EXCEPT !.saving = TRUE]
  BY DEF Save
<1>5. /\ "form" \in Components /\ op \in Operations /\ op \in SaveOps
      /\ {form.name} \in SUBSET Names /\ form.key \in Keys /\ form.id \in BOOLEAN
  BY <1>2, <1>3, FormsFields DEF Components, Operations, SaveOps
<1> HIDE DEF op
<1>6. Effect({}, {}, call) /\ Within("form")
  BY <1>3, <1>5, SendWithin
<1>7. call # None /\ call.from = "form" /\ call.op \in SaveOps
  BY <1>5, CallIn
<1> HIDE DEF call
<1>8. form' \in Forms /\ form'.saving = TRUE /\ form'.name = form.name
  BY <1>2, <1>4, FormsSaving
<1>9. Waits("form", SaveOps) = {}
  BY <1>1, <1>3 DEF ScreenInv, FormInv, Busy
<1>10. Waits("form", SaveOps)' = {sent + 1}
  BY <1>6, <1>7, <1>9, FormWaits
<1>11. sent + 1 \in Ids
  BY <1>3, BoundsAssumption DEF Send, Post, PostBeside, CallsInv, CallsType, Ids
<1>12. FormInv'
  BY <1>3, <1>8, <1>10, <1>11, FormsFields DEF FormInv, Busy
<1> QED
  BY <1>1, <1>6, <1>8, <1>12

\* The form and what it waits for stay.
LEMMA FormKept ==
    ASSUME ScreenInv, form # None, form' = form, Waits("form", SaveOps)' = Waits("form", SaveOps)
    PROVE  FormInv' /\ form' \in Forms
  BY DEF ScreenInv, ScreenType, FormInv, Busy

LEMMA ConfirmDeleteStep ==
    ASSUME CallsInv, ScreenInv, ConfirmDelete
    PROVE  /\ Within("form") /\ FormInv' /\ form' \in Forms /\ form # None
           /\ UNCHANGED <<page, dialog, settings>>
<1>1. /\ UNCHANGED <<page, form, dialog, settings>> /\ form # None /\ form.edit
      /\ Send("form", "deleteDevice", {form.name}, "none", TRUE)
  BY DEF ConfirmDelete
<1>2. form \in Forms /\ form.name # None
  BY <1>1 DEF ScreenInv, ScreenType, FormInv
<1>3. /\ "form" \in Components /\ "deleteDevice" \in Operations /\ "none" \in Keys
      /\ {form.name} \in SUBSET Names /\ "deleteDevice" \notin SaveOps
  BY <1>2, FormsFields DEF Components, Operations, SaveOps, Keys
<1> DEFINE call == Call("form", "deleteDevice", {form.name}, "none", TRUE)
<1>4. Effect({}, {}, call) /\ Within("form") /\ call.op \notin SaveOps
  <2>1. Effect({}, {}, call) /\ Within("form")
    BY <1>1, <1>3, SendWithin
  <2>2. call.op = "deleteDevice"
    BY DEF Call
  <2> QED
    BY <1>3, <2>1, <2>2
<1> HIDE DEF call
<1>5. Waits("form", SaveOps)' = Waits("form", SaveOps)
  BY <1>4, FormWaits
<1> QED
  BY <1>1, <1>4, <1>5, FormKept

LEMMA CloseFormStep ==
    ASSUME CallsInv, ScreenInv, CloseForm
    PROVE  /\ Within("form") /\ FormInv' /\ form' = None /\ form # None
           /\ UNCHANGED <<page, dialog, settings>>
<1>1. UNCHANGED <<page, dialog, settings, sent>> /\ form # None /\ form' = None /\ Destroy({"form"})
  BY DEF CloseForm
<1>2. Effect({"form"}, {}, None)
  BY <1>1, DestroyEffect DEF CallsInv
<1>3. Waits("form", Operations)' = {}
  BY <1>2, FormWaits
<1> QED
  BY <1>1, <1>2, <1>3, WithinIntro DEF FormInv

LEMMA ReceiveFormStep ==
    ASSUME CallsInv, ScreenInv, NEW i \in Ids, ReceiveForm(i)
    PROVE  /\ Within("form") /\ FormInv' /\ form' \in Forms \cup {None} /\ form # None
           /\ UNCHANGED <<page, dialog, settings>>
           /\ i \in Waits("form", Operations)
<1>1. UNCHANGED <<page, dialog, settings, sent>>
  BY DEF ReceiveForm
<1>2. requests[i] # None /\ requests[i].from = "form"
  BY DEF ReceiveForm, Answered
<1>3. i \in Waits("form", Operations)
  BY <1>2 DEF CallsInv, CallsType, Calls, Waits
<1>4. form # None
  BY <1>3 DEF ScreenInv, FormInv
<1>5. form \in Forms
  BY <1>4 DEF ScreenInv, ScreenType
<1>6. CASE /\ \E op \in {"addDevice", "updateDevice", "deleteDevice"} :
                 Answered(i, "form", op, "ok")
           /\ form' = None /\ Done(i, {"form"})
  <2>1. Effect({"form"}, {i}, None)
    BY <1>1, <1>6, DoneEffect DEF CallsInv
  <2>2. Waits("form", Operations)' = {}
    BY <2>1, FormWaits
  <2>3. Within("form")
    BY <1>2, <2>1, WithinIntro
  <2> QED
    BY <1>1, <1>3, <1>4, <1>6, <2>2, <2>3 DEF FormInv
<1>7. ASSUME Done(i, {})
      PROVE  Within("form") /\ \A ops : Waits("form", ops)' = Waits("form", ops) \ {i}
  <2>1. Effect({}, {i}, None)
    BY <1>1, <1>7, DoneEffect DEF CallsInv
  <2>2. Within("form")
    BY <1>2, <2>1, WithinIntro
  <2> QED
    BY <2>1, <2>2, FormWaits
<1>8. CASE /\ \E op \in {"addDevice", "updateDevice"} : Answered(i, "form", op, "error")
           /\ form' = [form EXCEPT !.saving = FALSE] /\ Done(i, {})
  <2>1. requests[i].op \in SaveOps
    BY <1>8 DEF Answered, SaveOps
  <2>2. i \in Waits("form", SaveOps)
    BY <1>2, <2>1 DEF Waits
  <2>3. Waits("form", SaveOps) = {i}
    BY <1>4, <2>2 DEF ScreenInv, FormInv, Busy
  <2>4. Waits("form", SaveOps)' = {}
    BY <1>7, <1>8, <2>3
  <2>5. /\ form' \in Forms /\ form'.saving = FALSE /\ form'.edit = form.edit
        /\ form'.name = form.name
    BY <1>5, <1>8, FormsSaving
  <2>6. FormInv'
    BY <1>4, <2>4, <2>5, FormsFields DEF ScreenInv, FormInv, Busy
  <2> QED
    BY <1>1, <1>3, <1>4, <1>7, <1>8, <2>5, <2>6
<1>9. CASE Answered(i, "form", "deleteDevice", "error") /\ form' = form /\ Done(i, {})
  <2>1. i \notin Waits("form", SaveOps)
    BY <1>9 DEF Answered, SaveOps, Waits
  <2>2. Waits("form", SaveOps)' = Waits("form", SaveOps)
    BY <1>7, <1>9, <2>1
  <2> QED
    BY <1>1, <1>3, <1>4, <1>7, <1>9, <2>2, FormKept
<1> QED
  BY <1>6, <1>8, <1>9 DEF ReceiveForm

LEMMA FormStep ==
    ASSUME CallsInv, ScreenInv, FormAction
    PROVE  /\ Within("form") /\ FormInv' /\ form' \in Forms \cup {None} /\ page = "devices"
           /\ UNCHANGED <<page, dialog, settings>>
<1>1. form # None => page = "devices"
  BY DEF ScreenInv, ScreenType, PageInv
<1> QED
  BY <1>1, OpenStep, TypeFormStep, SaveStep, ConfirmDeleteStep, CloseFormStep, ReceiveFormStep
  DEF FormAction

LEMMA FormScreen ==
    ASSUME CallsInv, ScreenInv, FormAction
    PROVE  CallsInv' /\ ScreenInv'
<1>1. /\ Within("form") /\ FormInv' /\ form' \in Forms \cup {None} /\ page = "devices"
      /\ UNCHANGED <<page, dialog, settings>>
  BY FormStep
<1>2. \A c \in {"dialog", "settings"} : \A ops : Waits(c, ops)' = Waits(c, ops)
  BY <1>1, WithinWaits DEF CallsInv, Components
<1>3. DialogInv' /\ SettingsInv'
  BY <1>1, <1>2 DEF ScreenInv, DialogInv, SettingsInv, Busy
<1>4. ScreenType' /\ PageInv'
  BY <1>1 DEF ScreenInv, ScreenType, PageInv
<1> QED
  BY <1>1, <1>3, <1>4, WithinCalls DEF ScreenInv
-----------------------------------------------------------------------------
\* The dialog

LEMMA DialogsFields ==
    ASSUME NEW d \in Dialogs
    PROVE  /\ d.step \in {"creds", "results"} /\ d.creds \in BOOLEAN /\ d.loading \in BOOLEAN
           /\ d.found \in SUBSET Names /\ d.selected \in SUBSET Names /\ d.due \in BOOLEAN
           /\ d # None
  BY PageAssumption DEF Dialogs

LEMMA DialogsLoading ==
    ASSUME NEW d \in Dialogs, NEW loading \in BOOLEAN
    PROVE  LET e == [d EXCEPT !.loading = loading]
           IN  e \in Dialogs /\ e.loading = loading /\ e.step = d.step
  BY DEF Dialogs

LEMMA DialogWaits ==
    ASSUME CallsInv, NEW closed, NEW over, NEW new, Effect(closed, over, new), NEW ops
    PROVE  Waits("dialog", ops)' =
              (IF "dialog" \in closed THEN {} ELSE Waits("dialog", ops) \ over)
              \cup (IF new # None /\ new.from = "dialog" /\ new.op \in ops THEN {sent + 1} ELSE {})
  BY EffectWaits DEF CallsInv, Components

DialogAction ==
    \/ OpenCloud \/ TypeCreds \/ Discover \/ Select \/ Back \/ ImportSelected
    \/ ImportTimer \/ CloseCloud
    \/ \E i \in Ids : ReceiveCloud(i)

\* What a step of the dialog does.
DialogDone ==
    /\ Within("dialog") /\ DialogInv' /\ dialog' \in Dialogs \cup {None}
    /\ UNCHANGED <<page, form, settings>>

LEMMA OpenCloudStep ==
    ASSUME CallsInv, ScreenInv, OpenCloud
    PROVE  DialogDone /\ page = "devices"
<1>1. /\ UNCHANGED <<requests, sent, own>> /\ UNCHANGED <<page, form, settings>>
      /\ dialog = None /\ page = "devices"
      /\ dialog' = [step |-> "creds", creds |-> FALSE, loading |-> FALSE,
                    found |-> {}, selected |-> {}, due |-> FALSE]
  BY DEF OpenCloud, TableFree, apiVars
<1>2. dialog' \in Dialogs /\ dialog'.loading = FALSE /\ dialog'.step = "creds"
  BY <1>1 DEF Dialogs
<1>3. Waits("dialog", CloudOps)' = {}
  <2>1. Waits("dialog", Operations) = {}
    BY <1>1 DEF ScreenInv, DialogInv
  <2>2. Waits("dialog", CloudOps) = {}
    BY <2>1, WaitsOfAll DEF CloudOps, Operations
  <2> QED
    BY <1>1, <2>2 DEF Waits
<1>4. DialogInv'
  BY <1>2, <1>3, DialogsFields DEF DialogInv, Busy
<1> QED
  BY <1>1, <1>2, <1>4, SameWithin DEF DialogDone

\* No call is made or ends, and the dialog loads or not as before.
LEMMA DialogKept ==
    ASSUME CallsInv, ScreenInv, dialog # None, dialog' \in Dialogs,
           UNCHANGED <<requests, sent, own>>, UNCHANGED <<page, form, settings>>,
           dialog'.loading = dialog.loading, dialog'.step \in {dialog.step, "creds"}
    PROVE  DialogDone
<1>1. \A ops : Waits("dialog", ops)' = Waits("dialog", ops)
  BY DEF Waits
<1>2. DialogInv'
  BY <1>1, DialogsFields DEF ScreenInv, DialogInv, Busy
<1> QED
  BY <1>2, SameWithin DEF DialogDone

LEMMA SelectStep ==
    ASSUME CallsInv, ScreenInv, Select
    PROVE  DialogDone
<1>1. /\ UNCHANGED <<requests, sent, own>> /\ UNCHANGED <<page, form, settings>>
      /\ dialog # None
  BY DEF Select, apiVars
<1>2. dialog \in Dialogs
  BY <1>1 DEF ScreenInv, ScreenType
<1>3. \E selected \in SUBSET Names : dialog' = [dialog EXCEPT !.selected = selected]
  <2> DEFINE box(n) == IF n \in dialog.selected THEN dialog.selected \ {n}
                       ELSE dialog.selected \cup {n}
             all == IF dialog.found # {} /\ dialog.selected = dialog.found THEN {}
                    ELSE dialog.found
  <2>1. all \in SUBSET Names /\ \A n \in dialog.found : box(n) \in SUBSET Names
    BY <1>2, DialogsFields
  <2>2. \/ \E n \in dialog.found : dialog' = [dialog EXCEPT !.selected = box(n)]
        \/ dialog' = [dialog EXCEPT !.selected = all]
    BY DEF Select, ToggleOne, ToggleAll, AllSelected
  <2> HIDE DEF box, all
  <2> QED
    BY <2>1, <2>2
<1>4. dialog' \in Dialogs /\ dialog'.loading = dialog.loading /\ dialog'.step = dialog.step
  BY <1>2, <1>3 DEF Dialogs
<1> QED
  BY <1>1, <1>4, DialogKept

LEMMA TypeCredsStep ==
    ASSUME CallsInv, ScreenInv, TypeCreds \/ Back
    PROVE  DialogDone
<1>1. /\ UNCHANGED <<requests, sent, own>> /\ UNCHANGED <<page, form, settings>>
      /\ dialog # None
      /\ \/ dialog' = [dialog EXCEPT !.creds = TRUE]
         \/ dialog' = [dialog EXCEPT !.step = "creds"]
  BY DEF TypeCreds, Back, apiVars
<1>2. dialog \in Dialogs
  BY <1>1 DEF ScreenInv, ScreenType
<1>3. /\ dialog' \in Dialogs /\ dialog'.loading = dialog.loading
      /\ dialog'.step \in {dialog.step, "creds"}
  BY <1>1, <1>2 DEF Dialogs
<1> QED
  BY <1>1, <1>3, DialogKept

\* A call of the dialog is made while none is in flight.
LEMMA DialogSends ==
    ASSUME CallsInv, ScreenInv, dialog # None, ~dialog.loading,
           NEW op \in CloudOps, NEW names \in SUBSET Names, NEW id \in BOOLEAN,
           Send("dialog", op, names, "none", id),
           op = "cloudDiscover" => dialog.step = "creds",
           dialog' = [dialog EXCEPT !.loading = TRUE], UNCHANGED <<page, form, settings>>
    PROVE  DialogDone
<1>1. dialog \in Dialogs
  BY DEF ScreenInv, ScreenType
<1>2. /\ "dialog" \in Components /\ op \in Operations /\ "none" \in Keys /\ op \notin SaveOps
  BY DEF Components, Operations, Keys, CloudOps, SaveOps
<1> DEFINE call == Call("dialog", op, names, "none", id)
<1>3. Effect({}, {}, call) /\ Within("dialog")
  BY <1>2, SendWithin
<1>4. call # None /\ call.from = "dialog" /\ call.op = op
  BY <1>2, CallIn
<1> HIDE DEF call
<1>5. dialog' \in Dialogs /\ dialog'.loading = TRUE /\ dialog'.step = dialog.step
  BY <1>1, DialogsLoading
<1>6. Waits("dialog", CloudOps) = {}
  BY DEF ScreenInv, DialogInv, Busy
<1>7. Waits("dialog", CloudOps)' = {sent + 1}
  BY <1>3, <1>4, <1>6, DialogWaits
<1>8. sent + 1 \in Ids
  BY BoundsAssumption DEF Send, Post, PostBeside, CallsInv, CallsType, Ids
<1>9. Waits("dialog", {"cloudDiscover"})' # {} => dialog'.step = "creds"
  <2>1. Waits("dialog", {"cloudDiscover"})' =
            Waits("dialog", {"cloudDiscover"})
            \cup (IF op = "cloudDiscover" THEN {sent + 1} ELSE {})
    BY <1>3, <1>4, DialogWaits
  <2>2. Waits("dialog", {"cloudDiscover"}) # {} => dialog.step = "creds"
    BY DEF ScreenInv, DialogInv
  <2> QED
    BY <1>5, <2>1, <2>2
<1>10. DialogInv'
  BY <1>5, <1>7, <1>8, <1>9, DialogsFields DEF DialogInv, Busy
<1> QED
  BY <1>3, <1>5, <1>10 DEF DialogDone

LEMMA SendsStep ==
    ASSUME CallsInv, ScreenInv, Discover \/ ImportSelected
    PROVE  DialogDone
<1>1. CASE Discover
  BY <1>1, DialogSends DEF Discover, CloudOps
<1>2. CASE ImportSelected
  <2>1. dialog.selected \in SUBSET Names
    BY <1>2, DialogsFields DEF ImportSelected, ScreenInv, ScreenType
  <2> QED
    BY <1>2, <2>1, DialogSends DEF ImportSelected, CloudOps
<1> QED
  BY <1>1, <1>2

LEMMA CloseCloudStep ==
    ASSUME CallsInv, ScreenInv, ImportTimer \/ CloseCloud
    PROVE  DialogDone /\ dialog # None
<1>1. /\ UNCHANGED <<page, form, settings, sent>> /\ dialog # None /\ dialog' = None
      /\ Destroy({"dialog"})
  BY DEF ImportTimer, CloseCloud
<1>2. Effect({"dialog"}, {}, None)
  BY <1>1, DestroyEffect DEF CallsInv
<1>3. Waits("dialog", Operations)' = {}
  BY <1>2, DialogWaits
<1>4. Within("dialog")
  BY <1>2, WithinIntro
<1> QED
  BY <1>1, <1>3, <1>4 DEF DialogInv, DialogDone

LEMMA ReceiveCloudStep ==
    ASSUME CallsInv, ScreenInv, NEW i \in Ids, ReceiveCloud(i)
    PROVE  DialogDone /\ dialog # None
<1>1. UNCHANGED <<page, form, settings, sent>> /\ Done(i, {})
  BY DEF ReceiveCloud
<1>2. requests[i] # None /\ requests[i].from = "dialog" /\ requests[i].op \in CloudOps
  BY DEF ReceiveCloud, Answered, CloudOps
<1>3. i \in Waits("dialog", Operations) /\ i \in Waits("dialog", CloudOps)
  BY <1>2 DEF Waits, CloudOps, Operations
<1>4. dialog # None
  BY <1>3 DEF ScreenInv, DialogInv
<1>5. dialog \in Dialogs /\ requests[i].names \in SUBSET Names
  BY <1>2, <1>4 DEF ScreenInv, ScreenType, CallsInv, CallsType, Calls
<1>6. Waits("dialog", CloudOps) = {i}
  BY <1>3, <1>4 DEF ScreenInv, DialogInv, Busy
<1>7. Effect({}, {i}, None)
  BY <1>1, DoneEffect DEF CallsInv
<1>8. Within("dialog") /\ Waits("dialog", CloudOps)' = {}
  BY <1>2, <1>6, <1>7, WithinIntro, DialogWaits
<1>9. dialog' \in Dialogs /\ dialog'.loading = FALSE
  <2>1. CASE dialog' = [dialog EXCEPT !.step = "results", !.loading = FALSE,
                            !.found = requests[i].names, !.selected = requests[i].names]
    BY <1>5, <2>1 DEF Dialogs
  <2>2. CASE dialog' = [dialog EXCEPT !.loading = FALSE, !.due = TRUE]
    BY <1>5, <2>2 DEF Dialogs
  <2>3. CASE dialog' = [dialog EXCEPT !.loading = FALSE]
    BY <1>5, <2>3 DEF Dialogs
  <2> QED
    BY <2>1, <2>2, <2>3 DEF ReceiveCloud
<1>10. Waits("dialog", {"cloudDiscover"})' = {}
  BY <1>8 DEF Waits, CloudOps
<1>11. DialogInv'
  BY <1>8, <1>9, <1>10, DialogsFields DEF DialogInv, Busy
<1> QED
  BY <1>1, <1>4, <1>8, <1>9, <1>11 DEF DialogDone

LEMMA DialogStep ==
    ASSUME CallsInv, ScreenInv, DialogAction
    PROVE  DialogDone /\ page = "devices"
<1>1. dialog # None => page = "devices"
  BY DEF ScreenInv, ScreenType, PageInv
<1>2. CASE OpenCloud
  BY <1>2, OpenCloudStep
<1>3. CASE TypeCreds \/ Discover \/ Select \/ Back \/ ImportSelected
  <2>1. dialog # None
    BY <1>3 DEF TypeCreds, Discover, Select, Back, ImportSelected
  <2> QED
    BY <1>1, <1>3, <2>1, TypeCredsStep, SendsStep, SelectStep
<1>4. CASE ImportTimer \/ CloseCloud \/ \E i \in Ids : ReceiveCloud(i)
  BY <1>1, <1>4, CloseCloudStep, ReceiveCloudStep
<1> QED
  BY <1>2, <1>3, <1>4 DEF DialogAction

LEMMA DialogScreen ==
    ASSUME CallsInv, ScreenInv, DialogAction
    PROVE  CallsInv' /\ ScreenInv'
<1>1. DialogDone /\ page = "devices"
  BY DialogStep
<1>2. \A c \in {"form", "settings"} : \A ops : Waits(c, ops)' = Waits(c, ops)
  BY <1>1, WithinWaits DEF CallsInv, Components, DialogDone
<1>3. FormInv' /\ SettingsInv'
  BY <1>1, <1>2 DEF ScreenInv, FormInv, SettingsInv, Busy, DialogDone
<1>4. ScreenType' /\ PageInv'
  BY <1>1 DEF ScreenInv, ScreenType, PageInv, DialogDone
<1> QED
  BY <1>1, <1>3, <1>4, WithinCalls DEF ScreenInv, DialogDone
-----------------------------------------------------------------------------
\* The settings and the router

LEMMA SettingsFields ==
    ASSUME NEW p \in SettingsPages
    PROVE  /\ p.loading \in BOOLEAN /\ p.saving \in BOOLEAN
           /\ p.shown \in {"defaults", "server", "typed"} /\ p # None
  BY PageAssumption DEF SettingsPages

LEMMA SettingsWaits ==
    ASSUME CallsInv, NEW closed, NEW over, NEW new, Effect(closed, over, new), NEW ops
    PROVE  Waits("settings", ops)' =
              (IF "settings" \in closed THEN {} ELSE Waits("settings", ops) \ over)
              \cup (IF new # None /\ new.from = "settings" /\ new.op \in ops
                    THEN {sent + 1} ELSE {})
  BY EffectWaits DEF CallsInv, Components

SettingsAction ==
    \/ EditSettings \/ SaveSettings \/ ToDevices
    \/ \E i \in Ids : ReceiveSettings(i)

SettingsDone ==
    /\ Within("settings") /\ SettingsInv' /\ settings' \in SettingsPages \cup {None}
    /\ UNCHANGED <<form, dialog>>
    /\ IF settings' = None THEN page = "settings" /\ page' = "devices" ELSE page' = page

LEMMA EditStep ==
    ASSUME CallsInv, ScreenInv, EditSettings
    PROVE  SettingsDone /\ settings # None
<1>1. /\ UNCHANGED <<requests, sent, own>> /\ UNCHANGED <<page, form, dialog>>
      /\ settings # None /\ ~settings.loading
      /\ settings' = [settings EXCEPT !.shown = "typed"]
  BY DEF EditSettings, apiVars
<1>2. settings \in SettingsPages
  BY <1>1 DEF ScreenInv, ScreenType
<1>3. /\ settings' \in SettingsPages /\ settings'.loading = settings.loading
      /\ settings'.saving = settings.saving
  BY <1>1, <1>2 DEF SettingsPages
<1>4. \A ops : Waits("settings", ops)' = Waits("settings", ops)
  BY <1>1 DEF Waits
<1>5. SettingsInv'
  BY <1>1, <1>3, <1>4, SettingsFields DEF ScreenInv, SettingsInv, Busy
<1> QED
  BY <1>1, <1>3, <1>5, SettingsFields, SameWithin DEF SettingsDone

LEMMA SaveSettingsStep ==
    ASSUME CallsInv, ScreenInv, SaveSettings
    PROVE  SettingsDone /\ settings # None
<1>1. /\ UNCHANGED <<page, form, dialog>>
      /\ settings # None /\ ~settings.loading /\ ~settings.saving
      /\ settings' = [settings EXCEPT !.saving = TRUE]
      /\ Send("settings", "updateSettings", {}, "none", FALSE)
  BY DEF SaveSettings
<1>2. settings \in SettingsPages
  BY <1>1 DEF ScreenInv, ScreenType
<1>3. /\ "settings" \in Components /\ "updateSettings" \in Operations /\ "none" \in Keys
      /\ "updateSettings" \notin SaveOps /\ {} \in SUBSET Names
  BY DEF Components, Operations, Keys, SaveOps
<1> DEFINE call == Call("settings", "updateSettings", {}, "none", FALSE)
<1>4. Effect({}, {}, call) /\ Within("settings")
  BY <1>1, <1>3, SendWithin
<1>5. call.from = "settings" /\ call.op = "updateSettings"
  BY DEF Call
<1>6. call # None
  BY SettingsCallIn
<1> HIDE DEF call
<1>7. /\ settings' \in SettingsPages /\ settings'.loading = settings.loading
      /\ settings'.saving = TRUE
  BY <1>1, <1>2 DEF SettingsPages
<1>8. Waits("settings", {"updateSettings"})' = {sent + 1}
  <2>1. Waits("settings", {"updateSettings"}) = {}
    BY <1>1 DEF ScreenInv, SettingsInv, Busy
  <2> QED
    BY <1>4, <1>5, <1>6, <2>1, SettingsWaits
<1>9. Waits("settings", {"getSettings"})' = {}
  <2>1. Waits("settings", {"getSettings"}) = {}
    BY <1>1 DEF ScreenInv, SettingsInv, Busy
  <2> QED
    BY <1>4, <1>5, <1>6, <2>1, SettingsWaits
<1>10. sent + 1 \in Ids
  BY <1>1, BoundsAssumption DEF Send, Post, PostBeside, CallsInv, CallsType, Ids
<1>11. SettingsInv'
  BY <1>1, <1>7, <1>8, <1>9, <1>10, SettingsFields DEF SettingsInv, Busy
<1> QED
  BY <1>1, <1>4, <1>7, <1>11, SettingsFields DEF SettingsDone

LEMMA ReceiveSettingsStep ==
    ASSUME CallsInv, ScreenInv, NEW i \in Ids, ReceiveSettings(i)
    PROVE  SettingsDone /\ settings # None
<1>1. UNCHANGED <<page, form, dialog, sent>> /\ Done(i, {})
  BY DEF ReceiveSettings
<1>2. /\ requests[i] # None /\ requests[i].from = "settings"
      /\ requests[i].op \in {"getSettings", "updateSettings"}
  BY DEF ReceiveSettings, Answered
<1>3. settings # None
  <2>1. i \in Waits("settings", Operations)
    BY <1>2 DEF Waits, Operations
  <2> QED
    BY <2>1 DEF ScreenInv, SettingsInv
<1>4. settings \in SettingsPages
  BY <1>3 DEF ScreenInv, ScreenType
<1>5. Effect({}, {i}, None)
  BY <1>1, DoneEffect DEF CallsInv
<1>6. Within("settings") /\ \A ops : Waits("settings", ops)' = Waits("settings", ops) \ {i}
  BY <1>2, <1>5, WithinIntro, SettingsWaits
<1>7. CASE requests[i].op = "getSettings"
  <2>1. /\ i \in Waits("settings", {"getSettings"})
        /\ i \notin Waits("settings", {"updateSettings"})
    BY <1>2, <1>7 DEF Waits
  <2>2. Waits("settings", {"getSettings"}) = {i}
    BY <1>3, <2>1 DEF ScreenInv, SettingsInv, Busy
  <2>3. /\ Waits("settings", {"getSettings"})' = {}
        /\ Waits("settings", {"updateSettings"})' = Waits("settings", {"updateSettings"})
    BY <1>6, <2>1, <2>2
  <2>4. \/ settings' = [settings EXCEPT !.loading = FALSE, !.shown = "server"]
        \/ settings' = [settings EXCEPT !.loading = FALSE]
    BY <1>7 DEF ReceiveSettings, Answered
  <2>5. /\ settings' \in SettingsPages /\ settings'.loading = FALSE
        /\ settings'.saving = settings.saving
    BY <1>4, <2>4 DEF SettingsPages
  <2>6. SettingsInv'
    BY <1>3, <2>3, <2>5, SettingsFields DEF ScreenInv, SettingsInv, Busy
  <2> QED
    BY <1>1, <1>3, <1>6, <2>5, <2>6, SettingsFields DEF SettingsDone
<1>8. CASE requests[i].op = "updateSettings"
  <2>1. /\ i \notin Waits("settings", {"getSettings"})
        /\ i \in Waits("settings", {"updateSettings"})
    BY <1>2, <1>8 DEF Waits
  <2>2. Waits("settings", {"updateSettings"}) = {i}
    BY <1>3, <2>1 DEF ScreenInv, SettingsInv, Busy
  <2>3. /\ Waits("settings", {"updateSettings"})' = {}
        /\ Waits("settings", {"getSettings"})' = Waits("settings", {"getSettings"})
    BY <1>6, <2>1, <2>2
  <2>4. settings' = [settings EXCEPT !.saving = FALSE]
    BY <1>8 DEF ReceiveSettings, Answered
  <2>5. /\ settings' \in SettingsPages /\ settings'.loading = settings.loading
        /\ settings'.saving = FALSE /\ settings'.shown = settings.shown
    BY <1>4, <2>4 DEF SettingsPages
  <2>6. SettingsInv'
    BY <1>3, <2>3, <2>5, SettingsFields DEF ScreenInv, SettingsInv, Busy
  <2> QED
    BY <1>1, <1>3, <1>6, <2>5, <2>6, SettingsFields DEF SettingsDone
<1> QED
  BY <1>2, <1>7, <1>8

LEMMA ToDevicesStep ==
    ASSUME CallsInv, ScreenInv, ToDevices
    PROVE  SettingsDone
<1>1. /\ UNCHANGED <<form, dialog, sent>> /\ page = "settings" /\ page' = "devices"
      /\ settings' = None /\ Destroy({"settings"})
  BY DEF ToDevices
<1>2. Effect({"settings"}, {}, None)
  BY <1>1, DestroyEffect DEF CallsInv
<1>3. Waits("settings", Operations)' = {}
  BY <1>2, SettingsWaits
<1>4. Within("settings")
  BY <1>2, WithinIntro
<1> QED
  BY <1>1, <1>3, <1>4 DEF SettingsInv, SettingsDone

LEMMA SettingsStep ==
    ASSUME CallsInv, ScreenInv, SettingsAction
    PROVE  SettingsDone /\ (settings # None \/ settings' = None)
  BY EditStep, SaveSettingsStep, ToDevicesStep, ReceiveSettingsStep DEF SettingsAction, ToDevices

LEMMA SettingsScreen ==
    ASSUME CallsInv, ScreenInv, SettingsAction
    PROVE  CallsInv' /\ ScreenInv'
<1>1. SettingsDone /\ (settings # None \/ settings' = None)
  BY SettingsStep
<1>2. \A c \in {"form", "dialog"} : \A ops : Waits(c, ops)' = Waits(c, ops)
  BY <1>1, WithinWaits DEF CallsInv, Components, SettingsDone
<1>3. FormInv' /\ DialogInv'
  BY <1>1, <1>2 DEF ScreenInv, FormInv, DialogInv, Busy, SettingsDone
<1>4. ScreenType' /\ PageInv'
  BY <1>1 DEF ScreenInv, ScreenType, PageInv, SettingsDone
<1> QED
  BY <1>1, <1>3, <1>4, WithinCalls DEF ScreenInv, SettingsDone

\* The settings are not on the screen, so they have no calls to lose.
LEMMA ToSettingsEffect ==
    ASSUME CallsInv, ScreenInv, ToSettings
    PROVE  Effect({"table", "form", "dialog", "settings"}, {},
                  Call("settings", "getSettings", {}, "none", FALSE))
<1> DEFINE call == Call("settings", "getSettings", {}, "none", FALSE)
           r == Unheard({"table", "form", "dialog"})
<1>1. call \in Calls /\ call # None
  BY SettingsCallIn
<1>2. call.from = "settings"
  BY DEF Call
<1>3. /\ sent < MaxRequests /\ sent' = sent + 1
      /\ requests' = [r EXCEPT ![sent + 1] = call]
      /\ own' = [c \in Components |-> IF c = "settings" THEN {sent + 1} ELSE {}]
      /\ page = "devices"
  BY DEF ToSettings, PostBeside
<1>4. /\ r \in [Ids -> Calls \cup {None}]
      /\ \A i \in Ids : IF requests[i] = None THEN r[i] = None
           ELSE /\ r[i] # None /\ r[i].op = requests[i].op /\ r[i].key = requests[i].key
                /\ r[i].names = requests[i].names
                /\ r[i].from = IF requests[i].from \in {"table", "form", "dialog"} THEN "gone"
                               ELSE requests[i].from
  BY UnheardProps DEF CallsInv
<1> HIDE DEF call, r
<1>5. sent + 1 \in Ids /\ sent' \in 0 .. MaxRequests
  BY <1>3, BoundsAssumption DEF CallsInv, CallsType, Ids
<1>6. CallsType' /\ \A i \in Ids : requests'[i] = IF i = sent + 1 THEN call ELSE r[i]
  BY <1>1, <1>3, <1>4, <1>5 DEF CallsType
<1>7. ASSUME NEW i \in Ids, requests[i] # None
      PROVE  requests[i].from # "settings"
  <2>1. Waits("settings", Operations) = {}
    BY <1>3 DEF ScreenInv, PageInv, SettingsInv
  <2>2. requests[i].op \in Operations
    BY <1>7 DEF CallsInv, CallsType, Calls
  <2> QED
    BY <1>7, <2>1, <2>2 DEF Waits
<1>8. \A i \in Ids : i # sent + 1 => Goes(i, {"table", "form", "dialog", "settings"})
  BY <1>4, <1>6, <1>7 DEF Goes
<1>9. /\ own' \in [Components -> SUBSET Ids]
      /\ \A c \in Components : own'[c] = IF c = "settings" THEN {sent + 1} ELSE {}
  BY <1>3, <1>5
<1>10. Effect({"table", "form", "dialog", "settings"}, {}, call)
  <2>1. \A c \in Components \ {"gone"} : c \in {"table", "form", "dialog", "settings"}
    BY DEF Components
  <2> QED
    BY <1>1, <1>2, <1>3, <1>6, <1>8, <1>9, <2>1 DEF Effect
<1> QED
  BY <1>10 DEF call

LEMMA ToSettingsScreen ==
    ASSUME CallsInv, ScreenInv, ToSettings
    PROVE  CallsInv' /\ ScreenInv'
<1> DEFINE closed == {"table", "form", "dialog", "settings"}
           call == Call("settings", "getSettings", {}, "none", FALSE)
<1>1. Effect(closed, {}, call)
  BY ToSettingsEffect
<1>2. call.from = "settings" /\ call.op = "getSettings"
  BY DEF Call
<1>3. call # None
  BY SettingsCallIn
<1>4. "form" \in closed /\ "dialog" \in closed /\ "settings" \in closed
  OBVIOUS
<1> HIDE DEF call, closed
<1>5. CallsInv'
  <2>1. Fresh' /\ OwnInv'
    BY <1>1, EffectFresh, EffectOwn DEF CallsInv
  <2>2. CallsType' /\ OwnType'
    BY <1>1 DEF Effect, OwnType
  <2> QED
    BY <2>1, <2>2 DEF CallsInv
<1>6. /\ Waits("form", Operations)' = {} /\ Waits("dialog", Operations)' = {}
      /\ Waits("settings", {"getSettings"})' = {sent + 1}
      /\ Waits("settings", {"updateSettings"})' = {}
  BY <1>1, <1>2, <1>3, <1>4, FormWaits, DialogWaits, SettingsWaits
<1>7. /\ page' = "settings" /\ form' = None /\ dialog' = None
      /\ settings' = [loading |-> TRUE, saving |-> FALSE, shown |-> "defaults"]
  BY DEF ToSettings
<1>8. /\ settings' \in SettingsPages /\ settings'.loading = TRUE /\ settings'.saving = FALSE
      /\ settings'.shown = "defaults"
  BY <1>7 DEF SettingsPages
<1>9. sent + 1 \in Ids
  BY BoundsAssumption DEF ToSettings, PostBeside, CallsInv, CallsType, Ids
<1>10. SettingsInv'
  BY <1>6, <1>8, <1>9, SettingsFields DEF SettingsInv, Busy
<1>11. FormInv' /\ DialogInv'
  BY <1>6, <1>7 DEF FormInv, DialogInv
<1>12. ScreenType' /\ PageInv'
  BY <1>7, <1>8, SettingsFields DEF ScreenType, PageInv
<1> QED
  BY <1>5, <1>10, <1>11, <1>12 DEF ScreenInv
-----------------------------------------------------------------------------
\* All steps

LEMMA Actions ==
    ASSUME [Next]_vars
    PROVE  \/ TableAction \/ FormAction \/ DialogAction \/ SettingsAction \/ ToSettings
           \/ RestAction
  BY DEF Next, User, Receive, TableAction, FormAction, DialogAction, SettingsAction, RestAction

LEMMA ScreenStep ==
    ASSUME CallsInv, ScreenInv, [Next]_vars
    PROVE  CallsInv' /\ ScreenInv'
<1>1. CASE TableAction
  BY <1>1, TableStep, NobodyStep
<1>2. CASE RestAction
  BY <1>2, RestStep, NobodyStep
<1> QED
  BY <1>1, <1>2, Actions, FormScreen, DialogScreen, SettingsScreen, ToSettingsScreen

LEMMA ScreenInit == Init => CallsInv /\ ScreenInv
<1> SUFFICES ASSUME Init
             PROVE  CallsInv /\ ScreenInv
  OBVIOUS
<1>1. CallsType /\ Fresh /\ OwnInv
  BY BoundsAssumption DEF Init, ApiInit, CallsType, Fresh, OwnInv
<1>2. OwnType
  BY DEF Init, OwnType
<1>3. \A c, ops : Waits(c, ops) = {}
  BY DEF Init, ApiInit, Waits
<1>4. ScreenType /\ PageInv
  BY DEF Init, ScreenType, PageInv
<1>5. FormInv /\ DialogInv /\ SettingsInv
  BY <1>3 DEF Init, FormInv, DialogInv, SettingsInv
<1> QED
  BY <1>1, <1>2, <1>4, <1>5 DEF CallsInv, ScreenInv

\* Invariants of the calls in flight and of what is on the screen.
THEOREM ScreenCorrect == Spec => [](CallsInv /\ ScreenInv)
<1>1. CallsInv /\ ScreenInv /\ [Next]_vars => (CallsInv /\ ScreenInv)'
  BY ScreenStep
<1> QED
  BY <1>1, ScreenInit, PTL DEF Spec

\* A button of the form, the dialog or the settings is busy exactly while one
\* call of its own is in flight (saving and loading in the components).
THEOREM BusyHonestCorrect == Spec => []BusyHonest
<1>1. ScreenInv => BusyHonest
  BY DEF ScreenInv, FormInv, DialogInv, SettingsInv, BusyHonest, SaveOps, CloudOps
<1> QED
  BY <1>1, ScreenCorrect, PTL
-----------------------------------------------------------------------------
\* The data: who changes it, and its types

LEMMA StoreChanges ==
    ASSUME [Next]_vars
    PROVE  \/ store' = store
           \/ \E i \in Ids : AddDevice(i) \/ UpdateDevice(i) \/ DeleteDevice(i) \/ CloudImport(i)
<1>1. CASE FormAction
  BY <1>1 DEF FormAction, OpenAdd, OpenEdit, TypeForm, Save, ConfirmDelete, CloseForm,
              ReceiveForm, apiVars
<1>2. CASE DialogAction
  BY <1>2 DEF DialogAction, OpenCloud, TypeCreds, Discover, Select, Back, ImportSelected,
              ImportTimer, CloseCloud, ReceiveCloud, apiVars
<1>3. CASE SettingsAction \/ ToSettings
  BY <1>3 DEF SettingsAction, EditSettings, SaveSettings, ToDevices, ReceiveSettings,
              ToSettings, apiVars
<1>4. CASE TableAction
  BY <1>4 DEF TableAction, Tick, TogglePower, ReceivePoll, ReceiveCommand
<1>5. CASE Server
  BY <1>5 DEF Server, Serve, Lose, ServePoll, LosePoll, SendCommand, CloudDiscover,
              GetSettings, UpdateSettings
<1>6. CASE (\E i \in Ids : ReceiveNothing(i)) \/ UNCHANGED vars
  BY <1>6 DEF ReceiveNothing, vars, apiVars
<1> QED
  BY <1>1, <1>2, <1>3, <1>4, <1>5, <1>6, Actions DEF RestAction

DevicesAction ==
    \/ \E p \in DOMAIN polls : ReceivePoll(p)
    \/ \E i \in Ids : ReceiveCommand(i)
    \/ ToSettings

LEMMA DevicesChanges ==
    ASSUME [Next]_vars
    PROVE  devices' = devices \/ DevicesAction
<1>1. CASE FormAction
  BY <1>1 DEF FormAction, OpenAdd, OpenEdit, TypeForm, Save, ConfirmDelete, CloseForm, ReceiveForm
<1>2. CASE DialogAction
  BY <1>2 DEF DialogAction, OpenCloud, TypeCreds, Discover, Select, Back, ImportSelected,
              ImportTimer, CloseCloud, ReceiveCloud
<1>3. CASE SettingsAction
  BY <1>3 DEF SettingsAction, EditSettings, SaveSettings, ToDevices, ReceiveSettings
<1>4. CASE TableAction
  BY <1>4 DEF TableAction, DevicesAction, Tick, pageVars, TogglePower
<1>5. CASE RestAction
  BY <1>5 DEF RestAction, ReceiveNothing, vars, pageVars
<1> QED
  BY <1>1, <1>2, <1>3, <1>4, <1>5, Actions DEF DevicesAction

LEMMA PollsChanges ==
    ASSUME [Next]_vars
    PROVE  \/ polls' = polls
           \/ LoadDevices
           \/ polls' = [p \in DOMAIN polls |-> FreePoll]
           \/ \E p \in DOMAIN polls : polls' = [polls EXCEPT ![p] = FreePoll]
           \/ \E p \in DOMAIN polls : ServePoll(p)
<1>1. CASE FormAction
  BY <1>1 DEF FormAction, OpenAdd, OpenEdit, TypeForm, Save, ConfirmDelete, CloseForm,
              ReceiveForm, apiVars
<1>2. CASE DialogAction
  BY <1>2 DEF DialogAction, OpenCloud, TypeCreds, Discover, Select, Back, ImportSelected,
              ImportTimer, CloseCloud, ReceiveCloud, apiVars
<1>3. CASE SettingsAction \/ ToSettings
  BY <1>3 DEF SettingsAction, EditSettings, SaveSettings, ToDevices, ReceiveSettings,
              ToSettings, apiVars
<1>4. CASE TableAction
  BY <1>4 DEF TableAction, Tick, TogglePower, ReceivePoll, ReceiveCommand
<1>5. CASE Server
  <2>1. ASSUME NEW i \in Ids, Serve(i)
        PROVE  polls' = polls
    BY <2>1 DEF Serve, Answer, AddDevice, UpdateDevice, DeleteDevice, SendCommand,
                CloudDiscover, CloudImport, GetSettings, UpdateSettings
  <2> QED
    BY <1>5, <2>1 DEF Server, Lose, LosePoll
<1>6. CASE (\E i \in Ids : ReceiveNothing(i)) \/ UNCHANGED vars
  BY <1>6 DEF ReceiveNothing, vars, apiVars
<1> QED
  BY <1>1, <1>2, <1>3, <1>4, <1>5, <1>6, Actions DEF RestAction

LEMMA FaultsChanges ==
    ASSUME [Next]_vars
    PROVE  faults' = faults \/ (faults < MaxFaults /\ faults' = faults + 1)
<1>1. CASE FormAction
  BY <1>1 DEF FormAction, OpenAdd, OpenEdit, TypeForm, Save, ConfirmDelete, CloseForm,
              ReceiveForm, apiVars
<1>2. CASE DialogAction
  BY <1>2 DEF DialogAction, OpenCloud, TypeCreds, Discover, Select, Back, ImportSelected,
              ImportTimer, CloseCloud, ReceiveCloud, apiVars
<1>3. CASE SettingsAction \/ ToSettings
  BY <1>3 DEF SettingsAction, EditSettings, SaveSettings, ToDevices, ReceiveSettings,
              ToSettings, apiVars
<1>4. CASE TableAction
  BY <1>4 DEF TableAction, Tick, TogglePower, ReceivePoll, ReceiveCommand
<1>5. CASE Server
  <2>1. ASSUME NEW i \in Ids, Serve(i)
        PROVE  faults' = faults
    BY <2>1 DEF Serve, Answer, AddDevice, UpdateDevice, DeleteDevice, SendCommand,
                CloudDiscover, CloudImport, GetSettings, UpdateSettings
  <2> QED
    BY <1>5, <2>1 DEF Server, Lose, ServePoll, LosePoll
<1>6. CASE (\E i \in Ids : ReceiveNothing(i)) \/ UNCHANGED vars
  BY <1>6 DEF ReceiveNothing, vars, apiVars
<1> QED
  BY <1>1, <1>2, <1>3, <1>4, <1>5, <1>6, Actions DEF RestAction

LEMMA AddedIn ==
    ASSUME NEW S, store \in [Names -> S], NEW i, NEW key \in S
    PROVE  Added(i, key) \in [Names -> S]
  BY DEF Added

StoreIn(S) == store \in [Names -> S \cup {"absent"}]

\* Kept for any set of keys that contains what calls and the cloud bring.
LEMMA StoreStep ==
    ASSUME CallsType, [Next]_vars, NEW S, {"whole", "none"} \subseteq S, StoreIn(S),
           \A i \in Ids : requests[i] # None /\ requests[i].op \in SaveOps => requests[i].key \in S
    PROVE  StoreIn(S)'
<1>1. ASSUME NEW i \in Ids, AddDevice(i)
      PROVE  StoreIn(S)'
  <2>1. requests[i].key \in S
    BY <1>1 DEF AddDevice, Pending, SaveOps
  <2> QED
    BY <1>1, <2>1, AddedIn DEF AddDevice, StoreIn
<1>2. ASSUME NEW i \in Ids, UpdateDevice(i)
      PROVE  StoreIn(S)'
  <2>1. requests[i].key \in S
    BY <1>2 DEF UpdateDevice, Pending, SaveOps
  <2> QED
    BY <1>2, <2>1 DEF UpdateDevice, StoreIn
<1>3. ASSUME NEW i \in Ids, DeleteDevice(i)
      PROVE  StoreIn(S)'
  BY <1>3 DEF DeleteDevice, StoreIn
<1>4. ASSUME NEW i \in Ids, CloudImport(i)
      PROVE  StoreIn(S)'
  <2>1. PICK key \in {"whole", "none"} : store' = Added(i, key)
    BY <1>4 DEF CloudImport
  <2>2. key \in S \cup {"absent"}
    OBVIOUS
  <2> QED
    BY <2>1, <2>2, AddedIn DEF StoreIn
<1> QED
  BY <1>1, <1>2, <1>3, <1>4, StoreChanges DEF StoreIn

LEMMA PollsStep ==
    ASSUME polls \in [1 .. MaxPolls -> Poll], [Next]_vars
    PROVE  (polls \in [1 .. MaxPolls -> Poll])'
<1>1. FreePoll \in Poll
  BY DEF FreePoll, Poll
<1>2. CASE LoadDevices
  <2>1. PICK p \in 1 .. MaxPolls : polls' = [polls EXCEPT ![p].at = "sent"]
    BY <1>2 DEF LoadDevices
  <2>2. [polls[p] EXCEPT !.at = "sent"] \in Poll
    BY DEF Poll
  <2> QED
    BY <2>1, <2>2
<1>3. ASSUME NEW p \in DOMAIN polls, ServePoll(p)
      PROVE  (polls \in [1 .. MaxPolls -> Poll])'
  <2>1. [at |-> "answered", names |-> {n \in Names : store[n] # "absent"}] \in Poll
    BY DEF Poll
  <2> QED
    BY <1>3, <2>1 DEF ServePoll
<1> QED
  BY <1>1, <1>2, <1>3, PollsChanges

LEMMA DevicesStep ==
    ASSUME devices \in [Names -> Rows], [Next]_vars
    PROVE  (devices \in [Names -> Rows])'
<1>1. CASE \E p \in DOMAIN polls : ReceivePoll(p)
  BY <1>1 DEF ReceivePoll, Rows
<1>2. CASE \E i \in Ids : ReceiveCommand(i)
  BY <1>2 DEF ReceiveCommand, Rows
<1>3. CASE ToSettings
  BY <1>3 DEF ToSettings, EmptyTable, Rows
<1> QED
  BY <1>1, <1>2, <1>3, DevicesChanges DEF DevicesAction

LEMMA DataInit == Init => DataType
<1>1. FreePoll \in Poll /\ [FreePoll EXCEPT !.at = "sent"] \in Poll
  BY DEF FreePoll, Poll
<1> QED
  BY <1>1, BoundsAssumption DEF Init, ApiInit, DataType, Keys, Rows, EmptyTable

LEMMA DataStep ==
    ASSUME CallsInv, DataType, [Next]_vars
    PROVE  DataType'
<1>1. StoreIn(Keys) /\ CallsType /\ {"whole", "none"} \subseteq Keys
  BY DEF DataType, StoreIn, CallsInv, Keys
<1>2. \A i \in Ids : requests[i] # None => requests[i].key \in Keys
  BY <1>1 DEF CallsType, Calls
<1>3. StoreIn(Keys)'
  BY <1>1, <1>2, StoreStep
<1>4. (faults \in 0 .. MaxFaults)'
  BY FaultsChanges, BoundsAssumption DEF DataType
<1> QED
  BY <1>3, <1>4, PollsStep, DevicesStep DEF DataType, StoreIn

\* Types are kept: the type invariant of WebApp.
THEOREM TypeCorrect == Spec => []TypeOK
<1>1. CallsInv /\ DataType /\ [Next]_vars => DataType'
  BY DataStep
<1>2. CallsInv /\ ScreenInv /\ DataType => TypeOK
  BY DEF CallsInv, CallsType, OwnType, ScreenInv, ScreenType, DataType, TypeOK
<1> QED
  BY <1>1, <1>2, ScreenCorrect, DataInit, PTL DEF Spec
-----------------------------------------------------------------------------
\* Keys

LEMMA WithinKeys ==
    ASSUME CallsType, \A i \in Ids : requests[i] # None => KeyGiven(requests[i]),
           NEW c, Within(c)
    PROVE  \A i \in Ids : requests'[i] # None => KeyGiven(requests'[i])
<1>1. PICK closed \in SUBSET {c}, over \in SUBSET Ids, new \in Calls \cup {None} :
          Effect(closed, over, new) /\ (new # None => KeyGiven(new))
  BY DEF Within
<1> QED
  BY <1>1, EffectKeys

LEMMA KeyStep ==
    ASSUME CallsInv, ScreenInv, DataType, KeyInv, [Next]_vars
    PROVE  KeyInv'
<1>1. CallsType /\ \A i \in Ids : requests[i] # None => KeyGiven(requests[i])
  BY DEF CallsInv, KeyInv
<1>2. \A i \in Ids : requests'[i] # None => KeyGiven(requests'[i])
  <2>1. ASSUME NEW c, Within(c)
        PROVE  \A i \in Ids : requests'[i] # None => KeyGiven(requests'[i])
    BY <1>1, <2>1, WithinKeys
  <2>2. CASE ToSettings
    <3> DEFINE call == Call("settings", "getSettings", {}, "none", FALSE)
    <3>1. Effect({"table", "form", "dialog", "settings"}, {}, call)
      BY <2>2, ToSettingsEffect
    <3>2. KeyGiven(call)
      BY DEF Call, KeyGiven, SaveOps
    <3> HIDE DEF call
    <3> QED
      BY <1>1, <3>1, <3>2, EffectKeys
  <2>3. CASE TableAction \/ RestAction
    BY <2>1, <2>3, TableStep, RestStep
  <2>4. CASE FormAction
    BY <2>1, <2>4, FormStep
  <2>5. CASE DialogAction
    BY <2>1, <2>5, DialogStep DEF DialogDone
  <2>6. CASE SettingsAction
    BY <2>1, <2>6, SettingsStep DEF SettingsDone
  <2> QED
    BY <2>2, <2>3, <2>4, <2>5, <2>6, Actions
<1>3. KeysReal'
  <2>1. StoreIn({"whole", "none"})
    BY DEF KeyInv, KeysReal, DataType, StoreIn, Keys
  <2>2. \A i \in Ids : requests[i] # None /\ requests[i].op \in SaveOps =>
            requests[i].key \in {"whole", "none"}
    BY <1>1 DEF KeyGiven
  <2>3. StoreIn({"whole", "none"})'
    BY <1>1, <2>1, <2>2, StoreStep
  <2> QED
    BY <2>3 DEF StoreIn, KeysReal
<1> QED
  BY <1>2, <1>3 DEF KeyInv

\* The mask getDevices shows instead of a key is never stored: save() sends the
\* form's key only if it has 16 characters.
THEOREM KeysCorrect == Spec => []KeysReal
<1>1. Init => KeyInv
  BY DEF Init, ApiInit, KeyInv, KeysReal
<1>2. Init => DataType
  BY DataInit
<1>3. CallsInv /\ ScreenInv /\ DataType /\ KeyInv /\ [Next]_vars => (DataType /\ KeyInv)'
  BY DataStep, KeyStep
<1>4. KeyInv => KeysReal
  BY DEF KeyInv
<1> QED
  BY <1>1, <1>2, <1>3, <1>4, ScreenCorrect, PTL DEF Spec
-----------------------------------------------------------------------------
\* Answers

LEMMA DestroyKeeps ==
    ASSUME CallsType, NEW closed, Destroy(closed), NEW i \in Ids, requests[i] # None
    PROVE  requests'[i] # None
  BY UnheardProps DEF Destroy

LEMMA SendKeeps ==
    ASSUME CallsInv, NEW c, NEW op, NEW names, NEW key, NEW id, Send(c, op, names, key, id),
           NEW i \in Ids, requests[i] # None
    PROVE  requests'[i] # None
<1>1. i # sent + 1
  BY BoundsAssumption DEF CallsInv, CallsType, Fresh, Ids
<1> QED
  BY <1>1 DEF Send, Post, PostBeside, CallsInv, CallsType

LEMMA ReceiveDone ==
    ASSUME NEW i \in Ids, Receive(i)
    PROVE  \E closed : Done(i, closed)
  BY DEF Receive, ReceiveNothing, ReceiveCommand, ReceiveForm, ReceiveCloud, ReceiveSettings

LEMMA ServerKeeps ==
    ASSUME CallsInv, Server, UNCHANGED own, NEW i \in Ids, requests[i] # None
    PROVE  requests'[i] # None
<1>1. CASE Effect({}, {}, None)
  BY <1>1 DEF Effect, Goes
<1>2. ASSUME NEW j \in Ids, Serve(j)
      PROVE  requests'[i] # None
  BY <1>1, <1>2, ServeEffect
<1>3. ASSUME NEW j \in Ids, Lose(j)
      PROVE  requests'[i] # None
  <2>1. /\ requests[j] # None /\ sent' = sent
        /\ requests' = [requests EXCEPT ![j].answer = "error"]
    BY <1>3 DEF Lose
  <2> QED
    BY <1>1, <2>1, AnswerEffect DEF CallsInv
<1>4. CASE \E p \in DOMAIN polls : ServePoll(p) \/ LosePoll(p)
  BY <1>4 DEF ServePoll, LosePoll
<1> QED
  BY <1>2, <1>3, <1>4 DEF Server

\* Only its own answer ends a call.
LEMMA OnlyReceiveEnds ==
    ASSUME CallsInv, [Next]_vars, NEW i \in Ids, requests[i] # None, requests'[i] = None
    PROVE  Receive(i)
<1> USE DEF CallsInv
<1>1. ~UNCHANGED requests
  OBVIOUS
<1>2. \A closed : ~Destroy(closed)
  BY DestroyKeeps
<1>3. \A c, op, names, key, id : ~Send(c, op, names, key, id)
  BY SendKeeps
<1>4. ASSUME NEW j \in Ids, Receive(j)
      PROVE  Receive(i)
  <2>1. PICK closed : Done(j, closed)
    BY <1>4, ReceiveDone
  <2>2. CASE i = j
    BY <1>4, <2>2
  <2>3. CASE i # j
    BY <2>1, <2>3, UnheardProps DEF Done
  <2> QED
    BY <2>2, <2>3
<1>5. ~(Server /\ UNCHANGED pageVars)
  BY ServerKeeps DEF pageVars
<1>6. ~ToSettings
  <2>1. i # sent + 1
    BY BoundsAssumption DEF CallsType, Fresh, Ids
  <2> DEFINE r == Unheard({"table", "form", "dialog"})
  <2>2. r \in [Ids -> Calls \cup {None}] /\ r[i] # None
    BY UnheardProps
  <2> HIDE DEF r
  <2>3. ASSUME NEW call, requests' = [r EXCEPT ![sent + 1] = call]
        PROVE  FALSE
    BY <2>1, <2>2, <2>3
  <2> QED
    BY <2>3 DEF ToSettings, PostBeside, r
<1>7. ~(Tick \/ OpenAdd \/ (\E n \in Names : OpenEdit(n)) \/ TypeForm \/ OpenCloud
        \/ TypeCreds \/ Select \/ Back \/ EditSettings \/ UNCHANGED vars)
  BY <1>1 DEF Tick, OpenAdd, OpenEdit, TypeForm, OpenCloud, TypeCreds, Select, Back,
              EditSettings, vars, apiVars
<1>8. ~(Save \/ ConfirmDelete \/ Discover \/ ImportSelected \/ SaveSettings
        \/ \E n \in Names : TogglePower(n))
  BY <1>3 DEF Save, ConfirmDelete, Discover, ImportSelected, SaveSettings, TogglePower
<1>9. ~(CloseForm \/ CloseCloud \/ ImportTimer \/ ToDevices
        \/ \E p \in DOMAIN polls : ReceivePoll(p))
  BY <1>2 DEF CloseForm, CloseCloud, ImportTimer, ToDevices, ReceivePoll
<1> QED
  BY <1>4, <1>5, <1>6, <1>7, <1>8, <1>9 DEF Next, User

\* A command waited for is about rows that are still there.
RowInv ==
    \A i \in Ids : requests[i] # None /\ requests[i].from = "table" =>
        /\ requests[i].op = "sendCommand"
        /\ \A n \in requests[i].names : devices[n] # "absent"

LEMMA WithinRows ==
    ASSUME CallsInv, RowInv, NEW c, c # "table", Within(c), UNCHANGED devices
    PROVE  RowInv'
<1>1. PICK closed \in SUBSET {c}, over \in SUBSET Ids, new \in Calls \cup {None} :
          Effect(closed, over, new) /\ (new # None => new.from = c)
  BY DEF Within
<1> QED
  BY <1>1 DEF Effect, Goes, RowInv

LEMMA CommandStep ==
    ASSUME CallsInv, RowInv, devices \in [Names -> Rows], NEW i \in Ids, ReceiveCommand(i)
    PROVE  /\ RowInv'
           /\ \A n \in Names : devices'[n] = "absent" <=> devices[n] = "absent"
<1>1. /\ requests[i] # None /\ requests[i].from = "table"
      /\ Done(i, {}) /\ sent' = sent
  BY DEF ReceiveCommand, Answered
<1>2. Effect({}, {i}, None)
  BY <1>1, DoneEffect DEF CallsInv
<1>3. \A n \in Names : devices'[n] = "absent" <=> devices[n] = "absent"
  BY <1>1 DEF ReceiveCommand, RowInv
<1>4. \A j \in Ids : requests[j] # None => requests[j].names \subseteq Names
  BY DEF CallsInv, CallsType, Calls
<1>5. RowInv'
  BY <1>2, <1>3, <1>4 DEF Effect, Goes, RowInv
<1> QED
  BY <1>3, <1>5

LEMMA RowStep ==
    ASSUME CallsInv, ScreenInv, DataType, RowInv, [Next]_vars
    PROVE  RowInv'
<1>1. CASE Tick
  BY <1>1 DEF Tick, pageVars, RowInv
<1>2. ASSUME NEW n \in Names, TogglePower(n)
      PROVE  RowInv'
  <2> DEFINE call == Call("table", "sendCommand", {n}, "none", FALSE)
  <2>1. Send("table", "sendCommand", {n}, "none", FALSE)
    BY <1>2 DEF TogglePower
  <2>2. /\ "table" \in Components /\ "sendCommand" \in Operations /\ "none" \in Keys
        /\ {n} \in SUBSET Names
    BY DEF Components, Operations, Keys
  <2>3. Effect({}, {}, call)
    BY <2>1, <2>2, SendEffect DEF CallsInv
  <2>4. call.op = "sendCommand" /\ call.names = {n}
    BY DEF Call
  <2>5. devices' = devices /\ devices[n] # "absent"
    BY <1>2 DEF TogglePower
  <2> HIDE DEF call
  <2> QED
    BY <2>3, <2>4, <2>5 DEF Effect, Goes, RowInv
<1>3. ASSUME NEW p \in DOMAIN polls, ReceivePoll(p)
      PROVE  RowInv'
  <2>1. Effect({"table"}, {}, None)
    BY <1>3, DestroyEffect DEF ReceivePoll, CallsInv
  <2> QED
    BY <2>1 DEF Effect, Goes, RowInv
<1>4. CASE ToSettings
  <2> DEFINE call == Call("settings", "getSettings", {}, "none", FALSE)
  <2>1. Effect({"table", "form", "dialog", "settings"}, {}, call) /\ call.from = "settings"
    BY <1>4, ToSettingsEffect DEF Call
  <2> HIDE DEF call
  <2> QED
    BY <2>1 DEF Effect, Goes, RowInv
<1>5. CASE RestAction
  <2>1. UNCHANGED devices
    BY <1>5 DEF RestAction, ReceiveNothing, vars, pageVars
  <2> QED
    BY <1>5, <2>1, RestStep, WithinRows
<1>6. CASE FormAction \/ DialogAction \/ SettingsAction
  <2>1. UNCHANGED devices
    BY <1>6 DEF FormAction, OpenAdd, OpenEdit, TypeForm, Save, ConfirmDelete, CloseForm,
       ReceiveForm, DialogAction, OpenCloud, TypeCreds, Discover, Select, Back,
       ImportSelected, ImportTimer, CloseCloud, ReceiveCloud, SettingsAction, EditSettings,
       SaveSettings, ToDevices, ReceiveSettings
  <2>2. Within("form") \/ Within("dialog") \/ Within("settings")
    BY <1>6, FormStep, DialogStep, SettingsStep DEF DialogDone, SettingsDone
  <2> QED
    BY <2>1, <2>2, WithinRows
<1>7. TableAction => Tick \/ (\E n \in Names : TogglePower(n)) \/ RowInv'
  BY <1>3, CommandStep DEF TableAction, DataType
<1> QED
  BY <1>1, <1>2, <1>4, <1>5, <1>6, <1>7, Actions

ReachStep ==
    \A i \in Ids : requests[i] # None /\ requests'[i] = None =>
        /\ devices' # devices => i \in own["table"]
        /\ \A n \in Names : devices'[n] = "absent" <=> devices[n] = "absent"
        /\ form' # form => i \in own["form"]
        /\ dialog' # dialog => i \in own["dialog"]
        /\ settings' # settings => i \in own["settings"]

LEMMA Reaches ==
    ASSUME CallsInv, DataType, RowInv, [Next]_vars
    PROVE  ReachStep
<1> SUFFICES ASSUME NEW i \in Ids, requests[i] # None, requests'[i] = None
             PROVE  /\ devices' # devices => i \in own["table"]
                    /\ \A n \in Names : devices'[n] = "absent" <=> devices[n] = "absent"
                    /\ form' # form => i \in own["form"]
                    /\ dialog' # dialog => i \in own["dialog"]
                    /\ settings' # settings => i \in own["settings"]
  BY DEF ReachStep
<1>1. Receive(i)
  BY OnlyReceiveEnds
<1>2. requests[i].from # "gone" => i \in own[requests[i].from]
  BY DEF CallsInv, OwnInv
<1>3. CASE ReceiveNothing(i)
  BY <1>3 DEF ReceiveNothing
<1>4. CASE ReceiveCommand(i)
  <2>1. requests[i].from = "table" /\ UNCHANGED <<form, dialog, settings>>
    BY <1>4 DEF ReceiveCommand, Answered
  <2>2. \A n \in Names : devices'[n] = "absent" <=> devices[n] = "absent"
    BY <1>4, CommandStep DEF DataType
  <2> QED
    BY <1>2, <2>1, <2>2
<1>5. CASE ReceiveForm(i)
  <2>1. requests[i].from = "form" /\ UNCHANGED <<devices, dialog, settings>>
    BY <1>5 DEF ReceiveForm, Answered
  <2> QED
    BY <1>2, <2>1
<1>6. CASE ReceiveCloud(i)
  <2>1. requests[i].from = "dialog" /\ UNCHANGED <<devices, form, settings>>
    BY <1>6 DEF ReceiveCloud, Answered
  <2> QED
    BY <1>2, <2>1
<1>7. CASE ReceiveSettings(i)
  <2>1. requests[i].from = "settings" /\ UNCHANGED <<devices, form, dialog>>
    BY <1>7 DEF ReceiveSettings, Answered
  <2> QED
    BY <1>2, <2>1
<1> QED
  BY <1>1, <1>3, <1>4, <1>5, <1>6, <1>7 DEF Receive

\* An answer changes only the component that made the call, and only the one
\* that is still on the screen (the subscribe callbacks of the components); the
\* rows of the table are those of the last load.
THEOREM AnswersCorrect == Spec => AnswersReachTheirOwn
<1>1. Init => DataType /\ RowInv
  BY DataInit DEF Init, ApiInit, RowInv
<1>2. CallsInv /\ ScreenInv /\ DataType /\ RowInv /\ [Next]_vars => (DataType /\ RowInv)'
  BY DataStep, RowStep
<1>3. CallsInv /\ DataType /\ RowInv /\ [Next]_vars => [ReachStep]_vars
  BY Reaches
<1> QED
  BY <1>1, <1>2, <1>3, ScreenCorrect, PTL DEF Spec, AnswersReachTheirOwn, ReachStep

KeepStep ==
    /\ dialog # None /\ dialog' # None
          /\ dialog.step = "results" /\ dialog'.step = "results" =>
              dialog'.found = dialog.found
    /\ settings # None /\ settings' # None /\ settings.shown = "typed" =>
              settings'.shown = "typed"

LEMMA FoundKept ==
    ASSUME CallsInv, ScreenInv, DialogAction, dialog # None, dialog' # None,
           dialog.step = "results", dialog'.step = "results"
    PROVE  dialog'.found = dialog.found
<1>1. dialog \in Dialogs
  BY DEF ScreenInv, ScreenType
<1>2. CASE Select \/ Back \/ ImportSelected
  BY <1>1, <1>2 DEF Select, ToggleOne, ToggleAll, Back, ImportSelected, Dialogs
<1>3. ASSUME NEW i \in Ids, ReceiveCloud(i)
      PROVE  dialog'.found = dialog.found
  <2>1. ~Answered(i, "dialog", "cloudDiscover", "ok")
    BY DEF Answered, Waits, ScreenInv, DialogInv
  <2>2. \/ dialog' = [dialog EXCEPT !.loading = FALSE, !.due = TRUE]
        \/ dialog' = [dialog EXCEPT !.loading = FALSE]
    BY <1>3, <2>1 DEF ReceiveCloud
  <2> QED
    BY <1>1, <2>2 DEF Dialogs
<1>4. ~(OpenCloud \/ TypeCreds \/ Discover \/ ImportTimer \/ CloseCloud)
  BY DEF OpenCloud, TableFree, TypeCreds, Discover, ImportTimer, CloseCloud
<1> QED
  BY <1>2, <1>3, <1>4 DEF DialogAction

LEMMA TypedKept ==
    ASSUME CallsInv, ScreenInv, SettingsAction, settings # None, settings' # None,
           settings.shown = "typed"
    PROVE  settings'.shown = "typed"
<1>1. settings \in SettingsPages
  BY DEF ScreenInv, ScreenType
<1>2. CASE EditSettings \/ SaveSettings
  BY <1>1, <1>2 DEF EditSettings, SaveSettings, SettingsPages
<1>3. ASSUME NEW i \in Ids, ReceiveSettings(i)
      PROVE  settings'.shown = "typed"
  <2>1. ~settings.loading
    BY DEF ScreenInv, SettingsInv
  <2>2. Waits("settings", {"getSettings"}) = {}
    BY <2>1 DEF ScreenInv, SettingsInv, Busy
  <2>3. requests[i].op # "getSettings"
    BY <1>3, <2>2 DEF ReceiveSettings, Answered, Waits
  <2>4. settings' = [settings EXCEPT !.saving = FALSE]
    BY <1>3, <2>3 DEF ReceiveSettings, Answered
  <2> QED
    BY <1>1, <2>4 DEF SettingsPages
<1>4. ~ToDevices
  BY DEF ToDevices
<1> QED
  BY <1>2, <1>3, <1>4 DEF SettingsAction

LEMMA Keeps ==
    ASSUME CallsInv, ScreenInv, [Next]_vars
    PROVE  KeepStep
<1>1. CASE TableAction \/ RestAction
  BY <1>1, TableStep, RestStep DEF Nobody, KeepStep
<1>2. CASE FormAction
  BY <1>2, FormStep DEF KeepStep
<1>3. CASE DialogAction
  BY <1>3, FoundKept, DialogStep DEF DialogDone, KeepStep
<1>4. CASE SettingsAction
  BY <1>4, TypedKept, SettingsStep DEF SettingsDone, KeepStep
<1>5. CASE ToSettings
  BY <1>5 DEF ToSettings, ScreenInv, PageInv, KeepStep
<1> QED
  BY <1>1, <1>2, <1>3, <1>4, <1>5, Actions

\* What the user chose from or typed is not overwritten by an answer (discover
\* and ngOnInit fill the dialog and the settings, and may be late).
THEOREM NothingLost == Spec => NothingOverwritten
<1>1. CallsInv /\ ScreenInv /\ [Next]_vars => KeepStep
  BY Keeps
<1>2. CallsInv /\ ScreenInv /\ [Next]_vars => [KeepStep]_vars
  BY <1>1
<1> QED
  BY <1>2, ScreenCorrect, PTL DEF Spec, NothingOverwritten, KeepStep
=============================================================================
