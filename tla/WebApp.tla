------------------------------ MODULE WebApp -------------------------------
(***************************************************************************)
(* The Angular application of one user over WebApi: the page of the        *)
(* devices with its table, its form and its cloud dialog, and the page of  *)
(* the settings.                                                           *)
(*                                                                         *)
(* The form and the dialog cover the page with an overlay, so at most one  *)
(* is open and nothing behind it is clicked.  A timer may fire, an answer  *)
(* arrive, and the user do anything the page offers, in any order.  The    *)
(* messages of success and failure are left out, and so is what a device   *)
(* shows besides its presence and its power; every device is enabled.      *)
(***************************************************************************)
EXTENDS WebApi

VARIABLES
    page,      \* the component in the router outlet
    devices,   \* the rows of the table: the power each shows, or "absent"
    form,      \* DeviceFormComponent, or None
    dialog,    \* CloudDiscoverComponent, or None
    settings,  \* SettingsComponent, or None
    own        \* history: the calls in flight made by each component on the screen

pageVars == <<page, devices, form, dialog, settings, own>>

vars == <<apiVars, pageVars>>

\* power_on is not in the server's list: unset until a command is answered.
Rows == {"absent", "unset", "on", "off"}

Forms == [edit : BOOLEAN, id : BOOLEAN, name : Names \cup {None}, filled : BOOLEAN,
          key : Keys, saving : BOOLEAN]

Dialogs == [step : {"creds", "results"}, creds : BOOLEAN, loading : BOOLEAN,
            found : SUBSET Names, selected : SUBSET Names, due : BOOLEAN]

SettingsPages == [loading : BOOLEAN, saving : BOOLEAN,
                  shown : {"defaults", "server", "typed"}]

ASSUME PageAssumption ==
    None \notin Forms /\ None \notin Dialogs /\ None \notin SettingsPages

EmptyTable == [n \in Names |-> "absent"]

\* The application opens at /devices, and loads the list.
Init ==
    /\ ApiInit
    /\ polls = [p \in 1 .. MaxPolls |->
                   IF p = 1 THEN [FreePoll EXCEPT !.at = "sent"] ELSE FreePoll]
    /\ page = "devices"
    /\ devices = EmptyTable
    /\ form = None /\ dialog = None /\ settings = None
    /\ own = [c \in Components |-> {}]

\* No overlay is in the way.
TableFree == page = "devices" /\ form = None /\ dialog = None

\* The component makes a call.
Send(c, op, names, key, id) ==
    /\ Post(Call(c, op, names, key, id))
    /\ own' = [own EXCEPT ![c] = @ \cup {sent + 1}]

\* Fault: the rows are kept, and brought up to date in place.
DestroyNoRow(closed) ==
    /\ requests' = Unheard(closed \ {"table"})
    /\ own' = [c \in Components |-> IF c \in closed THEN {} ELSE own[c]]

\* These components, or the rows of the table, are destroyed.
Destroy(closed) ==
    /\ requests' = Unheard(closed)
    /\ own' = [c \in Components |-> IF c \in closed THEN {} ELSE own[c]]
-----------------------------------------------------------------------------
\* DeviceListComponent

\* The timer of ngOnInit, every 10 s.
Tick ==
    /\ page = "devices"
    /\ LoadDevices
    /\ UNCHANGED <<store, requests, sent, faults, pageVars>>

\* Fault: rows are added and updated, none goes away.
MergePoll(p) ==
    /\ polls[p].at = "answered"
    /\ polls' = [polls EXCEPT ![p] = FreePoll]
    /\ devices' = [n \in Names |-> IF n \in polls[p].names THEN "unset" ELSE devices[n]]
    /\ Destroy({"table"})
    /\ UNCHANGED <<store, sent, faults, page, form, dialog, settings>>

\* New rows: a command sent from an old one has nothing to update any more.
ReceivePoll(p) ==
    /\ polls[p].at = "answered"
    /\ polls' = [polls EXCEPT ![p] = FreePoll]
    /\ devices' = [n \in Names |-> IF n \in polls[p].names THEN "unset" ELSE "absent"]
    /\ Destroy({"table"})
    /\ UNCHANGED <<store, sent, faults, page, form, dialog, settings>>

\* A device whose power is not known to be on is switched on.
TogglePower(n) ==
    /\ TableFree
    /\ devices[n] # "absent"
    /\ Send("table", "sendCommand", {n}, "none", FALSE)
    /\ UNCHANGED <<store, polls, faults, page, devices, form, dialog, settings>>

Opened(edit, name, key) ==
    [edit |-> edit, id |-> edit, name |-> name, filled |-> FALSE, key |-> key,
     saving |-> FALSE]

\* The form has no field for the id the server wants.
OpenAdd ==
    /\ TableFree
    /\ form' = Opened(FALSE, None, "none")
    /\ UNCHANGED <<apiVars, page, devices, dialog, settings, own>>

\* A copy of the row: its id and its masked key, no device_id.
OpenEdit(n) ==
    /\ TableFree
    /\ devices[n] # "absent"
    /\ form' = Opened(TRUE, n, "mask")
    /\ UNCHANGED <<apiVars, page, devices, dialog, settings, own>>

OpenCloud ==
    /\ TableFree
    /\ dialog' = [step |-> "creds", creds |-> FALSE, loading |-> FALSE,
                  found |-> {}, selected |-> {}, due |-> FALSE]
    /\ UNCHANGED <<apiVars, page, devices, form, settings, own>>
-----------------------------------------------------------------------------
\* DeviceFormComponent

\* The name can be typed when adding, the rest at any time, while saving too.
TypeForm ==
    /\ form # None
    /\ \E n \in Names \cup {None}, key \in {"whole", form.key} :
          /\ form.edit => n = form.name
          /\ form' = [form EXCEPT !.name = n, !.filled = TRUE, !.key = key]
    /\ UNCHANGED <<apiVars, page, devices, dialog, settings, own>>

\* Fault: the length of the key is not asked.
AnyKeyValid == form.name # None /\ form.filled

\* Fault: a form without a name passes.
NamelessValid == form.filled /\ form.key = "whole"

\* The required fields, the pattern of the name, the length of the key.
Valid == form.name # None /\ form.filled /\ form.key = "whole"

\* Fault: the button stays enabled while saving.
SaveAgain ==
    /\ form # None /\ Valid
    /\ form' = [form EXCEPT !.saving = TRUE]
    /\ Send("form", IF form.edit THEN "updateDevice" ELSE "addDevice",
            {form.name}, form.key, form.id)
    /\ UNCHANGED <<store, polls, faults, page, devices, dialog, settings>>

Save ==
    /\ form # None /\ Valid /\ ~form.saving
    /\ form' = [form EXCEPT !.saving = TRUE]
    /\ Send("form", IF form.edit THEN "updateDevice" ELSE "addDevice",
            {form.name}, form.key, form.id)
    /\ UNCHANGED <<store, polls, faults, page, devices, dialog, settings>>

\* Deleting is possible while a save is in flight.
ConfirmDelete ==
    /\ form # None /\ form.edit
    /\ Send("form", "deleteDevice", {form.name}, "none", TRUE)
    /\ UNCHANGED <<store, polls, faults, page, devices, form, dialog, settings>>

\* Cancel, or a click on the overlay.
CloseForm ==
    /\ form # None
    /\ form' = None
    /\ Destroy({"form"})
    /\ UNCHANGED <<store, sent, polls, faults, page, devices, dialog, settings>>
-----------------------------------------------------------------------------
\* CloudDiscoverComponent

TypeCreds ==
    /\ dialog # None /\ dialog.step = "creds"
    /\ dialog' = [dialog EXCEPT !.creds = TRUE]
    /\ UNCHANGED <<apiVars, page, devices, form, settings, own>>

\* Fault: the button stays enabled while loading.
DiscoverAgain ==
    /\ dialog # None /\ dialog.step = "creds"
    /\ dialog.creds
    /\ dialog' = [dialog EXCEPT !.loading = TRUE]
    /\ Send("dialog", "cloudDiscover", {}, "none", FALSE)
    /\ UNCHANGED <<store, polls, faults, page, devices, form, settings>>

Discover ==
    /\ dialog # None /\ dialog.step = "creds"
    /\ dialog.creds /\ ~dialog.loading
    /\ dialog' = [dialog EXCEPT !.loading = TRUE]
    /\ Send("dialog", "cloudDiscover", {}, "none", FALSE)
    /\ UNCHANGED <<store, polls, faults, page, devices, form, settings>>

ToggleOne(n) ==
    dialog' = [dialog EXCEPT !.selected = IF n \in @ THEN @ \ {n} ELSE @ \cup {n}]

AllSelected == dialog.found # {} /\ dialog.selected = dialog.found

ToggleAll ==
    dialog' = [dialog EXCEPT !.selected = IF AllSelected THEN {} ELSE dialog.found]

\* The boxes of the list and the one above them, while importing too.
Select ==
    /\ dialog # None /\ dialog.step = "results"
    /\ ToggleAll \/ \E n \in dialog.found : ToggleOne(n)
    /\ UNCHANGED <<apiVars, page, devices, form, settings, own>>

\* Possible while importing.
Back ==
    /\ dialog # None /\ dialog.step = "results"
    /\ dialog' = [dialog EXCEPT !.step = "creds"]
    /\ UNCHANGED <<apiVars, page, devices, form, settings, own>>

ImportSelected ==
    /\ dialog # None /\ dialog.step = "results"
    /\ ~dialog.loading /\ dialog.selected # {}
    /\ dialog' = [dialog EXCEPT !.loading = TRUE]
    /\ Send("dialog", "cloudImport", dialog.selected, "none", TRUE)
    /\ UNCHANGED <<store, polls, faults, page, devices, form, settings>>

\* 1.5 s after a success, whatever the dialog is doing by then.
ImportTimer ==
    /\ dialog # None /\ dialog.due
    /\ dialog' = None
    /\ Destroy({"dialog"})
    /\ LoadDevices
    /\ UNCHANGED <<store, sent, faults, page, devices, form, settings>>

\* Cancel, Close, or a click on the overlay.
CloseCloud ==
    /\ dialog # None
    /\ dialog' = None
    /\ Destroy({"dialog"})
    /\ UNCHANGED <<store, sent, polls, faults, page, devices, form, settings>>
-----------------------------------------------------------------------------
\* SettingsComponent and the router

\* The fields appear when the settings, or an error, have come.
EditSettings ==
    /\ settings # None /\ ~settings.loading
    /\ settings' = [settings EXCEPT !.shown = "typed"]
    /\ UNCHANGED <<apiVars, page, devices, form, dialog, own>>

SaveSettings ==
    /\ settings # None /\ ~settings.loading /\ ~settings.saving
    /\ settings' = [settings EXCEPT !.saving = TRUE]
    /\ Send("settings", "updateSettings", {}, "none", FALSE)
    /\ UNCHANGED <<store, polls, faults, page, devices, form, dialog>>

\* A link of the bar, or the browser's Back: the other component is destroyed
\* with all it contains and its timer.
ToSettings ==
    /\ page = "devices"
    /\ page' = "settings"
    /\ devices' = EmptyTable
    /\ form' = None /\ dialog' = None
    /\ polls' = [p \in DOMAIN polls |-> FreePoll]
    /\ settings' = [loading |-> TRUE, saving |-> FALSE, shown |-> "defaults"]
    /\ PostBeside(Unheard({"table", "form", "dialog"}),
                  Call("settings", "getSettings", {}, "none", FALSE))
    /\ own' = [c \in Components |-> IF c = "settings" THEN {sent + 1} ELSE {}]
    /\ UNCHANGED <<store, faults>>

ToDevices ==
    /\ page = "settings"
    /\ page' = "devices"
    /\ settings' = None
    /\ Destroy({"settings"})
    /\ LoadDevices
    /\ UNCHANGED <<store, sent, faults, devices, form, dialog>>
-----------------------------------------------------------------------------
\* The answers to the user's calls

Answered(i, from, op, verdict) ==
    /\ requests[i] # None
    /\ requests[i].from = from /\ requests[i].op = op /\ requests[i].answer = verdict

\* The call is over, and with it the components its answer closes.
Done(i, closed) ==
    /\ requests' = [Unheard(closed) EXCEPT ![i] = None]
    /\ own' = [c \in Components |-> IF c \in closed THEN {} ELSE own[c] \ {i}]

\* Nobody listens.
ReceiveNothing(i) ==
    /\ requests[i] # None
    /\ requests[i].from = "gone" /\ requests[i].answer # "pending"
    /\ Done(i, {})
    /\ UNCHANGED <<store, sent, polls, faults, page, devices, form, dialog, settings>>

\* togglePower: power_on of that row is negated.
ReceiveCommand(i) ==
    /\ \/ /\ Answered(i, "table", "sendCommand", "ok")
          /\ \E n \in requests[i].names :
                devices' = [devices EXCEPT ![n] = IF @ = "on" THEN "off" ELSE "on"]
       \/ /\ Answered(i, "table", "sendCommand", "error")
          /\ UNCHANGED devices
    /\ Done(i, {})
    /\ UNCHANGED <<store, sent, polls, faults, page, form, dialog, settings>>

\* save, confirmDelete: a success closes the form and loads the list.
ReceiveForm(i) ==
    /\ \/ /\ \E op \in {"addDevice", "updateDevice", "deleteDevice"} :
                 Answered(i, "form", op, "ok")
          /\ form' = None
          /\ Done(i, {"form"})
          /\ LoadDevices
       \/ /\ \E op \in {"addDevice", "updateDevice"} : Answered(i, "form", op, "error")
          /\ form' = [form EXCEPT !.saving = FALSE]
          /\ Done(i, {})
          /\ UNCHANGED polls
       \/ /\ Answered(i, "form", "deleteDevice", "error")
          /\ UNCHANGED <<form, polls>>
          /\ Done(i, {})
    /\ UNCHANGED <<store, sent, faults, page, devices, dialog, settings>>

\* discover, importSelected.  All that was found is selected.
ReceiveCloud(i) ==
    /\ \/ /\ Answered(i, "dialog", "cloudDiscover", "ok")
          /\ dialog' = [dialog EXCEPT !.step = "results", !.loading = FALSE,
                            !.found = requests[i].names, !.selected = requests[i].names]
       \/ /\ Answered(i, "dialog", "cloudImport", "ok")
          /\ dialog' = [dialog EXCEPT !.loading = FALSE, !.due = TRUE]
       \/ /\ \E op \in {"cloudDiscover", "cloudImport"} : Answered(i, "dialog", op, "error")
          /\ dialog' = [dialog EXCEPT !.loading = FALSE]
    /\ Done(i, {})
    /\ UNCHANGED <<store, sent, polls, faults, page, devices, form, settings>>

\* An error leaves the defaults of the component in the fields.
ReceiveSettings(i) ==
    /\ \/ /\ Answered(i, "settings", "getSettings", "ok")
          /\ settings' = [settings EXCEPT !.loading = FALSE, !.shown = "server"]
       \/ /\ Answered(i, "settings", "getSettings", "error")
          /\ settings' = [settings EXCEPT !.loading = FALSE]
       \/ /\ Answered(i, "settings", "updateSettings", "error")
          /\ settings' = [settings EXCEPT !.saving = FALSE]
    /\ Done(i, {})
    /\ UNCHANGED <<store, sent, polls, faults, page, devices, form, dialog>>

Receive(i) ==
    \/ ReceiveNothing(i) \/ ReceiveCommand(i) \/ ReceiveForm(i) \/ ReceiveCloud(i)
    \/ ReceiveSettings(i)
-----------------------------------------------------------------------------
User ==
    \/ \E n \in Names : TogglePower(n) \/ OpenEdit(n)
    \/ OpenAdd \/ TypeForm \/ Save \/ ConfirmDelete \/ CloseForm
    \/ OpenCloud \/ TypeCreds \/ Discover \/ Select \/ Back \/ ImportSelected \/ CloseCloud
    \/ EditSettings \/ SaveSettings \/ ToSettings \/ ToDevices

Next ==
    \/ User
    \/ Tick \/ ImportTimer
    \/ \E i \in Ids : Receive(i)
    \/ \E p \in DOMAIN polls : ReceivePoll(p)
    \/ Server /\ UNCHANGED pageVars

Spec == Init /\ [][Next]_vars

\* The browser is fair: the timer fires and what has arrived is handled.  Strong
\* for the user's calls, for an answer that loads the list waits for MaxPolls,
\* which is ours.  Nothing is assumed of the server.
FairSpec ==
    /\ Spec
    /\ WF_vars(Tick)
    /\ SF_vars(\E i \in Ids : Receive(i))
    /\ \A p \in 1 .. MaxPolls : WF_vars(ReceivePoll(p))

\* The server answers: a premise, for the handlers that add, update, delete,
\* import and send commands wait for BridgeManager's mutex before they do, and
\* Bridge shows how it may never be free.  An edit and its answer are one step
\* here, so a reload that is stuck in between is a step that is not taken.
\* The calls being few, it is enough that some call is served; loads never end,
\* so each must be.
ServerAnswers ==
    /\ WF_vars((\E i \in Ids : Serve(i)) /\ UNCHANGED pageVars)
    /\ \A p \in 1 .. MaxPolls : WF_vars(ServePoll(p) /\ UNCHANGED pageVars)
-----------------------------------------------------------------------------
\* Properties

\* Type invariant.
TypeOK ==
    /\ store \in [Names -> Keys \cup {"absent"}]
    /\ requests \in [Ids -> Calls \cup {None}]
    /\ sent \in 0 .. MaxRequests /\ faults \in 0 .. MaxFaults
    /\ polls \in [1 .. MaxPolls -> Poll]
    /\ page \in {"devices", "settings"}
    /\ devices \in [Names -> Rows]
    /\ form \in Forms \cup {None}
    /\ dialog \in Dialogs \cup {None}
    /\ settings \in SettingsPages \cup {None}
    /\ own \in [Components -> SUBSET Ids]

\* The list masks the keys and an edit starts from the list, but the mask
\* never comes back: no key kept by the server is overwritten by "****".
KeysReal == \A n \in Names : store[n] # "mask"

\* The user's calls this component is waiting for.
Waits(from, ops) ==
    {i \in Ids : requests[i] # None /\ requests[i].from = from /\ requests[i].op \in ops}

Busy(flag, waits) == IF flag THEN \E i \in Ids : waits = {i} ELSE waits = {}

\* A button says "Saving...", "Discovering..." or "Importing...", and is
\* disabled, just as long as one call of its own is in flight: no second call
\* overtakes the first, and none leaves the button stuck when its component
\* was closed and opened again meanwhile.
BusyHonest ==
    /\ form # None => Busy(form.saving, Waits("form", {"addDevice", "updateDevice"}))
    /\ dialog # None => Busy(dialog.loading, Waits("dialog", {"cloudDiscover", "cloudImport"}))
    /\ settings # None => /\ Busy(settings.loading, Waits("settings", {"getSettings"}))
                         /\ Busy(settings.saving, Waits("settings", {"updateSettings"}))

\* An answer changes only what made the call, as long as that is on the screen:
\* it does not close a form, fill a dialog or switch a row that has taken the
\* place of the one the user had before, nor bring back a row that is gone.
AnswersReachTheirOwn ==
    [][\A i \in Ids : requests[i] # None /\ requests'[i] = None =>
           /\ devices' # devices => i \in own["table"]
           /\ \A n \in Names : devices'[n] = "absent" <=> devices[n] = "absent"
           /\ form' # form => i \in own["form"]
           /\ dialog' # dialog => i \in own["dialog"]
           /\ settings' # settings => i \in own["settings"]]_vars

\* What the user chose or typed is not overwritten by a late answer: while the
\* dialog shows results they stay the same, and settings typed stay typed.
NothingOverwritten ==
    [][/\ dialog # None /\ dialog' # None
          /\ dialog.step = "results" /\ dialog'.step = "results" =>
              dialog'.found = dialog.found
       /\ settings # None /\ settings' # None /\ settings.shown = "typed" =>
              settings'.shown = "typed"]_vars

TableRight == \A n \in Names : devices[n] = "absent" <=> store[n] = "absent"

\* Whatever answers were late, lost or in the wrong order, a table left on the
\* screen ends up listing the devices the server has, if the server answers.
TableCatchesUp == ServerAnswers => (<>[](page = "devices") => <>[]TableRight)

\* No button stays busy for ever, if the server answers: whatever is closed,
\* opened again, refused or lost in between, every answer finds its flag.
BusyEnds ==
    ServerAnswers =>
        /\ []<>(form = None \/ ~form.saving)
        /\ []<>(dialog = None \/ ~dialog.loading)
        /\ []<>(settings = None \/ (~settings.loading /\ ~settings.saving))
-----------------------------------------------------------------------------
\* What the application says and the server does not do

\* device-form.component.ts:175 asks for all that is required; so a device with
\* a new name that passes is added, unless the network fails.
ValidFormAccepted ==
    [][\A i \in Ids :
           /\ Pending(i, "addDevice") /\ requests'[i] # None
           /\ requests'[i].answer = "error" /\ faults' = faults
           => \E n \in requests[i].names : store[n] # "absent"]_vars
=============================================================================
