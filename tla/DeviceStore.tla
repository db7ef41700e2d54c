---------------------------- MODULE DeviceStore ----------------------------
(***************************************************************************)
(* ConfigManager and devices.json: the edits of the list of devices, each  *)
(* followed by a save that writes a temporary file and renames it, with a  *)
(* crash possible between any two steps and a failure of any step.         *)
(*                                                                         *)
(* An edit and its save hold ConfigManager's mutex from end to end, so the *)
(* server's threads take turns and nobody sees the list in between; what   *)
(* a handler does once the edit has returned is Bridge.  The list starts   *)
(* empty, as without a devices.json: one written by hand is left out.  The *)
(* process may be killed at any moment; that the system loses what it has  *)
(* not flushed to the disk yet is left out too.                            *)
(***************************************************************************)
EXTENDS DeviceLists

CONSTANTS Partial,    \* a file truncated, or not written to its end
          Missing,    \* there is no such file
          MaxFaults   \* bound: failures of the file system

ASSUME FilesAssumption == Partial \notin Lists /\ Missing \notin Lists \cup {Partial}

ASSUME FaultsAssumption == MaxFaults \in Nat

VARIABLES
    pc,        \* "idle", or the step saveDevices takes next, or "down"
    list,      \* devices_
    file,      \* what devices.json holds
    tmp,       \* what devices.json.tmp holds
    edits,     \* edits so far
    faults,    \* failures of the file system so far
    careless,  \* history: an update left an entry incomplete or a name shared
    lost       \* history: a save or a load failed, and neither worked since

vars == <<pc, list, file, tmp, edits, faults, careless, lost>>

At(label)   == pc = label
Goto(label) == pc' = label

\* main() has not loaded the configuration yet.
Init ==
    /\ pc = "down"
    /\ list = NoDevices
    /\ file = NoDevices
    /\ tmp = Missing
    /\ edits = 0 /\ faults = 0
    /\ careless = FALSE /\ lost = FALSE
-----------------------------------------------------------------------------
\* addDevice, updateDevice, removeDevice

\* The number of the edit, a rank above those in use.
Rank == edits + 1

\* The mutex is free, and stays with this edit until its save is over.
Editing ==
    /\ At("idle") /\ edits < MaxEdits
    /\ edits' = edits + 1
    /\ Goto("open")
    /\ UNCHANGED <<file, tmp, faults, lost>>

\* Fault: two requests look for the name before either adds its device.
AddTaken(d) ==
    /\ Editing
    /\ Complete(d)
    /\ list' = Put(list, Rank, d)
    /\ UNCHANGED careless

\* The handlers, of one device and of a cloud import, refuse an entry without
\* a name or an id, and addDevice a name already taken.
AddDevice(d) ==
    /\ Editing
    /\ Complete(d)
    /\ Named(list, d.name) = {}
    /\ list' = Put(list, Rank, d)
    /\ UNCHANGED careless

\* The first device of that name is replaced, by whatever the request says.
UpdateDevice(n, d) ==
    /\ Editing
    /\ \E r \in Named(list, n) :
          /\ \A s \in Named(list, n) : r <= s
          /\ list' = Put(list, r, d)
          /\ careless' = (careless \/ ~Complete(d) \/ Named(list, d.name) \ {r} # {})

RemoveDevice(n) ==
    /\ Editing
    /\ Named(list, n) # {}
    /\ list' = Without(list, n)
    /\ UNCHANGED careless
-----------------------------------------------------------------------------
\* saveDevices.  A failure is only printed: the edit has succeeded all the same.

Saving == UNCHANGED <<list, edits, careless>>

SaveFails ==
    /\ faults < MaxFaults
    /\ faults' = faults + 1
    /\ lost' = TRUE
    /\ Goto("idle")
    /\ UNCHANGED file

\* Fault: devices.json itself is opened for writing.
OpenInPlace ==
    /\ At("open") /\ Saving
    /\ file' = Partial
    /\ tmp' = Partial
    /\ Goto("write")
    /\ UNCHANGED <<faults, lost>>

\* std::ofstream truncates what an earlier crash may have left behind.
Open ==
    /\ At("open") /\ Saving
    /\ \/ /\ tmp' = Partial
          /\ Goto("write")
          /\ UNCHANGED <<file, faults, lost>>
       \/ SaveFails /\ UNCHANGED tmp

\* Fault: file.fail() is not asked after the file is closed.
WriteUnchecked ==
    /\ At("write") /\ Saving
    /\ tmp' \in {list, Partial}
    /\ Goto("rename")
    /\ UNCHANGED <<file, faults, lost>>

\* Writing and closing; a file not written to its end is removed.
Write ==
    /\ At("write") /\ Saving
    /\ \/ /\ tmp' = list
          /\ Goto("rename")
          /\ UNCHANGED <<file, faults, lost>>
       \/ SaveFails /\ tmp' = Missing

\* Fault: a failed rename passes for one that worked.
RenameUnchecked ==
    /\ At("rename") /\ Saving
    /\ file' \in {tmp, file}
    /\ tmp' = Missing
    /\ lost' = FALSE
    /\ Goto("idle")
    /\ UNCHANGED faults

Rename ==
    /\ At("rename") /\ Saving
    /\ tmp' = Missing
    /\ \/ /\ file' = tmp
          /\ lost' = FALSE
          /\ Goto("idle")
          /\ UNCHANGED faults
       \/ SaveFails
-----------------------------------------------------------------------------
\* The process

\* The process ends, killed or not: memory is gone, the files are not.
Crash ==
    /\ ~At("down")
    /\ Goto("down")
    /\ list' = NoDevices
    /\ UNCHANGED <<file, tmp, edits, faults, careless, lost>>

\* loadDevices skips incomplete entries.  A file it cannot open or parse
\* counts as none: the next save overwrites it.
Load ==
    /\ At("down")
    /\ Goto("idle")
    /\ \/ /\ list' = Readable(file)
          /\ lost' = FALSE
          /\ UNCHANGED faults
       \/ /\ faults < MaxFaults
          /\ faults' = faults + 1
          /\ list' = NoDevices
          /\ lost' = TRUE
    /\ UNCHANGED <<file, tmp, edits, careless>>
-----------------------------------------------------------------------------
Edit ==
    \/ \E d \in Devices : AddDevice(d)
    \/ \E n \in Names, d \in Devices : UpdateDevice(n, d)
    \/ \E n \in Names : RemoveDevice(n)

Save == Open \/ Write \/ Rename

Next == Edit \/ Save \/ Crash \/ Load

Spec == Init /\ [][Next]_vars
-----------------------------------------------------------------------------
\* Properties

\* Type invariant: devices.json never holds part of a list.
TypeOK ==
    /\ pc \in {"idle", "open", "write", "rename", "down"}
    /\ list \in Lists /\ file \in Lists
    /\ tmp \in Lists \cup {Partial, Missing}
    /\ edits \in 0 .. MaxEdits /\ faults \in 0 .. MaxFaults
    /\ careless \in BOOLEAN /\ lost \in BOOLEAN

\* saveDevices's "Atomic write": whatever step fails or is cut short by a
\* crash, devices.json holds a whole list the program had, and a restart
\* goes on from there.
Durable == INSTANCE DurableList WITH disk <- file, up <- ~At("down")
WrittenAtomically == Durable!Spec

Distinct(l) == \A r, s \in DOMAIN l : l[r].name = l[s].name => r = s

\* addDevice keeps the names distinct and complete, across failed saves,
\* crashes and restarts from an older list; only updateDevice can break it.
NamesDistinct ==
    ~careless => Distinct(list) /\ \A r \in DOMAIN list : Complete(list[r])

\* Between two edits a restart gives back the very list in memory, unless a
\* save or a load failed and neither worked since: a save that works makes up
\* for all that failed before it.
RestartLosesNothing ==
    At("idle") /\ ~lost /\ ~careless => Readable(file) = list
=============================================================================
