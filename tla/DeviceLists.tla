---------------------------- MODULE DeviceLists ----------------------------
(***************************************************************************)
(* The lists of devices that ConfigManager keeps in memory and writes to   *)
(* devices.json.  A list is a function from ranks to entries: the ranks    *)
(* give the order, a new entry takes a rank above all others, and removing *)
(* entries leaves the order of the others alone.  Of an entry the name and *)
(* the Tuya id are kept, each possibly empty.                              *)
(***************************************************************************)
EXTENDS Integers, Functions

CONSTANTS Names,    \* names of devices, none of them empty
          Ids,      \* Tuya ids, none of them empty
          NoText,   \* the empty string
          MaxEdits  \* bound: edits of the list

ASSUME TextAssumption == NoText \notin Names \cup Ids

ASSUME EditsAssumption == MaxEdits \in Nat

Devices == [name : Names \cup {NoText}, id : Ids \cup {NoText}]
Lists   == UNION {[ranks -> Devices] : ranks \in SUBSET (1 .. MaxEdits)}

NoDevices == [r \in {} |-> NoText]

\* The ranks of the entries of that name.
Named(list, n) == {r \in DOMAIN list : list[r].name = n}

\* The list with entry d at rank r, whether or not the rank was in use.
Put(list, r, d) == [s \in DOMAIN list \cup {r} |-> IF s = r THEN d ELSE list[s]]

\* std::remove_if: every entry of that name goes.
Without(list, n) == Restrict(list, DOMAIN list \ Named(list, n))

\* An entry lacking its name or its id, which loadDevices skips.
Complete(d) == d.name # NoText /\ d.id # NoText

\* What loadDevices makes of a file that holds `list'.
Readable(list) == Restrict(list, {r \in DOMAIN list : Complete(list[r])})
=============================================================================
