------------------------- MODULE DeviceStoreProofs -------------------------
(***************************************************************************)
(* Theorems about DeviceStore for every set of names and ids, any number   *)
(* of edits, failures and crashes.                                         *)
(***************************************************************************)
EXTENDS DeviceStore, TLAPS

\* Operators on lists yield lists

LEMMA NoDevicesType == NoDevices \in Lists
  BY DEF NoDevices, Lists

LEMMA ListShape ==
    ASSUME NEW l \in Lists
    PROVE  /\ DOMAIN l \subseteq 1 .. MaxEdits
           /\ l = [r \in DOMAIN l |-> l[r]]
           /\ \A r \in DOMAIN l : l[r] \in Devices
  BY DEF Lists

LEMMA RestrictType ==
    ASSUME NEW l \in Lists, NEW S \in SUBSET DOMAIN l
    PROVE  Restrict(l, S) \in Lists
<1>1. Restrict(l, S) \in [S -> Devices]
  BY ListShape DEF Restrict
<1>2. S \in SUBSET (1 .. MaxEdits)
  BY ListShape
<1> QED
  BY <1>1, <1>2 DEF Lists

LEMMA PutType ==
    ASSUME NEW l \in Lists, NEW r \in 1 .. MaxEdits, NEW d \in Devices
    PROVE  Put(l, r, d) \in Lists
<1>1. Put(l, r, d) \in [DOMAIN l \cup {r} -> Devices]
  BY ListShape DEF Put
<1>2. DOMAIN l \cup {r} \in SUBSET (1 .. MaxEdits)
  BY ListShape
<1> QED
  BY <1>1, <1>2 DEF Lists

LEMMA WithoutType == ASSUME NEW l \in Lists, NEW n PROVE Without(l, n) \in Lists
  BY RestrictType DEF Without

LEMMA ReadableType == ASSUME NEW l \in Lists PROVE Readable(l) \in Lists
  BY RestrictType DEF Readable
-----------------------------------------------------------------------------
\* Types: the file renamed is the whole list.

WholeInv == At("rename") => tmp = list

Contents ==
    /\ pc \in {"idle", "open", "write", "rename", "down"}
    /\ list \in Lists /\ file \in Lists
    /\ tmp \in Lists \cup {Partial, Missing}
    /\ WholeInv

Counts == edits \in 0 .. MaxEdits /\ faults \in 0 .. MaxFaults

Flags == careless \in BOOLEAN /\ lost \in BOOLEAN

StoreInv == Contents /\ Counts /\ Flags

LEMMA StoreInit == Init => StoreInv
<1>1. Init => Contents
  BY NoDevicesType DEF Init, Contents, WholeInv, At
<1>2. Init => Counts
  BY EditsAssumption, FaultsAssumption DEF Init, Counts
<1>3. Init => Flags
  BY DEF Init, Flags
<1> QED
  BY <1>1, <1>2, <1>3 DEF StoreInv

LEMMA CountsStep ==
    ASSUME Counts, [Next]_vars
    PROVE  Counts'
<1> USE EditsAssumption, FaultsAssumption DEF Counts
<1>1. edits' = edits /\ (faults' = faults \/ (faults < MaxFaults /\ faults' = faults + 1))
        => Counts'
  OBVIOUS
<1>2. CASE Edit
  BY <1>2 DEF Edit, AddDevice, UpdateDevice, RemoveDevice, Editing
<1>3. CASE Save
  BY <1>1, <1>3, Zenon DEF Save, Open, Write, Rename, Saving, SaveFails
<1>4. CASE Crash \/ Load \/ UNCHANGED vars
  BY <1>1, <1>4, Zenon DEF Crash, Load, vars
<1> QED
  BY <1>2, <1>3, <1>4 DEF Next

LEMMA FlagsStep ==
    ASSUME Flags, [Next]_vars
    PROVE  Flags'
<1> USE DEF Flags
<1>1. CASE Edit
  BY <1>1 DEF Edit, AddDevice, UpdateDevice, RemoveDevice, Editing
<1>2. CASE Save
  BY <1>2 DEF Save, Open, Write, Rename, Saving, SaveFails
<1>3. CASE Crash \/ Load \/ UNCHANGED vars
  BY <1>3 DEF Crash, Load, vars
<1> QED
  BY <1>1, <1>2, <1>3 DEF Next

LEMMA ContentsStep ==
    ASSUME Contents, Counts, [Next]_vars
    PROVE  Contents'
<1> USE DEF Contents, WholeInv, At, Goto
<1>1. ASSUME NEW d \in Devices, AddDevice(d)
      PROVE  Contents'
  <2>1. Rank \in 1 .. MaxEdits
    BY <1>1, EditsAssumption DEF AddDevice, Editing, Rank, Counts
  <2>2. Put(list, Rank, d) \in Lists
    BY <2>1, PutType
  <2> QED
    BY <1>1, <2>2 DEF AddDevice, Editing
<1>2. ASSUME NEW n \in Names, NEW d \in Devices, UpdateDevice(n, d)
      PROVE  Contents'
  <2>1. PICK r \in Named(list, n) : list' = Put(list, r, d)
    BY <1>2 DEF UpdateDevice
  <2>2. list' \in Lists
    BY <2>1, PutType, ListShape DEF Named
  <2> QED
    BY <1>2, <2>2 DEF UpdateDevice, Editing
<1>3. ASSUME NEW n \in Names, RemoveDevice(n)
      PROVE  Contents'
  BY <1>3, WithoutType DEF RemoveDevice, Editing
<1>4. CASE Open
  BY <1>4 DEF Open, Saving, SaveFails
<1>5. CASE Write
  BY <1>5 DEF Write, Saving, SaveFails
<1>6. CASE Rename
  BY <1>6 DEF Rename, Saving, SaveFails
<1>7. CASE Crash
  BY <1>7, NoDevicesType DEF Crash
<1>8. CASE Load
  BY <1>8, NoDevicesType, ReadableType DEF Load
<1>9. CASE UNCHANGED vars
  BY <1>9 DEF vars
<1> QED
  BY <1>1, <1>2, <1>3, <1>4, <1>5, <1>6, <1>7, <1>8, <1>9 DEF Next, Edit, Save

LEMMA StoreStep ==
    ASSUME StoreInv, [Next]_vars
    PROVE  StoreInv'
  BY CountsStep, FlagsStep, ContentsStep DEF StoreInv

LEMMA StoreInvHolds == Spec => []StoreInv
  BY StoreInit, StoreStep, PTL DEF Spec

\* devices.json holds a whole list at every moment, whatever fails.
THEOREM StoreTypeCorrect == Spec => []TypeOK
<1>1. StoreInv => TypeOK
  BY DEF StoreInv, Contents, Counts, Flags, TypeOK
<1> QED
  BY <1>1, StoreInvHolds, PTL
-----------------------------------------------------------------------------
\* Names

Sound(l) == Distinct(l) /\ \A r \in DOMAIN l : Complete(l[r])

\* Neither memory nor the file has two devices of a name, or one without.
NamesInv == ~careless => Sound(list) /\ Sound(file)

LEMMA NoDevicesSound == Sound(NoDevices)
  BY DEF Sound, Distinct, NoDevices

LEMMA RestrictSound ==
    ASSUME NEW l, Sound(l), NEW S \in SUBSET DOMAIN l
    PROVE  Sound(Restrict(l, S))
  BY DEF Sound, Distinct, Restrict

\* An entry put in the place of another, or in a place of its own, may have
\* any name that no other entry has.
LEMMA PutSound ==
    ASSUME NEW l, Sound(l), NEW r, NEW d, Complete(d), Named(l, d.name) \subseteq {r}
    PROVE  Sound(Put(l, r, d))
<1>1. /\ DOMAIN Put(l, r, d) = DOMAIN l \cup {r}
      /\ \A s \in DOMAIN l \cup {r} : Put(l, r, d)[s] = IF s = r THEN d ELSE l[s]
  BY DEF Put
<1>2. \A s \in DOMAIN l \ {r} : l[s].name # d.name
  BY DEF Named
<1> QED
  BY <1>1, <1>2 DEF Sound, Distinct

LEMMA NamesStep ==
    ASSUME StoreInv, NamesInv, [Next]_vars
    PROVE  NamesInv'
<1> USE DEF NamesInv
<1>1. ASSUME NEW d \in Devices, AddDevice(d)
      PROVE  NamesInv'
  BY <1>1, PutSound DEF AddDevice, Editing
<1>2. ASSUME NEW n \in Names, NEW d \in Devices, UpdateDevice(n, d)
      PROVE  NamesInv'
  <2>1. PICK r \in Named(list, n) :
            /\ list' = Put(list, r, d)
            /\ careless' = (careless \/ ~Complete(d) \/ Named(list, d.name) \ {r} # {})
    BY <1>2 DEF UpdateDevice
  <2>2. ~careless' => ~careless /\ Complete(d) /\ Named(list, d.name) \subseteq {r}
    BY <2>1
  <2> QED
    BY <1>2, <2>1, <2>2, PutSound DEF UpdateDevice, Editing
<1>3. ASSUME NEW n \in Names, RemoveDevice(n)
      PROVE  NamesInv'
  BY <1>3, RestrictSound DEF RemoveDevice, Editing, Without
<1>4. CASE Open \/ Write
  BY <1>4 DEF Open, Write, Saving, SaveFails
<1>5. CASE Rename
  BY <1>5 DEF Rename, Saving, SaveFails, StoreInv, Contents, WholeInv
<1>6. CASE Crash
  BY <1>6, NoDevicesSound DEF Crash
<1>7. CASE Load
  BY <1>7, NoDevicesSound, RestrictSound DEF Load, Readable
<1>8. CASE UNCHANGED vars
  BY <1>8 DEF vars
<1> QED
  BY <1>1, <1>2, <1>3, <1>4, <1>5, <1>6, <1>7, <1>8 DEF Next, Edit, Save

LEMMA NamesInvHolds == Spec => []NamesInv
<1>1. Init => NamesInv
  BY NoDevicesSound DEF Init, NamesInv
<1> QED
  BY <1>1, NamesStep, StoreInvHolds, PTL DEF Spec

\* Names stay distinct and complete as long as updates keep them so.
THEOREM NamesStayDistinct == Spec => []NamesDistinct
<1>1. NamesInv => NamesDistinct
  BY DEF NamesInv, NamesDistinct, Sound
<1> QED
  BY <1>1, NamesInvHolds, PTL
-----------------------------------------------------------------------------
\* Restarts

\* A sound list is read back as it is.
LEMMA ReadableSound ==
    ASSUME NEW l \in Lists, Sound(l)
    PROVE  Readable(l) = l
<1>1. {r \in DOMAIN l : Complete(l[r])} = DOMAIN l
  BY DEF Sound
<1> QED
  BY <1>1, ListShape DEF Readable, Restrict

LEMMA RestartStep ==
    ASSUME StoreInv, NamesInv, RestartLosesNothing, [Next]_vars
    PROVE  RestartLosesNothing'
<1> USE DEF RestartLosesNothing, At, Goto
<1>1. CASE Edit \/ Open \/ Write \/ Crash
  BY <1>1 DEF Edit, AddDevice, UpdateDevice, RemoveDevice, Editing, Open, Write, SaveFails,
              Crash
<1>2. CASE Rename
  <2>1. ~careless => Readable(list) = list
    BY ReadableSound DEF StoreInv, Contents, NamesInv
  <2> QED
    BY <1>2, <2>1 DEF Rename, Saving, SaveFails, StoreInv, Contents, WholeInv
<1>3. CASE Load
  <2>1. ~careless => Readable(file) = file
    BY ReadableSound DEF StoreInv, Contents, NamesInv
  <2> QED
    BY <1>3, <2>1 DEF Load
<1>4. CASE UNCHANGED vars
  BY <1>4 DEF vars
<1> QED
  BY <1>1, <1>2, <1>3, <1>4 DEF Next, Save

\* A restart between two edits gives back the list in memory.
THEOREM RestartsLoseNothing == Spec => []RestartLosesNothing
<1>1. Init => RestartLosesNothing
  BY DEF Init, RestartLosesNothing, At
<1> QED
  BY <1>1, RestartStep, StoreInvHolds, NamesInvHolds, PTL DEF Spec
-----------------------------------------------------------------------------
\* The refinement

\* The operators of DurableList are those of DeviceStore.
LEMMA SameLists ==
    /\ NoDevices = Durable!NoDevices
    /\ Devices = Durable!Devices
    /\ \A l, r, d : Put(l, r, d) = Durable!Put(l, r, d)
    /\ \A l, n : Without(l, n) = Durable!Without(l, n)
    /\ \A l : Readable(l) = Durable!Readable(l)
  BY DEF NoDevices, Durable!NoDevices, Devices, Durable!Devices, Put, Durable!Put,
         Without, Durable!Without, Named, Durable!Named, Readable, Durable!Readable,
         Complete, Durable!Complete, Restrict, Durable!Restrict

LEMMA DurableStep ==
    ASSUME StoreInv, [Next]_vars
    PROVE  [Durable!Next]_(Durable!durable)
<1> USE SameLists DEF At, Goto, Durable!durable, Durable!Next
<1>1. ASSUME NEW d \in Devices, AddDevice(d)
      PROVE  Durable!Edit
  <2>1. Rank \in 1 .. MaxEdits
    BY <1>1, EditsAssumption DEF AddDevice, Editing, Rank, StoreInv, Counts
  <2> QED
    BY <1>1, <2>1 DEF AddDevice, Editing, Durable!Edit
<1>2. ASSUME NEW n \in Names, NEW d \in Devices, UpdateDevice(n, d)
      PROVE  Durable!Edit
  <2>1. PICK r \in Named(list, n) : list' = Put(list, r, d)
    BY <1>2 DEF UpdateDevice
  <2>2. r \in 1 .. MaxEdits
    BY <2>1, ListShape DEF Named, StoreInv, Contents
  <2> QED
    BY <1>2, <2>1, <2>2 DEF UpdateDevice, Editing, Durable!Edit
<1>3. ASSUME NEW n \in Names, RemoveDevice(n)
      PROVE  Durable!Edit
  BY <1>3 DEF RemoveDevice, Editing, Durable!Edit
<1>4. CASE Open \/ Write
  BY <1>4 DEF Open, Write, Saving, SaveFails
<1>5. CASE Rename
  BY <1>5 DEF Rename, Saving, SaveFails, StoreInv, Contents, WholeInv, Durable!Save
<1>6. CASE Crash
  BY <1>6 DEF Crash, Durable!Crash
<1>7. CASE Load
  BY <1>7 DEF Load, Durable!Restart
<1>8. CASE UNCHANGED vars
  BY <1>8 DEF vars
<1> QED
  BY <1>1, <1>2, <1>3, <1>4, <1>5, <1>6, <1>7, <1>8 DEF Next, Edit, Save

\* A temporary file renamed implements a list replaced in one step.
THEOREM StoreImplementsDurableList == Spec => WrittenAtomically
<1>1. Init => Durable!Init
  BY SameLists DEF Init, Durable!Init, At
<1> QED
  BY <1>1, DurableStep, StoreInvHolds, PTL DEF Spec, WrittenAtomically, Durable!Spec
=============================================================================
