---------------------------- MODULE DurableList ----------------------------
(***************************************************************************)
(* What devices.json promises, without saying how it is written: the disk  *)
(* holds at every moment a whole list that the running program had; a      *)
(* crash loses the list in memory, and a restart reads the one on disk,    *)
(* or starts with none if it cannot.  DeviceStore implements it.           *)
(***************************************************************************)
EXTENDS DeviceLists

VARIABLES list,  \* the list in memory
          disk,  \* the list on disk
          up     \* the program runs

durable == <<list, disk, up>>

Init == list = NoDevices /\ disk = NoDevices /\ up = FALSE

\* An edit sets one entry, or removes those of one name.
Edit ==
    /\ up
    /\ \/ \E r \in 1 .. MaxEdits, d \in Devices : list' = Put(list, r, d)
       \/ \E n \in Names : list' = Without(list, n)
    /\ UNCHANGED <<disk, up>>

Save ==
    /\ up
    /\ disk' = list
    /\ UNCHANGED <<list, up>>

Crash ==
    /\ up
    /\ up' = FALSE
    /\ list' = NoDevices
    /\ UNCHANGED disk

Restart ==
    /\ ~up
    /\ up' = TRUE
    /\ list' \in {Readable(disk), NoDevices}
    /\ UNCHANGED disk

Next == Edit \/ Save \/ Crash \/ Restart

Spec == Init /\ [][Next]_durable
=============================================================================
