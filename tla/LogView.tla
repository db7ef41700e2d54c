------------------------------ MODULE LogView ------------------------------
(***************************************************************************)
(* LogBuffer, the threads that write to it, and LogViewerComponent, which  *)
(* asks for the latest entries every 5 s.                                  *)
(*                                                                         *)
(* A thread reads the clock for its entry before it takes the mutex, so    *)
(* entries of two threads may be stored out of their order; the rest of    *)
(* add() and the whole of getRecent() run under the mutex.  Loads of the   *)
(* viewer overlap, are answered in any order, and may fail.  Of an entry   *)
(* the thread that wrote it, the device it is about and the moment it read *)
(* the clock are kept, not what the clock showed: it is the system's, in   *)
(* local time, and may be set back between two moments.                    *)
(*                                                                         *)
(* Any thread may write about any device, or about the bridge.  The panel  *)
(* may be collapsed and a device chosen in its menu, which changes nothing *)
(* of what the viewer has.                                                 *)
(***************************************************************************)
EXTENDS Integers, Sequences

CONSTANTS Writers,     \* the threads that write: the server's, and main's
          Devices,     \* what entries are about: a device, or the bridge
          MaxEntries,  \* MAX_ENTRIES
          Count,       \* entries the viewer asks for
          MaxLoads,    \* bound: loads in flight together
          MaxLog,      \* bound: entries written
          MaxTime      \* bound: moments that pass

ASSUME LogAssumption ==
    /\ MaxEntries \in Nat \ {0} /\ Count \in 1 .. MaxEntries
    /\ MaxLoads \in Nat \ {0} /\ MaxLog \in Nat /\ MaxTime \in Nat

VARIABLES
    time,         \* the moment it is, whatever the system's clock shows
    stamp,        \* when each thread read the clock for the entry it is to store
    entries,      \* entries_
    log,          \* history: every entry stored
    loads,        \* GET /api/logs in flight
    logs,         \* the entries the viewer has
    deviceNames   \* the devices its menu offers

bufferVars == <<time, stamp, entries, log>>
viewerVars == <<loads, logs, deviceNames>>
vars == <<bufferVars, viewerVars>>

Entry == [by : Writers, device : Devices, at : 0 .. MaxTime]

NoStamp == -1

Slots == 1 .. MaxLoads

Load == [at : {"free", "sent", "answered"}, logs : Seq(Entry)]

FreeLoad == [at |-> "free", logs |-> << >>]
AskedLoad == [at |-> "sent", logs |-> << >>]

\* The last n of a sequence, or all of them if there are fewer.
Last(s, n) == IF Len(s) <= n THEN s ELSE SubSeq(s, Len(s) - n + 1, Len(s))

\* ngOnInit loads at once.
Init ==
    /\ time = 0
    /\ stamp = [w \in Writers |-> NoStamp]
    /\ entries = << >> /\ log = << >>
    /\ loads = [l \in Slots |-> IF l = 1 THEN AskedLoad ELSE FreeLoad]
    /\ logs = << >>
    /\ deviceNames = {}
-----------------------------------------------------------------------------
\* LogBuffer

\* Whatever the clock shows, moments pass.
TimePasses ==
    /\ time < MaxTime
    /\ time' = time + 1
    /\ UNCHANGED <<stamp, entries, log, viewerVars>>

\* add(), up to the lock.
Stamp(w) ==
    /\ Len(log) < MaxLog
    /\ stamp[w] = NoStamp
    /\ stamp' = [stamp EXCEPT ![w] = time]
    /\ UNCHANGED <<time, entries, log, viewerVars>>

\* Fault: one entry too many is kept.
TrimLate(s) == Last(s, MaxEntries + 1)

\* The oldest entries go while there are too many.
Trim(s) == Last(s, MaxEntries)

\* Fault: the newest entry is put in front.
StoreInFront(w) ==
    /\ stamp[w] # NoStamp
    /\ \E d \in Devices :
          LET entry == [by |-> w, device |-> d, at |-> stamp[w]] IN
          /\ entries' = Trim(<<entry>> \o entries)
          /\ log' = Append(log, entry)
    /\ stamp' = [stamp EXCEPT ![w] = NoStamp]
    /\ UNCHANGED <<time, viewerVars>>

\* Fault: an entry is stored before the clock is read.
StoreUnstamped(w) ==
    /\ Len(log) < MaxLog
    /\ \E d \in Devices :
          LET entry == [by |-> w, device |-> d, at |-> stamp[w]] IN
          /\ entries' = Trim(Append(entries, entry))
          /\ log' = Append(log, entry)
    /\ stamp' = [stamp EXCEPT ![w] = NoStamp]
    /\ UNCHANGED <<time, viewerVars>>

\* add(), under the lock.
Store(w) ==
    /\ stamp[w] # NoStamp
    /\ \E d \in Devices :
          LET entry == [by |-> w, device |-> d, at |-> stamp[w]] IN
          /\ entries' = Trim(Append(entries, entry))
          /\ log' = Append(log, entry)
    /\ stamp' = [stamp EXCEPT ![w] = NoStamp]
    /\ UNCHANGED <<time, viewerVars>>

\* Fault: the entries are counted from the front.
GetOldest == SubSeq(entries, 1, IF Len(entries) <= Count THEN Len(entries) ELSE Count)

\* The loop from `start` to the end.
GetRecent == Last(entries, Count)
-----------------------------------------------------------------------------
\* LogViewerComponent

\* loadLogs, by the timer.
LoadLogs ==
    /\ \E l \in Slots :
          /\ loads[l].at = "free"
          /\ \A k \in Slots : k < l => loads[k].at # "free"
          /\ loads' = [loads EXCEPT ![l] = AskedLoad]
    /\ UNCHANGED <<bufferVars, logs, deviceNames>>

\* ApiController::getLogs
ServeLogs(l) ==
    /\ loads[l].at = "sent"
    /\ loads' = [loads EXCEPT ![l] = [at |-> "answered", logs |-> GetRecent]]
    /\ UNCHANGED <<bufferVars, logs, deviceNames>>

\* A failed load is ignored.
LoseLogs(l) ==
    /\ loads[l].at # "free"
    /\ loads' = [loads EXCEPT ![l] = FreeLoad]
    /\ UNCHANGED <<bufferVars, logs, deviceNames>>

DevicesIn(s) == {s[i].device : i \in DOMAIN s}

\* Fault: what arrives is appended.
AppendLogs(l) ==
    /\ loads[l].at = "answered"
    /\ loads' = [loads EXCEPT ![l] = FreeLoad]
    /\ logs' = IF Len(logs) > Count THEN logs ELSE logs \o loads[l].logs
    /\ deviceNames' = DevicesIn(loads[l].logs)
    /\ UNCHANGED bufferVars

ReceiveLogs(l) ==
    /\ loads[l].at = "answered"
    /\ loads' = [loads EXCEPT ![l] = FreeLoad]
    /\ logs' = loads[l].logs
    /\ deviceNames' = DevicesIn(loads[l].logs)
    /\ UNCHANGED bufferVars

\* What the viewer has is forgotten; the buffer of the server is not told.
ClearLogs ==
    /\ logs' = << >>
    /\ UNCHANGED <<bufferVars, loads, deviceNames>>
-----------------------------------------------------------------------------
Buffer == TimePasses \/ \E w \in Writers : Stamp(w) \/ Store(w)

Viewer ==
    \/ LoadLogs
    \/ \E l \in Slots : ServeLogs(l) \/ LoseLogs(l) \/ ReceiveLogs(l)
    \/ ClearLogs

Next == Buffer \/ Viewer

Spec == Init /\ [][Next]_vars

\* The timer fires, and loads get through now and then.
FairSpec ==
    /\ Spec
    /\ WF_vars(LoadLogs)
    /\ \A l \in Slots : SF_vars(ServeLogs(l)) /\ SF_vars(ReceiveLogs(l))
-----------------------------------------------------------------------------
\* Properties

\* Type invariant.
TypeOK ==
    /\ time \in 0 .. MaxTime
    /\ stamp \in [Writers -> {NoStamp} \cup 0 .. MaxTime]
    /\ entries \in Seq(Entry) /\ log \in Seq(Entry)
    /\ loads \in [Slots -> Load]
    /\ logs \in Seq(Entry)
    /\ deviceNames \subseteq Devices

\* The buffer holds the latest entries, MAX_ENTRIES at most, in the order in
\* which they were stored.
BufferIsLast == entries = Last(log, MaxEntries)

\* What the viewer has is empty or was, at some moment, the end of the log: no
\* entry is missing in between, none is shown twice, whatever loads overlapped.
ShownWindow ==
    logs = << >> \/ \E k \in 0 .. Len(log) : logs = Last(SubSeq(log, 1, k), Count)

\* Entries, even of one device, may be shown out of the order in which the clock
\* was read for them, but only where two threads wrote them: those of one thread
\* are in that order, and so their times are if the clock was not set back.
ThreadInOrder ==
    \A i, j \in DOMAIN logs :
        i < j /\ logs[i].by = logs[j].by => logs[i].at <= logs[j].at

\* A load overtaken by others does no lasting harm: the viewer ends up with the
\* latest entries, again and again if its user clears it again and again.
LogsShown ==
    /\ <>[](logs \in {Last(log, Count), << >>})
    /\ []<>(logs = Last(log, Count))
=============================================================================
