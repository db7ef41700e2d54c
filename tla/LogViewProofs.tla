--------------------------- MODULE LogViewProofs ---------------------------
(***************************************************************************)
(* Theorems about LogView for any threads, any sizes of the buffer and of  *)
(* the viewer's window, and any number of loads in flight.                 *)
(***************************************************************************)
EXTENDS LogView, SequenceTheorems, TLAPS

-----------------------------------------------------------------------------
\* The end of a sequence

LEMMA LastProps ==
    ASSUME NEW S, NEW s \in Seq(S), NEW n \in Nat
    PROVE  /\ Last(s, n) \in Seq(S)
           /\ Len(Last(s, n)) = IF Len(s) <= n THEN Len(s) ELSE n
           /\ \A i \in 1 .. Len(Last(s, n)) :
                 /\ i + Len(s) - Len(Last(s, n)) \in 1 .. Len(s)
                 /\ Last(s, n)[i] = s[i + Len(s) - Len(Last(s, n))]
<1>1. CASE Len(s) <= n
  BY <1>1 DEF Last
<1>2. CASE ~(Len(s) <= n)
  <2>1. \A i \in Len(s) - n + 1 .. Len(s) : s[i] \in S
    BY <1>2
  <2>2. Last(s, n) = SubSeq(s, Len(s) - n + 1, Len(s))
    BY <1>2 DEF Last
  <2>3. /\ Last(s, n) \in Seq(S)
        /\ Len(Last(s, n)) = n
        /\ \A i \in 1 .. n : Last(s, n)[i] = s[(Len(s) - n + 1) + i - 1]
    BY <1>2, <2>1, <2>2, SubSeqProperties
  <2> QED
    BY <1>2, <2>3
<1> QED
  BY <1>1, <1>2

\* Two sequences of the same length with the same elements are equal.
LEMMA LastOfLast ==
    ASSUME NEW S, NEW s \in Seq(S), NEW m \in Nat, NEW n \in 0 .. m
    PROVE  Last(Last(s, m), n) = Last(s, n)
<1>1. Last(s, m) \in Seq(S) /\ m \in Nat /\ n \in Nat
  BY LastProps
<1>2. Last(Last(s, m), n) \in Seq(S) /\ Last(s, n) \in Seq(S)
  BY <1>1, LastProps
<1>3. Len(Last(Last(s, m), n)) = Len(Last(s, n))
  <2>1. Len(Last(s, m)) = IF Len(s) <= m THEN Len(s) ELSE m
    BY LastProps
  <2>2. Len(Last(Last(s, m), n)) = IF Len(Last(s, m)) <= n THEN Len(Last(s, m)) ELSE n
    BY <1>1, LastProps
  <2>3. Len(Last(s, n)) = IF Len(s) <= n THEN Len(s) ELSE n
    BY <1>1, LastProps
  <2>4. Len(s) \in Nat
    BY LenProperties
  <2> QED
    BY <2>1, <2>2, <2>3, <2>4
<1>4. ASSUME NEW i \in 1 .. Len(Last(s, n))
      PROVE  Last(Last(s, m), n)[i] = Last(s, n)[i]
  <2>1. Last(Last(s, m), n)[i] = Last(s, m)[i + Len(Last(s, m)) - Len(Last(s, n))]
    BY <1>1, <1>3, LastProps
  <2>2. i + Len(Last(s, m)) - Len(Last(s, n)) \in 1 .. Len(Last(s, m))
    BY <1>1, <1>3, LastProps
  <2>3. Last(s, m)[i + Len(Last(s, m)) - Len(Last(s, n))] = s[i + Len(s) - Len(Last(s, n))]
    BY <1>1, <2>2, LastProps
  <2> QED
    BY <1>1, <2>1, <2>3, LastProps
<1> QED
  BY <1>2, <1>3, <1>4, SeqEqual

\* What is forgotten before an entry is added does not matter after it.
LEMMA LastOfAppend ==
    ASSUME NEW S, NEW s \in Seq(S), NEW n \in Nat, NEW e \in S
    PROVE  Last(Append(Last(s, n), e), n) = Last(Append(s, e), n)
<1> DEFINE t == Last(s, n)
           p == Append(t, e)
           q == Append(s, e)
           u == Last(p, n)
           v == Last(q, n)
<1>1. /\ t \in Seq(S)
      /\ Len(t) = IF Len(s) <= n THEN Len(s) ELSE n
      /\ \A i \in 1 .. Len(t) : t[i] = s[i + Len(s) - Len(t)]
  BY LastProps
<1>2. /\ p \in Seq(S) /\ Len(p) = Len(t) + 1
      /\ \A i \in 1 .. Len(t) : p[i] = t[i]
      /\ p[Len(t) + 1] = e
  BY <1>1, AppendProperties
<1>3. /\ q \in Seq(S) /\ Len(q) = Len(s) + 1
      /\ \A i \in 1 .. Len(s) : q[i] = s[i]
      /\ q[Len(s) + 1] = e
  BY AppendProperties
<1> HIDE DEF t, p, q
<1>4. /\ u \in Seq(S)
      /\ Len(u) = IF Len(p) <= n THEN Len(p) ELSE n
      /\ \A i \in 1 .. Len(u) : u[i] = p[i + Len(p) - Len(u)]
  BY <1>2, LastProps
<1>5. /\ v \in Seq(S)
      /\ Len(v) = IF Len(q) <= n THEN Len(q) ELSE n
      /\ \A i \in 1 .. Len(v) : v[i] = q[i + Len(q) - Len(v)]
  BY <1>3, LastProps
<1> HIDE DEF u, v
<1>6. Len(s) \in Nat /\ Len(t) \in Nat /\ Len(u) \in Nat
  BY <1>1, <1>4
<1>7. Len(u) = Len(v) /\ Len(u) <= Len(t) + 1 /\ Len(t) <= Len(s)
  BY <1>1, <1>2, <1>3, <1>4, <1>5, <1>6
<1>8. ASSUME NEW i \in 1 .. Len(u)
      PROVE  u[i] = v[i]
  <2>1. u[i] = p[i + Len(t) + 1 - Len(u)] /\ v[i] = q[i + Len(s) + 1 - Len(u)]
    <3>1. u[i] = p[i + Len(p) - Len(u)]
      BY <1>4
    <3>2. v[i] = q[i + Len(q) - Len(u)]
      BY <1>5, <1>7
    <3>3. i + Len(p) - Len(u) = i + Len(t) + 1 - Len(u)
      BY <1>2, <1>6
    <3>4. i + Len(q) - Len(u) = i + Len(s) + 1 - Len(u)
      BY <1>3, <1>6
    <3> QED
      BY <3>1, <3>2, <3>3, <3>4
  <2>2. CASE i = Len(u)
    <3>1. i + Len(t) + 1 - Len(u) = Len(t) + 1 /\ i + Len(s) + 1 - Len(u) = Len(s) + 1
      BY <2>2, <1>6
    <3> QED
      BY <2>1, <3>1, <1>2, <1>3
  <2>3. CASE i # Len(u)
    <3> DEFINE j == i + Len(t) + 1 - Len(u)
    <3>1. j \in 1 .. Len(t)
      BY <2>3, <1>6, <1>7
    <3>2. j + Len(s) - Len(t) = i + Len(s) + 1 - Len(u)
      BY <1>6
    <3>3. i + Len(s) + 1 - Len(u) \in 1 .. Len(s)
      BY <2>3, <1>6, <1>7
    <3> HIDE DEF j
    <3>4. p[j] = s[j + Len(s) - Len(t)]
      BY <3>1, <1>1, <1>2
    <3>5. q[i + Len(s) + 1 - Len(u)] = s[i + Len(s) + 1 - Len(u)]
      BY <3>3, <1>3
    <3> QED
      BY <2>1, <3>2, <3>4, <3>5 DEF j
  <2> QED
    BY <2>2, <2>3
<1>9. u = v
  BY <1>4, <1>5, <1>7, <1>8, SeqEqual
<1> QED
  BY <1>9 DEF t, p, q, u, v

LEMMA PrefixProps ==
    ASSUME NEW S, NEW s \in Seq(S), NEW k \in 0 .. Len(s)
    PROVE  /\ SubSeq(s, 1, k) \in Seq(S) /\ Len(SubSeq(s, 1, k)) = k
           /\ \A i \in 1 .. k : SubSeq(s, 1, k)[i] = s[i]
<1>1. k \in Int /\ 1 \in Int /\ k >= 0
  BY LenProperties
<1>2. \A i \in 1 .. k : s[i] \in S
  BY LenProperties
<1>3. /\ SubSeq(s, 1, k) \in Seq(S)
      /\ Len(SubSeq(s, 1, k)) = IF 1 <= k THEN k - 1 + 1 ELSE 0
      /\ \A i \in 1 .. k - 1 + 1 : SubSeq(s, 1, k)[i] = s[1 + i - 1]
  BY <1>1, <1>2, SubSeqProperties
<1> QED
  BY <1>1, <1>3

LEMMA PrefixOfAppend ==
    ASSUME NEW S, NEW s \in Seq(S), NEW e \in S, NEW k \in 0 .. Len(s)
    PROVE  SubSeq(Append(s, e), 1, k) = SubSeq(s, 1, k)
<1> DEFINE q == Append(s, e)
<1>1. q \in Seq(S) /\ Len(q) = Len(s) + 1 /\ \A i \in 1 .. Len(s) : q[i] = s[i]
  BY AppendProperties
<1> HIDE DEF q
<1>2. Len(s) \in Nat
  BY LenProperties
<1>3. k \in 0 .. Len(q)
  BY <1>1, <1>2
<1>4. /\ SubSeq(q, 1, k) \in Seq(S) /\ Len(SubSeq(q, 1, k)) = k
      /\ \A i \in 1 .. k : SubSeq(q, 1, k)[i] = q[i]
  BY <1>1, <1>3, PrefixProps
<1>5. /\ SubSeq(s, 1, k) \in Seq(S) /\ Len(SubSeq(s, 1, k)) = k
      /\ \A i \in 1 .. k : SubSeq(s, 1, k)[i] = s[i]
  BY PrefixProps
<1>6. \A i \in 1 .. k : q[i] = s[i]
  BY <1>1, <1>2
<1>7. SubSeq(q, 1, k) = SubSeq(s, 1, k)
  BY <1>4, <1>5, <1>6, SeqEqual
<1> QED
  BY <1>7 DEF q
-----------------------------------------------------------------------------
\* Types

LEMMA LoadTypes == AskedLoad \in Load /\ FreeLoad \in Load
  BY EmptySeq DEF AskedLoad, FreeLoad, Load

\* What a thread stores, whatever device it is about.
LEMMA StoreEffect ==
    ASSUME TypeOK, NEW w \in Writers, Store(w)
    PROVE  \E e \in Entry : /\ e.by = w /\ e.at = stamp[w]
                            /\ entries' = Last(Append(entries, e), MaxEntries)
                            /\ log' = Append(log, e)
<1>1. PICK d \in Devices :
          /\ entries' = Last(Append(entries, [by |-> w, device |-> d, at |-> stamp[w]]), MaxEntries)
          /\ log' = Append(log, [by |-> w, device |-> d, at |-> stamp[w]])
  BY DEF Store, Trim
<1>2. stamp[w] \in 0 .. MaxTime
  BY DEF Store, TypeOK, NoStamp
<1> DEFINE e == [by |-> w, device |-> d, at |-> stamp[w]]
<1>3. e \in Entry /\ e.by = w /\ e.at = stamp[w]
  BY <1>2 DEF Entry
<1> QED
  BY <1>1, <1>3

LEMMA DevicesInType ==
    ASSUME NEW s \in Seq(Entry)
    PROVE  DevicesIn(s) \subseteq Devices
<1>1. \A i \in DOMAIN s : s[i] \in Entry
  BY LenProperties
<1> QED
  BY <1>1 DEF DevicesIn, Entry

LEMMA TypeInit == Init => TypeOK
  BY LogAssumption, LoadTypes, EmptySeq DEF Init, TypeOK, NoStamp, Slots

LEMMA TypeStep ==
    ASSUME TypeOK, [Next]_vars
    PROVE  TypeOK'
<1> USE LogAssumption
<1>1. CASE TimePasses
  BY <1>1 DEF TimePasses, TypeOK, viewerVars
<1>2. ASSUME NEW w \in Writers, Stamp(w)
      PROVE  TypeOK'
  BY <1>2 DEF Stamp, TypeOK, viewerVars
<1>3. ASSUME NEW w \in Writers, Store(w)
      PROVE  TypeOK'
  <2>1. PICK e \in Entry : /\ entries' = Last(Append(entries, e), MaxEntries)
                            /\ log' = Append(log, e)
    BY <1>3, StoreEffect
  <2>2. /\ stamp' = [stamp EXCEPT ![w] = NoStamp]
        /\ UNCHANGED <<time, loads, logs, deviceNames>>
    BY <1>3 DEF Store, viewerVars
  <2>3. Append(entries, e) \in Seq(Entry) /\ Append(log, e) \in Seq(Entry)
    BY <2>1, AppendProperties DEF TypeOK
  <2>4. entries' \in Seq(Entry) /\ log' \in Seq(Entry)
    BY <2>1, <2>3, LastProps
  <2> QED
    BY <2>2, <2>4 DEF TypeOK
<1>4. CASE LoadLogs
  BY <1>4, LoadTypes DEF LoadLogs, TypeOK, bufferVars
<1>5. ASSUME NEW l \in Slots, ServeLogs(l)
      PROVE  TypeOK'
  <2>1. GetRecent \in Seq(Entry)
    BY LastProps DEF TypeOK, GetRecent
  <2>2. [at |-> "answered", logs |-> GetRecent] \in Load
    BY <2>1 DEF Load
  <2> QED
    BY <1>5, <2>2 DEF ServeLogs, TypeOK, bufferVars
<1>6. ASSUME NEW l \in Slots, LoseLogs(l)
      PROVE  TypeOK'
  BY <1>6, LoadTypes DEF LoseLogs, TypeOK, bufferVars
<1>7. ASSUME NEW l \in Slots, ReceiveLogs(l)
      PROVE  TypeOK'
  <2>1. loads[l].logs \in Seq(Entry)
    BY DEF TypeOK, Load
  <2> QED
    BY <1>7, <2>1, LoadTypes, DevicesInType DEF ReceiveLogs, TypeOK, bufferVars
<1>8. CASE ClearLogs
  BY <1>8, EmptySeq DEF ClearLogs, TypeOK, bufferVars
<1>9. CASE UNCHANGED vars
  BY <1>9 DEF vars, bufferVars, viewerVars, TypeOK
<1> QED
  BY <1>1, <1>2, <1>3, <1>4, <1>5, <1>6, <1>7, <1>8, <1>9 DEF Next, Buffer, Viewer

\* Types are kept: the type invariant of LogView.
THEOREM TypeCorrect == Spec => []TypeOK
  BY TypeInit, TypeStep, PTL DEF Spec
-----------------------------------------------------------------------------
\* The buffer: only a store changes it, or the log.

LEMMA OnlyStores ==
    ASSUME TypeOK, [Next]_vars
    PROVE  \/ UNCHANGED <<entries, log>>
           \/ \E e \in Entry : /\ entries' = Last(Append(entries, e), MaxEntries)
                               /\ log' = Append(log, e)
<1>1. ASSUME NEW w \in Writers, Store(w)
      PROVE  \E e \in Entry : /\ entries' = Last(Append(entries, e), MaxEntries)
                              /\ log' = Append(log, e)
  BY <1>1, StoreEffect
<1>2. CASE \E w \in Writers : Stamp(w)
  BY <1>2 DEF Stamp
<1>3. CASE TimePasses \/ Viewer \/ UNCHANGED vars
  BY <1>3 DEF TimePasses, Viewer, LoadLogs, ServeLogs, LoseLogs, ReceiveLogs, ClearLogs,
              vars, bufferVars
<1> QED
  BY <1>1, <1>2, <1>3 DEF Next, Buffer

LEMMA BufferInit == Init => BufferIsLast
  BY LogAssumption, EmptySeq DEF Init, BufferIsLast, Last

LEMMA BufferStep ==
    ASSUME TypeOK, BufferIsLast, [Next]_vars
    PROVE  BufferIsLast'
<1>1. ASSUME NEW e \in Entry, entries' = Last(Append(entries, e), MaxEntries),
             log' = Append(log, e)
      PROVE  BufferIsLast'
  <2>1. log \in Seq(Entry) /\ MaxEntries \in Nat
    BY LogAssumption DEF TypeOK
  <2>2. Last(Append(Last(log, MaxEntries), e), MaxEntries) = Last(Append(log, e), MaxEntries)
    BY <2>1, LastOfAppend
  <2> QED
    BY <1>1, <2>2 DEF BufferIsLast
<1>2. CASE UNCHANGED <<entries, log>>
  BY <1>2 DEF BufferIsLast
<1> QED
  BY <1>1, <1>2, OnlyStores

\* LogBuffer::add keeps the latest MAX_ENTRIES entries in the order in which
\* they were stored.
THEOREM BufferCorrect == Spec => []BufferIsLast
<1>1. TypeOK /\ BufferIsLast /\ [Next]_vars => BufferIsLast'
  BY BufferStep
<1> QED
  BY <1>1, TypeCorrect, BufferInit, PTL DEF Spec
-----------------------------------------------------------------------------
\* What is answered, and so what is shown, was the end of the log once.

Window(s) == s = << >> \/ \E k \in 0 .. Len(log) : s = Last(SubSeq(log, 1, k), Count)

WindowInv == Window(logs) /\ \A l \in Slots : Window(loads[l].logs)

LEMMA WindowInit == Init => WindowInv
  BY DEF Init, WindowInv, Window, FreeLoad, AskedLoad

LEMMA WindowKept ==
    ASSUME TypeOK, [Next]_vars, NEW s, Window(s)
    PROVE  s = << >> \/ \E k \in 0 .. Len(log') : s = Last(SubSeq(log', 1, k), Count)
<1>1. CASE UNCHANGED <<entries, log>>
  BY <1>1 DEF Window
<1>2. ASSUME NEW e \in Entry, log' = Append(log, e), s # << >>
      PROVE  \E k \in 0 .. Len(log') : s = Last(SubSeq(log', 1, k), Count)
  <2>1. PICK k \in 0 .. Len(log) : s = Last(SubSeq(log, 1, k), Count)
    BY <1>2 DEF Window
  <2>2. log \in Seq(Entry)
    BY DEF TypeOK
  <2>3. SubSeq(log', 1, k) = SubSeq(log, 1, k)
    BY <1>2, <2>2, PrefixOfAppend
  <2>4. Len(log') = Len(log) + 1 /\ Len(log) \in Nat
    BY <1>2, <2>2, AppendProperties, LenProperties
  <2>5. k \in 0 .. Len(log')
    BY <2>4
  <2> QED
    BY <2>1, <2>3, <2>5
<1> QED
  BY <1>1, <1>2, OnlyStores

\* getRecent: the last Count of the buffer are the last Count of the log.
LEMMA RecentIsWindow ==
    ASSUME TypeOK, BufferIsLast
    PROVE  Window(GetRecent)
<1>1. log \in Seq(Entry) /\ MaxEntries \in Nat /\ Count \in 0 .. MaxEntries
  BY LogAssumption DEF TypeOK
<1>2. GetRecent = Last(log, Count)
  BY <1>1, LastOfLast DEF BufferIsLast, GetRecent
<1>3. SubSeq(log, 1, Len(log)) = log /\ Len(log) \in 0 .. Len(log)
  BY <1>1, SubSeqFull, LenProperties
<1> QED
  BY <1>2, <1>3 DEF Window

LEMMA WindowStep ==
    ASSUME TypeOK, BufferIsLast, WindowInv, [Next]_vars
    PROVE  WindowInv'
<1> DEFINE Shown(s) == s = << >> \/ \E k \in 0 .. Len(log') : s = Last(SubSeq(log', 1, k), Count)
<1>1. ASSUME NEW s, Window(s)
      PROVE  Shown(s)
  BY <1>1, WindowKept
<1>2. \A l \in Slots : Shown(loads[l].logs)
  BY <1>1 DEF WindowInv
<1>3. Shown(logs)
  BY <1>1 DEF WindowInv
<1>4. Shown(GetRecent)
  BY <1>1, RecentIsWindow
<1>5. Shown(<< >>)
  OBVIOUS
<1> HIDE DEF Shown
<1> SUFFICES Shown(logs') /\ \A l \in Slots : Shown(loads'[l].logs)
  BY DEF WindowInv, Window, Shown
<1>6. CASE Buffer \/ UNCHANGED vars
  <2>1. UNCHANGED <<loads, logs>>
    BY <1>6 DEF Buffer, TimePasses, Stamp, Store, vars, viewerVars
  <2> QED
    BY <2>1, <1>2, <1>3
<1>7. ASSUME NEW l \in Slots, NEW load \in [at : {"free", "sent", "answered"}, logs : Seq(Entry)],
             Shown(load.logs), loads' = [loads EXCEPT ![l] = load]
      PROVE  \A k \in Slots : Shown(loads'[k].logs)
  <2>1. \A k \in Slots : loads'[k] = IF k = l THEN load ELSE loads[k]
    BY <1>7 DEF TypeOK
  <2> QED
    BY <2>1, <1>2, <1>7
<1>8. FreeLoad \in Load /\ AskedLoad \in Load /\ Shown(FreeLoad.logs) /\ Shown(AskedLoad.logs)
  BY <1>5, LoadTypes DEF FreeLoad, AskedLoad
<1>9. CASE LoadLogs
  BY <1>9, <1>3, <1>7, <1>8 DEF LoadLogs, Load
<1>10. ASSUME NEW l \in Slots, ServeLogs(l)
       PROVE  Shown(logs') /\ \A k \in Slots : Shown(loads'[k].logs)
  <2>1. [at |-> "answered", logs |-> GetRecent] \in Load
    BY LastProps, LogAssumption DEF TypeOK, GetRecent, Load
  <2> QED
    BY <1>10, <2>1, <1>3, <1>4, <1>7 DEF ServeLogs, Load
<1>11. ASSUME NEW l \in Slots, LoseLogs(l)
       PROVE  Shown(logs') /\ \A k \in Slots : Shown(loads'[k].logs)
  BY <1>11, <1>3, <1>7, <1>8 DEF LoseLogs, Load
<1>12. ASSUME NEW l \in Slots, ReceiveLogs(l)
       PROVE  Shown(logs') /\ \A k \in Slots : Shown(loads'[k].logs)
  BY <1>12, <1>2, <1>7, <1>8 DEF ReceiveLogs, Load
<1>13. CASE ClearLogs
  BY <1>13, <1>2, <1>5 DEF ClearLogs
<1> QED
  BY <1>6, <1>9, <1>10, <1>11, <1>12, <1>13 DEF Next, Viewer

\* The viewer shows a window of the log whatever loads overlap: LogViewer's
\* loadLogs replaces all it has by one answer of getRecent.
THEOREM ShownWindowCorrect == Spec => []ShownWindow
<1>1. TypeOK /\ BufferIsLast /\ WindowInv /\ [Next]_vars => WindowInv'
  BY WindowStep
<1>2. WindowInv => ShownWindow
  BY DEF WindowInv, Window, ShownWindow
<1> QED
  BY <1>1, <1>2, TypeCorrect, BufferCorrect, WindowInit, PTL DEF Spec
-----------------------------------------------------------------------------
\* One thread's entries are in the order in which it read the clock for them: each
\* was stamped after the one before was stored.

StampsDone ==
    /\ \A w \in Writers : stamp[w] <= time
    /\ \A i \in DOMAIN log : log[i].at <= time

StampsLate ==
    \A w \in Writers : \A i \in DOMAIN log :
        stamp[w] # NoStamp /\ log[i].by = w => log[i].at <= stamp[w]

LogOrdered ==
    \A i, j \in DOMAIN log : i < j /\ log[i].by = log[j].by => log[i].at <= log[j].at

OrderInv == StampsDone /\ StampsLate /\ LogOrdered

LEMMA OrderInit == Init => OrderInv
  BY EmptySeq DEF Init, OrderInv, StampsDone, StampsLate, LogOrdered, NoStamp

LEMMA OrderStep ==
    ASSUME TypeOK, OrderInv, [Next]_vars
    PROVE  OrderInv'
<1> USE LogAssumption DEF OrderInv
<1>1. /\ DOMAIN log = 1 .. Len(log) /\ Len(log) \in Nat
      /\ \A i \in DOMAIN log : log[i].at \in Int /\ log[i].by \in Writers
      /\ time \in Nat /\ \A w \in Writers : stamp[w] \in Int
  <2>1. log \in [1 .. Len(log) -> Entry] /\ Len(log) \in Nat
    BY LenProperties DEF TypeOK
  <2> QED
    BY <2>1 DEF TypeOK, Entry, NoStamp
<1>2. CASE TimePasses
  BY <1>1, <1>2 DEF TimePasses, StampsDone, StampsLate, LogOrdered
<1>3. ASSUME NEW w \in Writers, Stamp(w)
      PROVE  OrderInv'
  <2>1. /\ UNCHANGED <<time, log>> /\ stamp[w] = NoStamp
        /\ \A v \in Writers : stamp'[v] = IF v = w THEN time ELSE stamp[v]
    BY <1>3 DEF Stamp, TypeOK
  <2> QED
    BY <2>1, <1>1 DEF StampsDone, StampsLate, LogOrdered
<1>4. ASSUME NEW w \in Writers, Store(w)
      PROVE  OrderInv'
  <2>1. /\ UNCHANGED time /\ stamp[w] # NoStamp
        /\ \A v \in Writers : stamp'[v] = IF v = w THEN NoStamp ELSE stamp[v]
    BY <1>4 DEF Store, TypeOK
  <2>2. PICK e \in Entry : e.by = w /\ e.at = stamp[w] /\ log' = Append(log, e)
    BY <1>4, StoreEffect
  <2>3. e.by = w /\ e.at = stamp[w] /\ log \in Seq(Entry)
    BY <2>2 DEF TypeOK
  <2>4. /\ log' \in Seq(Entry) /\ Len(log') = Len(log) + 1
        /\ \A i \in 1 .. Len(log) : log'[i] = log[i]
        /\ log'[Len(log) + 1] = e
    BY <2>2, <2>3, AppendProperties
  <2>5. DOMAIN log' = 1 .. Len(log) + 1
    BY <2>4, LenProperties
  <2>6. StampsDone'
    <3>1. ASSUME NEW v \in Writers PROVE stamp'[v] <= time
      <4>1. CASE v = w
        BY <4>1, <2>1, <1>1 DEF NoStamp
      <4>2. CASE v # w
        BY <4>2, <2>1 DEF StampsDone
      <4> QED
        BY <4>1, <4>2
    <3>2. ASSUME NEW i \in DOMAIN log' PROVE log'[i].at <= time
      <4>1. CASE i \in 1 .. Len(log)
        BY <4>1, <2>4, <1>1 DEF StampsDone
      <4>2. CASE i = Len(log) + 1
        BY <4>2, <2>3, <2>4 DEF StampsDone
      <4> QED
        BY <4>1, <4>2, <2>5, <1>1
    <3> QED
      BY <3>1, <3>2, <2>1 DEF StampsDone
  <2>7. StampsLate'
    <3> SUFFICES ASSUME NEW v \in Writers, NEW i \in DOMAIN log',
                        stamp'[v] # NoStamp, log'[i].by = v
                 PROVE  log'[i].at <= stamp'[v]
      BY DEF StampsLate
    <3>1. v # w /\ stamp'[v] = stamp[v]
      BY <2>1
    <3>2. i \in 1 .. Len(log)
      BY <3>1, <2>3, <2>4, <2>5, <1>1
    <3> QED
      BY <3>1, <3>2, <2>4, <1>1 DEF StampsLate
  <2>8. LogOrdered'
    <3> SUFFICES ASSUME NEW i \in DOMAIN log', NEW j \in DOMAIN log', i < j,
                        log'[i].by = log'[j].by
                 PROVE  log'[i].at <= log'[j].at
      BY DEF LogOrdered
    <3>1. i \in 1 .. Len(log) /\ log'[i] = log[i]
      BY <2>4, <2>5, <1>1
    <3>2. CASE j \in 1 .. Len(log)
      BY <3>1, <3>2, <2>4, <1>1 DEF LogOrdered
    <3>3. CASE j = Len(log) + 1
      <4>1. log[i].by = w /\ log'[j].at = stamp[w]
        BY <3>1, <3>3, <2>3, <2>4
      <4> QED
        BY <4>1, <3>1, <2>1, <1>1 DEF StampsLate
    <3> QED
      BY <3>2, <3>3, <2>5, <1>1
  <2> QED
    BY <2>6, <2>7, <2>8
<1>5. CASE Viewer \/ UNCHANGED vars
  <2>1. UNCHANGED <<time, stamp, log>>
    BY <1>5 DEF Viewer, LoadLogs, ServeLogs, LoseLogs, ReceiveLogs, ClearLogs,
                vars, bufferVars
  <2> QED
    BY <2>1 DEF StampsDone, StampsLate, LogOrdered
<1> QED
  BY <1>2, <1>3, <1>4, <1>5 DEF Next, Buffer

LEMMA WindowInOrder ==
    ASSUME TypeOK, LogOrdered, ShownWindow
    PROVE  ThreadInOrder
<1> SUFFICES ASSUME NEW i \in DOMAIN logs, NEW j \in DOMAIN logs,
                    i < j, logs[i].by = logs[j].by
             PROVE  logs[i].at <= logs[j].at
  BY DEF ThreadInOrder
<1>1. i \in DOMAIN logs /\ j \in DOMAIN logs
  OBVIOUS
<1>2. logs # << >>
  BY <1>1
<1>3. PICK k \in 0 .. Len(log) : logs = Last(SubSeq(log, 1, k), Count)
  BY <1>2 DEF ShownWindow
<1> DEFINE p == SubSeq(log, 1, k)
<1>4. log \in Seq(Entry) /\ Count \in Nat /\ logs \in Seq(Entry)
  BY LogAssumption DEF TypeOK
<1>5. p \in Seq(Entry) /\ Len(p) = k /\ \A x \in 1 .. k : p[x] = log[x]
  BY <1>4, PrefixProps
<1>6. logs = Last(p, Count)
  BY <1>3
<1> HIDE DEF p
<1>7. \A x \in 1 .. Len(logs) : /\ x + k - Len(logs) \in 1 .. k
                                /\ logs[x] = p[x + k - Len(logs)]
  BY <1>4, <1>5, <1>6, LastProps
<1>8. i \in 1 .. Len(logs) /\ j \in 1 .. Len(logs) /\ Len(logs) \in Nat
  BY <1>1, <1>4, LenProperties
<1>9. DOMAIN log = 1 .. Len(log) /\ Len(log) \in Nat
  BY <1>4, LenProperties
<1> DEFINE x == i + k - Len(logs)
           y == j + k - Len(logs)
<1>10. x \in 1 .. k /\ y \in 1 .. k /\ logs[i] = log[x] /\ logs[j] = log[y]
  BY <1>5, <1>7, <1>8
<1>11. x < y /\ 1 .. k \subseteq DOMAIN log
  BY <1>8, <1>9
<1> HIDE DEF x, y
<1> QED
  BY <1>1, <1>10, <1>11 DEF LogOrdered

\* The lines shown of one thread are in the order in which it read the clock for
\* them, although add() reads it before it takes the mutex.
THEOREM ThreadInOrderCorrect == Spec => []ThreadInOrder
<1>1. TypeOK /\ OrderInv /\ [Next]_vars => OrderInv'
  BY OrderStep
<1>2. TypeOK /\ OrderInv /\ ShownWindow => ThreadInOrder
  BY WindowInOrder DEF OrderInv
<1> QED
  BY <1>1, <1>2, TypeCorrect, ShownWindowCorrect, OrderInit, PTL DEF Spec
=============================================================================
