------------------------- MODULE DeviceWorkerProofs -------------------------
(***************************************************************************)
(* Theorems about DeviceWorker for every set of commands, every number of  *)
(* retries and every number of commands, changes and losses: its safety,   *)
(* that it implements CommandLedger, and that its thread, once told to     *)
(* stop, has a bounded number of steps to go.                              *)
(***************************************************************************)
EXTENDS DeviceWorker, BrightnessProofs, SequenceTheorems

\* Where the thread stands tells how much of the batch is left: a command is
\* executed only while it heads the batch and no stale one precedes it, an
\* attempt is one of those allowed, the batch is empty outside the drain, and
\* the counter of the retry loop is the number of attempts made before this one.
BatchInv ==
    /\ Executing => batch # << >> /\ expired = 0
    /\ pc \in {"setPower", "setLevel", "readback", "retry"} => attempt < MaxRetries
    /\ ~Executing /\ ~At("next") => batch = << >>
    /\ ~Executing => attempt = 0
    /\ tried = IF pc \in {"setPower", "setLevel", "readback", "retry"} THEN attempt + 1
                                                                      ELSE attempt

TypeInv == TypeOK /\ BatchInv

LEMMA PayloadType ==
    ASSUME NEW s \in DeviceState
    PROVE  Payload(s) \in Topic
<1>1. s.raw \in Int /\ s.on \in BOOLEAN
  BY ParametersAssumption DEF DeviceState
<1>2. BrightnessPct(s.raw) \in Int
  BY <1>1, BrightnessPctRange
<1> QED
  BY <1>1, <1>2 DEF Payload, Topic

LEMMA TargetType == \A word, last : Target(word, last) \in BOOLEAN
  BY DEF Target

LEMMA AnnouncementType ==
    ASSUME NEW c \in Commands, lastState \in DeviceState \cup {NoState}
    PROVE  /\ Announcement(c) \in Topic
           /\ Desired(c.word, lastState) \in BOOLEAN
<1>1. c.level \in Int \cup {NoLevel}
  BY ParametersAssumption
<1>2. ASSUME lastState # NoState PROVE BrightnessPct(lastState.raw) \in Int
  <2>1. lastState.raw \in Int
    BY <1>2, ParametersAssumption DEF DeviceState
  <2> QED
    BY <2>1, BrightnessPctRange
<1>3. Desired(c.word, lastState) \in BOOLEAN
  BY DEF Desired
<1> QED
  BY <1>1, <1>2, <1>3 DEF Announcement, Topic

LEMMA ReportType ==
    ASSUME TypeOK, config' = config, ReportState(device)
    PROVE  /\ topic' \in Topic \cup {NoState}
           /\ lastState' \in DeviceState \cup {NoState}
  BY PayloadType DEF ReportState, Publish, TypeOK, shown

LEMMA HeadCommand ==
    ASSUME TypeOK, batch # << >>
    PROVE  Head(batch).cmd \in Commands
<1>1. Head(batch) \in Entry
  BY HeadTailProperties DEF TypeOK
<1> QED
  BY <1>1 DEF Entry

LEMMA SettleType ==
    ASSUME TypeOK, batch # << >>,
           NEW v \in {"ok", "failed", "stale"}, NEW n \in Nat, Settle(v, n)
    PROVE  /\ batch' \in Seq(Entry) /\ Len(batch') = Len(batch) - 1
           /\ outcomes' \in Seq(Outcome)
           /\ attempt' = 0 /\ tried' = 0 /\ acked' = {} /\ pc' = "next"
  BY HeadTailProperties, AppendProperties
  DEF Settle, Goto, TypeOK, Outcome

LEMMA SettleStep ==
    ASSUME TypeOK, batch # << >>,
           NEW v \in {"ok", "failed", "stale"}, NEW n \in Nat, Settle(v, n),
           expired' \in 0 .. Len(batch) - 1,
           pollDue' \in BOOLEAN, conn' \in BOOLEAN,
           topic' \in Topic \cup {NoState},
           lastState' \in DeviceState \cup {NoState},
           UNCHANGED <<config, outside, queue, beatDue, device, announced>>
    PROVE  TypeOK' /\ BatchInv'
<1>1. /\ batch' \in Seq(Entry) /\ Len(batch') = Len(batch) - 1
      /\ outcomes' \in Seq(Outcome)
      /\ attempt' = 0 /\ tried' = 0 /\ acked' = {} /\ pc' = "next"
  BY SettleType
<1>2. TypeOK'
  BY <1>1, ParametersAssumption DEF TypeOK, outside, Labels
<1>3. BatchInv'
  BY <1>1 DEF BatchInv, Executing, At
<1> QED
  BY <1>2, <1>3

LEMMA TypeInit == Init => TypeInv
<1> SUFFICES ASSUME Init PROVE TypeInv
  OBVIOUS
<1>1. queue \in Seq(Entry) /\ batch \in Seq(Entry) /\ outcomes \in Seq(Outcome)
  BY EmptySeq DEF Init
<1>2. expired \in 0 .. Len(batch) /\ attempt \in 0 .. MaxRetries
  BY ParametersAssumption DEF Init
<1>3. TypeOK
  BY <1>1, <1>2 DEF Init, TypeOK, Labels
<1>4. BatchInv
  BY DEF Init, BatchInv, Executing
<1> QED
  BY <1>3, <1>4 DEF TypeInv

LEMMA TypeStep == TypeInv /\ [Next]_vars => TypeInv'
<1> SUFFICES ASSUME TypeOK, BatchInv, [Next]_vars
             PROVE  TypeOK' /\ BatchInv'
  BY DEF TypeInv
<1>l. Len(batch) \in Nat /\ (batch # << >> => Len(batch) > 0)
  BY EmptySeq, LenProperties DEF TypeOK
<1>1. CASE LoopExit
  BY <1>1 DEF LoopExit, TypeOK, BatchInv, Executing, At, Goto, Labels, outside, work,
              timers, shown, history
<1>2. CASE Connect
  BY <1>2 DEF Connect, TypeOK, BatchInv, Executing, At, Goto, Labels, outside, work,
              timers, shown, history
<1>3. CASE LoopPass
  BY <1>3 DEF LoopPass, TypeOK, BatchInv, Executing, At, Goto, Labels, outside, work,
              shown, history
<1>4. CASE Drain
  BY <1>4, EmptySeq, LenProperties
  DEF Drain, TypeOK, BatchInv, Executing, At, Goto, Labels, outside, timers, shown,
      history
<1>5. CASE DropStale
  <2>1. Settle("stale", 0) /\ batch # << >>
    BY <1>5 DEF DropStale
  <2>2. expired' \in 0 .. Len(batch) - 1
    BY <1>5, <1>l DEF DropStale, TypeOK
  <2>3. UNCHANGED <<config, outside, queue, timers, conn, device, shown, announced>>
    BY <1>5 DEF DropStale
  <2> QED
    BY <2>1, <2>2, <2>3, SettleStep DEF TypeOK, timers, shown
<1>6. CASE StartCommand
  <2>1. /\ batch # << >> /\ expired = 0 /\ Announce(Head(batch).cmd)
        /\ pc = "next" /\ pc' = "attempt"
    BY <1>6 DEF StartCommand, At, Goto
  <2>2. UNCHANGED <<config, outside, work, timers, conn, device, lastState, outcomes>>
    BY <1>6 DEF StartCommand
  <2>3. Head(batch).cmd \in Commands
    BY <2>1, HeadCommand
  <2>4. topic' \in Topic \cup {NoState} /\ announced' \in BOOLEAN
    BY <2>1, <2>3, AnnouncementType DEF Announce, Publish, TypeOK
  <2>5. TypeOK'
    BY <2>1, <2>2, <2>4 DEF TypeOK, Labels, outside, work, timers
  <2>6. BatchInv'
    BY <2>1, <2>2 DEF BatchInv, Executing, At, work
  <2> QED
    BY <2>5, <2>6
<1>7. CASE BatchDone
  BY <1>7 DEF BatchDone, TypeOK, BatchInv, Executing, At, Goto, Labels, outside, work,
              timers, shown, history
<1>8. CASE Attempt
  BY <1>8 DEF Attempt, TypeOK, BatchInv, Executing, At, Goto, Labels, outside, timers,
              shown, history
<1>9. CASE ReconnectFails
  <2>1. Settle("failed", MaxRetries) /\ MaxRetries \in Nat
    BY <1>9, ParametersAssumption DEF ReconnectFails
  <2>2. batch # << >> /\ expired' \in 0 .. Len(batch) - 1
    BY <1>9, <1>l DEF ReconnectFails, BatchInv, Executing, At
  <2>3. UNCHANGED <<config, outside, queue, timers, conn, device, shown, announced>>
    BY <1>9 DEF ReconnectFails
  <2> QED
    BY <2>1, <2>2, <2>3, SettleStep DEF TypeOK, timers, shown
<1>10. CASE GiveUp
  <2>1. Settle("failed", MaxRetries) /\ MaxRetries \in Nat
    BY <1>10, ParametersAssumption DEF GiveUp
  <2>2. batch # << >> /\ expired' \in 0 .. Len(batch) - 1
    BY <1>10, <1>l DEF GiveUp, BatchInv, Executing, At
  <2>3. UNCHANGED <<config, outside, queue, timers, conn, device, shown, announced>>
    BY <1>10 DEF GiveUp
  <2> QED
    BY <2>1, <2>2, <2>3, SettleStep DEF TypeOK, timers, shown
<1>11. CASE SetPower
  <2>1. Switched \in DeviceState
    BY TargetType DEF Switched, TypeOK, DeviceState
  <2>2. /\ device' \in DeviceState /\ conn' \in BOOLEAN
        /\ acked' \in SUBSET {"power", "level"} /\ pc' \in {"setLevel", "retry"}
    BY <1>11, <2>1 DEF SetPower, LinkAfter, MaybeApplied, Goto, TypeOK
  <2>3. /\ pc = "setPower"
        /\ UNCHANGED <<config, outside, queue, batch, expired, attempt, tried, timers,
                       shown, history>>
    BY <1>11 DEF SetPower, At
  <2>4. TypeOK'
    BY <2>2, <2>3 DEF TypeOK, Labels, outside, timers, shown, history
  <2>5. BatchInv'
    BY <2>2, <2>3 DEF BatchInv, Executing, At
  <2> QED
    BY <2>4, <2>5
<1>12. CASE SetLevel
  <2>1. pc = "setLevel" /\ pc' = "readback"
    BY <1>12 DEF SetLevel, At, Goto
  <2>2. Cmd \in Commands
    BY <2>1, HeadCommand DEF Cmd, BatchInv, Executing
  <2>3. Cmd.level # NoLevel => Dimmed \in DeviceState
    BY <2>2, ParametersAssumption DEF Dimmed, TypeOK, DeviceState
  <2>4. device' \in DeviceState /\ conn' \in BOOLEAN /\ acked' \in SUBSET {"power", "level"}
    BY <1>12, <2>3 DEF SetLevel, LinkAfter, MaybeApplied, TypeOK
  <2>5. UNCHANGED <<config, outside, queue, batch, expired, attempt, tried, timers,
                    shown, history>>
    BY <1>12 DEF SetLevel
  <2>6. TypeOK'
    BY <2>1, <2>4, <2>5 DEF TypeOK, Labels, outside, timers, shown, history
  <2>7. BatchInv'
    BY <2>1, <2>5 DEF BatchInv, Executing, At
  <2> QED
    BY <2>6, <2>7
<1>13. CASE Readback
  <2>1. /\ pc = "readback"
        /\ UNCHANGED <<config, outside, queue, expired, beatDue, device, announced>>
    BY <1>13 DEF Readback, At
  <2>2. /\ topic' \in Topic \cup {NoState}
        /\ lastState' \in DeviceState \cup {NoState}
        /\ conn' \in BOOLEAN
    BY <1>13, <2>1, ReportType DEF Readback, LinkAfter, TypeOK, shown
  <2>3. CASE Settle("ok", attempt + 1) /\ pollDue' = FALSE
    <3>1. batch # << >> /\ expired' \in 0 .. Len(batch) - 1 /\ attempt + 1 \in Nat
      BY <2>1, <1>l DEF BatchInv, Executing, TypeOK
    <3> QED
      BY <2>1, <2>2, <2>3, <3>1, SettleStep
  <2>4. CASE Goto("retry") /\ UNCHANGED <<batch, attempt, tried, acked, pollDue, outcomes>>
    <3>1. TypeOK'
      BY <2>1, <2>2, <2>4 DEF TypeOK, Goto, Labels, outside
    <3>2. BatchInv'
      BY <2>1, <2>4 DEF BatchInv, Executing, At, Goto
    <3> QED
      BY <3>1, <3>2
  <2> QED
    BY <1>13, <2>3, <2>4 DEF Readback
<1>14. CASE Retry
  <2>1. /\ pc = "retry" /\ pc' = "attempt" /\ attempt' = attempt + 1 /\ conn' \in BOOLEAN
        /\ UNCHANGED <<config, outside, queue, batch, expired, tried, acked, timers,
                       device, shown, history>>
    BY <1>14 DEF Retry, At, Goto
  <2>2. attempt' \in 0 .. MaxRetries
    BY <2>1, ParametersAssumption DEF TypeOK, BatchInv
  <2>3. TypeOK'
    BY <2>1, <2>2 DEF TypeOK, Labels, outside, timers, shown, history
  <2>4. BatchInv'
    BY <2>1 DEF BatchInv, Executing, At
  <2> QED
    BY <2>3, <2>4
<1>15. CASE Poll
  BY <1>15, ReportType
  DEF Poll, TypeOK, BatchInv, Executing, At, Goto, Labels, outside, work, history, shown
<1>16. CASE Beat
  BY <1>16 DEF Beat, LinkAfter, TypeOK, BatchInv, Executing, At, Goto, Labels, outside,
               work, shown, history
<1>17. CASE \E c \in Commands : Enqueue(c)
  <2>1. PICK c \in Commands : Enqueue(c)
    BY <1>17
  <2>2. queue' \in Seq(Entry) /\ issued' \in Nat
    BY <2>1, AppendProperties DEF Enqueue, Entry, TypeOK
  <2> QED
    BY <2>1, <2>2 DEF Enqueue, TypeOK, BatchInv, Executing, At, thread, timers, shown,
                      history
<1>18. CASE Stop
  <2>1. running' \in BOOLEAN
    BY <1>18 DEF Stop
  <2>2. UNCHANGED <<config, mqttUp, issued, changes, drops, thread, queue, device>>
    BY <1>18 DEF Stop
  <2> QED
    BY <2>1, <2>2 DEF TypeOK, BatchInv, Executing, At, thread, timers, shown, history
<1>19. CASE Join
  BY <1>19 DEF Join, TypeOK, BatchInv, Executing, At, Goto, Labels, outside, work,
               timers, shown, history
<1>20. CASE MqttChange
  BY <1>20 DEF MqttChange, TypeOK, BatchInv, Executing, At, thread, timers, shown,
               history
<1>21. CASE DeviceChange
  BY <1>21 DEF DeviceChange, TypeOK, BatchInv, Executing, At, thread, timers, shown,
               history
<1>22. CASE UNCHANGED vars
  BY <1>22 DEF vars, TypeOK, BatchInv, Executing, At, outside, work, timers, shown,
               history
<1> QED
  BY <1>1, <1>2, <1>3, <1>4, <1>5, <1>6, <1>7, <1>8, <1>9, <1>10, <1>11, <1>12,
     <1>13, <1>14, <1>15, <1>16, <1>17, <1>18, <1>19, <1>20, <1>21, <1>22
  DEF Next, Worker, Environment

LEMMA TypeInvHolds == Spec => []TypeInv
  BY TypeInit, TypeStep, PTL DEF Spec

\* The variables of a worker keep their types, in burst and in persistent mode.
THEOREM TypeCorrect == Spec => []TypeOK
<1>1. TypeInv => TypeOK
  BY DEF TypeInv
<1> QED
  BY <1>1, TypeInvHolds, PTL
-----------------------------------------------------------------------------
\* The log of outcomes

\* A step of the worker logs nothing, or one of the three verdicts, with what
\* was tried.
LEMMA LogStep ==
    ASSUME TypeInv, [Next]_vars
    PROVE  /\ config' = config
           /\ \/ outcomes' = outcomes
              \/ batch # << >> /\ Settle("stale", 0) /\ tried = 0
              \/ /\ batch # << >> /\ Settle("failed", MaxRetries) /\ tried <= MaxRetries
                 /\ ~config.persistent => tried = MaxRetries
              \/ /\ batch # << >> /\ Settle("ok", attempt + 1) /\ tried = attempt + 1
                 /\ attempt < MaxRetries
<1>1. CASE DropStale
  BY <1>1 DEF DropStale, TypeInv, BatchInv, Executing, At
<1>2. CASE ReconnectFails
  <2>1. attempt < MaxRetries /\ attempt \in Nat /\ MaxRetries \in Nat
    BY <1>2, ParametersAssumption DEF ReconnectFails, TypeInv, TypeOK
  <2> QED
    BY <1>2, <2>1 DEF ReconnectFails, TypeInv, BatchInv, Executing, At
<1>3. CASE GiveUp
  <2>1. attempt = MaxRetries /\ MaxRetries \in Nat
    BY <1>3, ParametersAssumption DEF GiveUp, TypeInv, TypeOK
  <2> QED
    BY <1>3, <2>1 DEF GiveUp, TypeInv, BatchInv, Executing, At
<1>4. CASE Readback
  BY <1>4 DEF Readback, TypeInv, BatchInv, Executing, At
<1>5. CASE \/ LoopExit \/ Connect \/ LoopPass \/ Drain \/ StartCommand \/ BatchDone
           \/ Attempt \/ SetPower \/ SetLevel \/ Retry \/ Poll \/ Beat
  BY <1>5 DEF LoopExit, Connect, LoopPass, Drain, StartCommand, BatchDone, Attempt,
              SetPower, SetLevel, Retry, Poll, Beat, history
<1>6. CASE Environment \/ UNCHANGED vars
  BY <1>6 DEF Environment, Enqueue, Stop, Join, MqttChange, DeviceChange, thread, history,
              vars
<1> QED
  BY <1>1, <1>2, <1>3, <1>4, <1>5, <1>6 DEF Next, Worker

\* What VerdictEarned says of one line of the log.
Earned(o) ==
    /\ o.verdict = "ok" => o.logged \in 1 .. MaxRetries
    /\ o.verdict = "failed" => o.logged = MaxRetries
    /\ o.verdict = "stale" => o.logged = 0
    /\ \/ o.made = o.logged
       \/ config.persistent /\ o.verdict = "failed" /\ o.made < o.logged

LEMMA VerdictStep ==
    ASSUME TypeInv, VerdictEarned, [Next]_vars
    PROVE  VerdictEarned'
<1>1. CASE outcomes' = outcomes
  BY <1>1, LogStep DEF VerdictEarned
<1>2. ASSUME NEW v \in {"ok", "failed", "stale"}, NEW n \in Nat,
             batch # << >>, Settle(v, n),
             Earned([entry |-> Head(batch), verdict |-> v, made |-> tried, logged |-> n])
      PROVE  VerdictEarned'
  <2> DEFINE o == [entry |-> Head(batch), verdict |-> v, made |-> tried, logged |-> n]
  <2>1. outcomes' = Append(outcomes, o) /\ o \in Outcome
    BY <1>2, HeadTailProperties, ParametersAssumption
    DEF Settle, Outcome, TypeInv, TypeOK
  <2>2. /\ Len(outcomes') = Len(outcomes) + 1
        /\ \A i \in 1 .. Len(outcomes) : outcomes'[i] = outcomes[i]
        /\ outcomes'[Len(outcomes) + 1] = o
    BY <2>1, AppendProperties DEF TypeInv, TypeOK
  <2>3. Len(outcomes) \in Nat /\ config' = config
    BY LenProperties, LogStep DEF TypeInv, TypeOK
  <2>4. ASSUME NEW i \in 1 .. Len(outcomes') PROVE Earned(outcomes'[i])
    <3>1. CASE i = Len(outcomes) + 1
      BY <3>1, <1>2, <2>2
    <3>2. CASE i \in 1 .. Len(outcomes)
      BY <3>2, <2>2 DEF VerdictEarned, Earned
    <3> QED
      BY <3>1, <3>2, <2>2, <2>3
  <2> QED
    BY <2>3, <2>4 DEF VerdictEarned, Earned
<1>3. /\ attempt \in 0 .. MaxRetries /\ MaxRetries \in Nat \ {0}
      /\ tried \in Nat /\ config.persistent \in BOOLEAN
  BY ParametersAssumption DEF TypeInv, TypeOK
<1>4. CASE batch # << >> /\ Settle("stale", 0) /\ tried = 0
  BY <1>2, <1>4 DEF Earned
<1>5. CASE /\ batch # << >> /\ Settle("failed", MaxRetries) /\ tried <= MaxRetries
           /\ ~config.persistent => tried = MaxRetries
  <2>1. \/ tried = MaxRetries
        \/ config.persistent /\ tried < MaxRetries
    BY <1>3, <1>5
  <2> QED
    BY <1>2, <1>3, <1>5, <2>1 DEF Earned
<1>6. CASE /\ batch # << >> /\ Settle("ok", attempt + 1) /\ tried = attempt + 1
           /\ attempt < MaxRetries
  <2>1. attempt + 1 \in 1 .. MaxRetries
    BY <1>3, <1>6
  <2> QED
    BY <1>2, <1>6, <2>1 DEF Earned
<1> QED
  BY <1>1, <1>4, <1>5, <1>6, LogStep

\* However many attempts are allowed, the log tells of the attempts made, unless
\* a persistent worker gave up because its link could not be opened again: its
\* FAILED then tells of all those allowed.
THEOREM VerdictsEarned == Spec => []VerdictEarned
<1>1. Init => VerdictEarned
  BY DEF Init, VerdictEarned
<1>2. TypeInv /\ VerdictEarned /\ [Next]_vars => VerdictEarned'
  BY VerdictStep
<1> QED
  BY <1>1, <1>2, TypeInvHolds, PTL DEF Spec
-----------------------------------------------------------------------------
\* The link

LEMMA LinkStep ==
    ASSUME TypeInv, LinkDiscipline, [Next]_vars
    PROVE  LinkDiscipline'
<1> USE DEF LinkDiscipline, At, Goto
<1>0. conn \in BOOLEAN /\ config' = config
  BY LogStep DEF TypeInv, TypeOK
<1>1. CASE LoopExit \/ Drain \/ BatchDone \/ StartCommand
  BY <1>0, <1>1 DEF LoopExit, Drain, BatchDone, StartCommand
<1>2. CASE Connect
  BY <1>0, <1>2 DEF Connect
<1>3. CASE LoopPass
  BY <1>0, <1>3 DEF LoopPass
<1>4. CASE DropStale \/ ReconnectFails \/ GiveUp
  BY <1>0, <1>4 DEF DropStale, ReconnectFails, GiveUp, Settle
<1>5. CASE Attempt
  BY <1>0, <1>5 DEF Attempt
<1>6. ASSUME LinkAfter(TRUE) \/ LinkAfter(FALSE) \/ conn' = conn \/ conn' = FALSE,
             pc' \notin {"drain", "setPower"}
      PROVE  LinkDiscipline'
  <2>1. ~config.persistent => conn' = conn \/ conn' = FALSE
    BY <1>6 DEF LinkAfter
  <2> QED
    BY <1>0, <1>6, <2>1
<1>7. CASE SetPower
  BY <1>6, <1>7 DEF SetPower
<1>8. CASE SetLevel
  BY <1>6, <1>8 DEF SetLevel
<1>9. CASE Readback
  BY <1>6, <1>9 DEF Readback, Settle
<1>10. CASE Retry
  BY <1>0, <1>10 DEF Retry
<1>11. CASE Poll
  BY <1>6, <1>11 DEF Poll
<1>12. CASE Beat
  BY <1>6, <1>12 DEF Beat
<1>13. CASE Environment \/ UNCHANGED vars
  <2>1. conn' = conn /\ (pc' = pc \/ pc' = "joined")
    BY <1>13 DEF Environment, Enqueue, Stop, Join, MqttChange, DeviceChange, thread, vars
  <2> QED
    BY <1>0, <2>1
<1> QED
  BY <1>1, <1>2, <1>3, <1>4, <1>5, <1>7, <1>8, <1>9, <1>10, <1>11, <1>12, <1>13
  DEF Next, Worker

\* Commands leave the queue, and the device is written, over a link believed up.
THEOREM LinkDisciplined == Spec => []LinkDiscipline
<1>1. Init => LinkDiscipline
  BY DEF Init, LinkDiscipline
<1> QED
  BY <1>1, LinkStep, TypeInvHolds, PTL DEF Spec
-----------------------------------------------------------------------------
\* What is announced and what is done

\* The promise made for the command at the head of the batch stays the one its
\* next attempt will try to keep; once the power is acknowledged, the device
\* has it; and what an OK left behind is still there.
CommandInv ==
    /\ Executing /\ Known(Cmd) => Desired(Cmd.word, lastState) = announced
    /\ pc \in {"setLevel", "readback"} /\ Cmd.word # "none" => "power" \in acked
    /\ pc \in {"setLevel", "readback"} /\ Known(Cmd) /\ changes = 0
          => device.on = announced
    /\ OkMeansApplied

LEMMA KnownTarget ==
    ASSUME NEW c, Known(c), NEW last
    PROVE  Target(c.word, last) = Desired(c.word, last) /\ c.word # "none"
  BY DEF Known, Target, Desired

LEMMA CommandInit == Init => CommandInv
  BY DEF Init, CommandInv, Executing, At, OkMeansApplied

\* A step that leaves the log, the power and its announcement alone, and after
\* which a command for the power is being executed if one was before it.
LEMMA OkSame ==
    ASSUME OkMeansApplied, outcomes' = outcomes, announced' = announced,
           device'.on = device.on, changes' = 0 => changes = 0,
           (Executing' => Cmd'.word = "none") => (Executing => Cmd.word = "none")
    PROVE  OkMeansApplied'
  BY DEF OkMeansApplied

\* A verdict keeps what an earlier OK left behind, if the command left the power
\* alone, and otherwise stands for itself.
LEMMA OkSettled ==
    ASSUME TypeInv, OkMeansApplied, batch # << >>,
           NEW v \in {"ok", "failed", "stale"}, NEW n \in Nat, Settle(v, n),
           v = "stale" => ~Executing,
           v = "ok" /\ Known(Cmd) /\ changes = 0 => device.on = announced,
           device' = device, announced' = announced, changes' = changes
    PROVE  OkMeansApplied'
<1> DEFINE o == [entry |-> Head(batch), verdict |-> v, made |-> tried, logged |-> n]
           k == Len(outcomes) + 1
<1>1. outcomes' = Append(outcomes, o) /\ o \in Outcome /\ outcomes \in Seq(Outcome)
  BY HeadTailProperties DEF Settle, Outcome, TypeInv, TypeOK
<1>2. /\ Len(outcomes') = k
      /\ \A i \in 1 .. Len(outcomes) : outcomes'[i] = outcomes[i]
      /\ outcomes'[k] = o
  BY <1>1, AppendProperties
<1>3. Len(outcomes) \in Nat
  BY <1>1, LenProperties
<1>4. o.verdict = v /\ o.entry.cmd = Cmd
  BY DEF Cmd
<1> SUFFICES ASSUME NEW i \in 1 .. k,
                    outcomes'[i].verdict = "ok", Known(outcomes'[i].entry.cmd),
                    \A j \in i + 1 .. k : LeavesPower(outcomes'[j]),
                    changes = 0
             PROVE  device.on = announced
  BY <1>2 DEF OkMeansApplied
<1>5. CASE i = k
  BY <1>2, <1>4, <1>5
<1>6. CASE i \in 1 .. Len(outcomes)
  <2>1. LeavesPower(o)
    BY <1>2, <1>3, <1>6
  <2>2. Executing => Cmd.word = "none"
    BY <1>4, <2>1 DEF LeavesPower
  <2>3. \A j \in i + 1 .. Len(outcomes) : LeavesPower(outcomes[j])
    BY <1>2, <1>3, <1>6
  <2>4. outcomes[i].verdict = "ok" /\ Known(outcomes[i].entry.cmd)
    BY <1>2, <1>6
  <2> QED
    BY <1>6, <2>2, <2>3, <2>4 DEF OkMeansApplied
<1> QED
  BY <1>3, <1>5, <1>6

LEMMA CommandStep ==
    ASSUME TypeInv, CommandInv, [Next]_vars
    PROVE  CommandInv'
<1> USE DEF CommandInv, Executing, At, Goto
<1>1. CASE LoopExit \/ Connect \/ LoopPass \/ BatchDone
  BY <1>1, OkSame DEF LoopExit, Connect, LoopPass, BatchDone, outside, history
<1>2. CASE Drain
  BY <1>2, OkSame DEF Drain, outside, history
<1>3. ASSUME NEW v \in {"stale", "failed"}, NEW n \in Nat, batch # << >>, Settle(v, n),
             v = "stale" => ~Executing,
             device' = device, announced' = announced, changes' = changes
      PROVE  CommandInv'
  <2>1. pc' = "next"
    BY <1>3 DEF Settle
  <2>2. OkMeansApplied'
    BY <1>3, OkSettled
  <2> QED
    BY <2>1, <2>2
<1>4. CASE DropStale \/ ReconnectFails \/ GiveUp
  <2>1. MaxRetries \in Nat
    BY ParametersAssumption
  <2>2. DropStale => batch # << >> /\ Settle("stale", 0) /\ ~Executing
    BY DEF DropStale
  <2>3. ReconnectFails \/ GiveUp => batch # << >> /\ Settle("failed", MaxRetries)
    BY DEF ReconnectFails, GiveUp, TypeInv, BatchInv
  <2>4. device' = device /\ announced' = announced /\ changes' = changes
    BY <1>4 DEF DropStale, ReconnectFails, GiveUp, outside
  <2> QED
    BY <1>3, <1>4, <2>1, <2>2, <2>3, <2>4
<1>5. CASE StartCommand
  <2>1. /\ pc = "next" /\ pc' = "attempt" /\ lastState' = lastState
        /\ Cmd' = Cmd /\ outcomes' = outcomes /\ device' = device /\ changes' = changes
        /\ IF Cmd.word = "none" THEN announced' = announced
                                ELSE announced' = Desired(Cmd.word, lastState)
    BY <1>5 DEF StartCommand, Announce, work, outside, Cmd
  <2>2. OkMeansApplied'
    <3>1. CASE Cmd.word = "none"
      BY <2>1, <3>1, OkSame
    <3>2. CASE Cmd.word # "none"
      BY <2>1, <3>2 DEF OkMeansApplied
    <3> QED
      BY <3>1, <3>2
  <2> QED
    BY <2>1, <2>2, KnownTarget
<1>6. CASE Attempt \/ Retry
  <2>1. /\ pc \in {"attempt", "retry"} /\ pc' \in {"setPower", "attempt"}
        /\ Cmd' = Cmd /\ lastState' = lastState /\ announced' = announced
        /\ outcomes' = outcomes /\ device' = device /\ changes' = changes
    BY <1>6 DEF Attempt, Retry, Cmd, outside, shown, history
  <2> QED
    BY <2>1, OkSame
<1>7. CASE SetPower
  <2>1. /\ pc = "setPower" /\ changes' = changes /\ outcomes' = outcomes
        /\ lastState' = lastState /\ announced' = announced /\ Cmd' = Cmd
    BY <1>7 DEF SetPower, outside, shown, history, Cmd
  <2>2. CASE pc' = "setLevel" /\ Cmd.word # "none" /\ device' = Switched /\ acked' = {"power"}
    <3>1. Known(Cmd) => device'.on = announced
      BY <2>1, <2>2, KnownTarget DEF Switched, TypeInv, TypeOK, DeviceState
    <3>2. OkMeansApplied'
      BY <2>1, <2>2 DEF OkMeansApplied
    <3> QED
      BY <2>1, <2>2, <3>1, <3>2
  <2>3. CASE pc' = "setLevel" /\ Cmd.word = "none" /\ device' = device
    <3>1. OkMeansApplied'
      BY <2>1, <2>3, OkSame
    <3> QED
      BY <2>1, <2>3, <3>1, KnownTarget
  <2>4. CASE pc' = "retry" /\ Cmd.word # "none"
    <3>1. OkMeansApplied'
      BY <2>1, <2>4 DEF OkMeansApplied
    <3> QED
      BY <2>1, <2>4, <3>1
  <2> QED
    BY <1>7, <2>2, <2>3, <2>4 DEF SetPower
<1>8. CASE SetLevel
  <2>1. /\ pc = "setLevel" /\ pc' = "readback" /\ changes' = changes
        /\ lastState' = lastState /\ announced' = announced /\ Cmd' = Cmd
        /\ acked \subseteq acked' /\ outcomes' = outcomes
    BY <1>8 DEF SetLevel, outside, shown, history, Cmd
  <2>2. device'.on = device.on
    BY <1>8 DEF SetLevel, MaybeApplied, Dimmed, TypeInv, TypeOK, DeviceState
  <2>3. OkMeansApplied'
    BY <2>1, <2>2, OkSame
  <2> QED
    BY <2>1, <2>2, <2>3
<1>9. CASE Readback
  <2>1. /\ pc = "readback" /\ device' = device /\ announced' = announced
        /\ changes' = changes /\ batch # << >> /\ attempt + 1 \in Nat
    BY <1>9 DEF Readback, outside, TypeInv, TypeOK, BatchInv
  <2>2. CASE Settle("ok", attempt + 1)
    <3>1. pc' = "next"
      BY <2>2 DEF Settle
    <3>2. OkMeansApplied'
      BY <2>1, <2>2, OkSettled
    <3> QED
      BY <3>1, <3>2
  <2>3. CASE acked = {} /\ pc' = "retry" /\ batch' = batch /\ outcomes' = outcomes
    <3>1. Cmd' = Cmd /\ ~Known(Cmd)
      BY <2>1, <2>3, KnownTarget DEF Cmd
    <3>2. OkMeansApplied'
      BY <2>1, <2>3, <3>1, OkSame
    <3> QED
      BY <2>3, <3>1, <3>2 DEF Known
  <2> QED
    BY <1>9, <2>2, <2>3 DEF Readback
<1>10. CASE Poll \/ Beat
  BY <1>10, OkSame DEF Poll, Beat, outside, history
<1>11. CASE (\E c \in Commands : Enqueue(c)) \/ Stop \/ Join \/ MqttChange \/ UNCHANGED vars
  <2>1. /\ changes' = changes /\ device' = device /\ announced' = announced
        /\ outcomes' = outcomes /\ lastState' = lastState /\ Cmd' = Cmd /\ acked' = acked
        /\ pc' = pc \/ (pc = "exited" /\ pc' = "joined")
    BY <1>11 DEF Enqueue, Stop, Join, MqttChange, Cmd, thread, work, outside, shown,
                 history, vars
  <2>2. OkMeansApplied'
    BY <2>1, OkSame
  <2> QED
    BY <2>1, <2>2
<1>12. CASE DeviceChange
  <2>1. changes' # 0 /\ UNCHANGED thread
    BY <1>12 DEF DeviceChange, TypeInv, TypeOK
  <2>2. OkMeansApplied'
    BY <2>1 DEF OkMeansApplied
  <2> QED
    BY <2>1, <2>2 DEF Cmd, thread, shown, history
<1> QED
  BY <1>1, <1>2, <1>4, <1>5, <1>6, <1>7, <1>8, <1>9, <1>10, <1>11, <1>12
  DEF Next, Worker, Environment

LEMMA CommandInvHolds == Spec => []CommandInv
  BY CommandInit, CommandStep, TypeInvHolds, PTL DEF Spec

\* Whatever attempts failed before, the power written is the power announced.
THEOREM PromisesKept == Spec => []PromiseKept
<1>1. CommandInv => PromiseKept
  BY KnownTarget DEF CommandInv, PromiseKept, Executing, At
<1> QED
  BY <1>1, CommandInvHolds, PTL

\* A device left alone keeps the power announced by the last command reported OK
\* that had one, whatever stale commands and commands without a power follow it.
THEOREM OkApplied == Spec => []OkMeansApplied
<1>1. CommandInv => OkMeansApplied
  BY DEF CommandInv
<1> QED
  BY <1>1, CommandInvHolds, PTL
-----------------------------------------------------------------------------
\* The brightness

\* An acknowledgement of the brightness is this attempt's, and the device has
\* the brightness since.
LevelInv ==
    /\ pc \in {"setPower", "setLevel"} => "level" \notin acked
    /\ At("readback") /\ "level" \in acked =>
          /\ Cmd.level # NoLevel
          /\ changes = 0 => device.raw = PctToBrightness(Cmd.level)

LEMMA LevelStep ==
    ASSUME TypeInv, LevelInv, [Next]_vars
    PROVE  LevelInv'
<1> USE DEF LevelInv, At, Goto
<1>1. CASE \/ LoopExit \/ Connect \/ LoopPass \/ Drain \/ DropStale \/ StartCommand
           \/ BatchDone \/ Attempt \/ ReconnectFails \/ GiveUp \/ Readback \/ Retry
           \/ Poll \/ Beat \/ Join
  BY <1>1 DEF LoopExit, Connect, LoopPass, Drain, DropStale, StartCommand, BatchDone,
              Attempt, ReconnectFails, GiveUp, Readback, Retry, Poll, Beat, Join, Settle
<1>2. CASE SetPower
  BY <1>2 DEF SetPower
<1>3. CASE SetLevel
  <2>1. /\ pc = "setLevel" /\ pc' = "readback" /\ changes' = changes /\ Cmd' = Cmd
        /\ "level" \in acked' => Cmd.level # NoLevel /\ device' = Dimmed
    BY <1>3 DEF SetLevel, outside, Cmd
  <2>2. Dimmed.raw = PctToBrightness(Cmd.level)
    BY DEF Dimmed, TypeInv, TypeOK, DeviceState
  <2> QED
    BY <2>1, <2>2
<1>4. CASE (\E c \in Commands : Enqueue(c)) \/ Stop \/ MqttChange \/ UNCHANGED vars
  BY <1>4 DEF Enqueue, Stop, MqttChange, Cmd, thread, work, outside, vars
<1>5. CASE DeviceChange
  <2>1. changes' # 0 /\ UNCHANGED thread
    BY <1>5 DEF DeviceChange, TypeInv, TypeOK
  <2> QED
    BY <2>1 DEF Cmd, thread
<1> QED
  BY <1>1, <1>2, <1>3, <1>4, <1>5 DEF Next, Worker, Environment

\* A brightness acknowledged is the percentage the readback publishes.
THEOREM LevelsReadBack == Spec => []LevelReadsBack
<1>1. Init => LevelInv
  BY DEF Init, LevelInv, At
<1>2. LevelInv => LevelReadsBack
  BY BrightnessRoundTrip DEF LevelInv, LevelReadsBack, RoundTrip
<1> QED
  BY <1>1, <1>2, LevelStep, TypeInvHolds, PTL DEF Spec
-----------------------------------------------------------------------------
\* The topic

\* What a step must do for TopicFollows.
Follows ==
    /\ lastState' # lastState /\ mqttUp => Aligned'
    /\ Aligned /\ ~Aligned' => StartCommand \/ ~mqttUp

LEMMA UnshownStep ==
    ASSUME config' = config, UNCHANGED shown
    PROVE  Follows
  BY DEF Follows, Aligned, Payload, shown

LEMMA ReportStep ==
    ASSUME TypeInv, config' = config, ReportState(device)
    PROVE  Follows
<1>1. CASE UNCHANGED shown
  BY <1>1, UnshownStep
<1>2. CASE lastState' = device /\ Publish(Payload(device))
  <2>1. device # NoState
    BY NoStateAssumption DEF TypeInv, TypeOK
  <2>2. mqttUp => topic' = Payload(device) /\ Payload(lastState)' = Payload(device)
    BY <1>2 DEF Publish, Payload
  <2> QED
    BY <1>2, <2>1, <2>2 DEF Follows, Aligned
<1> QED
  BY <1>1, <1>2 DEF ReportState

LEMMA FollowsStep ==
    ASSUME TypeInv, [Next]_vars
    PROVE  Follows
<1>0. config' = config
  BY LogStep
<1>1. CASE StartCommand
  BY <1>1 DEF StartCommand, Follows
<1>2. CASE Readback
  BY <1>0, <1>2, UnshownStep, ReportStep DEF Readback
<1>3. CASE Poll
  BY <1>0, <1>3, UnshownStep, ReportStep DEF Poll
<1>4. CASE \/ LoopExit \/ Connect \/ LoopPass \/ Drain \/ DropStale \/ BatchDone
           \/ Attempt \/ ReconnectFails \/ GiveUp \/ SetPower \/ SetLevel \/ Retry \/ Beat
  BY <1>0, <1>4, UnshownStep
  DEF LoopExit, Connect, LoopPass, Drain, DropStale, BatchDone, Attempt, ReconnectFails,
      GiveUp, SetPower, SetLevel, Retry, Beat
<1>5. CASE Environment \/ UNCHANGED vars
  BY <1>0, <1>5, UnshownStep
  DEF Environment, Enqueue, Stop, Join, MqttChange, DeviceChange, thread, shown, vars
<1> QED
  BY <1>1, <1>2, <1>3, <1>4, <1>5 DEF Next, Worker

\* A new state reaches the topic, and only an announcement or an absent broker
\* makes the topic differ from the last state.
THEOREM TopicFollowed == Spec => TopicFollows
<1>1. TypeInv /\ [Next]_vars =>
        [/\ lastState' # lastState /\ mqttUp => Aligned'
         /\ Aligned /\ ~Aligned' => StartCommand \/ ~mqttUp]_vars
  BY FollowsStep DEF Follows
<1> QED
  BY <1>1, TypeInvHolds, PTL DEF Spec, TopicFollows
-----------------------------------------------------------------------------
\* The ledger

\* Commands are numbered in the order they were issued.
Numbered == issued = Len(batch) + Len(queue) + Len(outcomes)

LEMMA EntriesIsSeq ==
    ASSUME NEW log \in Seq(Outcome)
    PROVE  /\ Entries(log) \in Seq(Entry) /\ Len(Entries(log)) = Len(log)
           /\ \A i \in 1 .. Len(log) : Entries(log)[i] = log[i].entry
<1>1. Len(log) \in Nat /\ \A i \in 1 .. Len(log) : log[i] \in Outcome
  BY LenProperties, ElementOfSeq
<1>2. \A i \in 1 .. Len(log) : log[i].entry \in Entry
  BY <1>1 DEF Outcome
<1>3. Entries(log) \in [1 .. Len(log) -> Entry]
  BY <1>2 DEF Entries
<1>4. Entries(log) \in Seq(Entry)
  BY <1>1, <1>3, SeqDef
<1>5. Len(Entries(log)) = Len(log)
  BY <1>1, <1>3, <1>4, LenProperties
<1> QED
  BY <1>4, <1>5 DEF Entries

LEMMA EntriesAppend ==
    ASSUME NEW log \in Seq(Outcome), NEW o \in Outcome
    PROVE  Entries(Append(log, o)) = Append(Entries(log), o.entry)
<1> DEFINE left  == Entries(Append(log, o))
           right == Append(Entries(log), o.entry)
<1>1. o.entry \in Entry /\ Len(log) \in Nat
  BY LenProperties DEF Outcome
<1>2. /\ Append(log, o) \in Seq(Outcome) /\ Len(Append(log, o)) = Len(log) + 1
      /\ \A i \in 1 .. Len(log) : Append(log, o)[i] = log[i]
      /\ Append(log, o)[Len(log) + 1] = o
  BY AppendProperties
<1>3. /\ left \in Seq(Entry) /\ Len(left) = Len(log) + 1
      /\ \A i \in 1 .. Len(log) + 1 : left[i] = Append(log, o)[i].entry
  BY <1>2, EntriesIsSeq
<1>4. /\ Entries(log) \in Seq(Entry) /\ Len(Entries(log)) = Len(log)
      /\ \A i \in 1 .. Len(log) : Entries(log)[i] = log[i].entry
  BY EntriesIsSeq
<1>5. /\ right \in Seq(Entry) /\ Len(right) = Len(log) + 1
      /\ \A i \in 1 .. Len(log) : right[i] = Entries(log)[i]
      /\ right[Len(log) + 1] = o.entry
  BY <1>1, <1>4, AppendProperties
<1> HIDE DEF left, right
<1>6. ASSUME NEW i \in 1 .. Len(log) + 1 PROVE left[i] = right[i]
  <2>1. CASE i = Len(log) + 1
    BY <2>1, <1>2, <1>3, <1>5
  <2>2. CASE i \in 1 .. Len(log)
    BY <2>2, <1>2, <1>3, <1>4, <1>5
  <2> QED
    BY <2>1, <2>2, <1>1
<1>7. left = right
  BY <1>3, <1>5, <1>6, SeqEqual
<1> QED
  BY <1>7 DEF left, right

\* A verdict moves the head of the batch to the end of the ledger.
LEMMA SettleLedger ==
    ASSUME TypeOK, Numbered, batch # << >>, queue' = queue, issued' = issued,
           NEW v \in {"ok", "failed", "stale"}, NEW n \in Nat, Settle(v, n)
    PROVE  Ledger!Settle /\ Numbered'
<1> DEFINE o == [entry |-> Head(batch), verdict |-> v, made |-> tried, logged |-> n]
<1>1. o \in Outcome /\ Head(batch) \in Entry
  BY HeadTailProperties DEF Outcome, TypeOK
<1>2. /\ outcomes' = Append(outcomes, o) /\ outcomes' \in Seq(Outcome)
      /\ Len(outcomes') = Len(outcomes) + 1
      /\ \A i \in 1 .. Len(outcomes) : outcomes'[i] = outcomes[i]
      /\ outcomes'[Len(outcomes) + 1] = o
  BY <1>1, AppendProperties DEF Settle, TypeOK
<1>3. /\ batch' = Tail(batch) /\ batch' \in Seq(Entry) /\ Len(batch') = Len(batch) - 1
      /\ batch \in Seq(Entry) /\ queue \in Seq(Entry)
  BY HeadTailProperties DEF Settle, TypeOK
<1>4. Len(batch) \in Nat \ {0} /\ Len(queue) \in Nat /\ Len(outcomes) \in Nat
  BY EmptySeq, LenProperties DEF TypeOK
<1>5. Entries(outcomes)' = Append(Entries(outcomes), Head(batch))
  BY <1>1, <1>2, EntriesAppend DEF TypeOK
<1>6. batch \o queue # << >> /\ Head(batch \o queue) = Head(batch)
  BY <1>3, <1>4, ConcatProperties, ConcatEqualIffEmpty, HeadTailProperties
<1>7. Tail(batch \o queue) = Tail(batch) \o queue
  BY <1>3, <1>4, <1>6, ConcatProperties, HeadTailProperties
<1>8. Ledger!Settle
  BY <1>3, <1>5, <1>6, <1>7 DEF Ledger!Settle
<1> QED
  BY <1>2, <1>3, <1>4, <1>8 DEF Numbered

\* A command issued is accepted by the ledger under the next number.
LEMMA EnqueueLedger ==
    ASSUME TypeOK, Numbered, NEW c \in Commands, Enqueue(c)
    PROVE  Ledger!Accept(c) /\ Numbered'
<1> DEFINE e == [id |-> issued + 1, cmd |-> c]
<1>1. /\ queue' = Append(queue, e) /\ batch' = batch /\ outcomes' = outcomes
      /\ issued' = issued + 1
  BY DEF Enqueue, thread, history
<1>2. e \in Entry /\ batch \in Seq(Entry) /\ queue \in Seq(Entry)
  BY DEF TypeOK, Entry
<1>3. batch \o Append(queue, e) = Append(batch \o queue, e)
  <2>1. batch \o (queue \o << e >>) = (batch \o queue) \o << e >>
    BY <1>2, ConcatAssociative
  <2> QED
    BY <1>2, <2>1, AppendIsConcat, ConcatProperties
<1>4. Len(batch \o queue) = Len(batch) + Len(queue) /\ Len(Entries(outcomes)) = Len(outcomes)
  BY <1>2, ConcatProperties, EntriesIsSeq DEF TypeOK
<1>5. Ledger!Accept(c)
  BY <1>1, <1>3, <1>4 DEF Ledger!Accept, Numbered
<1>6. /\ Len(Append(queue, e)) = Len(queue) + 1
      /\ Len(queue) \in Nat /\ Len(batch) \in Nat /\ Len(outcomes) \in Nat
  BY <1>2, AppendProperties, LenProperties DEF TypeOK
<1> QED
  BY <1>1, <1>5, <1>6 DEF Numbered

\* Draining the queue moves commands within the ledger's pending ones.
LEMMA DrainLedger ==
    ASSUME TypeInv, Numbered, Drain
    PROVE  UNCHANGED Ledger!ledger /\ Numbered'
<1>1. /\ batch = << >> /\ batch' = queue /\ queue' = << >>
      /\ outcomes' = outcomes /\ issued' = issued
  BY DEF Drain, TypeInv, BatchInv, Executing, At, history, outside
<1>2. queue \in Seq(Entry)
  BY DEF TypeInv, TypeOK
<1>3. queue \o << >> = queue /\ << >> \o queue = queue
  BY <1>2, ConcatEmptySeq
<1> QED
  BY <1>1, <1>3 DEF Ledger!ledger, Numbered

LEMMA LedgerStep ==
    ASSUME TypeInv, Numbered, [Next]_vars
    PROVE  [Ledger!Next]_Ledger!ledger /\ Numbered'
<1>0. TypeOK
  BY DEF TypeInv
<1>1. ASSUME UNCHANGED <<queue, batch, outcomes, issued>>
      PROVE  UNCHANGED Ledger!ledger /\ Numbered'
  BY <1>1 DEF Ledger!ledger, Numbered
<1>2. CASE DropStale
  BY <1>0, <1>2, SettleLedger DEF DropStale, Ledger!Next, outside
<1>3. CASE ReconnectFails \/ GiveUp
  <2>1. batch # << >> /\ MaxRetries \in Nat /\ Settle("failed", MaxRetries)
    BY <1>0, <1>3, ParametersAssumption DEF ReconnectFails, GiveUp, TypeInv, BatchInv, Executing, At, TypeOK
  <2>2. queue' = queue /\ issued' = issued
    BY <1>3 DEF ReconnectFails, GiveUp, outside
  <2> QED
    BY <1>0, <2>1, <2>2, SettleLedger DEF Ledger!Next
<1>4. CASE Readback
  <2>1. /\ batch # << >> /\ attempt + 1 \in Nat
        /\ queue' = queue /\ issued' = issued
    BY <1>0, <1>4 DEF Readback, TypeInv, BatchInv, Executing, At, TypeOK, outside
  <2>2. CASE Settle("ok", attempt + 1)
    BY <1>0, <2>1, <2>2, SettleLedger DEF Ledger!Next
  <2>3. CASE UNCHANGED <<batch, outcomes>>
    BY <1>1, <2>1, <2>3
  <2> QED
    BY <1>4, <2>2, <2>3 DEF Readback
<1>5. CASE Drain
  BY <1>5, DrainLedger
<1>6. CASE \E c \in Commands : Enqueue(c)
  BY <1>0, <1>6, EnqueueLedger DEF Ledger!Next
<1>7. CASE \/ LoopExit \/ Connect \/ LoopPass \/ StartCommand \/ BatchDone \/ Attempt
           \/ SetPower \/ SetLevel \/ Retry \/ Poll \/ Beat
  BY <1>1, <1>7
  DEF LoopExit, Connect, LoopPass, StartCommand, BatchDone, Attempt, SetPower, SetLevel,
      Retry, Poll, Beat, work, outside, history
<1>8. CASE Stop \/ Join \/ MqttChange \/ DeviceChange \/ UNCHANGED vars
  BY <1>1, <1>8
  DEF Stop, Join, MqttChange, DeviceChange, thread, work, outside, history, vars
<1> QED
  BY <1>2, <1>3, <1>4, <1>5, <1>6, <1>7, <1>8 DEF Next, Worker, Environment

\* A worker implements the ledger: every command is settled once and in order.
THEOREM WorkerImplementsLedger == Spec => LedgerKept
<1>1. Init => Ledger!Init /\ Numbered
  <2>1. Init => Entries(outcomes) = << >>
    BY EntriesIsSeq, EmptySeq DEF Init
  <2> QED
    BY <2>1, EmptySeq, ConcatEmptySeq DEF Init, Ledger!Init, Numbered
<1> QED
  BY <1>1, LedgerStep, TypeInvHolds, PTL DEF Spec, LedgerKept, Ledger!Spec
-----------------------------------------------------------------------------
\* The end of a pass

LEMMA Times ==
    ASSUME NEW n \in Nat
    PROVE  /\ PerCommand * n \in Nat
           /\ n # 0 => /\ PerCommand * (n - 1) \in Nat
                       /\ PerCommand * n = PerCommand * (n - 1) + 5 * MaxRetries + 2
<1>1. MaxRetries \in Nat /\ PerCommand \in Nat /\ PerCommand = 5 * MaxRetries + 2
  BY ParametersAssumption DEF PerCommand
<1>2. \A p, m \in Nat : p * m \in Nat /\ (m # 0 => m - 1 \in Nat /\ p * m = p * (m - 1) + p)
  OBVIOUS
<1> QED
  BY <1>1, <1>2

\* What is left of the batch when the command at its head fails its last attempt.
Behind == PerCommand * (Len(batch) - 1)

Attempts == 5 * (MaxRetries - attempt)

LEMMA BehindType ==
    ASSUME TypeInv
    PROVE  /\ PerCommand * Len(queue) \in Nat /\ PerCommand * Len(batch) \in Nat
           /\ Attempts \in Nat
           /\ batch # << >> => /\ Behind \in Nat
                              /\ PerCommand * Len(batch) = Behind + 5 * MaxRetries + 2
           /\ pc \in {"setPower", "setLevel", "readback", "retry"} => Attempts >= 5
<1>1. Len(queue) \in Nat /\ Len(batch) \in Nat /\ (batch # << >> => Len(batch) # 0)
  BY LenProperties, EmptySeq DEF TypeInv, TypeOK
<1>2. PerCommand * Len(queue) \in Nat /\ PerCommand * Len(batch) \in Nat
  BY <1>1, Times
<1>3. MaxRetries \in Nat /\ attempt \in 0 .. MaxRetries
  BY ParametersAssumption DEF TypeInv, TypeOK
<1>4. pc \in {"setPower", "setLevel", "readback", "retry"} => attempt < MaxRetries
  BY DEF TypeInv, BatchInv
<1> QED
  BY <1>1, <1>2, <1>3, <1>4, Times DEF Behind, Attempts

\* What StepsLeft is at every place, and that it is a number.
LeftInv ==
    /\ At("drain") => StepsLeft = PerCommand * Len(queue) + 6
    /\ At("next") => StepsLeft = PerCommand * Len(batch) + 5
    /\ At("attempt") => StepsLeft = Behind + Attempts + 6
    /\ At("setPower") => StepsLeft = Behind + Attempts + 5
    /\ At("setLevel") => StepsLeft = Behind + Attempts + 4
    /\ At("readback") => StepsLeft = Behind + Attempts + 3
    /\ At("retry") => StepsLeft = Behind + Attempts + 2
    /\ At("poll") => StepsLeft = 4
    /\ At("beat") => StepsLeft = 3
    /\ At("top") => StepsLeft = 2
    /\ At("exited") => StepsLeft = 1
    /\ At("joined") => StepsLeft = 0
    /\ StepsLeft \in Nat

LEMMA LeftAt == TypeInv => LeftInv
<1> SUFFICES ASSUME TypeInv PROVE LeftInv
  OBVIOUS
<1>1. pc \in Labels /\ (Executing => batch # << >>)
  BY DEF TypeInv, TypeOK, BatchInv
<1> DEFINE all == PerCommand * Len(queue)
           rest == PerCommand * Len(batch)
<1>2. all \in Nat /\ rest \in Nat /\ Attempts \in Nat /\ (Executing => Behind \in Nat)
  BY <1>1, BehindType
<1>3. StepsLeft =
        CASE At("drain") -> all + 6
          [] At("next")  -> rest + 5
          [] Executing   -> Behind + Attempts
                        + [attempt |-> 6, setPower |-> 5, setLevel |-> 4, readback |-> 3,
                           retry |-> 2][pc]
          [] OTHER -> [poll |-> 4, beat |-> 3, top |-> 2, exited |-> 1, joined |-> 0][pc]
  BY DEF StepsLeft, Behind, Attempts
<1> HIDE DEF all, rest
<1>4. /\ At("drain") => StepsLeft = all + 6 /\ StepsLeft \in Nat
      /\ At("next") => StepsLeft = rest + 5 /\ StepsLeft \in Nat
  BY <1>2, <1>3 DEF At, Executing
<1>5. /\ At("attempt") => StepsLeft = Behind + Attempts + 6
      /\ At("setPower") => StepsLeft = Behind + Attempts + 5
      /\ At("setLevel") => StepsLeft = Behind + Attempts + 4
      /\ At("readback") => StepsLeft = Behind + Attempts + 3
      /\ At("retry") => StepsLeft = Behind + Attempts + 2
  BY <1>2, <1>3 DEF At, Executing
<1>6. /\ At("poll") => StepsLeft = 4
      /\ At("beat") => StepsLeft = 3
      /\ At("top") => StepsLeft = 2
      /\ At("exited") => StepsLeft = 1
      /\ At("joined") => StepsLeft = 0
  BY <1>3 DEF At, Executing
<1>7. StepsLeft \in Nat
  BY <1>1, <1>2, <1>4, <1>5, <1>6 DEF At, Executing, Labels
<1> QED
  BY <1>4, <1>5, <1>6, <1>7 DEF LeftInv, all, rest

LEMMA LeftAtNext == TypeInv' => LeftInv'
  BY LeftAt, PTL

\* Settling the command at the head leaves what is behind it.
LEMMA SettleLeft ==
    ASSUME TypeInv, TypeInv', batch # << >>,
           NEW v \in {"ok", "failed", "stale"}, NEW n \in Nat, Settle(v, n)
    PROVE  StepsLeft' = Behind + 5
<1>1. TypeOK
  BY DEF TypeInv
<1>2. Len(batch') = Len(batch) - 1 /\ pc' = "next"
  BY <1>1, SettleType
<1>3. StepsLeft' = PerCommand' * Len(batch') + 5
  BY <1>2, LeftAtNext DEF LeftInv, At
<1> QED
  BY <1>2, <1>3 DEF Behind, PerCommand

\* A step of the thread that does not begin a pass brings it nearer the end.
LEMMA WorkerLeft ==
    ASSUME TypeInv, TypeInv', Worker \/ Join, ~(At("top") /\ running)
    PROVE  StepsLeft' < StepsLeft
<1> USE DEF At, Goto, LeftInv
<1>1. LeftInv /\ LeftInv'
  BY LeftAt, LeftAtNext
<1>2. /\ Attempts \in Nat
      /\ batch # << >> => /\ Behind \in Nat
                         /\ PerCommand * Len(batch) = Behind + 5 * MaxRetries + 2
      /\ pc \in {"setPower", "setLevel", "readback", "retry"} => Attempts >= 5
      /\ MaxRetries \in Nat
  BY BehindType, ParametersAssumption
<1>3. Executing => batch # << >>
  BY DEF TypeInv, BatchInv
<1>4. CASE LoopExit
  BY <1>1, <1>4 DEF LoopExit
<1>5. CASE Connect \/ LoopPass
  BY <1>5 DEF Connect, LoopPass
<1>6. CASE Drain
  BY <1>1, <1>6, BehindType DEF Drain, PerCommand
<1>7. CASE DropStale
  BY <1>1, <1>2, <1>7, SettleLeft DEF DropStale
<1>8. CASE StartCommand
  <2>1. pc = "next" /\ pc' = "attempt" /\ batch # << >> /\ UNCHANGED work
    BY <1>8 DEF StartCommand
  <2>2. batch' = batch /\ attempt' = attempt
    BY <2>1 DEF work
  <2>3. Behind' = Behind /\ Attempts' = Attempts
    BY <2>2 DEF Behind, Attempts, PerCommand
  <2>4. Attempts <= 5 * MaxRetries
    BY ParametersAssumption DEF Attempts, TypeInv, TypeOK
  <2> QED
    BY <1>1, <1>2, <2>1, <2>3, <2>4
<1>9. CASE BatchDone
  BY <1>1, <1>9, BehindType DEF BatchDone
<1>10. ASSUME UNCHANGED <<batch, attempt>> PROVE Behind' = Behind /\ Attempts' = Attempts
  BY <1>10 DEF Behind, Attempts, PerCommand
<1>11. CASE Attempt
  BY <1>1, <1>2, <1>3, <1>10, <1>11 DEF Attempt, Executing
<1>12. CASE ReconnectFails \/ GiveUp
  <2>1. MaxRetries \in Nat /\ pc = "attempt" /\ Settle("failed", MaxRetries)
    BY <1>12, ParametersAssumption DEF ReconnectFails, GiveUp
  <2>2. StepsLeft' = Behind + 5
    BY <1>3, <2>1, SettleLeft DEF Executing
  <2> QED
    BY <1>1, <1>2, <1>3, <2>1, <2>2 DEF Executing
<1>13. CASE SetPower
  <2>1. UNCHANGED <<batch, attempt>> /\ pc = "setPower" /\ pc' \in {"setLevel", "retry"}
    BY <1>13 DEF SetPower
  <2> QED
    BY <1>1, <1>2, <1>3, <1>10, <2>1 DEF Executing
<1>14. CASE SetLevel
  <2>1. UNCHANGED <<batch, attempt>> /\ pc = "setLevel" /\ pc' = "readback"
    BY <1>14 DEF SetLevel
  <2> QED
    BY <1>1, <1>2, <1>3, <1>10, <2>1 DEF Executing
<1>15. CASE Readback
  <2>1. CASE Settle("ok", attempt + 1)
    <3>1. StepsLeft' = Behind + 5
      BY <1>3, <1>15, <2>1, SettleLeft DEF Readback, Executing, TypeInv, TypeOK
    <3> QED
      BY <1>1, <1>2, <1>3, <1>15, <3>1 DEF Readback, Executing
  <2>2. CASE UNCHANGED <<batch, attempt>> /\ pc' = "retry"
    BY <1>1, <1>2, <1>3, <1>10, <1>15, <2>2 DEF Readback, Executing
  <2> QED
    BY <1>15, <2>1, <2>2 DEF Readback
<1>16. CASE Retry
  <2>1. batch' = batch /\ attempt' = attempt + 1 /\ pc = "retry" /\ pc' = "attempt"
    BY <1>16 DEF Retry
  <2>2. Behind' = Behind /\ Attempts' = Attempts - 5
    BY <2>1, ParametersAssumption DEF Behind, Attempts, PerCommand, TypeInv, TypeOK
  <2> QED
    BY <1>1, <1>2, <1>3, <2>1, <2>2 DEF Executing
<1>17. CASE Poll
  BY <1>1, <1>17 DEF Poll
<1>18. CASE Beat
  <2>1. pc = "beat" /\ pc' = "top"
    BY <1>18 DEF Beat
  <2> QED
    BY <1>1, <2>1
<1>19. CASE Join
  BY <1>1, <1>19 DEF Join
<1> QED
  BY <1>4, <1>5, <1>6, <1>7, <1>8, <1>9, <1>11, <1>12, <1>13, <1>14, <1>15, <1>16, <1>17, <1>18,
     <1>19 DEF Worker

\* The callers, the broker and the device do not take a thread back that is to
\* stop: no command is accepted any more.
LEMMA EnvironmentLeft ==
    ASSUME ~running, Environment \/ UNCHANGED vars, ~Join
    PROVE  StepsLeft' = StepsLeft
<1>1. pc' = pc /\ UNCHANGED <<batch, queue, attempt>>
  BY DEF Environment, Enqueue, Stop, MqttChange, DeviceChange, thread, vars, work
<1> QED
  BY <1>1 DEF StepsLeft, PerCommand, At, Executing

\* For any commands and any number of retries every pass of the loop ends within
\* a number of steps that the commands drained determine, and so does stop(),
\* whether or not the device ever answers.
THEOREM PassesEndCorrect == Spec => PassesEnd
<1>1. ASSUME TypeInv, TypeInv', [Next]_vars
      PROVE  /\ Worker \/ Join => (At("top") /\ running) \/ StepsLeft' < StepsLeft
             /\ ~running => StepsLeft' <= StepsLeft
  <2>1. Worker \/ Join => (At("top") /\ running) \/ StepsLeft' < StepsLeft
    BY <1>1, WorkerLeft
  <2>2. StepsLeft \in Nat /\ StepsLeft' \in Nat
    BY <1>1, LeftAt, LeftAtNext DEF LeftInv
  <2> QED
    BY <1>1, <2>1, <2>2, EnvironmentLeft DEF Next
<1>2. TypeInv /\ TypeInv' /\ [Next]_vars =>
        [/\ Worker \/ Join => (At("top") /\ running) \/ StepsLeft' < StepsLeft
         /\ ~running => StepsLeft' <= StepsLeft]_vars
  BY <1>1
<1> QED
  BY <1>2, TypeInvHolds, PTL DEF Spec, PassesEnd

LEMMA TimesGrows ==
    ASSUME NEW m \in Nat, NEW n \in Nat, m <= n
    PROVE  /\ PerCommand * m <= PerCommand * n
           /\ PerCommand * m \in Nat /\ PerCommand * n \in Nat
<1>1. PerCommand \in Nat
  BY ParametersAssumption DEF PerCommand
<1>2. \A p \in Nat : p * (n - m) \in Nat /\ p * n = p * m + p * (n - m)
  OBVIOUS
<1>3. \A p \in Nat : p * m \in Nat /\ p * n \in Nat
  OBVIOUS
<1> QED
  BY <1>1, <1>2, <1>3

\* In particular stop() lets the thread take a bounded number of steps, whenever
\* it is called: PerCommand for every command there ever was and six more.
THEOREM StopBounded == Spec => [](StepsLeft <= PerCommand * issued + 6)
<1>1. Init => Numbered
  BY EmptySeq DEF Init, Numbered
<1>2. TypeInv /\ Numbered /\ [Next]_vars => Numbered'
  BY LedgerStep
<1>3. ASSUME TypeInv, Numbered PROVE StepsLeft <= PerCommand * issued + 6
  <2>1. /\ Len(batch) \in Nat /\ Len(queue) \in Nat /\ Len(outcomes) \in Nat
        /\ issued \in Nat
    BY <1>3, LenProperties DEF TypeInv, TypeOK
  <2>2. Len(batch) <= issued /\ Len(queue) <= issued
    BY <1>3, <2>1 DEF Numbered
  <2>3. /\ PerCommand * Len(batch) <= PerCommand * issued
        /\ PerCommand * Len(queue) <= PerCommand * issued
        /\ PerCommand * Len(batch) \in Nat /\ PerCommand * Len(queue) \in Nat
        /\ PerCommand * issued \in Nat
    BY <2>1, <2>2, TimesGrows
  <2>4. LeftInv
    BY <1>3, LeftAt
  <2>5. CASE Executing
    <3>1. /\ Behind \in Nat /\ Attempts \in Nat
          /\ PerCommand * Len(batch) = Behind + 5 * MaxRetries + 2
      BY <1>3, <2>5, BehindType DEF TypeInv, BatchInv
    <3>2. Attempts <= 5 * MaxRetries /\ MaxRetries \in Nat
      BY <1>3, ParametersAssumption DEF Attempts, TypeInv, TypeOK
    <3>3. StepsLeft \in Nat /\ StepsLeft <= Behind + Attempts + 6
      BY <2>4, <2>5, <3>1 DEF LeftInv, Executing, At
    <3> QED
      BY <2>3, <3>1, <3>2, <3>3
  <2>6. CASE ~Executing
    <3>1. pc \in Labels
      BY <1>3 DEF TypeInv, TypeOK
    <3> QED
      BY <2>3, <2>4, <2>6, <3>1 DEF LeftInv, Executing, Labels, At
  <2> QED
    BY <2>5, <2>6
<1>4. TypeInv /\ Numbered => StepsLeft <= PerCommand * issued + 6
  BY <1>3
<1> QED
  BY <1>1, <1>2, <1>4, TypeInvHolds, PTL DEF Spec
=============================================================================
