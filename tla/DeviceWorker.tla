---------------------------- MODULE DeviceWorker ----------------------------
(***************************************************************************)
(* One DeviceWorker: the thread that owns a Tuya device, drains the queue  *)
(* of commands, retries them, polls the device, keeps its connection alive *)
(* and publishes the device's state to a retained MQTT topic.              *)
(*                                                                         *)
(* Burst and persistent mode, bulbs and switches are the four values of    *)
(* `config'.  Time is left out: an action may find a command too old, a    *)
(* poll or a heartbeat due, whenever some passage of time would make it    *)
(* so, and a sleep is a step that has not been taken yet.  Of a bulb's     *)
(* data points the switch (DP1) and the brightness (DP3) are kept; mode    *)
(* and colour temperature (DP2, DP4) are written exactly as DP3 is.  A     *)
(* switch has its countdown (DP9) where a bulb has its brightness.         *)
(*                                                                         *)
(* The device, the network and the broker are external: an operation on    *)
(* the device may fail, a write may be applied although its answer is      *)
(* lost, and the device changes on its own (a wall button, another app).   *)
(***************************************************************************)
EXTENDS Brightness, Sequences

CONSTANTS Commands,     \* commands as the callers of enqueueCommand build them
          Levels,       \* brightness values, in per cent, a command may ask for
          Raws,         \* values of the device's DP3 (bulb) or DP9 (switch)
          NoLevel,      \* the command, or the payload, has no brightness
          NoState,      \* last_state_ is null, or nothing is retained yet
          MaxRetries,   \* cmd_max_retries
          MaxCommands,  \* bound: commands issued in a behaviour
          MaxChanges,   \* bound: changes the device makes on its own
          MaxDrops      \* bound: losses of the MQTT connection

\* The values of a command's "state": the three the code knows, any other
\* word, and no "state" at all.
Words == {"on", "off", "toggle", "other", "none"}

DeviceState == [on : BOOLEAN, raw : Raws]

ASSUME ParametersAssumption ==
    /\ Commands \subseteq [word : Words, level : Levels \cup {NoLevel}]
    /\ Levels \subseteq Int
    /\ Raws \subseteq Int
    /\ \A l \in Levels : PctToBrightness(l) \in Raws
    /\ NoLevel \notin Int
    /\ MaxRetries \in Nat \ {0}
    /\ MaxCommands \in Nat
    /\ MaxChanges \in Nat
    /\ MaxDrops \in Nat

ASSUME NoStateAssumption ==
    /\ NoState \notin DeviceState
    /\ NoState \notin [on : BOOLEAN, level : Int \cup {NoLevel}]

VARIABLES
    config,     \* [bulb, persistent], fixed when the worker is created
    running,    \* running_, cleared by stop()
    pc,         \* where the worker thread stands
    queue,      \* cmd_queue_; `id' stands for queued_at, which orders commands
    batch,      \* cmds, the local vector of drainCommands
    expired,    \* how many at the head of batch were too old when it was drained
    attempt,    \* attempt, the retry counter of the command being executed
    tried,      \* history: attempts really made of the command being executed
    acked,      \* the data points the device acknowledged in this attempt
    pollDue,    \* now >= next_poll_
    beatDue,    \* now >= next_heartbeat_
    conn,       \* device_->isConnected(), persistent mode only
    lastState,  \* last_state_
    device,     \* the real state of the device
    mqttUp,     \* MqttBridge::isConnected()
    topic,      \* the payload retained in the device's state topic
    announced,  \* history: the power the last optimistic payload promised
    outcomes,   \* history: how each command ended, with the attempts made and
                \* the attempts the log tells of, oldest first
    issued,     \* commands issued so far
    changes,    \* changes the device made on its own so far
    drops       \* losses of the MQTT connection so far

work    == <<queue, batch, expired, attempt, tried, acked>>
timers  == <<pollDue, beatDue>>
shown   == <<lastState, topic>>
history == <<announced, outcomes>>
outside == <<running, mqttUp, issued, changes, drops>>
vars == <<config, outside, pc, work, timers, conn, device, shown, history>>

\* What only the thread itself writes.
thread == <<pc, batch, expired, attempt, tried, acked, timers, conn, shown, history>>

At(label)   == pc = label
Goto(label) == pc' = label
-----------------------------------------------------------------------------
\* The words of a command

IsOn(state) == state # NoState /\ state.on

\* executeCommand: a word it does not know switches the device on.
Target(word, last) == word # "off" /\ (word = "toggle" => ~IsOn(last))

\* publishOptimistic: a word it does not know is announced as off.
Desired(word, last) == word = "on" \/ (word = "toggle" /\ ~IsOn(last))
-----------------------------------------------------------------------------
\* Publishing

\* The payload publishState builds from what the device answered.
Payload(s) ==
    [on    |-> s.on,
     level |-> IF config.bulb THEN BrightnessPct(s.raw) ELSE NoLevel]

\* The payload publishOptimistic builds before the command is executed.
Announcement(c) ==
    LET on    == Desired(c.word, lastState)
        last  == IF lastState = NoState THEN 100 ELSE BrightnessPct(lastState.raw)
        level == IF c.level = NoLevel THEN last ELSE c.level
    IN  [on    |-> on,
         level |-> IF ~config.bulb THEN NoLevel ELSE IF on THEN level ELSE 0]

\* MqttBridge::publishState drops the payload when the broker is away.
Publish(payload) == topic' = IF mqttUp THEN payload ELSE topic

\* Fault: an answer that differs only in brightness counts as the last one.
ReportPowerOnly(s) ==
    LET same == lastState # NoState /\ s.on = lastState.on
    IN  \/ same /\ UNCHANGED shown
        \/ ~same /\ Publish(Payload(s)) /\ lastState' = s

\* Fault: the answer is remembered before it is compared, so never published.
ReportTooLate(s) == lastState' = s /\ UNCHANGED topic

\* publishState: nothing to do for an answer equal to the last one; otherwise
\* the answer becomes the last one, whether or not its payload got out.
ReportState(s) ==
    \/ /\ s = lastState
       /\ UNCHANGED shown
    \/ /\ s # lastState
       /\ Publish(Payload(s))
       /\ lastState' = s

\* publishOptimistic: a command without "state" is not announced.
Announce(c) ==
    \/ /\ c.word = "none"
       /\ UNCHANGED <<topic, announced>>
    \/ /\ c.word # "none"
       /\ Publish(Announcement(c))
       /\ announced' = Desired(c.word, lastState)

\* An operation on the device may open a link that was down when it succeeds
\* and lose it when it fails; in burst mode it uses a link of its own.
LinkAfter(ok) == conn' \in (IF config.persistent THEN {conn, ok} ELSE {conn})

\* A failed write reached the device, or did not.
MaybeApplied(written) == device' \in {device, written}
-----------------------------------------------------------------------------
\* Creation: the constructor's deadlines are its own `now', so the first poll
\* and the first heartbeat are due at once.  main() starts no worker without
\* the broker; one that a reload creates without it loses it in a first step.
Init ==
    /\ config \in [bulb : BOOLEAN, persistent : BOOLEAN]
    /\ running = TRUE
    /\ pc = "top"
    /\ queue = << >> /\ batch = << >> /\ expired = 0
    /\ attempt = 0 /\ tried = 0 /\ acked = {}
    /\ pollDue = TRUE /\ beatDue = TRUE
    /\ conn = FALSE
    /\ lastState = NoState
    /\ device \in DeviceState
    /\ mqttUp = TRUE
    /\ topic = NoState
    /\ announced = FALSE
    /\ outcomes = << >>
    /\ issued = 0 /\ changes = 0 /\ drops = 0
-----------------------------------------------------------------------------
\* The worker thread: runBurst, runPersistent

\* while (running_) is over; runPersistent closes the connection.
LoopExit ==
    /\ At("top") /\ ~running
    /\ conn' = FALSE
    /\ Goto("exited")
    /\ UNCHANGED <<config, outside, work, timers, device, shown, history>>

\* Fault: the connection is retried without looking at running_.
ConnectForever ==
    /\ At("top")
    /\ config.persistent /\ ~conn
    /\ conn' = TRUE
    /\ pollDue' = TRUE
    /\ beatDue' = FALSE
    /\ Goto("drain")
    /\ UNCHANGED <<config, outside, work, device, shown, history>>

\* Connecting makes a poll due and puts the heartbeat off.
Connect ==
    /\ At("top") /\ running
    /\ config.persistent /\ ~conn
    /\ \/ /\ conn' = TRUE
          /\ pollDue' = TRUE
          /\ beatDue' = FALSE
          /\ Goto("drain")
       \/ UNCHANGED <<pc, timers, conn>>    \* connect() failed: back off, retry
    /\ UNCHANGED <<config, outside, work, device, shown, history>>

\* Fault: the pass goes on although the connection failed.
LoopPassUnchecked ==
    /\ At("top") /\ running
    /\ pollDue' \in {pollDue, TRUE}
    /\ beatDue' \in {beatDue, TRUE}
    /\ Goto("drain")
    /\ UNCHANGED <<config, outside, work, conn, device, shown, history>>

\* The clock is read once for the whole pass of the loop.
LoopPass ==
    /\ At("top") /\ running
    /\ config.persistent => conn
    /\ pollDue' \in {pollDue, TRUE}
    /\ beatDue' \in {beatDue, TRUE}
    /\ Goto("drain")
    /\ UNCHANGED <<config, outside, work, conn, device, shown, history>>

\* Fault: the queue is copied and not emptied.
DrainCopy ==
    /\ At("drain")
    /\ batch' = queue
    /\ expired' \in 0 .. Len(queue)
    /\ Goto("next")
    /\ UNCHANGED <<config, outside, queue, attempt, tried, acked, timers, conn,
                   device, shown, history>>

\* drainCommands takes the whole queue and compares every command's age with
\* one reading of the clock: the commands found too old are the oldest ones.
Drain ==
    /\ At("drain")
    /\ batch' = queue
    /\ queue' = << >>
    /\ expired' \in 0 .. Len(queue)
    /\ Goto("next")
    /\ UNCHANGED <<config, outside, attempt, tried, acked, timers, conn, device,
                   shown, history>>

\* The command at the head of the batch is done with; the log tells of so many
\* attempts.
Settle(verdict, logged) ==
    /\ outcomes' = Append(outcomes, [entry |-> Head(batch), verdict |-> verdict,
                                     made |-> tried, logged |-> logged])
    /\ batch' = Tail(batch)
    /\ attempt' = 0
    /\ tried' = 0
    /\ acked' = {}
    /\ Goto("next")

\* Fault: a command is announced before its age is looked at.
DropStaleAnnounced ==
    /\ At("next") /\ batch # << >>
    /\ expired > 0
    /\ Settle("stale", 0)
    /\ expired' = expired - 1
    /\ Announce(Head(batch).cmd)
    /\ UNCHANGED <<config, outside, queue, timers, conn, device, lastState>>

DropStale ==
    /\ At("next") /\ batch # << >>
    /\ expired > 0
    /\ Settle("stale", 0)
    /\ expired' = expired - 1
    /\ UNCHANGED <<config, outside, queue, timers, conn, device, shown,
                   announced>>

StartCommand ==
    /\ At("next") /\ batch # << >>
    /\ expired = 0
    /\ Announce(Head(batch).cmd)
    /\ Goto("attempt")
    /\ UNCHANGED <<config, outside, work, timers, conn, device, lastState,
                   outcomes>>

BatchDone ==
    /\ At("next") /\ batch = << >>
    /\ Goto("poll")
    /\ UNCHANGED <<config, outside, work, timers, conn, device, shown, history>>

\* Fault: one attempt too many.
AttemptOnceMore ==
    /\ At("attempt") /\ attempt <= MaxRetries
    /\ tried' = tried + 1
    /\ conn' = config.persistent
    /\ acked' = {}
    /\ Goto("setPower")
    /\ UNCHANGED <<config, outside, queue, batch, expired, attempt, timers,
                   device, shown, history>>

\* The head of the retry loop.  A persistent worker whose link is down opens
\* a new one first.
Attempt ==
    /\ At("attempt") /\ attempt < MaxRetries
    /\ tried' = tried + 1
    /\ conn' = config.persistent
    /\ acked' = {}
    /\ Goto("setPower")
    /\ UNCHANGED <<config, outside, queue, batch, expired, attempt, timers,
                   device, shown, history>>

\* Fault: burst mode, which never has a link, breaks off too.
ReconnectFailsAlways ==
    /\ At("attempt") /\ attempt < MaxRetries
    /\ ~conn
    /\ Settle("failed", MaxRetries)
    /\ UNCHANGED <<config, outside, queue, expired, timers, conn, device,
                   shown, announced>>

\* Fault: drainCommands returns instead of leaving the retry loop.
ReconnectReturns ==
    /\ At("attempt") /\ attempt < MaxRetries
    /\ config.persistent /\ ~conn
    /\ batch' = << >> /\ attempt' = 0 /\ tried' = 0
    /\ Goto("poll")
    /\ UNCHANGED <<config, outside, queue, expired, acked, timers, conn, device,
                   shown, history>>

\* "Reconnect failed during command": break, whatever attempts are left.  The
\* log tells of every attempt allowed all the same.
ReconnectFails ==
    /\ At("attempt") /\ attempt < MaxRetries
    /\ config.persistent /\ ~conn
    /\ Settle("failed", MaxRetries)
    /\ UNCHANGED <<config, outside, queue, expired, timers, conn, device,
                   shown, announced>>

GiveUp ==
    /\ At("attempt") /\ attempt >= MaxRetries
    /\ Settle("failed", MaxRetries)
    /\ UNCHANGED <<config, outside, queue, expired, timers, conn, device,
                   shown, announced>>
-----------------------------------------------------------------------------
\* executeCommand, executeCommandPersistent

Cmd == Head(batch).cmd

Switched == [device EXCEPT !.on = Target(Cmd.word, lastState)]
Dimmed   == [device EXCEPT !.raw = PctToBrightness(Cmd.level)]

\* Fault: the early return after a failed setValue is missing.
SetPowerGoesOn ==
    /\ At("setPower")
    /\ Goto("setLevel")
    /\ \/ /\ Cmd.word = "none"
          /\ UNCHANGED <<acked, conn, device>>
       \/ /\ Cmd.word # "none"
          /\ device' = Switched
          /\ acked' = {"power"}
          /\ LinkAfter(TRUE)
       \/ /\ Cmd.word # "none"
          /\ MaybeApplied(Switched)
          /\ LinkAfter(FALSE)
          /\ UNCHANGED acked
    /\ UNCHANGED <<config, outside, queue, batch, expired, attempt, tried, timers,
                   shown, history>>

\* setValue("1", target): a failure ends the attempt, with no readback.
SetPower ==
    /\ At("setPower")
    /\ \/ /\ Cmd.word = "none"
          /\ Goto("setLevel")
          /\ UNCHANGED <<acked, conn, device>>
       \/ /\ Cmd.word # "none"
          /\ device' = Switched
          /\ acked' = {"power"}
          /\ LinkAfter(TRUE)
          /\ Goto("setLevel")
       \/ /\ Cmd.word # "none"
          /\ MaybeApplied(Switched)
          /\ LinkAfter(FALSE)
          /\ Goto("retry")
          /\ UNCHANGED acked
    /\ UNCHANGED <<config, outside, queue, batch, expired, attempt, tried, timers,
                   shown, history>>

\* setValue("3", brightness): a failure is ignored.
SetLevel ==
    /\ At("setLevel")
    /\ Goto("readback")
    /\ \/ /\ ~config.bulb \/ Cmd.level = NoLevel
          /\ UNCHANGED <<acked, conn, device>>
       \/ /\ config.bulb /\ Cmd.level # NoLevel
          /\ device' = Dimmed
          /\ acked' = acked \cup {"level"}
          /\ LinkAfter(TRUE)
       \/ /\ config.bulb /\ Cmd.level # NoLevel
          /\ MaybeApplied(Dimmed)
          /\ LinkAfter(FALSE)
          /\ UNCHANGED acked
    /\ UNCHANGED <<config, outside, queue, batch, expired, attempt, tried, timers,
                   shown, history>>

\* Read the device back and publish; the attempt succeeded if any write was
\* acknowledged, with or without the answer to this query.  A success puts
\* the next poll off.
Readback ==
    /\ At("readback")
    /\ \/ ReportState(device) /\ LinkAfter(TRUE)
       \/ UNCHANGED shown /\ LinkAfter(FALSE)
    /\ \/ /\ acked # {}
          /\ Settle("ok", attempt + 1)
          /\ pollDue' = FALSE
       \/ /\ acked = {}
          /\ Goto("retry")
          /\ UNCHANGED <<batch, attempt, tried, acked, pollDue, outcomes>>
    /\ UNCHANGED <<config, outside, queue, expired, beatDue, device, announced>>

\* Fault: the attempt is not counted.
RetryUncounted ==
    /\ At("retry")
    /\ conn' = (conn /\ attempt >= MaxRetries - 1)
    /\ Goto("attempt")
    /\ UNCHANGED <<config, outside, work, timers, device, shown, history>>

\* Between two attempts a persistent worker closes the link and waits.
Retry ==
    /\ At("retry")
    /\ attempt' = attempt + 1
    /\ conn' = (conn /\ attempt >= MaxRetries - 1)
    /\ Goto("attempt")
    /\ UNCHANGED <<config, outside, queue, batch, expired, tried, acked, timers,
                   device, shown, history>>
-----------------------------------------------------------------------------
\* poll, pollPersistent, heartbeat

\* A persistent poll needs the link; a poll that succeeds publishes.  A burst
\* poll that fails waits for the backoff, a persistent one drops the link.
Poll ==
    /\ At("poll")
    /\ \/ /\ ~pollDue
          /\ Goto("beat")
          /\ UNCHANGED <<pollDue, conn, shown>>
       \/ /\ pollDue
          /\ config.persistent => conn
          /\ ReportState(device)
          /\ pollDue' = FALSE
          /\ Goto("beat")
          /\ UNCHANGED conn
       \/ /\ pollDue /\ ~config.persistent
          /\ pollDue' = FALSE
          /\ Goto("beat")
          /\ UNCHANGED <<conn, shown>>
       \/ /\ pollDue /\ config.persistent
          /\ conn' = FALSE
          /\ Goto("top")
          /\ UNCHANGED <<pollDue, shown>>
    /\ UNCHANGED <<config, outside, work, beatDue, device, history>>

\* Only a persistent worker sends heartbeats.
Beat ==
    /\ At("beat")
    /\ Goto("top")
    /\ \/ /\ ~config.persistent \/ ~beatDue
          /\ UNCHANGED <<beatDue, conn>>
       \/ /\ config.persistent /\ beatDue
          /\ beatDue' = FALSE
          /\ LinkAfter(TRUE)
       \/ /\ config.persistent /\ beatDue
          /\ conn' = FALSE
          /\ UNCHANGED beatDue
    /\ UNCHANGED <<config, outside, work, pollDue, device, shown, history>>
-----------------------------------------------------------------------------
\* The callers: BridgeManager and its MQTT and HTTP threads

\* enqueueCommand.  Its callers hold BridgeManager's mutex, as stop()'s do, so
\* no command is accepted once stop() has begun.
Enqueue(c) ==
    /\ running /\ issued < MaxCommands
    /\ queue' = Append(queue, [id |-> issued + 1, cmd |-> c])
    /\ issued' = issued + 1
    /\ UNCHANGED <<config, running, mqttUp, changes, drops, thread, device>>

\* stop() clears running_ ...
Stop ==
    /\ running
    /\ running' = FALSE
    /\ UNCHANGED <<config, mqttUp, issued, changes, drops, thread, queue, device>>

\* ... and joins the thread.
Join ==
    /\ At("exited")
    /\ Goto("joined")
    /\ UNCHANGED <<config, outside, work, timers, conn, device, shown, history>>
-----------------------------------------------------------------------------
\* The broker and the device

\* Coming back, MqttBridge subscribes again but republishes no state.
MqttChange ==
    /\ \/ mqttUp /\ drops < MaxDrops /\ drops' = drops + 1
       \/ ~mqttUp /\ UNCHANGED drops
    /\ mqttUp' = ~mqttUp
    /\ UNCHANGED <<config, running, issued, changes, thread, queue, device>>

DeviceChange ==
    /\ changes < MaxChanges
    /\ device' \in DeviceState \ {device}
    /\ changes' = changes + 1
    /\ UNCHANGED <<config, running, mqttUp, issued, drops, thread, queue>>
-----------------------------------------------------------------------------
Worker ==
    \/ LoopExit \/ Connect \/ LoopPass
    \/ Drain \/ DropStale \/ StartCommand \/ BatchDone
    \/ Attempt \/ ReconnectFails \/ GiveUp
    \/ SetPower \/ SetLevel \/ Readback \/ Retry
    \/ Poll \/ Beat

Environment ==
    \/ \E c \in Commands : Enqueue(c)
    \/ Stop \/ Join
    \/ MqttChange \/ DeviceChange

Next == Worker \/ Environment

Spec == Init /\ [][Next]_vars

\* The thread is scheduled and stop() goes on: nothing is assumed of the
\* device, the network or the clock.
FairSpec == Spec /\ WF_vars(Worker) /\ WF_vars(Join)

\* The device answers a connection and a poll now and then, and the deadline of
\* the poll, always finite, passes now and then: without it there is nothing to
\* settle a command with or to learn.
DeviceAnswers ==
    /\ SF_vars(Connect /\ conn')
    /\ SF_vars(LoopPass /\ pollDue')
    /\ SF_vars(Poll /\ pollDue /\ pc' = "beat" /\ lastState' = device)
-----------------------------------------------------------------------------
\* Properties

Labels == {"top", "drain", "next", "attempt", "setPower", "setLevel", "readback",
           "retry", "poll", "beat", "exited", "joined"}

Entry   == [id : Nat \ {0}, cmd : Commands]
Outcome == [entry : Entry, verdict : {"ok", "failed", "stale"}, made : Nat, logged : Nat]
Topic   == [on : BOOLEAN, level : Int \cup {NoLevel}]

\* Type invariant.
TypeOK ==
    /\ config \in [bulb : BOOLEAN, persistent : BOOLEAN]
    /\ running \in BOOLEAN
    /\ pc \in Labels
    /\ queue \in Seq(Entry) /\ batch \in Seq(Entry)
    /\ expired \in 0 .. Len(batch)
    /\ attempt \in 0 .. MaxRetries
    /\ tried \in Nat
    /\ acked \in SUBSET {"power", "level"}
    /\ pollDue \in BOOLEAN /\ beatDue \in BOOLEAN
    /\ conn \in BOOLEAN
    /\ lastState \in DeviceState \cup {NoState}
    /\ device \in DeviceState
    /\ mqttUp \in BOOLEAN
    /\ topic \in Topic \cup {NoState}
    /\ announced \in BOOLEAN
    /\ outcomes \in Seq(Outcome)
    /\ issued \in Nat /\ changes \in Nat /\ drops \in Nat

Entries(log) == [i \in 1 .. Len(log) |-> log[i].entry]

\* The worker keeps the promise of CommandLedger: whatever the retries, the
\* reconnections and the failures, every command that left the queue is
\* settled exactly once, in the order the commands were queued.
Ledger ==
    INSTANCE CommandLedger WITH pending <- batch \o queue, settled <- Entries(outcomes)
LedgerKept == Ledger!Spec

\* The log's count of attempts is the number made, though the retry loop, its
\* counter and the message are three places: a command reported OK took that
\* many, cmd_max_retries at most, and a stale one took none.  Only a FAILED of a
\* persistent worker, whose link could not be opened again, may tell of more
\* than it made (see FailedMeansTried).
VerdictEarned ==
    \A i \in 1 .. Len(outcomes) :
        LET o == outcomes[i]
        IN  /\ o.verdict = "ok" => o.logged \in 1 .. MaxRetries
            /\ o.verdict = "failed" => o.logged = MaxRetries
            /\ o.verdict = "stale" => o.logged = 0
            /\ \/ o.made = o.logged
               \/ config.persistent /\ o.verdict = "failed" /\ o.made < o.logged

Executing == pc \in {"attempt", "setPower", "setLevel", "readback", "retry"}

Known(c) == c.word \in {"on", "off", "toggle"}

\* What publishOptimistic announced is what every attempt tries to bring
\* about: nothing a failed attempt does changes what "toggle" means.
PromiseKept ==
    At("setPower") /\ Known(Cmd) => Target(Cmd.word, lastState) = announced

\* This outcome leaves the power alone: the command was dropped, or has none.
LeavesPower(o) == o.verdict = "stale" \/ o.entry.cmd.word = "none"

\* After a command reported OK the device keeps the power announced for it,
\* through whatever stale commands, commands of brightness alone, polls and
\* reconnections follow, until another command for the power is executed or
\* the device changes on its own.
OkMeansApplied ==
    \A i \in 1 .. Len(outcomes) :
        /\ outcomes[i].verdict = "ok" /\ Known(outcomes[i].entry.cmd)
        /\ \A j \in i + 1 .. Len(outcomes) : LeavesPower(outcomes[j])
        /\ Executing => Cmd.word = "none"
        /\ changes = 0
        => device.on = announced

\* A brightness the device acknowledged is the one the readback will publish:
\* the roundings of pctToBrightness and brightnessPct do not add up, and no
\* failed attempt leaves another brightness behind.
LevelReadsBack ==
    /\ At("readback") /\ "level" \in acked /\ changes = 0
    /\ Cmd.level \in 0 .. 100
    => BrightnessPct(device.raw) = Cmd.level

\* Commands leave the queue, and are executed, only over a link believed to be
\* up; burst mode never keeps a link.
LinkDiscipline ==
    /\ config.persistent /\ pc \in {"drain", "setPower"} => conn
    /\ ~config.persistent => ~conn

Aligned == lastState # NoState /\ topic = Payload(lastState)

\* A new state of the device reaches the topic whenever the broker is there,
\* and the topic ceases to show the last state only through an optimistic
\* announcement, or because the broker was away when the state changed.
TopicFollows ==
    [][/\ lastState' # lastState /\ mqttUp => Aligned'
       /\ Aligned /\ ~Aligned' => StartCommand \/ ~mqttUp]_vars

\* The most steps a command takes once it is at the head of the batch: five for
\* each attempt, one to start it and one to give up.
PerCommand == 5 * MaxRetries + 2

\* How many steps the thread is from the end of stop(), if that has begun, and
\* from the next pass otherwise, at most.
StepsLeft ==
    CASE At("drain") -> PerCommand * Len(queue) + 6
      [] At("next")  -> PerCommand * Len(batch) + 5
      [] Executing   -> PerCommand * (Len(batch) - 1) + 5 * (MaxRetries - attempt)
                        + [attempt |-> 6, setPower |-> 5, setLevel |-> 4, readback |-> 3,
                           retry |-> 2][pc]
      [] OTHER       -> [poll |-> 4, beat |-> 3, top |-> 2, exited |-> 1, joined |-> 0][pc]

\* Every pass of the loop ends, whatever the device does: each step of the
\* thread but one that begins a pass, or waits to, brings it nearer its end.
\* Once stop() has begun no pass begins and nothing takes the thread back.
PassesEnd ==
    [][/\ Worker \/ Join => (At("top") /\ running) \/ StepsLeft' < StepsLeft
       /\ ~running => StepsLeft' <= StepsLeft]_vars

\* stop() returns, even when the device never answers again.
StopReturns == ~running ~> At("joined")

\* A command accepted is settled, unless the worker is stopped first, when the
\* device answers now and then.
CommandsSettled ==
    DeviceAnswers =>
        \A i \in 1 .. MaxCommands :
            issued >= i ~> Len(outcomes) >= i \/ ~running

\* A worker left running ends up knowing the state of a device that answers
\* now and then.
StateLearned == DeviceAnswers /\ <>[]running => <>[](lastState = device)
-----------------------------------------------------------------------------
\* What the documentation says and the code does not do

\* README.md:112: the state topic holds the device's state, so it should show
\* the state a successful poll has just read, the broker being up throughout.
PolledStatePublished ==
    [][At("poll") /\ pollDue /\ pc' = "beat" /\ lastState' = device /\ mqttUp
           => topic' = Payload(device)]_vars

\* "Command FAILED after N attempts" (DeviceWorker.cpp:397) says that the N
\* attempts of cmd_max_retries (CHANGELOG.md:14) were made.
FailedMeansTried ==
    \A i \in 1 .. Len(outcomes) :
        outcomes[i].verdict = "failed" => outcomes[i].made = MaxRetries
=============================================================================
