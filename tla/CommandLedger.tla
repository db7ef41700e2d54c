--------------------------- MODULE CommandLedger ---------------------------
(***************************************************************************)
(* What a device worker promises about the commands handed to it, without  *)
(* saying how it carries them out: a command is accepted once, gets the    *)
(* next number, and is settled exactly once, in the order of acceptance.   *)
(* DeviceWorker is shown to implement this specification.                  *)
(***************************************************************************)
EXTENDS Integers, Sequences

CONSTANT Commands

VARIABLES pending,  \* the commands accepted and not yet settled, oldest first
          settled   \* the commands settled, in the order they were settled

ledger == <<pending, settled>>

Init == pending = << >> /\ settled = << >>

Accept(c) ==
    /\ pending' = Append(pending, [id |-> Len(pending) + Len(settled) + 1, cmd |-> c])
    /\ UNCHANGED settled

Settle ==
    /\ pending # << >>
    /\ settled' = Append(settled, Head(pending))
    /\ pending' = Tail(pending)

Next == Settle \/ \E c \in Commands : Accept(c)

Spec == Init /\ [][Next]_ledger
=============================================================================
