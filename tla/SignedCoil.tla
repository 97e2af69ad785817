----------------------------- MODULE SignedCoil -----------------------------
(***************************************************************************)
(* What the coil service promises to one program at a time that uses the   *)
(* stored coils: a persistent inverter status on which every call takes    *)
(* effect at one instant between the call and its answer.                  *)
(*                                                                         *)
(*  - A write whose signature is not that of its bytes answers -1 and has  *)
(*    no effect; any other write takes effect before it answers 1.         *)
(*  - A write to an address with no bit answers 1 and changes nothing, a   *)
(*    read of one answers a signed "off".                                  *)
(*  - A read answers the status at its instant, attested by a signature    *)
(*    over that value and the caller's transaction id.                     *)
(*  - A call may die instead of answering; a seed or a write that died     *)
(*    has had no effect, unless the device restarted under it.             *)
(*                                                                         *)
(* That is all it promises when the storage fails under it.  The commands  *)
(* look at no result of a storage call, so that a write that was not done  *)
(* is answered like one that was, and a read that failed like one of "off".*)
(* What remains is that no such failure ever makes the status "on", or     *)
(* attests an "on" that is not stored.                                     *)
(***************************************************************************)
EXTENDS Integers

CONSTANTS Sessions,
          StorageFaults   \* whether a read or create may fail by itself

VARIABLES status,    \* the stored inverter status
          op,        \* op[s]: what the caller of s wants
          phase,     \* phase[s]: how far the call is
          outcome    \* outcome[s]: its answer, fixed when it takes effect

svars == <<status, op, phase, outcome>>

Kinds == {"seed", "readAll", "read", "write", "verify", "sign"}
Ops == [kind : Kinds,
        mapped    : BOOLEAN,    \* the coil address has a bit
        on        : BOOLEAN,    \* the coil value presented is not 0
        authentic : BOOLEAN]    \* the signature is that of the bytes
NoOp == [kind |-> "none", mapped |-> FALSE, on |-> FALSE, authentic |-> FALSE]

\* verified as the programs see it, the status read, and whether the
\* signature that came back covers that value and the transaction.
Outcome(verified, on, attested) ==
    [dead |-> FALSE, verified |-> verified, on |-> on, attested |-> attested]
NoOutcome == Outcome(0, FALSE, FALSE)
Dead == [dead |-> TRUE, verified |-> 0, on |-> FALSE, attested |-> FALSE]

Init ==
    /\ status = "absent"
    /\ op = [s \in Sessions |-> NoOp]
    /\ phase = [s \in Sessions |-> "idle"]
    /\ outcome = [s \in Sessions |-> NoOutcome]

Call(s) ==
    /\ phase[s] = "idle"
    /\ phase' = [phase EXCEPT ![s] = "called"]
    /\ \E o \in Ops : op' = [op EXCEPT ![s] = o]
    /\ UNCHANGED <<status, outcome>>

Settle(s, to, result) ==
    /\ phase' = [phase EXCEPT ![s] = to]
    /\ outcome' = [outcome EXCEPT ![s] = result]
    /\ UNCHANGED op

Seed(s) ==
    /\ phase[s] = "called" /\ op[s].kind = "seed"
    /\ status' = "off"
    /\ Settle(s, "effected", NoOutcome)

Write(s) ==
    /\ phase[s] = "called" /\ op[s].kind = "write" /\ op[s].authentic
    /\ status # "absent"
    /\ status' = IF ~op[s].mapped THEN status
                 ELSE IF op[s].on THEN "on" ELSE "off"
    /\ Settle(s, "effected", Outcome(1, FALSE, FALSE))

Read(s) ==
    /\ phase[s] = "called" /\ op[s].kind \in {"read", "readAll"}
    /\ status # "absent"
    /\ LET on == status = "on" /\ (op[s].kind = "read" => op[s].mapped)
       IN  Settle(s, "effected", Outcome(0, on, op[s].kind = "read"))
    /\ UNCHANGED status

\* The read of the object failed: a signed "off" is the answer of a read, and
\* a write writes its coil into an image that is otherwise off.
ReadFails(s) ==
    /\ StorageFaults
    /\ phase[s] = "called" /\ op[s].kind \in {"read", "readAll"}
    /\ status # "absent"
    /\ Settle(s, "effected", Outcome(0, FALSE, op[s].kind = "read"))
    /\ UNCHANGED status

WriteAfterFailedRead(s) ==
    /\ StorageFaults
    /\ phase[s] = "called" /\ op[s].kind = "write" /\ op[s].authentic
    /\ status # "absent"
    /\ status' = IF op[s].mapped /\ op[s].on THEN "on" ELSE "off"
    /\ Settle(s, "effected", Outcome(1, FALSE, FALSE))

\* The new object was not stored, and the answer is that of one that was.
CreateFails(s) ==
    /\ StorageFaults
    /\ phase[s] = "called"
    /\ \/ /\ op[s].kind = "seed"
          /\ Settle(s, "answered", NoOutcome)
       \/ /\ op[s].kind = "write" /\ op[s].authentic
          /\ status # "absent"
          /\ Settle(s, "answered", Outcome(1, FALSE, FALSE))
    /\ UNCHANGED status

\* What needs no stored coil is answered at once.
Judge(s) ==
    /\ phase[s] = "called"
    /\ \/ /\ op[s].kind = "verify" \/ (op[s].kind = "write" /\ ~op[s].authentic)
          /\ Settle(s, "answered",
                    Outcome(IF op[s].authentic THEN 1 ELSE -1, FALSE, FALSE))
       \/ /\ op[s].kind = "sign"
          /\ Settle(s, "answered", Outcome(0, FALSE, TRUE))
    /\ UNCHANGED status

Answer(s) ==
    /\ phase[s] = "effected"
    /\ Settle(s, "answered", outcome[s])
    /\ UNCHANGED status

Die(s) ==
    /\ \/ phase[s] = "called"
       \/ phase[s] = "effected" /\ op[s].kind = "read"
    /\ Settle(s, "answered", Dead)
    /\ UNCHANGED status

Collect(s) ==
    /\ phase[s] = "answered"
    /\ phase' = [phase EXCEPT ![s] = "idle"]
    /\ op' = [op EXCEPT ![s] = NoOp]
    /\ outcome' = [outcome EXCEPT ![s] = NoOutcome]
    /\ UNCHANGED status

Restart ==
    /\ phase' = [s \in Sessions |-> "idle"]
    /\ op' = [s \in Sessions |-> NoOp]
    /\ outcome' = [s \in Sessions |-> NoOutcome]
    /\ UNCHANGED status

Next ==
    \/ \E s \in Sessions :
          \/ Call(s) \/ Seed(s) \/ Write(s) \/ Read(s) \/ Judge(s)
          \/ ReadFails(s) \/ WriteAfterFailedRead(s) \/ CreateFails(s)
          \/ Answer(s) \/ Die(s) \/ Collect(s)
    \/ Restart

Spec == Init /\ [][Next]_svars

=============================================================================
