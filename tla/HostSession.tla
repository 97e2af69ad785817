---------------------------- MODULE HostSession ----------------------------
(***************************************************************************)
(* The host library and the agent over it: each function opens a context   *)
(* and a session, invokes one command of the trusted application, and      *)
(* closes both again, except that it returns with the context open when    *)
(* the session cannot be opened.  The programs make one call at a time.    *)
(*                                                                         *)
(* A signature is the three bytes it signs, or NoSignature.  What the      *)
(* trusted application does inside a command is CoilTA and TACrypto.       *)
(***************************************************************************)
EXTENDS CoilBits, FiniteSets

CONSTANTS
    Programs,
    Uses,         \* Uses[p]: the host functions program p calls
    Tids,         \* the transaction ids of the requests
    MaxContexts,  \* contexts a process may have open
    MaxSessions,  \* instances of the trusted application that fit
    TeeFaults     \* whether the TEE may fail for other reasons, conflicts
                  \* between commands on the object included

Functions == {"seedCoil", "printAllCoilData", "getDataByCoilAddress",
              "setCoilData1", "verifyCoilData1", "signCoilValue1"}

ASSUME HostSessionAssumption ==
    /\ IsFiniteSet(Programs)
    /\ Uses \in [Programs -> SUBSET (Functions \ {"printAllCoilData"})]
    /\ Tids \subseteq UInt16
    /\ MaxContexts \in Nat \ {0} /\ MaxSessions \in Nat
    /\ TeeFaults \in BOOLEAN

VARIABLES
    pc,         \* pc[p]: the TEEC call p is about to make, or "running"
    call,       \* call[p]: the host function p called last, its arguments
    told,       \* told[p]: what it tells p of a signature; 1 is "verified"
    contexts,   \* contexts[p]: contexts initialised and not finalised
    free,       \* instances that still fit
    stored,     \* whether the persistent object exists
    opensLost,  \* history: sessions p could not open since it started
    signed      \* history: <<value, tid>> of every signature made

vars == <<pc, call, told, contexts, free, stored, opensLost, signed>>

Coil == {0, 1}

NoSignature == <<>>
Signatures == {NoSignature} \cup {SignedData(s[1], s[2]) : s \in signed}

\* Mutant of TEEC_ERROR_OUT_OF_MEMORY: the functions return -1 for an error.
MinusOne == -1

\* A TEEC_Result as the int the functions return: 0xFFFF000C and 0xFFFF0000.
TEEC_ERROR_OUT_OF_MEMORY == -65524
TEEC_ERROR_GENERIC == -65536

Requests(functions, values, signatures) ==
    [function : functions, value : values, tid : Tids, signature : signatures]
Calls == Requests({"setCoilData1", "verifyCoilData1"}, Coil, Signatures)
    \cup Requests({"signCoilValue1"}, Coil, {NoSignature})
    \cup Requests({"seedCoil", "printAllCoilData", "getDataByCoilAddress"}, {0},
                  {NoSignature})
NoCall == [function |-> "none", value |-> 0, tid |-> 0, signature |-> NoSignature]

TypeOK ==
    /\ pc \in [Programs -> {"running", "initialize", "open", "invoke", "close",
                            "finalize"}]
    /\ \A p \in Programs :
          /\ call[p] \in Calls \cup {NoCall}
          /\ told[p] \in {0, 1, -1, TEEC_ERROR_OUT_OF_MEMORY, TEEC_ERROR_GENERIC}
    /\ contexts \in [Programs -> 0..MaxContexts]
    /\ opensLost \in [Programs -> 0..MaxContexts]
    /\ free \in 0..MaxSessions
    /\ signed \subseteq Coil \X Tids
    /\ stored \in BOOLEAN

Init ==
    /\ pc = [p \in Programs |-> "running"]
    /\ call = [p \in Programs |-> NoCall]
    /\ told = [p \in Programs |-> 0]
    /\ contexts = [p \in Programs |-> 0]
    /\ free = MaxSessions
    /\ stored \in BOOLEAN
    /\ opensLost = [p \in Programs |-> 0]
    /\ signed = {}

At(p, here, next) == pc[p] = here /\ pc' = [pc EXCEPT ![p] = next]

(***************************************************************************)
(* The agent                                                               *)
(***************************************************************************)
\* A program calls an agent function, which calls its host function.
Call(p) ==
    /\ At(p, "running", "initialize")
    /\ \E c \in Calls :
          /\ c.function \in Uses[p]
          /\ call' = [call EXCEPT ![p] = c]
    /\ told' = [told EXCEPT ![p] = 0]
    /\ UNCHANGED <<contexts, free, stored, opensLost, signed>>

\* The host function returns res, which only the agent's setCoilData passes
\* on.  seed calls its next one whatever it was.
Return(p, res) ==
    /\ pc' = [pc EXCEPT ![p] =
                 IF call[p].function = "seedCoil" THEN "initialize" ELSE "running"]
    /\ call' = [call EXCEPT ![p] =
                 CASE @.function = "seedCoil" -> [@ EXCEPT !.function = "printAllCoilData"]
                   [] @.function \in {"setCoilData1", "verifyCoilData1"} -> @
                   [] OTHER -> NoCall]
    /\ told' = [told EXCEPT ![p] = IF call[p].function = "setCoilData1" THEN res ELSE @]

\* The process ends, and the driver takes back what it had open.
Exit(p) ==
    /\ pc[p] = "running"
    /\ contexts' = [contexts EXCEPT ![p] = 0]
    /\ opensLost' = [opensLost EXCEPT ![p] = 0]
    /\ call' = [call EXCEPT ![p] = NoCall]
    /\ told' = [told EXCEPT ![p] = 0]
    /\ UNCHANGED <<pc, free, stored, signed>>

(***************************************************************************)
(* A host function                                                         *)
(***************************************************************************)
\* Mutant of InitializeContext: it is tried until it succeeds.
InitializeContextRetries(p) ==
    /\ At(p, "initialize", "open")
    /\ contexts[p] < MaxContexts
    /\ contexts' = [contexts EXCEPT ![p] = @ + 1]
    /\ UNCHANGED <<call, told, free, stored, opensLost, signed>>

InitializeContext(p) ==
    \/ /\ At(p, "initialize", "open")
       /\ contexts[p] < MaxContexts
       /\ contexts' = [contexts EXCEPT ![p] = @ + 1]
       /\ UNCHANGED <<call, told, free, stored, opensLost, signed>>
    \/ /\ pc[p] = "initialize"
       /\ contexts[p] = MaxContexts \/ TeeFaults
       /\ Return(p, TEEC_ERROR_GENERIC)
       /\ UNCHANGED <<contexts, free, stored, opensLost, signed>>

\* On failure the function returns without TEEC_FinalizeContext.
OpenSession(p) ==
    \/ /\ At(p, "open", "invoke")
       /\ free > 0
       /\ free' = free - 1
       /\ UNCHANGED <<call, told, contexts, stored, opensLost, signed>>
    \/ /\ pc[p] = "open"
       /\ free = 0 \/ TeeFaults
       /\ Return(p, TEEC_ERROR_OUT_OF_MEMORY)
       /\ opensLost' = [opensLost EXCEPT ![p] = @ + 1]
       /\ UNCHANGED <<contexts, free, stored, signed>>

\* The trusted application's verdict on the call's bytes and signature.
Verdict(c) == IF c.signature = SignedData(c.value, c.tid) THEN 1 ELSE -1

Sign(value, tid) == signed' = signed \cup {<<value, tid>>}

\* What the host functions leave their callers when the command succeeds.
Asks(p, function) == call[p].function = function

\* A create that failed may be answered like one that did not.
host_seedCoil(p) ==
    /\ Asks(p, "seedCoil")
    /\ stored' = TRUE \/ (TeeFaults /\ UNCHANGED stored)
    /\ UNCHANGED <<told, signed>>

host_printAllCoilData(p) ==
    /\ Asks(p, "printAllCoilData")
    /\ stored
    /\ UNCHANGED <<told, stored, signed>>

host_getDataByCoilAddress(p) ==
    /\ Asks(p, "getDataByCoilAddress")
    /\ stored
    /\ \E v \in Coil : Sign(v, call[p].tid)
    /\ UNCHANGED <<told, stored>>

host_setCoilData1(p) ==
    /\ Asks(p, "setCoilData1")
    /\ stored \/ Verdict(call[p]) = -1
    /\ told' = [told EXCEPT ![p] = Verdict(call[p])]
    /\ UNCHANGED <<stored, signed>>

host_verifyCoilData1(p) ==
    /\ Asks(p, "verifyCoilData1")
    /\ told' = [told EXCEPT ![p] = Verdict(call[p])]
    /\ UNCHANGED <<stored, signed>>

host_signCoilValue1(p) ==
    /\ Asks(p, "signCoilValue1")
    /\ Sign(call[p].value, call[p].tid)
    /\ UNCHANGED <<told, stored>>

Answered(p) ==
    \/ host_seedCoil(p) \/ host_printAllCoilData(p) \/ host_getDataByCoilAddress(p)
    \/ host_setCoilData1(p) \/ host_verifyCoilData1(p) \/ host_signCoilValue1(p)

\* The trusted application dies, for one reason because it has no object to
\* read: op.params are as the host function set them.
Died(p) ==
    /\ \/ TeeFaults
       \/ /\ ~stored
          /\ \/ call[p].function \in {"printAllCoilData", "getDataByCoilAddress"}
             \/ call[p].function = "setCoilData1" /\ Verdict(call[p]) = 1
    /\ UNCHANGED <<told, stored, signed>>

\* Mutant of InvokeCommand: a failed command returns as a failed open does.
InvokeOrReturn(p) ==
    \/ /\ At(p, "invoke", "close")
       /\ Answered(p)
       /\ UNCHANGED <<call, contexts, free, opensLost>>
    \/ /\ pc[p] = "invoke"
       /\ TeeFaults
       /\ Return(p, TEEC_ERROR_GENERIC)
       /\ UNCHANGED <<contexts, free, stored, signed, opensLost>>

\* res is overwritten and not looked at.
InvokeCommand(p) ==
    /\ At(p, "invoke", "close")
    /\ Answered(p) \/ Died(p)
    /\ UNCHANGED <<call, contexts, free, opensLost>>

\* Mutant of CloseSession: the session stays open.
KeepSession(p) ==
    /\ At(p, "close", "finalize")
    /\ UNCHANGED <<call, told, contexts, free, stored, opensLost, signed>>

CloseSession(p) ==
    /\ At(p, "close", "finalize")
    /\ free' = free + 1
    /\ UNCHANGED <<call, told, contexts, stored, opensLost, signed>>

\* Mutant of FinalizeContext: the context is finalised twice.
FinalizeContextTwice(p) ==
    /\ pc[p] = "finalize"
    /\ contexts' = [contexts EXCEPT ![p] = @ - 2]
    /\ Return(p, told[p])
    /\ UNCHANGED <<free, stored, opensLost, signed>>

\* setCoilData1 returns what the trusted application left in op.params[3],
\* the others 0.
FinalizeContext(p) ==
    /\ pc[p] = "finalize"
    /\ contexts' = [contexts EXCEPT ![p] = @ - 1]
    /\ Return(p, told[p])
    /\ UNCHANGED <<free, stored, opensLost, signed>>

Step(p) ==
    \/ InitializeContext(p) \/ OpenSession(p) \/ InvokeCommand(p)
    \/ CloseSession(p) \/ FinalizeContext(p)

Next == \E p \in Programs : Call(p) \/ Exit(p) \/ Step(p)

Spec == Init /\ [][Next]_vars

\* The programs run, and every TEEC call comes back: CallsReturn of CoilTA
\* and of TACrypto for TEEC_InvokeCommand.
FairSpec == Spec /\ \A p \in Programs : WF_vars(Step(p))

(***************************************************************************)
(* Properties                                                              *)
(***************************************************************************)
\* A process leaks one context for each session it could not open, and
\* nothing on any other path, whatever fails.
OnlyFailedOpensLeak ==
    \A p \in Programs :
        contexts[p] = opensLost[p] + (IF pc[p] \in {"running", "initialize"}
                                      THEN 0 ELSE 1)

\* The programs between the open and the close of a session.
InSession == {p \in Programs : pc[p] \in {"invoke", "close"}}

\* Every instance that does not fit any more is one a program is using now: no
\* path through the functions keeps a session, whatever fails in it.
SessionsComeBack == free + Cardinality(InSession) = MaxSessions

\* With an instance for every program no session is refused and no context is
\* leaked, however often each of them calls.
RoomForAllNeverLeaks ==
    MaxSessions >= Cardinality(Programs) /\ ~TeeFaults
        => \A p \in Programs : opensLost[p] = 0

\* What the agent function of a finished call told its program.
Told(p) == IF pc[p] = "running" THEN told[p] ELSE 0

\* A program is told "verified" only of a value that was signed under the very
\* transaction id of the call, though the signature may be any ever made.
VerifiedWasSigned ==
    \A p \in Programs :
        Told(p) = 1 => <<call[p].value, call[p].tid>> \in signed

\* A program is told "tampered" only of a signature that is not that of its
\* bytes: no failure of the TEE looks like a manipulation.
TamperedWasForged ==
    \A p \in Programs :
        Told(p) = -1 => call[p].signature # SignedData(call[p].value, call[p].tid)

\* Every agent function returns, also in a process that has no context left.
CallsReturn == \A p \in Programs : pc[p] # "running" ~> pc[p] = "running"

=============================================================================
