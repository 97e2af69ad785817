------------------------------ MODULE TACrypto ------------------------------
(***************************************************************************)
(* ta_signAndVerify: the TEE calls with which a session of the trusted     *)
(* application verifies or signs, and the operation and key handles they   *)
(* take from memory that all sessions share.                               *)
(*                                                                         *)
(* No result is looked at.  An allocation that fails leaves its handle     *)
(* variable as it was, and the next call gets a null handle or that of the *)
(* digest operation, for which the TEE panics.  The digest operation's     *)
(* handle is overwritten by the second allocation, and the key that is not *)
(* used is forgotten: both live until the session closes.                  *)
(*                                                                         *)
(* The host library sends one command in a session, and each signs or      *)
(* verifies once.                                                          *)
(***************************************************************************)
EXTENDS Integers, FiniteSets

CONSTANTS
    Sessions,
    PoolSize,         \* handles that fit into the shared memory
    AllocationFaults  \* whether an allocation may fail though there is room

ASSUME TACryptoAssumption ==
    IsFiniteSet(Sessions) /\ PoolSize \in Nat /\ AllocationFaults \in BOOLEAN

VARIABLES
    pc,      \* pc[s]: the TEE API call session s is about to make
    call,    \* call[s]: its mode, and whether the signature is the data's
    live,    \* the handles in the shared memory, by session and kind
    handle,  \* handle[s]: the three handle variables of ta_signAndVerify
    key,     \* key[s]: the key the main operation holds
    result,  \* result[s]: what the command gives its caller
    failed   \* history: failed[s], an allocation of this command failed

vars == <<pc, call, live, handle, key, result, failed>>

Kinds == {"digest", "pub", "priv", "main"}
Calls == [mode : {"TEE_MODE_VERIFY", "TEE_MODE_SIGN"}, authentic : BOOLEAN]
PCs   == {"idle", "allocDigest", "digest", "allocPub", "populatePub",
          "allocPriv", "populatePriv", "allocMain", "setKey", "freeKey",
          "rsa", "freeOperation", "returned"}

TEE_HANDLE_NULL == "null"
NullHandles == [operation |-> TEE_HANDLE_NULL, pub |-> TEE_HANDLE_NULL,
                priv |-> TEE_HANDLE_NULL]
HandleVars == [operation : {TEE_HANDLE_NULL, "digest", "main"},
               pub : {TEE_HANDLE_NULL, "pub"}, priv : {TEE_HANDLE_NULL, "priv"}]

TypeOK ==
    /\ pc \in [Sessions -> PCs]
    /\ call \in [Sessions -> Calls]
    /\ live \subseteq Sessions \X Kinds
    /\ handle \in [Sessions -> HandleVars]
    /\ key \in [Sessions -> {"none", "pub", "priv"}]
    /\ result \in [Sessions -> {"none", "verified", "refused", "signed", "dead"}]
    /\ failed \in [Sessions -> BOOLEAN]

NoCall == [mode |-> "TEE_MODE_SIGN", authentic |-> FALSE]
Init ==
    /\ pc = [s \in Sessions |-> "idle"]
    /\ call = [s \in Sessions |-> NoCall]
    /\ live = {}
    /\ handle = [s \in Sessions |-> NullHandles]
    /\ key = [s \in Sessions |-> "none"]
    /\ result = [s \in Sessions |-> "none"]
    /\ failed = [s \in Sessions |-> FALSE]

Of(s) == {h \in live : h[1] = s}
Verifies(s) == call[s].mode = "TEE_MODE_VERIFY"

At(s, here, next) == pc[s] = here /\ pc' = [pc EXCEPT ![s] = next]

\* The TEE kills the instance: what it had allocated is free again.
Panic(s) ==
    /\ pc' = [pc EXCEPT ![s] = "returned"]
    /\ live' = live \ Of(s)
    /\ handle' = [handle EXCEPT ![s] = NullHandles]
    /\ result' = [result EXCEPT ![s] = "dead"]
    /\ UNCHANGED <<call, key, failed>>

\* ta_allocateOperation and ta_allocateTransientObject: the handle variable
\* is assigned on success only.
Allocate(s, kind, assigned) ==
    /\ \/ /\ Cardinality(live) < PoolSize
          /\ live' = live \cup {<<s, kind>>}
          /\ handle' = [handle EXCEPT ![s] = assigned]
          /\ UNCHANGED failed
       \/ /\ Cardinality(live) >= PoolSize \/ AllocationFaults
          /\ failed' = [failed EXCEPT ![s] = TRUE]
          /\ UNCHANGED <<live, handle>>
    /\ UNCHANGED <<call, key, result>>

\* A call on a handle: the TEE panics if it is not one of a live h.
Using(s, here, next, h) ==
    \/ At(s, here, next) /\ <<s, h>> \in live
       /\ UNCHANGED <<call, live, handle, key, result, failed>>
    \/ pc[s] = here /\ <<s, h>> \notin live /\ Panic(s)

(***************************************************************************)
(* ta_signAndVerify, call by call                                          *)
(***************************************************************************)
ta_signAndVerify(s) ==
    /\ At(s, "idle", "allocDigest")
    /\ \E c \in Calls : call' = [call EXCEPT ![s] = c]
    /\ UNCHANGED <<live, handle, key, result, failed>>

AllocateDigest(s) ==
    /\ At(s, "allocDigest", "digest")
    /\ Allocate(s, "digest", [handle[s] EXCEPT !.operation = "digest"])

ta_digestDoFinal(s) == Using(s, "digest", "allocPub", handle[s].operation)

AllocatePub(s) ==
    /\ At(s, "allocPub", "populatePub")
    /\ Allocate(s, "pub", [handle[s] EXCEPT !.pub = "pub"])
PopulatePub(s) == Using(s, "populatePub", "allocPriv", handle[s].pub)

AllocatePriv(s) ==
    /\ At(s, "allocPriv", "populatePriv")
    /\ Allocate(s, "priv", [handle[s] EXCEPT !.priv = "priv"])
PopulatePriv(s) == Using(s, "populatePriv", "allocMain", handle[s].priv)

\* Mutant of AllocateMain: it is repeated until there is room.
AllocateMainWaits(s) ==
    /\ Cardinality(live) < PoolSize
    /\ At(s, "allocMain", "setKey")
    /\ Allocate(s, "main", [handle[s] EXCEPT !.operation = "main"])

AllocateMain(s) ==
    /\ At(s, "allocMain", "setKey")
    /\ Allocate(s, "main", [handle[s] EXCEPT !.operation = "main"])

\* Mutants of KeyHandle: both modes use the public key, and the operation is
\* passed where its key should be.
PublicKeyHandle(s) == handle[s].pub
OperationAsKey(s) == handle[s].operation

KeyHandle(s) == IF Verifies(s) THEN handle[s].pub ELSE handle[s].priv

\* The key is copied into the operation; a digest operation takes none.
ta_setOperationKey(s) ==
    \/ /\ At(s, "setKey", "freeKey")
       /\ handle[s].operation = "main" /\ <<s, KeyHandle(s)>> \in live
       /\ key' = [key EXCEPT ![s] = KeyHandle(s)]
       /\ UNCHANGED <<call, live, handle, result, failed>>
    \/ /\ pc[s] = "setKey"
       /\ handle[s].operation # "main" \/ <<s, KeyHandle(s)>> \notin live
       /\ Panic(s)

\* Mutant of ta_freeTransientObject: it frees both keys and nulls only one.
FreeBothKeys(s) ==
    /\ At(s, "freeKey", "rsa")
    /\ live' = live \ {<<s, "pub">>, <<s, "priv">>}
    /\ handle' = [handle EXCEPT ![s] =
          IF Verifies(s) THEN [@ EXCEPT !.pub = TEE_HANDLE_NULL]
          ELSE [@ EXCEPT !.priv = TEE_HANDLE_NULL]]
    /\ UNCHANGED <<call, key, result, failed>>

ta_freeTransientObject(s) ==
    /\ At(s, "freeKey", "rsa")
    /\ live' = live \ {<<s, KeyHandle(s)>>}
    /\ handle' = [handle EXCEPT ![s] =
          IF Verifies(s) THEN [@ EXCEPT !.pub = TEE_HANDLE_NULL]
          ELSE [@ EXCEPT !.priv = TEE_HANDLE_NULL]]
    /\ UNCHANGED <<call, key, result, failed>>

\* ta_asymmetricVerifyDigest and ta_asymmetricSignDigest: the TEE panics unless
\* the operation holds the key of its mode.
HoldsItsKey(s) == /\ handle[s].operation = "main"
                  /\ key[s] = IF Verifies(s) THEN "pub" ELSE "priv"
Rsa(s) ==
    /\ pc[s] = "rsa"
    /\ IF ~HoldsItsKey(s) THEN Panic(s)
       ELSE /\ At(s, "rsa", "freeOperation")
            /\ result' = [result EXCEPT ![s] =
                  IF ~Verifies(s) THEN "signed"
                  ELSE IF call[s].authentic THEN "verified" ELSE "refused"]
            /\ UNCHANGED <<call, live, handle, key, failed>>

\* The main operation is freed.  The C code nulls the two key handles and leaves
\* operationHandle as it is; all three go out of scope with the return, which
\* follows without another call, and so are one step here.
ta_freeOperation(s) ==
    /\ At(s, "freeOperation", "returned")
    /\ live' = live \ {<<s, handle[s].operation>>}
    /\ handle' = [handle EXCEPT ![s] = NullHandles]
    /\ UNCHANGED <<call, key, result, failed>>

\* Mutant of CloseSession: the instance stays loaded, with its memory.
KeepInstance(s) ==
    /\ At(s, "returned", "idle")
    /\ call' = [call EXCEPT ![s] = NoCall]
    /\ key' = [key EXCEPT ![s] = "none"]
    /\ result' = [result EXCEPT ![s] = "none"]
    /\ failed' = [failed EXCEPT ![s] = FALSE]
    /\ UNCHANGED <<live, handle>>

\* The rest of the command needs none of these handles; when the host closes
\* the session the instance goes, with all it has left.
CloseSession(s) ==
    /\ At(s, "returned", "idle")
    /\ live' = live \ Of(s)
    /\ call' = [call EXCEPT ![s] = NoCall]
    /\ key' = [key EXCEPT ![s] = "none"]
    /\ result' = [result EXCEPT ![s] = "none"]
    /\ failed' = [failed EXCEPT ![s] = FALSE]
    /\ UNCHANGED handle

Step(s) ==
    \/ AllocateDigest(s) \/ ta_digestDoFinal(s) \/ AllocatePub(s)
    \/ PopulatePub(s) \/ AllocatePriv(s) \/ PopulatePriv(s) \/ AllocateMain(s)
    \/ ta_setOperationKey(s) \/ ta_freeTransientObject(s) \/ Rsa(s)
    \/ ta_freeOperation(s) \/ CloseSession(s)

Next == \E s \in Sessions : ta_signAndVerify(s) \/ Step(s)

Spec == Init /\ [][Next]_vars

\* OP-TEE runs every instance, and no allocation waits for memory.
FairSpec == Spec /\ \A s \in Sessions : WF_vars(Step(s))

(***************************************************************************)
(* Properties                                                              *)
(***************************************************************************)
\* No handle variable ever names a handle that was freed: a key is nulled when
\* it is freed, and the freed operation is not used again.
NoDanglingHandle ==
    \A s \in Sessions :
        {handle[s].operation, handle[s].pub, handle[s].priv}
            \subseteq {k \in Kinds : <<s, k>> \in live} \cup {TEE_HANDLE_NULL}

\* A command dies only if an allocation failed in it: the handles and the key
\* of the two modes are never mixed up.
DeadOnlyWithoutMemory ==
    \A s \in Sessions : result[s] = "dead" => failed[s]

\* What a command leaks is one operation and one key, until its session
\* closes; a session that is closed or dead holds nothing.
LeakEndsWithItsSession ==
    \A s \in Sessions :
        pc[s] \in {"idle", "returned"} =>
            Of(s) = IF pc[s] = "idle" \/ result[s] = "dead" THEN {}
                    ELSE {<<s, "digest">>,
                          <<s, IF Verifies(s) THEN "priv" ELSE "pub">>}

\* Room for four handles per session is enough: no command dies.
PoolSuffices ==
    /\ PoolSize >= 4 * Cardinality(Sessions)
    /\ ~AllocationFaults
    => \A s \in Sessions : result[s] # "dead"

\* However little memory there is, every command comes back.
CallsReturn == \A s \in Sessions : pc[s] # "idle" ~> pc[s] = "idle"

=============================================================================
