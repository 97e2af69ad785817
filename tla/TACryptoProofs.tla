--------------------------- MODULE TACryptoProofs ---------------------------
(***************************************************************************)
(* Theorems about ta_signAndVerify for any sessions and any memory.        *)
(***************************************************************************)
EXTENDS TACrypto, FiniteSetTheorems, TLAPS

LEMMA InitType == Init => TypeOK
BY DEF Init, TypeOK, NullHandles, HandleVars, TEE_HANDLE_NULL, NoCall, Calls, PCs

LEMMA StepType ==
    ASSUME TypeOK, NEW s \in Sessions, ta_signAndVerify(s) \/ Step(s)
    PROVE  TypeOK'
<1> USE DEF TypeOK, At, PCs, Of
<1>0. /\ call[s] \in Calls /\ handle[s] \in HandleVars /\ NullHandles \in HandleVars
      /\ NoCall \in Calls
  BY DEF NullHandles, HandleVars, TEE_HANDLE_NULL, NoCall, Calls
<1>1. CASE ta_signAndVerify(s)
  BY <1>1 DEF ta_signAndVerify
<1>2. ASSUME Panic(s) PROVE TypeOK'
  BY <1>0, <1>2 DEF Panic
<1>3. ASSUME NEW here \in PCs, NEW next \in PCs, NEW h, Using(s, here, next, h)
      PROVE  TypeOK'
  BY <1>2, <1>3 DEF Using
<1>4. ASSUME NEW here \in PCs, NEW next \in PCs, NEW kind \in Kinds,
             NEW assigned \in HandleVars,
             At(s, here, next), Allocate(s, kind, assigned)
      PROVE  TypeOK'
  <2>1. live' \subseteq Sessions \X Kinds
    BY <1>4 DEF Allocate
  <2> QED
    BY <1>4, <2>1 DEF Allocate
<1>5. CASE AllocateDigest(s) \/ AllocatePub(s) \/ AllocatePriv(s) \/ AllocateMain(s)
  <2>1. /\ [handle[s] EXCEPT !.operation = "digest"] \in HandleVars
        /\ [handle[s] EXCEPT !.operation = "main"] \in HandleVars
        /\ [handle[s] EXCEPT !.pub = "pub"] \in HandleVars
        /\ [handle[s] EXCEPT !.priv = "priv"] \in HandleVars
    BY <1>0 DEF HandleVars
  <2> QED
    BY <1>4, <1>5, <2>1 DEF AllocateDigest, AllocatePub, AllocatePriv,
       AllocateMain, Kinds
<1>6. CASE ta_digestDoFinal(s) \/ PopulatePub(s) \/ PopulatePriv(s)
  BY <1>3, <1>6 DEF ta_digestDoFinal, PopulatePub, PopulatePriv
<1>7. CASE ta_setOperationKey(s)
  <2>1. ASSUME <<s, KeyHandle(s)>> \in live PROVE KeyHandle(s) \in {"pub", "priv"}
    BY <1>0, <2>1 DEF KeyHandle, HandleVars, TEE_HANDLE_NULL, Kinds
  <2> QED
    BY <1>2, <1>7, <2>1 DEF ta_setOperationKey
<1>8. CASE ta_freeTransientObject(s)
  BY <1>0, <1>8 DEF ta_freeTransientObject, HandleVars
<1>9. CASE Rsa(s)
  BY <1>2, <1>9 DEF Rsa, HoldsItsKey
<1>10. CASE ta_freeOperation(s)
  BY <1>0, <1>10 DEF ta_freeOperation
<1>11. CASE CloseSession(s)
  <2>1. live' \subseteq Sessions \X Kinds
    BY <1>11 DEF CloseSession
  <2> QED
    BY <1>0, <1>11, <2>1 DEF CloseSession
<1> QED
  BY <1>1, <1>5, <1>6, <1>7, <1>8, <1>9, <1>10, <1>11 DEF Step

\* Every variable keeps its type, whatever fails.
THEOREM TypeCorrect == Spec => []TypeOK
<1>1. TypeOK /\ [Next]_vars => TypeOK'
  BY StepType DEF Next, vars, TypeOK
<1> QED
  BY <1>1, InitType, PTL DEF Spec

(***************************************************************************)
(* What a session holds, has in its variables and has been answered is     *)
(* fixed by the call it is about to make and by whether the last           *)
(* allocation failed.                                                      *)
(***************************************************************************)
DigestHeld(s) ==
    \/ pc[s] \in PCs \ {"idle", "allocDigest", "digest", "returned"}
    \/ pc[s] \in {"digest", "returned"} /\ ~failed[s]
PubHeld(s) ==
    \/ pc[s] \in {"allocPriv", "populatePriv", "allocMain", "setKey", "freeKey"}
    \/ pc[s] \in {"rsa", "freeOperation"} /\ ~Verifies(s)
    \/ pc[s] = "populatePub" /\ ~failed[s]
    \/ pc[s] = "returned" /\ ~failed[s] /\ ~Verifies(s)
PrivHeld(s) ==
    \/ pc[s] \in {"allocMain", "setKey", "freeKey"}
    \/ pc[s] \in {"rsa", "freeOperation"} /\ Verifies(s)
    \/ pc[s] = "populatePriv" /\ ~failed[s]
    \/ pc[s] = "returned" /\ ~failed[s] /\ Verifies(s)
MainHeld(s) ==
    \/ pc[s] \in {"freeKey", "rsa", "freeOperation"}
    \/ pc[s] = "setKey" /\ ~failed[s]

MemoryOf(s) ==
    /\ <<s, "digest">> \in live <=> DigestHeld(s)
    /\ <<s, "pub">> \in live <=> PubHeld(s)
    /\ <<s, "priv">> \in live <=> PrivHeld(s)
    /\ <<s, "main">> \in live <=> MainHeld(s)

HandlesOf(s) ==
    IF pc[s] = "returned" THEN handle[s] = NullHandles
    ELSE /\ handle[s].operation = IF MainHeld(s) THEN "main"
                                  ELSE IF DigestHeld(s) THEN "digest"
                                  ELSE TEE_HANDLE_NULL
         /\ handle[s].pub = IF PubHeld(s) THEN "pub" ELSE TEE_HANDLE_NULL
         /\ handle[s].priv = IF PrivHeld(s) THEN "priv" ELSE TEE_HANDLE_NULL

ProgressOf(s) ==
    /\ failed[s] => pc[s] \in {"digest", "populatePub", "populatePriv",
                               "setKey", "returned"}
    /\ pc[s] \in {"freeKey", "rsa"} =>
          key[s] = IF Verifies(s) THEN "pub" ELSE "priv"
    /\ result[s] = "dead" <=> pc[s] = "returned" /\ failed[s]

MemoryInv == \A s \in Sessions : MemoryOf(s) /\ HandlesOf(s) /\ ProgressOf(s)

\* A step of one session leaves what the others hold, have and got.
LEMMA OthersKeep ==
    ASSUME TypeOK, NEW s \in Sessions, ta_signAndVerify(s) \/ Step(s),
           NEW t \in Sessions \ {s}
    PROVE  /\ UNCHANGED <<pc[t], call[t], handle[t], key[t], result[t], failed[t]>>
           /\ \A k \in Kinds : <<t, k>> \in live' <=> <<t, k>> \in live
<1> USE DEF TypeOK, At, Of
<1> DEFINE Kept ==
        /\ UNCHANGED <<pc[t], call[t], handle[t], key[t], result[t], failed[t]>>
        /\ \A k \in Kinds : <<t, k>> \in live' <=> <<t, k>> \in live
<1>1. ASSUME Panic(s) PROVE Kept
  BY <1>1 DEF Panic
<1>2. ASSUME NEW here, NEW next, NEW h, Using(s, here, next, h)
      PROVE  Kept
  BY <1>1, <1>2 DEF Using
<1>3. ASSUME NEW here, NEW next, NEW kind, NEW assigned,
             At(s, here, next), Allocate(s, kind, assigned)
      PROVE  Kept
  BY <1>3 DEF Allocate
<1>4. CASE AllocateDigest(s) \/ AllocatePub(s) \/ AllocatePriv(s) \/ AllocateMain(s)
  BY <1>3, <1>4 DEF AllocateDigest, AllocatePub, AllocatePriv, AllocateMain
<1>5. CASE ta_digestDoFinal(s) \/ PopulatePub(s) \/ PopulatePriv(s)
  BY <1>2, <1>5 DEF ta_digestDoFinal, PopulatePub, PopulatePriv
<1>6. CASE ta_setOperationKey(s) \/ Rsa(s)
  BY <1>1, <1>6 DEF ta_setOperationKey, Rsa, HoldsItsKey
<1>7. CASE ta_signAndVerify(s) \/ ta_freeTransientObject(s) \/ ta_freeOperation(s)
           \/ CloseSession(s)
  BY <1>7 DEF ta_signAndVerify, ta_freeTransientObject, ta_freeOperation,
     CloseSession
<1> QED
  BY <1>4, <1>5, <1>6, <1>7 DEF Step

\* Each call leaves its own session as MemoryInv says.
LEMMA OwnStep ==
    ASSUME TypeOK, NEW s \in Sessions, ta_signAndVerify(s) \/ Step(s),
           MemoryOf(s), HandlesOf(s), ProgressOf(s)
    PROVE  (MemoryOf(s) /\ HandlesOf(s) /\ ProgressOf(s))'
<1> USE DEF TypeOK, At, Of, MemoryOf, HandlesOf, ProgressOf, DigestHeld, PubHeld,
        PrivHeld, MainHeld, Verifies, NullHandles, HandleVars, TEE_HANDLE_NULL, PCs,
        Kinds
<1> DEFINE Kept == (MemoryOf(s) /\ HandlesOf(s) /\ ProgressOf(s))'
<1>0. ASSUME Panic(s), failed[s] PROVE Kept
  <2>1. /\ pc'[s] = "returned" /\ failed'[s] /\ handle'[s] = NullHandles
        /\ result'[s] = "dead"
    BY <1>0 DEF Panic
  <2>2. \A k \in Kinds : <<s, k>> \notin live'
    BY <1>0 DEF Panic
  <2> QED
    BY <2>1, <2>2
<1>1. CASE ta_signAndVerify(s)
  BY <1>1 DEF ta_signAndVerify
<1>2. CASE AllocateDigest(s)
  BY <1>2 DEF AllocateDigest, Allocate
<1>3. CASE ta_digestDoFinal(s)
  <2>1. CASE <<s, handle[s].operation>> \in live
    BY <1>3, <2>1 DEF ta_digestDoFinal, Using
  <2>2. CASE <<s, handle[s].operation>> \notin live
    <3>1. pc[s] = "digest" /\ Panic(s)
      BY <1>3, <2>2 DEF ta_digestDoFinal, Using
    <3>2. failed[s]
      BY <2>2, <3>1
    <3> QED
      BY <1>0, <3>1, <3>2
  <2> QED
    BY <2>1, <2>2
<1>4. CASE AllocatePub(s)
  BY <1>4 DEF AllocatePub, Allocate
<1>5. CASE PopulatePub(s)
  <2>1. CASE <<s, handle[s].pub>> \in live
    BY <1>5, <2>1 DEF PopulatePub, Using
  <2>2. CASE <<s, handle[s].pub>> \notin live
    <3>1. pc[s] = "populatePub" /\ Panic(s)
      BY <1>5, <2>2 DEF PopulatePub, Using
    <3>2. failed[s]
      BY <2>2, <3>1
    <3> QED
      BY <1>0, <3>1, <3>2
  <2> QED
    BY <2>1, <2>2
<1>6. CASE AllocatePriv(s)
  BY <1>6 DEF AllocatePriv, Allocate
<1>7. CASE PopulatePriv(s)
  <2>1. CASE <<s, handle[s].priv>> \in live
    BY <1>7, <2>1 DEF PopulatePriv, Using
  <2>2. CASE <<s, handle[s].priv>> \notin live
    <3>1. pc[s] = "populatePriv" /\ Panic(s)
      BY <1>7, <2>2 DEF PopulatePriv, Using
    <3>2. failed[s]
      BY <2>2, <3>1
    <3> QED
      BY <1>0, <3>1, <3>2
  <2> QED
    BY <2>1, <2>2
<1>8. CASE AllocateMain(s)
  BY <1>8 DEF AllocateMain, Allocate
<1>9. CASE ta_setOperationKey(s)
  <2>1. pc[s] = "setKey"
    BY <1>9 DEF ta_setOperationKey
  <2>2. <<s, KeyHandle(s)>> \in live
    BY <2>1 DEF KeyHandle
  <2>3. CASE handle[s].operation = "main"
    BY <1>9, <2>1, <2>2, <2>3 DEF ta_setOperationKey, KeyHandle
  <2>4. CASE handle[s].operation # "main"
    <3>1. Panic(s)
      BY <1>9, <2>4 DEF ta_setOperationKey
    <3>2. failed[s]
      BY <2>1, <2>4
    <3> QED
      BY <1>0, <3>1, <3>2
  <2> QED
    BY <2>3, <2>4
<1>10. CASE ta_freeTransientObject(s)
  <2>1. /\ pc[s] = "freeKey" /\ pc'[s] = "rsa" /\ call'[s] = call[s]
        /\ key'[s] = key[s] /\ result'[s] = result[s] /\ failed'[s] = failed[s]
    BY <1>10 DEF ta_freeTransientObject
  <2>2. KeyHandle(s) = IF Verifies(s) THEN "pub" ELSE "priv"
    BY <2>1 DEF KeyHandle
  <2>3. \A k \in Kinds :
            <<s, k>> \in live' <=> <<s, k>> \in live /\ k # KeyHandle(s)
    BY <1>10 DEF ta_freeTransientObject
  <2>4. handle'[s] = IF Verifies(s) THEN [handle[s] EXCEPT !.pub = TEE_HANDLE_NULL]
                     ELSE [handle[s] EXCEPT !.priv = TEE_HANDLE_NULL]
    BY <1>10 DEF ta_freeTransientObject
  <2>5. MemoryOf(s)'
    BY <2>1, <2>2, <2>3
  <2>6. HandlesOf(s)'
    BY <2>1, <2>4
  <2>7. ProgressOf(s)'
    BY <2>1
  <2> QED
    BY <2>5, <2>6, <2>7
<1>11. CASE Rsa(s)
  BY <1>11 DEF Rsa, HoldsItsKey, Panic
<1>12. CASE ta_freeOperation(s)
  BY <1>12 DEF ta_freeOperation
<1>13. CASE CloseSession(s)
  BY <1>13 DEF CloseSession
<1> QED
  BY <1>1, <1>2, <1>3, <1>4, <1>5, <1>6, <1>7, <1>8, <1>9, <1>10, <1>11, <1>12,
     <1>13 DEF Step

LEMMA MemoryInvariant == Spec => [](TypeOK /\ MemoryInv)
<1>1. Init => MemoryInv
  BY DEF Init, MemoryInv, MemoryOf, HandlesOf, ProgressOf, DigestHeld, PubHeld,
     PrivHeld, MainHeld, NullHandles, TEE_HANDLE_NULL, PCs
<1>2. TypeOK /\ MemoryInv /\ [Next]_vars => MemoryInv'
  <2> SUFFICES ASSUME TypeOK, MemoryInv, [Next]_vars, NEW t \in Sessions
               PROVE  (MemoryOf(t) /\ HandlesOf(t) /\ ProgressOf(t))'
    BY DEF MemoryInv
  <2>1. MemoryOf(t) /\ HandlesOf(t) /\ ProgressOf(t)
    BY DEF MemoryInv
  <2>2. ASSUME NEW s \in Sessions, ta_signAndVerify(s) \/ Step(s), s # t
        PROVE  (MemoryOf(t) /\ HandlesOf(t) /\ ProgressOf(t))'
    <3>1. t \in Sessions \ {s}
      BY <2>2
    <3>2. /\ UNCHANGED <<pc[t], call[t], handle[t], key[t], result[t], failed[t]>>
          /\ \A k \in Kinds : <<t, k>> \in live' <=> <<t, k>> \in live
      BY <2>2, <3>1, OthersKeep
    <3> QED
      BY <2>1, <3>2 DEF MemoryOf, HandlesOf, ProgressOf, DigestHeld, PubHeld,
         PrivHeld, MainHeld, Verifies, Kinds
  <2>3. CASE ta_signAndVerify(t) \/ Step(t)
    BY <2>1, <2>3, OwnStep
  <2>4. CASE UNCHANGED vars
    BY <2>1, <2>4 DEF vars, MemoryOf, HandlesOf, ProgressOf, DigestHeld, PubHeld,
       PrivHeld, MainHeld, Verifies
  <2> QED
    BY <2>2, <2>3, <2>4 DEF Next
<1> QED
  BY <1>1, <1>2, TypeCorrect, PTL DEF Spec

\* No handle variable ever names a freed handle, in any mode, with any
\* allocation failing.
THEOREM NeverDangling == Spec => []NoDanglingHandle
<1>1. TypeOK /\ MemoryInv => NoDanglingHandle
  <2> SUFFICES ASSUME MemoryInv, NEW s \in Sessions
               PROVE  {handle[s].operation, handle[s].pub, handle[s].priv}
                          \subseteq {k \in Kinds : <<s, k>> \in live}
                                        \cup {TEE_HANDLE_NULL}
    BY DEF NoDanglingHandle
  <2>1. MemoryOf(s) /\ HandlesOf(s)
    BY DEF MemoryInv
  <2>2. CASE pc[s] = "returned"
    BY <2>1, <2>2 DEF HandlesOf, NullHandles
  <2>3. CASE pc[s] # "returned"
    BY <2>1, <2>3 DEF MemoryOf, HandlesOf, Kinds
  <2> QED
    BY <2>2, <2>3
<1> QED
  BY <1>1, MemoryInvariant, PTL

\* A command dies only in the call after an allocation that failed.
THEOREM DeathMeansNoMemory == Spec => []DeadOnlyWithoutMemory
<1>1. MemoryInv => DeadOnlyWithoutMemory
  BY DEF MemoryInv, ProgressOf, DeadOnlyWithoutMemory
<1> QED
  BY <1>1, MemoryInvariant, PTL

\* Every command leaks exactly one operation and one key, and its session's
\* end reclaims them.
THEOREM LeakIsReclaimed == Spec => []LeakEndsWithItsSession
<1>1. TypeOK /\ MemoryInv => LeakEndsWithItsSession
  <2> SUFFICES ASSUME TypeOK, MemoryInv, NEW s \in Sessions,
                      pc[s] \in {"idle", "returned"}
               PROVE  Of(s) = IF pc[s] = "idle" \/ result[s] = "dead" THEN {}
                              ELSE {<<s, "digest">>,
                                    <<s, IF Verifies(s) THEN "priv" ELSE "pub">>}
    BY DEF LeakEndsWithItsSession
  <2>1. \A h \in Of(s) : \E k \in Kinds : h = <<s, k>>
    BY DEF TypeOK, Of
  <2>2. \A k \in Kinds : <<s, k>> \in Of(s) <=> <<s, k>> \in live
    BY DEF Of
  <2>3. MemoryOf(s) /\ ProgressOf(s)
    BY DEF MemoryInv
  <2>4. CASE pc[s] = "idle" \/ result[s] = "dead"
    BY <2>1, <2>2, <2>3, <2>4 DEF MemoryOf, ProgressOf, DigestHeld, PubHeld,
       PrivHeld, MainHeld, Kinds, PCs
  <2>5. CASE ~(pc[s] = "idle" \/ result[s] = "dead")
    BY <2>1, <2>2, <2>3, <2>5 DEF MemoryOf, ProgressOf, DigestHeld, PubHeld,
       PrivHeld, MainHeld, Kinds, PCs
  <2> QED
    BY <2>4, <2>5
<1> QED
  BY <1>1, MemoryInvariant, PTL

LEMMA FourKinds == IsFiniteSet(Kinds) /\ Cardinality(Kinds) = 4
<1> DEFINE One == {"digest"}
           Two == One \cup {"pub"}
           Three == Two \cup {"priv"}
           Four == Three \cup {"main"}
<1>1. IsFiniteSet(One) /\ Cardinality(One) = 1
  BY FS_Singleton
<1>2. "pub" \notin One /\ "priv" \notin Two /\ "main" \notin Three /\ Kinds = Four
  BY DEF Kinds
<1> HIDE DEF One
<1>3. IsFiniteSet(Two) /\ Cardinality(Two) = 2
  BY <1>1, <1>2, FS_AddElement
<1> HIDE DEF Two
<1>4. IsFiniteSet(Three) /\ Cardinality(Three) = 3
  BY <1>2, <1>3, FS_AddElement
<1> HIDE DEF Three
<1> QED
  BY <1>2, <1>4, FS_AddElement

\* What a command is about to allocate it does not hold: with one missing, the
\* handles of all sessions are fewer than four each.
LEMMA RoomForOne ==
    ASSUME TypeOK, NEW s \in Sessions, NEW kind \in Kinds, <<s, kind>> \notin live
    PROVE  Cardinality(live) < 4 * Cardinality(Sessions)
<1>1. IsFiniteSet(Kinds) /\ Cardinality(Kinds) = 4
  BY FourKinds
<1>2. IsFiniteSet(Sessions) /\ Cardinality(Sessions) \in Nat
  BY TACryptoAssumption, FS_CardinalityType
<1>3. /\ IsFiniteSet(Sessions \X Kinds)
      /\ Cardinality(Sessions \X Kinds) = 4 * Cardinality(Sessions)
  BY <1>1, <1>2, FS_Product
<1>4. live \subseteq Sessions \X Kinds /\ live # Sessions \X Kinds
  BY DEF TypeOK
<1>5. /\ IsFiniteSet(live) /\ Cardinality(live) <= Cardinality(Sessions \X Kinds)
      /\ Cardinality(live) # Cardinality(Sessions \X Kinds)
  BY <1>3, <1>4, FS_Subset
<1>6. Cardinality(live) \in Nat
  BY <1>5, FS_CardinalityType
<1> QED
  BY <1>2, <1>3, <1>5, <1>6

\* With room for four handles per session no allocation fails, so no command
\* dies: the leaks of all sessions together never starve one of them.
THEOREM PoolIsEnough == Spec => []PoolSuffices
<1> DEFINE Room == PoolSize >= 4 * Cardinality(Sessions) /\ ~AllocationFaults
<1> DEFINE Fed == Room => \A t \in Sessions : ~failed[t]
<1>1. Init => Fed
  BY DEF Init
<1>2. TypeOK /\ MemoryInv /\ Fed /\ [Next]_vars => Fed'
  <2> SUFFICES ASSUME TypeOK, MemoryInv, Fed, Room,
                      NEW s \in Sessions, ta_signAndVerify(s) \/ Step(s)
               PROVE  \A t \in Sessions : ~failed'[t]
    BY DEF Next, vars
  <2>1. ASSUME NEW kind \in Kinds, NEW assigned, Allocate(s, kind, assigned),
               <<s, kind>> \notin live
        PROVE  UNCHANGED failed
    <3>1. Cardinality(live) < 4 * Cardinality(Sessions)
      BY <2>1, RoomForOne
    <3>2. /\ Cardinality(live) \in Nat /\ Cardinality(Sessions) \in Nat
          /\ PoolSize \in Nat
      <4>1. IsFiniteSet(Sessions \X Kinds)
        BY TACryptoAssumption, FourKinds, FS_Product
      <4>2. live \in SUBSET (Sessions \X Kinds)
        BY DEF TypeOK
      <4>3. IsFiniteSet(live)
        BY <4>1, <4>2, FS_Subset
      <4> QED
        BY <4>3, TACryptoAssumption, FS_CardinalityType
    <3> QED
      BY <2>1, <3>1, <3>2 DEF Allocate
  <2>2. MemoryOf(s)
    BY DEF MemoryInv
  <2>3. CASE AllocateDigest(s) \/ AllocatePub(s) \/ AllocatePriv(s) \/ AllocateMain(s)
    <3>1. PICK kind \in Kinds :
              /\ \E assigned : Allocate(s, kind, assigned)
              /\ <<s, kind>> \notin live
      <4> USE DEF MemoryOf, DigestHeld, PubHeld, PrivHeld, MainHeld, At, Kinds
      <4>1. CASE AllocateDigest(s)
        BY <2>2, <4>1 DEF AllocateDigest
      <4>2. CASE AllocatePub(s)
        BY <2>2, <4>2 DEF AllocatePub
      <4>3. CASE AllocatePriv(s)
        BY <2>2, <4>3 DEF AllocatePriv
      <4>4. CASE AllocateMain(s)
        BY <2>2, <4>4 DEF AllocateMain
      <4> QED
        BY <2>3, <4>1, <4>2, <4>3, <4>4
    <3> QED
      BY <2>1, <3>1
  <2>4. CASE CloseSession(s)
    BY <2>4 DEF CloseSession, TypeOK
  <2>5. CASE ~(\/ AllocateDigest(s) \/ AllocatePub(s) \/ AllocatePriv(s)
             \/ AllocateMain(s) \/ CloseSession(s))
    BY <2>5 DEF Step, ta_signAndVerify, ta_digestDoFinal, PopulatePub, PopulatePriv,
       ta_setOperationKey, ta_freeTransientObject, Rsa, HoldsItsKey, ta_freeOperation, Using, Panic
  <2> QED
    BY <2>3, <2>4, <2>5
<1>3. MemoryInv /\ Fed => PoolSuffices
  BY DEF MemoryInv, ProgressOf, PoolSuffices
<1> QED
  BY <1>1, <1>2, <1>3, MemoryInvariant, PTL DEF Spec

=============================================================================
