----------------------- MODULE DeploySemaphore_proofs -----------------------
(***************************************************************************)
(* Theorems about DeploySemaphore: its types for every value of the        *)
(* constants, and, as long as a release or a reset never runs twice and    *)
(* no key expires in the hands of its owner, that the semaphore excludes   *)
(* and that it implements the abstract one.                                *)
(***************************************************************************)
EXTENDS DeploySemaphore, FiniteSetTheorems, TLAPS

\* Deployments acquire and release, the cleanup acquires all and resets; a
\* reset reads nothing.
OpsMatch ==
    /\ op[Cleaner] \in {"acquire_all", "reset"}
    /\ \A p \in Deployers : op[p] \in {"acquire", "release"}
    /\ \A p \in Procs : phase[p] = "read" => op[p] # "reset"

\* A call writes only what the counter it has read allows.
WriteGranted == \A p \in Procs : phase[p] = "write" => Grants(op[p], seen[p])

\* granted tells of this call, not of an earlier one.
NotGrantedYet ==
    \A p \in Procs : phase[p] \in {"try_lock", "read", "write"} => ~granted[p]

Typed == TypeOK /\ OpsMatch /\ WriteGranted /\ NotGrantedYet

-----------------------------------------------------------------------------
(* Types                                                                   *)

LEMMA TypedInit == Init => Typed
<1> SUFFICES ASSUME Init PROVE Typed
  OBVIOUS
<1> USE SemaphoreAssumption DEF Procs, Ops, Phases
<1>1. mishaps \in [crashes : 0 .. MaxCrashes, stalls : 0 .. MaxStalls,
                   kills : 0 .. MaxKills, overruns : 0 .. MaxOverruns]
  <2>1. 0 \in 0 .. MaxCrashes /\ 0 \in 0 .. MaxStalls
        /\ 0 \in 0 .. MaxKills /\ 0 \in 0 .. MaxOverruns
    OBVIOUS
  <2>2. mishaps = [crashes |-> 0, stalls |-> 0, kills |-> 0, overruns |-> 0]
    BY DEF Init
  <2> QED
    BY <2>1, <2>2
<1>2. seen \in [Procs -> 0 .. Limit] /\ count \in 0 .. Limit /\ lock \in BOOLEAN
  <2>1. 0 \in 0 .. Limit
    OBVIOUS
  <2>2. seen = [p \in Procs |-> 0] /\ count = 0 /\ lock = FALSE
    BY DEF Init
  <2> QED
    BY <2>1, <2>2
<1>3. op \in [Procs -> Ops] /\ phase \in [Procs -> Phases]
      /\ granted \in [Procs -> BOOLEAN]
  BY DEF Init
<1>4. OpsMatch /\ WriteGranted /\ NotGrantedYet
  BY DEF Init, OpsMatch, WriteGranted, NotGrantedYet
<1> QED
  BY <1>1, <1>2, <1>3, <1>4 DEF Typed, TypeOK

\* What a call leaves in the counter fits the counter.
LEMMA NewCountInRange ==
    ASSUME NEW o \in Ops, NEW value \in 0 .. Limit, Grants(o, value)
    PROVE  NewCount(o, value) \in 0 .. Limit
BY SemaphoreAssumption DEF Ops, Grants, NewCount

LEMMA TypedStep == Typed /\ [Next]_vars => Typed'
<1> SUFFICES ASSUME Typed, [Next]_vars PROVE Typed'
  OBVIOUS
<1> USE SemaphoreAssumption DEF Typed, Procs, Goto
<1>1. ASSUME NEW p \in Procs, CallAcquire(p) PROVE Typed'
  BY <1>1 DEF CallAcquire, cache, TypeOK, Ops, Phases, OpsMatch, WriteGranted,
              NotGrantedYet
<1>2. ASSUME NEW p \in Procs, CallRelease(p) PROVE Typed'
  BY <1>2 DEF CallRelease, cache, TypeOK, Ops, Phases, OpsMatch, WriteGranted,
              NotGrantedYet
<1>3. ASSUME NEW p \in Procs, Kill(p) PROVE Typed'
  BY <1>3 DEF Kill, cache, TypeOK, Phases, OpsMatch, WriteGranted, NotGrantedYet
<1>4. ASSUME NEW p \in Procs, TakeLock(p) PROVE Typed'
  BY <1>4 DEF TakeLock, TypeOK, Phases, OpsMatch, WriteGranted, NotGrantedYet, Grants
<1>5. ASSUME NEW p \in Procs, GiveUp(p) PROVE Typed'
  BY <1>5 DEF GiveUp, cache, TypeOK, Phases, OpsMatch, WriteGranted, NotGrantedYet
<1>6. ASSUME NEW p \in Procs, ReadCount(p) PROVE Typed'
  BY <1>6 DEF ReadCount, cache, TypeOK, Phases, OpsMatch, WriteGranted, NotGrantedYet
<1>7. ASSUME NEW p \in Procs, WriteCount(p) PROVE Typed'
  <2>1. count' \in 0 .. Limit
    BY <1>7, NewCountInRange DEF WriteCount, TypeOK, WriteGranted
  <2> QED
    BY <1>7, <2>1 DEF WriteCount, TypeOK, Phases, OpsMatch, WriteGranted, NotGrantedYet
<1>8. ASSUME NEW p \in Procs, Unlock(p) PROVE Typed'
  BY <1>8 DEF Unlock, TypeOK, Phases, OpsMatch, WriteGranted, NotGrantedYet
<1>9. ASSUME NEW p \in Procs, Crash(p) PROVE Typed'
  BY <1>9 DEF Crash, cache, TypeOK, Phases, OpsMatch, WriteGranted, NotGrantedYet
<1>10. ASSUME LockExpires PROVE Typed'
  <2>1. mishaps' \in [crashes : 0 .. MaxCrashes, stalls : 0 .. MaxStalls,
                      kills : 0 .. MaxKills, overruns : 0 .. MaxOverruns]
    <3>1. CASE InCritical = {}
      BY <1>10, <3>1 DEF LockExpires, TypeOK
    <3>2. CASE InCritical # {}
      BY <1>10, <3>2 DEF LockExpires, TypeOK
    <3> QED
      BY <3>1, <3>2
  <2> QED
    BY <1>10, <2>1 DEF LockExpires, calls, TypeOK, OpsMatch, WriteGranted, NotGrantedYet
<1>11. ASSUME CountExpires PROVE Typed'
  BY <1>11 DEF CountExpires, calls, TypeOK, OpsMatch, WriteGranted, NotGrantedYet
<1>12. ASSUME UNCHANGED vars PROVE Typed'
  BY <1>12 DEF vars, cache, calls, TypeOK, OpsMatch, WriteGranted, NotGrantedYet
<1> QED
  BY <1>1, <1>2, <1>3, <1>4, <1>5, <1>6, <1>7, <1>8, <1>9, <1>10, <1>11, <1>12
  DEF Next, CallStep

\* The counter never leaves its range, whatever dies, expires or is retried.
THEOREM TypeCorrect == Spec => []TypeOK
<1>1. Typed => TypeOK
  BY DEF Typed
<1> QED
  BY <1>1, TypedInit, TypedStep, PTL DEF Spec

-----------------------------------------------------------------------------
(* Exclusion                                                               *)

\* What exclusion needs: releases and resets run once, the lock and the
\* counter outlive the calls and the cleanup that rely on them.
Gentle ==
    /\ CrashingOps \subseteq {"acquire", "acquire_all"}
    /\ MaxStalls = 0
    /\ MaxOverruns = 0

\* The lock does its work: one call at a time is between its two ends.
LockHeld ==
    /\ \A p, q \in InCritical : p = q
    /\ InCritical # {} => lock

\* The deployments that use a slot or have one to give back.
Owed == Holders \cup Releasing

\* The counter covers each of them; it may be higher, as slots get lost.
SlotsCovered == Cardinality(Owed) <= count

\* From its acquire_all to its reset the cleanup has every slot.
CleanupHoldsAll == Cleaning \/ Resetting => Owed = {} /\ count = Limit

IInv == Typed /\ LockHeld /\ NoLostUpdate /\ SlotsCovered /\ CleanupHoldsAll

LEMMA OwedFinite == IsFiniteSet(Owed) /\ Cardinality(Owed) \in Nat
<1>1. Owed \subseteq Deployers
  BY DEF Owed, Holders, Releasing
<1> QED
  BY <1>1, SemaphoreAssumption, FS_Subset, FS_CardinalityType

\* A step that only makes deployments leave is covered by the same count.
LEMMA FewerOwed ==
    ASSUME SlotsCovered, count \in Nat, count' \in Nat, count' >= count, Owed' \subseteq Owed
    PROVE  SlotsCovered'
<1>1. /\ IsFiniteSet(Owed')
      /\ Cardinality(Owed') <= Cardinality(Owed)
  BY OwedFinite, FS_Subset
<1>2. Cardinality(Owed') \in Nat
  BY <1>1, FS_CardinalityType
<1> QED
  BY <1>1, <1>2, OwedFinite DEF SlotsCovered

LEMMA IInvInit == Init => IInv
<1> SUFFICES ASSUME Init PROVE IInv
  OBVIOUS
<1>1. Typed
  BY TypedInit
<1>2. Owed = {} /\ InCritical = {} /\ ~Cleaning /\ ~Resetting /\ NoLostUpdate
  BY SemaphoreAssumption
  DEF Init, Owed, Holders, Releasing, Owns, Cleaning, Resetting, InCritical,
      Critical, Procs, NoLostUpdate
<1>3. count = 0
  BY DEF Init
<1> QED
  BY <1>1, <1>2, <1>3, FS_EmptySet DEF IInv, LockHeld, SlotsCovered, CleanupHoldsAll

\* The lock and what was read under it.
LEMMA LockStep ==
    ASSUME Gentle, IInv, [Next]_vars
    PROVE  LockHeld' /\ NoLostUpdate'
<1> USE SemaphoreAssumption
    DEF IInv, Typed, TypeOK, OpsMatch, LockHeld, NoLostUpdate, InCritical, Critical,
        Procs, Phases, Ops, Goto
<1>1. ASSUME NEW p \in Procs, CallAcquire(p) PROVE LockHeld' /\ NoLostUpdate'
  BY <1>1 DEF CallAcquire, cache
<1>2. ASSUME NEW p \in Procs, CallRelease(p) PROVE LockHeld' /\ NoLostUpdate'
  BY <1>2 DEF CallRelease, cache
<1>3. ASSUME NEW p \in Procs, Kill(p) PROVE LockHeld' /\ NoLostUpdate'
  BY <1>3 DEF Kill, cache
<1>4. ASSUME NEW p \in Procs, TakeLock(p) PROVE LockHeld' /\ NoLostUpdate'
  BY <1>4 DEF TakeLock
<1>5. ASSUME NEW p \in Procs, GiveUp(p) PROVE LockHeld' /\ NoLostUpdate'
  BY <1>5 DEF GiveUp, cache
<1>6. ASSUME NEW p \in Procs, ReadCount(p) PROVE LockHeld' /\ NoLostUpdate'
  BY <1>6 DEF ReadCount, cache
<1>7. ASSUME NEW p \in Procs, WriteCount(p) PROVE LockHeld' /\ NoLostUpdate'
  BY <1>7 DEF WriteCount
<1>8. ASSUME NEW p \in Procs, Unlock(p) PROVE LockHeld' /\ NoLostUpdate'
  BY <1>8 DEF Unlock
<1>9. ASSUME NEW p \in Procs, Crash(p) PROVE LockHeld' /\ NoLostUpdate'
  BY <1>9 DEF Crash, cache
<1>10. ASSUME LockExpires PROVE LockHeld' /\ NoLostUpdate'
  BY <1>10 DEF LockExpires, calls, Gentle
<1>11. ASSUME CountExpires PROVE LockHeld' /\ NoLostUpdate'
  BY <1>11 DEF CountExpires, calls
<1>12. ASSUME UNCHANGED vars PROVE LockHeld' /\ NoLostUpdate'
  BY <1>12 DEF vars, cache, calls
<1> QED
  BY <1>1, <1>2, <1>3, <1>4, <1>5, <1>6, <1>7, <1>8, <1>9, <1>10, <1>11, <1>12
  DEF Next, CallStep

CleanupOpen == Cleaning \/ Resetting

\* A step that leaves the counter alone and only makes workflows leave.
LEMMA QuietStep ==
    ASSUME IInv, count' = count, Owed' \subseteq Owed, CleanupOpen' => CleanupOpen
    PROVE  SlotsCovered' /\ CleanupHoldsAll'
<1>1. SlotsCovered'
  BY FewerOwed, SemaphoreAssumption DEF IInv, Typed, TypeOK
<1>2. CleanupHoldsAll'
  BY DEF IInv, CleanupHoldsAll, CleanupOpen
<1> QED
  BY <1>1, <1>2

\* The calls and the accidents that do not write the counter.
LEMMA QuietActions ==
    ASSUME Gentle, IInv, NEW p \in Procs,
           \/ CallAcquire(p) \/ CallRelease(p) \/ Kill(p) \/ TakeLock(p)
           \/ GiveUp(p) \/ ReadCount(p) \/ Unlock(p) \/ Crash(p)
    PROVE  count' = count /\ Owed' \subseteq Owed /\ (CleanupOpen' => CleanupOpen)
<1> USE SemaphoreAssumption
    DEF IInv, Typed, TypeOK, OpsMatch, NotGrantedYet, Owed, Holders, Releasing, Owns,
        CleanupOpen, Cleaning, Resetting, Procs, Phases, Ops, Goto
<1>1. CASE CallAcquire(p)
  BY <1>1 DEF CallAcquire, cache
<1>2. CASE CallRelease(p)
  BY <1>2 DEF CallRelease, cache
<1>3. CASE Kill(p)
  BY <1>3 DEF Kill, cache
<1>4. CASE TakeLock(p)
  BY <1>4 DEF TakeLock
<1>5. CASE GiveUp(p)
  BY <1>5 DEF GiveUp, cache
<1>6. CASE ReadCount(p)
  BY <1>6 DEF ReadCount, cache
<1>7. CASE Unlock(p)
  <2>1. phase[p] = "unlock" /\ count' = count /\ op' = op /\ granted' = granted
    BY <1>7 DEF Unlock
  <2>2. CASE op[p] \in {"release", "reset"}
    <3>1. phase' = [phase EXCEPT ![p] = "idle"]
      BY <1>7, <2>2 DEF Unlock
    <3> QED
      BY <2>1, <2>2, <3>1
  <2>3. CASE op[p] \notin {"release", "reset"} /\ granted[p]
    <3>1. phase' = [phase EXCEPT ![p] = "holding"]
      BY <1>7, <2>3 DEF Unlock
    <3> QED
      BY <2>1, <2>3, <3>1
  <2>4. CASE op[p] \notin {"release", "reset"} /\ ~granted[p]
    <3>1. phase' = [phase EXCEPT ![p] = "try_lock"]
      BY <1>7, <2>4 DEF Unlock
    <3> QED
      BY <2>1, <2>4, <3>1
  <2> QED
    BY <2>2, <2>3, <2>4
<1>8. CASE Crash(p)
  <2>1. /\ phase[p] \in {"read", "write", "unlock"}
        /\ phase' = [phase EXCEPT ![p] = "try_lock"]
        /\ granted' = [granted EXCEPT ![p] = FALSE]
        /\ op[p] \in {"acquire", "acquire_all"}
        /\ count' = count /\ op' = op
    BY <1>8 DEF Crash, cache, Critical, Gentle
  <2> QED
    BY <2>1
<1> QED
  BY <1>1, <1>2, <1>3, <1>4, <1>5, <1>6, <1>7, <1>8

\* The four ways to write the counter.
LEMMA WriteActions ==
    ASSUME IInv, NEW p \in Procs, WriteCount(p)
    PROVE  SlotsCovered' /\ CleanupHoldsAll'
<1> DEFINE o == op[p]
<1> USE SemaphoreAssumption DEF Procs
<1>1. /\ count \in 0 .. Limit /\ count' = NewCount(o, seen[p])
      /\ o # "reset" => seen[p] = count
      /\ Grants(o, seen[p])
      /\ o \in IF p = Cleaner THEN {"acquire_all", "reset"} ELSE {"acquire", "release"}
  BY DEF WriteCount, IInv, Typed, TypeOK, OpsMatch, WriteGranted, NoLostUpdate
<1>2. /\ Owed' = IF o = "acquire" THEN Owed \cup {p}
                 ELSE IF o = "release" THEN Owed \ {p} ELSE Owed
      /\ o = "release" => p \in Owed
      /\ CleanupOpen' = (o = "acquire_all" \/ (CleanupOpen /\ o # "reset"))
      /\ o = "reset" => CleanupOpen
  BY <1>1 DEF WriteCount, IInv, Typed, TypeOK, Owed, Holders, Releasing, Owns, Goto,
              CleanupOpen, Cleaning, Resetting, Phases, Ops
<1>3. IsFiniteSet(Owed) /\ Cardinality(Owed) \in Nat /\ Cardinality(Owed) <= count
  BY OwedFinite DEF IInv, SlotsCovered
<1>4. CleanupOpen => Owed = {} /\ count = Limit
  BY DEF IInv, CleanupHoldsAll, CleanupOpen
<1>5. CASE o = "acquire"
  <2>1. count' = count + 1 /\ count < Limit
    BY <1>1, <1>5 DEF NewCount, Grants
  <2>2. /\ IsFiniteSet(Owed \cup {p})
        /\ Cardinality(Owed \cup {p}) =
               IF p \in Owed THEN Cardinality(Owed) ELSE Cardinality(Owed) + 1
    BY <1>3, FS_AddElement
  <2> QED
    BY <1>1, <1>2, <1>3, <1>4, <1>5, <2>1, <2>2
    DEF SlotsCovered, CleanupHoldsAll, CleanupOpen
<1>6. CASE o = "release"
  <2>1. count' = count - 1
    BY <1>1, <1>6 DEF NewCount
  <2>2. Cardinality(Owed \ {p}) = Cardinality(Owed) - 1
    BY <1>2, <1>3, <1>6, FS_RemoveElement
  <2> QED
    BY <1>1, <1>2, <1>3, <1>4, <1>6, <2>1, <2>2
    DEF SlotsCovered, CleanupHoldsAll, CleanupOpen
<1>7. CASE o = "acquire_all"
  <2>1. count = 0 /\ count' = Limit
    BY <1>1, <1>7 DEF NewCount, Grants
  <2>2. Owed = {}
    BY <1>3, <2>1, FS_EmptySet
  <2> QED
    BY <1>2, <1>7, <2>1, <2>2, FS_EmptySet DEF SlotsCovered, CleanupHoldsAll
<1>8. CASE o = "reset"
  <2>1. Owed = {} /\ ~CleanupOpen' /\ count' = 0
    BY <1>1, <1>2, <1>4, <1>8 DEF NewCount
  <2> QED
    BY <1>2, <1>8, <2>1, FS_EmptySet DEF SlotsCovered, CleanupHoldsAll, CleanupOpen
<1> QED
  BY <1>1, <1>5, <1>6, <1>7, <1>8

LEMMA ExpiryActions ==
    ASSUME Gentle, IInv, CountExpires
    PROVE  SlotsCovered' /\ CleanupHoldsAll'
<1>1. Owed' = {} /\ count' = 0
  BY DEF CountExpires, calls, Owed, Holders, Releasing, Owns
<1>2. ~CleanupOpen
  BY DEF CountExpires, Gentle, IInv, Typed, TypeOK, CleanupOpen
<1>3. ~CleanupOpen'
  BY <1>2 DEF CountExpires, calls, CleanupOpen, Cleaning, Resetting, Owns
<1> QED
  BY <1>1, <1>3, FS_EmptySet DEF SlotsCovered, CleanupHoldsAll, CleanupOpen

LEMMA IInvStep ==
    ASSUME Gentle, IInv, [Next]_vars
    PROVE  IInv'
<1>1. Typed'
  BY TypedStep DEF IInv
<1>2. LockHeld' /\ NoLostUpdate'
  BY LockStep
<1>3. SlotsCovered' /\ CleanupHoldsAll'
  <2>1. ASSUME NEW p \in Procs,
               \/ CallAcquire(p) \/ CallRelease(p) \/ Kill(p) \/ TakeLock(p)
               \/ GiveUp(p) \/ ReadCount(p) \/ Unlock(p) \/ Crash(p)
        PROVE  SlotsCovered' /\ CleanupHoldsAll'
    BY <2>1, QuietActions, QuietStep
  <2>2. ASSUME NEW p \in Procs, WriteCount(p) PROVE SlotsCovered' /\ CleanupHoldsAll'
    BY <2>2, WriteActions
  <2>3. CASE LockExpires \/ UNCHANGED vars
    <3>1. count' = count /\ Owed' = Owed /\ CleanupOpen' = CleanupOpen
      BY <2>3 DEF LockExpires, vars, cache, calls, Owed, Holders, Releasing, Owns,
                  CleanupOpen, Cleaning, Resetting
    <3> QED
      BY <3>1, QuietStep
  <2>4. CASE CountExpires
    BY <2>4, ExpiryActions
  <2> QED
    BY <2>1, <2>2, <2>3, <2>4 DEF Next, CallStep
<1> QED
  BY <1>1, <1>2, <1>3 DEF IInv

LEMMA Inductive == ASSUME Gentle PROVE Spec => []IInv
BY IInvInit, IInvStep, PTL DEF Spec

LEMMA HoldersFit == IInv => AtMostLimit /\ CleanupAlone
<1> SUFFICES ASSUME IInv PROVE AtMostLimit /\ CleanupAlone
  OBVIOUS
<1>1. Holders \subseteq Owed
  BY DEF Owed
<1>2. Cardinality(Holders) <= Cardinality(Owed) /\ Cardinality(Holders) \in Nat
  BY <1>1, OwedFinite, FS_Subset, FS_CardinalityType
<1>3. AtMostLimit
  BY <1>2, OwedFinite, SemaphoreAssumption
  DEF IInv, Typed, TypeOK, SlotsCovered, AtMostLimit
<1> QED
  BY <1>1, <1>3 DEF IInv, CleanupHoldsAll, CleanupAlone

\* However many deployments and whatever the limit, never more than Limit of
\* them work at a time, even when acquiring is retried and slots get lost.
THEOREM LimitKept == ASSUME Gentle PROVE Spec => []AtMostLimit
<1>1. IInv => AtMostLimit
  BY HoldersFit
<1> QED
  BY <1>1, Inductive, PTL

\* The system cleanup never prunes while a deployment works.
THEOREM CleanupExcludes == ASSUME Gentle PROVE Spec => []CleanupAlone
<1>1. IInv => CleanupAlone
  BY HoldersFit
<1> QED
  BY <1>1, Inductive, PTL

\* The lock makes each read and write of the counter one update.
THEOREM UpdatesKept == ASSUME Gentle PROVE Spec => []NoLostUpdate
<1>1. IInv => NoLostUpdate
  BY DEF IInv
<1> QED
  BY <1>1, Inductive, PTL

-----------------------------------------------------------------------------
(* Refinement                                                              *)

\* In a step that leaves the counter alone, at most the workflow that takes it
\* leaves.
LEMMA OwnersStep ==
    ASSUME Gentle, IInv, NEW p \in Procs,
           \/ CallAcquire(p) \/ CallRelease(p) \/ Kill(p) \/ TakeLock(p)
           \/ GiveUp(p) \/ ReadCount(p) \/ Unlock(p) \/ Crash(p)
    PROVE  /\ count' = count
           /\ \A q \in Procs \ {p} : Owns(q)' = Owns(q)
           /\ Owns(p)' => Owns(p)
<1> USE SemaphoreAssumption
    DEF IInv, Typed, TypeOK, OpsMatch, NotGrantedYet, Owns, Procs, Phases, Ops, Goto
<1>1. CASE CallAcquire(p)
  BY <1>1 DEF CallAcquire, cache
<1>2. CASE CallRelease(p)
  BY <1>2 DEF CallRelease, cache
<1>3. CASE Kill(p)
  BY <1>3 DEF Kill, cache
<1>4. CASE TakeLock(p)
  BY <1>4 DEF TakeLock
<1>5. CASE GiveUp(p)
  BY <1>5 DEF GiveUp, cache
<1>6. CASE ReadCount(p)
  BY <1>6 DEF ReadCount, cache
<1>7. CASE Unlock(p)
  BY <1>7 DEF Unlock
<1>8. CASE Crash(p)
  BY <1>8 DEF Crash, cache
<1> QED
  BY <1>1, <1>2, <1>3, <1>4, <1>5, <1>6, <1>7, <1>8

LEMMA QuietRefines ==
    ASSUME Gentle, IInv, NEW p \in Procs,
           \/ CallAcquire(p) \/ CallRelease(p) \/ Kill(p) \/ TakeLock(p)
           \/ GiveUp(p) \/ ReadCount(p) \/ Unlock(p) \/ Crash(p)
    PROVE  Abs!Next \/ UNCHANGED <<count, Holders, Cleaning>>
<1>1. /\ count' = count
      /\ \A q \in Procs \ {p} : Owns(q)' = Owns(q)
      /\ Owns(p)' => Owns(p)
  BY OwnersStep
<1>2. CASE p \in Deployers
  <2>1. Cleaning' = Cleaning
    BY <1>1, <1>2, SemaphoreAssumption DEF Cleaning, Procs
  <2>2. Holders' = Holders \/ Holders' = Holders \ {p}
    BY <1>1, <1>2 DEF Holders, Procs
  <2> QED
    BY <1>1, <1>2, <2>1, <2>2 DEF Abs!Next, Abs!Leave
<1>3. CASE p = Cleaner
  <2>1. Holders' = Holders
    BY <1>1, <1>3, SemaphoreAssumption DEF Holders, Procs
  <2>2. Cleaning' = Cleaning \/ Cleaning' = FALSE
    BY <1>1, <1>3 DEF Cleaning, Owns
  <2> QED
    BY <1>1, <2>1, <2>2 DEF Abs!Next, Abs!StopCleaning
<1> QED
  BY <1>2, <1>3 DEF Procs

LEMMA WriteRefines ==
    ASSUME IInv, NEW p \in Procs, WriteCount(p)
    PROVE  Abs!Next
<1> DEFINE o == op[p]
<1> USE SemaphoreAssumption DEF Procs
<1>1. /\ count \in 0 .. Limit /\ count' = NewCount(o, seen[p])
      /\ o # "reset" => seen[p] = count
      /\ Grants(o, seen[p])
      /\ o \in IF p = Cleaner THEN {"acquire_all", "reset"} ELSE {"acquire", "release"}
  BY DEF WriteCount, IInv, Typed, TypeOK, OpsMatch, WriteGranted, NoLostUpdate
<1>2. /\ Holders' = IF o = "acquire" THEN Holders \cup {p} ELSE Holders
      /\ Cleaning' = IF o = "acquire_all" THEN TRUE ELSE Cleaning
      /\ o = "release" => p \in Owed \ Holders
      /\ o = "reset" => Resetting /\ ~Cleaning
  BY <1>1 DEF WriteCount, IInv, Typed, TypeOK, Owed, Holders, Releasing, Owns, Goto,
              Cleaning, Resetting, Phases, Ops
<1>3. IsFiniteSet(Owed) /\ Cardinality(Owed) \in Nat /\ Cardinality(Owed) <= count
  BY OwedFinite DEF IInv, SlotsCovered
<1>4. CASE o = "acquire"
  <2>1. count < Limit /\ count' = count + 1
    BY <1>1, <1>4 DEF NewCount, Grants
  <2>2. Abs!Acquire(p)
    BY <1>2, <1>4, <2>1 DEF Abs!Acquire
  <2> QED
    BY <1>1, <1>4, <2>2 DEF Abs!Next
<1>5. CASE o = "release"
  <2>1. Holders \subseteq Owed \ {p} /\ p \in Owed
    BY <1>2, <1>5 DEF Owed
  <2>2. IsFiniteSet(Owed \ {p}) /\ Cardinality(Owed \ {p}) = Cardinality(Owed) - 1
    BY <1>3, <2>1, FS_RemoveElement
  <2>3. Cardinality(Holders) <= Cardinality(Owed \ {p}) /\ Cardinality(Holders) \in Nat
    BY <2>1, <2>2, FS_Subset, FS_CardinalityType
  <2>4. Abs!Cardinality(Holders) = Cardinality(Holders)
    BY DEF Abs!Cardinality, Cardinality
  <2>5. count > Cardinality(Holders) /\ count' = count - 1
    BY <1>1, <1>3, <1>5, <2>2, <2>3 DEF NewCount
  <2>6. Abs!GiveBack
    BY <1>2, <1>5, <2>4, <2>5 DEF Abs!GiveBack
  <2> QED
    BY <2>6 DEF Abs!Next
<1>6. CASE o = "acquire_all"
  BY <1>1, <1>2, <1>6 DEF Abs!Next, Abs!StartCleaning, NewCount, Grants
<1>7. CASE o = "reset"
  <2>1. Holders = {}
    BY <1>2, <1>7 DEF IInv, CleanupHoldsAll, Owed
  <2>2. count' = 0
    BY <1>1, <1>7 DEF NewCount
  <2> QED
    BY <1>2, <1>7, <2>1, <2>2 DEF Abs!Next, Abs!Forget
<1> QED
  BY <1>1, <1>4, <1>5, <1>6, <1>7

LEMMA StepRefines ==
    ASSUME Gentle, IInv, [Next]_vars
    PROVE  Abs!Next \/ UNCHANGED <<count, Holders, Cleaning>>
<1>1. ASSUME NEW p \in Procs,
             \/ CallAcquire(p) \/ CallRelease(p) \/ Kill(p) \/ TakeLock(p)
             \/ GiveUp(p) \/ ReadCount(p) \/ Unlock(p) \/ Crash(p)
      PROVE  Abs!Next \/ UNCHANGED <<count, Holders, Cleaning>>
  BY <1>1, QuietRefines
<1>2. ASSUME NEW p \in Procs, WriteCount(p) PROVE Abs!Next
  BY <1>2, WriteRefines
<1>3. CASE LockExpires \/ UNCHANGED vars
  BY <1>3 DEF LockExpires, vars, cache, calls, Holders, Cleaning, Owns
<1>4. CASE CountExpires
  <2>1. Holders = {} /\ Holders' = {} /\ count' = 0
    BY <1>4 DEF CountExpires, calls, Holders, Owns
  <2>2. ~Cleaning /\ Cleaning' = Cleaning
    BY <1>4 DEF CountExpires, calls, Gentle, IInv, Typed, TypeOK, Cleaning, Owns
  <2> QED
    BY <2>1, <2>2 DEF Abs!Next, Abs!Forget
<1> QED
  BY <1>1, <1>2, <1>3, <1>4 DEF Next, CallStep

\* AsyncSemaphore implements the abstract semaphore: a slot in use is never
\* given back or forgotten, and the cleanup starts on a free one only.
THEOREM Refinement == ASSUME Gentle PROVE Spec => Implements
<1>1. Init => Abs!Init
  BY SemaphoreAssumption DEF Init, Abs!Init, Holders, Cleaning, Owns, Procs
<1>2. IInv /\ [Next]_vars => [Abs!Next]_<<count, Holders, Cleaning>>
  BY StepRefines
<1> QED
  BY <1>1, <1>2, Inductive, PTL DEF Spec, Implements, Abs!Spec
=============================================================================
