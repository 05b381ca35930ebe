--------------------------- MODULE DeploySemaphore ---------------------------
(***************************************************************************)
(* AsyncSemaphore, as the deployments and the system cleanup use it: a     *)
(* counter and a lock, both keys of the cache with a time to live.  The    *)
(* calls run as Temporal activities: an attempt that dies is run again     *)
(* from its start, whatever it had already done.                           *)
(***************************************************************************)
EXTENDS Integers, FiniteSets

CONSTANTS
    Deployers,      \* deployment workflows
    Cleaner,        \* the system cleanup workflow
    Limit,          \* TEMPORALIO_MAX_CONCURRENT_DEPLOYS
    CrashingOps,    \* calls whose attempt may die
    MaxCrashes,     \* bound on such deaths
    MaxStalls,      \* bound on locks that expire in the hands of their owner
    MaxKills,       \* bound on deployments that time out
    MaxOverruns     \* bound on cleanups that outlive the counter's key

Ops == {"acquire", "release", "acquire_all", "reset"}
Phases == {"idle", "try_lock", "read", "write", "unlock", "holding"}
Procs == Deployers \cup {Cleaner}

ASSUME SemaphoreAssumption ==
    /\ IsFiniteSet(Deployers)
    /\ Cleaner \notin Deployers
    /\ Limit \in Nat \ {0}
    /\ CrashingOps \subseteq Ops
    /\ MaxCrashes \in Nat /\ MaxStalls \in Nat
    /\ MaxKills \in Nat /\ MaxOverruns \in Nat

VARIABLES
    lock,     \* whether the lock's key exists
    count,    \* the counter (0 when its key does not exist)
    op,       \* the call each workflow makes, or made last
    phase,    \* and how far it is
    seen,     \* the value the call read from the counter
    granted,  \* whether the call wrote the counter
    mishaps   \* crashes, stalls, kills and overruns so far

cache == <<lock, count>>
calls == <<op, phase, seen, granted>>
vars == <<cache, calls, mishaps>>

TypeOK ==
    /\ lock \in BOOLEAN
    /\ count \in 0 .. Limit
    /\ op \in [Procs -> Ops]
    /\ phase \in [Procs -> Phases]
    /\ seen \in [Procs -> 0 .. Limit]
    /\ granted \in [Procs -> BOOLEAN]
    /\ mishaps \in [crashes : 0 .. MaxCrashes, stalls : 0 .. MaxStalls,
                    kills : 0 .. MaxKills, overruns : 0 .. MaxOverruns]

Init ==
    /\ lock = FALSE
    /\ count = 0
    /\ op = [p \in Procs |-> IF p = Cleaner THEN "acquire_all" ELSE "acquire"]
    /\ phase = [p \in Procs |-> "idle"]
    /\ seen = [p \in Procs |-> 0]
    /\ granted = [p \in Procs |-> FALSE]
    /\ mishaps = [crashes |-> 0, stalls |-> 0, kills |-> 0, overruns |-> 0]

Critical == {"read", "write", "unlock"}
InCritical == {p \in Procs : phase[p] \in Critical}

\* A workflow owns its slot from the write of the counter to the moment it
\* stops working, just before it calls release or reset.
Owns(p) ==
    \/ phase[p] = "holding"
    \/ phase[p] = "unlock" /\ op[p] \in {"acquire", "acquire_all"} /\ granted[p]

Holders == {p \in Deployers : Owns(p)}
Cleaning == Owns(Cleaner)

\* Slots that are no longer used and not yet given back.
Releasing ==
    {p \in Deployers : op[p] = "release" /\ phase[p] \in {"try_lock", "read", "write"}}
Resetting == op[Cleaner] = "reset" /\ phase[Cleaner] \in {"try_lock", "write"}

Goto(p, next) == phase' = [phase EXCEPT ![p] = next]

-----------------------------------------------------------------------------
(* The workflows                                                           *)

\* acquire_service_deploy_semaphore, lock_deploy_semaphore
CallAcquire(p) ==
    /\ phase[p] = "idle"
    /\ op' = [op EXCEPT ![p] = IF p = Cleaner THEN "acquire_all" ELSE "acquire"]
    /\ granted' = [granted EXCEPT ![p] = FALSE]
    /\ Goto(p, "try_lock")
    /\ UNCHANGED <<cache, seen, mishaps>>

\* release_service_deploy_semaphore, reset_deploy_semaphore
CallRelease(p) ==
    /\ phase[p] = "holding"
    /\ op' = [op EXCEPT ![p] = IF p = Cleaner THEN "reset" ELSE "release"]
    /\ granted' = [granted EXCEPT ![p] = FALSE]
    /\ Goto(p, "try_lock")
    /\ UNCHANGED <<cache, seen, mishaps>>

\* The execution timeout ends a deployment without its finally clause.
Kill(p) ==
    /\ p \in Deployers
    /\ phase[p] = "holding"
    /\ mishaps.kills < MaxKills
    /\ mishaps' = [mishaps EXCEPT !.kills = @ + 1]
    /\ Goto(p, "idle")
    /\ UNCHANGED <<cache, op, seen, granted>>

-----------------------------------------------------------------------------
(* AsyncSemaphore                                                          *)

\* Faulty variant: does not look at the lock.
IgnoreLock(p) ==
    /\ phase[p] = "try_lock"
    /\ lock' = TRUE
    /\ Goto(p, IF op[p] = "reset" THEN "write" ELSE "read")
    /\ UNCHANGED <<count, op, seen, granted, mishaps>>

\* cache.add on the lock's key.  reset does not read the counter.
TakeLock(p) ==
    /\ phase[p] = "try_lock"
    /\ ~lock
    /\ lock' = TRUE
    /\ Goto(p, IF op[p] = "reset" THEN "write" ELSE "read")
    /\ UNCHANGED <<count, op, seen, granted, mishaps>>

\* release returns when the lock is taken: its slot is not given back.  The
\* others sleep and try again, until the timeouts of their activity end them.
GiveUp(p) ==
    /\ phase[p] = "try_lock"
    /\ op[p] = "release" => lock
    /\ Goto(p, "idle")
    /\ UNCHANGED <<cache, op, seen, granted, mishaps>>

\* Faulty variant: lets one deployment too many in.
GrantsOneMore(o, value) ==
    CASE o = "acquire" -> value <= Limit
      [] o = "acquire_all" -> value = 0
      [] o = "release" -> value > 0
      [] OTHER -> TRUE

\* Faulty variant: the cleanup does not wait for a free semaphore.
GrantsAnySlot(o, value) ==
    CASE o \in {"acquire", "acquire_all"} -> value < Limit
      [] o = "release" -> value > 0
      [] OTHER -> TRUE

Grants(o, value) ==
    CASE o = "acquire" -> value < Limit
      [] o = "acquire_all" -> value = 0
      [] o = "release" -> value > 0
      [] OTHER -> TRUE

ReadCount(p) ==
    /\ phase[p] = "read"
    /\ seen' = [seen EXCEPT ![p] = count]
    /\ Goto(p, IF Grants(op[p], count) THEN "write" ELSE "unlock")
    /\ UNCHANGED <<cache, op, granted, mishaps>>

\* Faulty variant: a release frees every slot.
NewCountReset(o, value) ==
    CASE o = "acquire" -> value + 1
      [] o = "acquire_all" -> Limit
      [] OTHER -> 0

NewCount(o, value) ==
    CASE o = "acquire" -> value + 1
      [] o = "acquire_all" -> Limit
      [] o = "release" -> value - 1
      [] OTHER -> 0

WriteCount(p) ==
    /\ phase[p] = "write"
    /\ count' = NewCount(op[p], seen[p])
    /\ granted' = [granted EXCEPT ![p] = TRUE]
    /\ Goto(p, "unlock")
    /\ UNCHANGED <<lock, op, seen, mishaps>>

\* cache.delete on the lock's key, whoever owns it by now.  acquire and
\* acquire_all that were not granted sleep and start over.
Unlock(p) ==
    /\ phase[p] = "unlock"
    /\ lock' = FALSE
    /\ Goto(p, IF op[p] \in {"release", "reset"} THEN "idle"
               ELSE IF granted[p] THEN "holding" ELSE "try_lock")
    /\ UNCHANGED <<count, op, seen, granted, mishaps>>

-----------------------------------------------------------------------------
(* Crashes and expirations                                                 *)

\* The worker dies in the middle of the call and keeps the lock; the activity
\* is retried.
Crash(p) ==
    /\ phase[p] \in Critical
    /\ op[p] \in CrashingOps
    /\ mishaps.crashes < MaxCrashes
    /\ mishaps' = [mishaps EXCEPT !.crashes = @ + 1]
    /\ granted' = [granted EXCEPT ![p] = FALSE]
    /\ Goto(p, "try_lock")
    /\ UNCHANGED <<cache, op, seen>>

\* The lock's key lives five seconds: it outlives a dead owner, and may expire
\* before a slow one is done.
LockExpires ==
    /\ lock
    /\ IF InCritical = {} THEN UNCHANGED mishaps
       ELSE /\ mishaps.stalls < MaxStalls
            /\ mishaps' = [mishaps EXCEPT !.stalls = @ + 1]
    /\ lock' = FALSE
    /\ UNCHANGED <<count, calls>>

\* Faulty variant: the counter is stored without a timeout.
CountStays == FALSE /\ UNCHANGED vars

\* The counter's key lives 30 minutes after the last acquire, as long as a
\* deployment may run: it expires when no deployment has a slot to give back
\* (and is taken not to do so between a call's read and its write).  After
\* acquire_all it lives five minutes, while a cleanup may take longer.
CountExpires ==
    /\ count > 0
    /\ Holders = {} /\ Releasing = {}
    /\ \A p \in Procs : phase[p] # "write"
    /\ IF ~Cleaning /\ ~Resetting THEN UNCHANGED mishaps
       ELSE /\ mishaps.overruns < MaxOverruns
            /\ mishaps' = [mishaps EXCEPT !.overruns = @ + 1]
    /\ count' = 0
    /\ UNCHANGED <<lock, calls>>

CallStep(p) ==
    TakeLock(p) \/ GiveUp(p) \/ ReadCount(p) \/ WriteCount(p) \/ Unlock(p)

Next ==
    \/ \E p \in Procs :
        CallAcquire(p) \/ CallRelease(p) \/ Kill(p) \/ CallStep(p) \/ Crash(p)
    \/ LockExpires
    \/ CountExpires

Spec == Init /\ [][Next]_vars

-----------------------------------------------------------------------------
(* Properties                                                              *)

\* At most Limit deployments work at a time: none starts on a slot that another
\* one, still at work, had taken.
AtMostLimit == Cardinality(Holders) <= Limit

\* The cleanup, which prunes images, volumes and networks, never works while a
\* deployment does, whichever came first.
CleanupAlone == Cleaning => Holders = {}

\* No update of the counter is lost: what a call has read is still there when
\* it writes.
NoLostUpdate ==
    \A p \in Procs : phase[p] = "write" /\ op[p] # "reset" => seen[p] = count

\* Every step of the lock and counter is one of the abstract semaphore: a slot
\* that is in use is never given back or forgotten.
Abs == INSTANCE Semaphore WITH taken <- count, holders <- Holders, cleaning <- Cleaning
Implements == Abs!Spec

\* A call that has the lock ends, deployments and cleanups end (they have
\* timeouts), a release tries the lock once and a reset for five times five
\* seconds, and keys expire.  No fairness is assumed of acquire and acquire_all:
\* whether the one that retries ever finds the lock free is up to chance.
Fairness ==
    /\ \A p \in Procs :
        /\ WF_vars(ReadCount(p) \/ WriteCount(p) \/ Unlock(p))
        /\ WF_vars(CallRelease(p))
        /\ WF_vars(op[p] \in {"release", "reset"} /\ (TakeLock(p) \/ GiveUp(p)))
    /\ WF_vars(LockExpires)
    /\ SF_vars(CountExpires)

FairSpec == Spec /\ Fairness

\* A full counter does not stay full for ever, whatever slots were lost.
SlotsComeBack == count = Limit ~> count < Limit
=============================================================================
