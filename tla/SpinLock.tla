------------------------------ MODULE SpinLock ------------------------------
(***************************************************************************)
(* The kernel spin lock: src/spinlock.c, include/spinlock.h, the bit       *)
(* operations it uses and the preempt counter of include/smp.h.            *)
(*                                                                         *)
(* One step is one access to shared memory: the xchgb of trylock, the bit  *)
(* test of the polling loop, the locked set_bit of unlock, and the load    *)
(* and the store of the preempt counter, which smp.h updates with a plain  *)
(* "+=" and no LOCK prefix.                                                *)
(*                                                                         *)
(* raw_spin_trylock exchanges only the low byte of RAX and returns all of  *)
(* RAX.  Nothing clears the other 56 bits: they keep what the caller left  *)
(* there.  StaleRax is the set of values those bits can have.              *)
(***************************************************************************)
EXTENDS Integers, FiniteSets

CONSTANTS Thread,      \* the processors that use the lock
          StaleRax,    \* bits 8..63 of RAX before the exchange, {0} or {0,256}
          CountMod     \* preempt_count is kept modulo this width

ASSUME ThreadAssumption == IsFiniteSet(Thread)
ASSUME StaleRaxAssumption == StaleRax \subseteq {0, 256} /\ StaleRax # {}
ASSUME CountModAssumption == CountMod \in Nat \ {0}

VARIABLES slock,          \* lock->slock
          preempt_count,  \* the one global counter of smp.c
          loaded,         \* the counter value a thread has read and not written
          pc              \* where each thread is

vars == <<slock, preempt_count, loaded, pc>>

SPIN_LOCK_UNLOCKED == 1
SPIN_LOCK_LOCKED == 0

\* Where a thread is.  A ".w" label follows the label whose counter update has
\* loaded and not yet stored.
Label == { "idle",           \* outside the lock
           "lock", "lock.w",       \* preempt_disable at the head of spin_lock
           "try",                  \* raw_spin_trylock
           "back", "back.w",       \* preempt_enable after a failed try
           "poll",                 \* while (spin_is_locked(lock)) cpu_relax()
           "again", "again.w",     \* preempt_disable before the next try
           "cs",                   \* spin_lock has returned
           "exit", "exit.w" }      \* preempt_enable at the end of spin_unlock

\* A counter update: the label it starts at, its sign, the label it ends at.
Update == { [at |-> "lock",  w |-> "lock.w",  by |->  1, to |-> "try"],
            [at |-> "back",  w |-> "back.w",  by |-> -1, to |-> "poll"],
            [at |-> "again", w |-> "again.w", by |->  1, to |-> "try"],
            [at |-> "exit",  w |-> "exit.w",  by |-> -1, to |-> "idle"] }

\* spin_lock_init(lock), and preempt_count = 0 of smp_init.
Init == /\ slock = SPIN_LOCK_UNLOCKED
        /\ preempt_count = 0
        /\ loaded = [t \in Thread |-> 0]
        /\ pc = [t \in Thread |-> "idle"]

Goto(t, l) == pc' = [pc EXCEPT ![t] = l]

-----------------------------------------------------------------------------
(* preempt_disable() and preempt_enable() *)

\* Without a LOCK prefix other processors run between its load and its store.
PreemptLoad(t, u) ==
    /\ pc[t] = u.at
    /\ loaded' = [loaded EXCEPT ![t] = preempt_count]
    /\ Goto(t, u.w)
    /\ UNCHANGED <<slock, preempt_count>>

PreemptStore(t, u) ==
    /\ pc[t] = u.w
    /\ preempt_count' = (loaded[t] + u.by) % CountMod
    /\ loaded' = [loaded EXCEPT ![t] = 0]
    /\ Goto(t, u.to)
    /\ UNCHANGED slock

Preempt(t) == \E u \in Update : PreemptLoad(t, u) \/ PreemptStore(t, u)

-----------------------------------------------------------------------------
(* spin_lock() *)

\* The value raw_spin_trylock returns: the byte that was in slock under the
\* stale upper bits of RAX.
trylock_result(stale) == stale + slock

\* Some processor calls spin_lock.
CallSpinLock(t) ==
    /\ pc[t] = "idle"
    /\ Goto(t, "lock")
    /\ UNCHANGED <<slock, preempt_count, loaded>>

\* Mutant: the lock word is read and not exchanged.
raw_spin_trylock_Read(t) ==
    /\ pc[t] = "try"
    /\ \E stale \in StaleRax : Goto(t, IF trylock_result(stale) # 0 THEN "cs" ELSE "back")
    /\ UNCHANGED <<slock, preempt_count, loaded>>

\* Mutant: the lock word is decremented instead of exchanged with zero.
raw_spin_trylock_Dec(t) ==
    /\ pc[t] = "try"
    /\ slock' = slock - 1
    /\ \E stale \in StaleRax : Goto(t, IF trylock_result(stale) # 0 THEN "cs" ELSE "back")
    /\ UNCHANGED <<preempt_count, loaded>>

\* while (!raw_spin_trylock(lock))
raw_spin_trylock(t) ==
    /\ pc[t] = "try"
    /\ slock' = SPIN_LOCK_LOCKED
    /\ \E stale \in StaleRax : Goto(t, IF trylock_result(stale) # 0 THEN "cs" ELSE "back")
    /\ UNCHANGED <<preempt_count, loaded>>

\* test_bit(0, &lock->slock): the bit is set in an unlocked lock.  test_bit is
\* "lock; btq" (bitops.h:167), taken here for the bit test that the emulator of
\* run.sh makes of it; the manual of the processor says that LOCK on BT is #UD.
spin_is_locked == slock % 2 = 1

\* Mutant: a waiter that leaves the polling loop takes the lock for granted.
Poll_NoRetry(t) ==
    /\ pc[t] = "poll"
    /\ ~spin_is_locked
    /\ Goto(t, "cs")
    /\ UNCHANGED <<slock, preempt_count, loaded>>

\* while (spin_is_locked(lock)) cpu_relax();
Poll(t) ==
    /\ pc[t] = "poll"
    /\ ~spin_is_locked
    /\ Goto(t, "again")
    /\ UNCHANGED <<slock, preempt_count, loaded>>

\* Mutant: the set_bit of spin_unlock is missing.
spin_unlock_NoSet(t) ==
    /\ pc[t] = "cs"
    /\ Goto(t, "exit")
    /\ UNCHANGED <<slock, preempt_count, loaded>>

(* spin_unlock(): set_bit(0, &lock->slock), then preempt_enable *)
spin_unlock(t) ==
    /\ pc[t] = "cs"
    /\ slock' = SPIN_LOCK_UNLOCKED
    /\ Goto(t, "exit")
    /\ UNCHANGED <<preempt_count, loaded>>

-----------------------------------------------------------------------------
\* What a thread does once it has called spin_lock.
Step(t) == Preempt(t) \/ raw_spin_trylock(t) \/ Poll(t) \/ spin_unlock(t)

Next == \E t \in Thread : CallSpinLock(t) \/ Step(t)

Spec == Init /\ [][Next]_vars

\* A running context keeps running; nobody is obliged to call spin_lock.
Fairness == \A t \in Thread : WF_vars(Step(t))

FairSpec == Spec /\ Fairness

-----------------------------------------------------------------------------
TypeOK == /\ slock \in {SPIN_LOCK_LOCKED, SPIN_LOCK_UNLOCKED}
          /\ preempt_count \in 0 .. CountMod - 1
          /\ loaded \in [Thread -> 0 .. CountMod - 1]
          /\ pc \in [Thread -> Label]

Holders == { t \in Thread : pc[t] = "cs" }

\* Two contexts are never both past spin_lock and before spin_unlock.
MutualExclusion == \A s, t \in Holders : s = t

\* The check the user-space test of the lock makes inside the critical section
\* (docs/spinlock_test/lock.c): bit 0 of the lock is clear while it is held.
LockedInCS == Holders # {} => slock = SPIN_LOCK_LOCKED

\* A lock word that says "locked" has a holder that will unlock it: no try, not
\* even a failing one, leaves the lock shut behind nobody.
NoOrphanLock == slock = SPIN_LOCK_LOCKED => Holders # {}

\* A context that asked for the lock while it is free does not wait for ever on
\* a lock that stays free: some context takes it.
FreeLockIsTaken ==
    (slock = SPIN_LOCK_UNLOCKED /\ \E t \in Thread : pc[t] = "poll")
        ~> (slock = SPIN_LOCK_LOCKED)
=============================================================================
