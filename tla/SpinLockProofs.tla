--------------------------- MODULE SpinLockProofs ---------------------------
(***************************************************************************)
(* What the spin lock guarantees for every set of threads.  NoOrphanLock   *)
(* holds whatever RAX contains; mutual exclusion needs RAX to be clear     *)
(* when trylock starts, which is the assumption of LockMutualExclusion.    *)
(***************************************************************************)
EXTENDS SpinLock, TLAPS

\* A counter update moves a thread between two labels, neither of them "cs".
LEMMA UpdateOutsideCS ==
    \A u \in Update : /\ {u.at, u.w, u.to} \subseteq Label \ {"cs"}
                      /\ u.by \in {1, -1}
  BY DEF Update, Label

\* preempt_disable and preempt_enable leave the lock word and its holders alone.
LEMMA PreemptKeepsHolders ==
    ASSUME TypeOK, NEW t \in Thread, Preempt(t)
    PROVE  slock' = slock /\ Holders' = Holders
  <1>1. PICK u \in Update : PreemptLoad(t, u) \/ PreemptStore(t, u)
    BY DEF Preempt
  <1>2. pc[t] # "cs" /\ slock' = slock
    BY <1>1, UpdateOutsideCS DEF PreemptLoad, PreemptStore
  <1>3. \E l \in Label \ {"cs"} : Goto(t, l)
    BY <1>1, UpdateOutsideCS DEF PreemptLoad, PreemptStore
  <1> QED
    BY <1>2, <1>3 DEF Goto, Holders, TypeOK

\* The lock word, the counter, the half-done updates and the labels of
\* src/spinlock.c and include/smp.h keep their types in every behaviour.
THEOREM LockTypeCorrect == Spec => []TypeOK
<1>1. Init => TypeOK
  BY CountModAssumption
     DEF Init, TypeOK, Label, SPIN_LOCK_UNLOCKED, SPIN_LOCK_LOCKED
<1>2. TypeOK /\ [Next]_vars => TypeOK'
  <2> SUFFICES ASSUME TypeOK, [Next]_vars PROVE TypeOK'
    OBVIOUS
  <2> USE CountModAssumption
  <2>2. ASSUME NEW t \in Thread, NEW u \in Update, PreemptLoad(t, u) PROVE TypeOK'
    BY <2>2, UpdateOutsideCS DEF TypeOK, PreemptLoad, Goto
  <2>3. ASSUME NEW t \in Thread, NEW u \in Update, PreemptStore(t, u) PROVE TypeOK'
    BY <2>3, UpdateOutsideCS DEF TypeOK, PreemptStore, Goto
  <2>4. ASSUME NEW t \in Thread, CallSpinLock(t) PROVE TypeOK'
    BY <2>4 DEF TypeOK, CallSpinLock, Goto, Label
  <2>5. ASSUME NEW t \in Thread, raw_spin_trylock(t) PROVE TypeOK'
    BY <2>5 DEF TypeOK, raw_spin_trylock, Goto, Label, SPIN_LOCK_LOCKED
  <2>6. ASSUME NEW t \in Thread, Poll(t) PROVE TypeOK'
    BY <2>6 DEF TypeOK, Poll, Goto, Label
  <2>7. ASSUME NEW t \in Thread, spin_unlock(t) PROVE TypeOK'
    BY <2>7 DEF TypeOK, spin_unlock, Goto, Label, SPIN_LOCK_UNLOCKED
  <2>8. CASE UNCHANGED vars
    BY <2>8 DEF TypeOK, vars
  <2> QED
    BY <2>2, <2>3, <2>4, <2>5, <2>6, <2>7, <2>8 DEF Next, Step, Preempt
<1> QED
  BY <1>1, <1>2, PTL DEF Spec

\* For every content of RAX, a lock word that reads "locked" has a holder: the
\* xchgb of raw_spin_trylock writes zero over a one only when it succeeds.
THEOREM LockNeverOrphaned == Spec => []NoOrphanLock
<1> USE DEF SPIN_LOCK_LOCKED, SPIN_LOCK_UNLOCKED
<1>1. Init => NoOrphanLock
  BY DEF Init, NoOrphanLock
<1>2. TypeOK /\ NoOrphanLock /\ [Next]_vars => NoOrphanLock'
  <2> SUFFICES ASSUME TypeOK, NoOrphanLock, [Next]_vars PROVE NoOrphanLock'
    OBVIOUS
  <2>1. ASSUME NEW t \in Thread, Preempt(t) PROVE NoOrphanLock'
    BY <2>1, PreemptKeepsHolders DEF NoOrphanLock
  <2>2. ASSUME NEW t \in Thread, CallSpinLock(t) PROVE NoOrphanLock'
    BY <2>2 DEF CallSpinLock, Goto, NoOrphanLock, Holders, TypeOK
  <2>3. ASSUME NEW t \in Thread, raw_spin_trylock(t) PROVE NoOrphanLock'
    <3>1. CASE slock = 1
      <4>1. pc' = [pc EXCEPT ![t] = "cs"]
        <5>1. PICK stale \in StaleRax :
                   Goto(t, IF trylock_result(stale) # 0 THEN "cs" ELSE "back")
          BY <2>3 DEF raw_spin_trylock
        <5>2. stale \in {0, 256}
          BY StaleRaxAssumption
        <5>3. trylock_result(stale) # 0
          BY <5>2, <3>1 DEF trylock_result
        <5> QED
          BY <5>1, <5>3 DEF Goto
      <4> QED
        BY <4>1 DEF NoOrphanLock, Holders, TypeOK
    <3>2. CASE slock = 0
      <4>1. PICK h \in Thread : pc[h] = "cs"
        BY <3>2 DEF NoOrphanLock, Holders
      <4>2. h # t
        BY <4>1, <2>3 DEF raw_spin_trylock
      <4>3. pc'[h] = "cs"
        BY <4>1, <4>2, <2>3 DEF raw_spin_trylock, Goto, TypeOK
      <4> QED
        BY <4>3 DEF NoOrphanLock, Holders
    <3> QED
      BY <3>1, <3>2 DEF TypeOK
  <2>4. ASSUME NEW t \in Thread, Poll(t) PROVE NoOrphanLock'
    BY <2>4 DEF Poll, Goto, NoOrphanLock, Holders, TypeOK
  <2>5. ASSUME NEW t \in Thread, spin_unlock(t) PROVE NoOrphanLock'
    BY <2>5 DEF spin_unlock, NoOrphanLock
  <2>6. CASE UNCHANGED vars
    BY <2>6 DEF vars, NoOrphanLock, Holders
  <2> QED
    BY <2>1, <2>2, <2>3, <2>4, <2>5, <2>6 DEF Next, Step
<1> QED
  BY <1>1, <1>2, LockTypeCorrect, PTL DEF Spec

\* With RAX clear on entry, raw_spin_trylock succeeds only on a free lock: at
\* most one thread is in its critical section, and the lock word says so there.
THEOREM LockMutualExclusion ==
    ASSUME StaleRax = {0}
    PROVE  Spec => [](MutualExclusion /\ LockedInCS)
<1> USE DEF SPIN_LOCK_LOCKED, SPIN_LOCK_UNLOCKED
<1> DEFINE Inv == MutualExclusion /\ LockedInCS
<1>1. Init => Inv
  BY DEF Init, MutualExclusion, LockedInCS, Holders
<1>2. TypeOK /\ Inv /\ [Next]_vars => Inv'
  <2> SUFFICES ASSUME TypeOK, Inv, [Next]_vars PROVE Inv'
    OBVIOUS
  <2>1. ASSUME NEW t \in Thread, Preempt(t) PROVE Inv'
    BY <2>1, PreemptKeepsHolders DEF MutualExclusion, LockedInCS
  <2>2. ASSUME NEW t \in Thread, CallSpinLock(t) PROVE Inv'
    BY <2>2 DEF CallSpinLock, Goto, MutualExclusion, LockedInCS, Holders, TypeOK
  <2>3. ASSUME NEW t \in Thread, raw_spin_trylock(t) PROVE Inv'
    <3>1. CASE slock = 1
      <4>1. Holders = {}
        BY <3>1 DEF LockedInCS
      <4> QED
        BY <4>1, <2>3 DEF raw_spin_trylock, Goto, MutualExclusion, LockedInCS, Holders, TypeOK
    <3>2. CASE slock = 0
      <4>1. pc' = [pc EXCEPT ![t] = "back"] /\ slock' = 0
        BY <2>3, <3>2 DEF raw_spin_trylock, trylock_result, Goto
      <4> QED
        BY <4>1, <2>3 DEF MutualExclusion, LockedInCS, Holders, TypeOK
    <3> QED
      BY <3>1, <3>2 DEF TypeOK
  <2>4. ASSUME NEW t \in Thread, Poll(t) PROVE Inv'
    BY <2>4 DEF Poll, Goto, MutualExclusion, LockedInCS, Holders, TypeOK
  <2>5. ASSUME NEW t \in Thread, spin_unlock(t) PROVE Inv'
    BY <2>5 DEF spin_unlock, Goto, MutualExclusion, LockedInCS, Holders, TypeOK
  <2>6. CASE UNCHANGED vars
    BY <2>6 DEF vars, MutualExclusion, LockedInCS, Holders
  <2> QED
    BY <2>1, <2>2, <2>3, <2>4, <2>5, <2>6 DEF Next, Step
<1> QED
  BY <1>1, <1>2, LockTypeCorrect, PTL DEF Spec

\* The same for the lock word alone: with RAX clear on entry the word is locked
\* whenever a thread is between raw_spin_trylock and spin_unlock, so spin_lock
\* of anybody else keeps polling.
THEOREM LockWordHeld ==
    ASSUME StaleRax = {0}
    PROVE  Spec => []LockedInCS
  BY LockMutualExclusion, PTL
=============================================================================
