-------------------------- MODULE SessionLockProofs --------------------------
(***************************************************************************)
(* The session lock for every number of hooks.  The bound on the overlap   *)
(* is not inductive by itself: a mkdir that finds no directory adds a hook *)
(* inside, and OverlapInv says that one was missing.  The theorems are     *)
(* about LockSafety, which LockSpec implies, so that they hold of every    *)
(* system that takes the lock by these steps, whatever its fairness.       *)
(***************************************************************************)
EXTENDS SessionLock, FiniteSetTheorems, TLAPS

(* The states of the lock are well typed, and a directory on disk was made  *)
(* by a hook that is inside or died there (store.rs:126-148).               *)
THEOREM LockType == LockSafety => []LockTypeOK
<1> USE HookAssumption DEF LockTypeOK, PC
<1>1. LockInit => LockTypeOK
  BY DEF LockInit
<1>2. LockTypeOK /\ [LockNext]_lockVars => LockTypeOK'
  <2> SUFFICES ASSUME LockTypeOK, [LockNext]_lockVars PROVE LockTypeOK'
    OBVIOUS
  <2>1. ASSUME NEW h \in Hook, Ask(h) PROVE LockTypeOK'
    BY <2>1 DEF Ask, Move
  <2>2. ASSUME NEW h \in Hook, MakeDir(h) PROVE LockTypeOK'
    BY <2>2 DEF MakeDir, Move
  <2>3. ASSUME NEW h \in Hook, FindLocked(h) PROVE LockTypeOK'
    BY <2>3 DEF FindLocked, Move
  <2>4. ASSUME NEW h \in Hook, SleepAndRetry(h) PROVE LockTypeOK'
    BY <2>4 DEF SleepAndRetry, Move
  <2>5. ASSUME NEW h \in Hook, DeadlinePasses(h) PROVE LockTypeOK'
    BY <2>5 DEF DeadlinePasses
  <2>6. ASSUME NEW h \in Hook, Break(h) PROVE LockTypeOK'
    BY <2>6 DEF Break, Move
  <2>7. ASSUME NEW h \in Hook, Release(h) PROVE LockTypeOK'
    BY <2>7 DEF Release, Move
  <2>8. ASSUME NEW h \in Hook, Die(h) PROVE LockTypeOK'
    BY <2>8 DEF Die
  <2>9. CASE UNCHANGED lockVars
    BY <2>9 DEF lockVars
  <2> QED
    BY <2>1, <2>2, <2>3, <2>4, <2>5, <2>6, <2>7, <2>8, <2>9 DEF LockNext, LockStep
<1>3. QED
  BY <1>1, <1>2, PTL DEF LockSafety

(* The set of hooks inside is finite, so that counting it makes sense.      *)
LEMMA InsideFinite == IsFiniteSet(Inside) /\ Cardinality(Inside) \in Nat
<1>1. Inside \subseteq Hook
  BY DEF Inside
<1>2. QED
  BY <1>1, HookAssumption, FS_Subset, FS_CardinalityType

(* A hook that leaves, by its release or its death, makes the count one     *)
(* smaller if it was inside and leaves it alone otherwise.                  *)
LEMMA OneLeaves ==
  ASSUME NEW h \in Hook, NEW to \in {"left", "dead"}, LockTypeOK,
         pc' = [pc EXCEPT ![h] = to]
  PROVE  /\ Inside' = Inside \ {h}
         /\ Cardinality(Inside') = IF h \in Inside THEN Cardinality(Inside) - 1
                                                   ELSE Cardinality(Inside)
<1>1. Inside' = Inside \ {h}
  BY DEF Inside, LockTypeOK
<1>2. QED
  BY <1>1, InsideFinite, FS_RemoveElement

(* A step that keeps every hook on its side of the door keeps the set.      *)
LEMMA SameInside ==
  ASSUME NEW h \in Hook, NEW from \in {"outside", "mkdir", "blocked"},
         NEW to \in {"outside", "mkdir", "blocked"}, LockTypeOK, Move(h, from, to)
  PROVE  Inside' = Inside
BY DEF Inside, LockTypeOK, Move

(* Each removal of the directory of a hook still inside admits one hook too *)
(* many at most; crashes, expiries of abandoned directories and releases by *)
(* displaced hooks admit none (store.rs:132-146).                           *)
THEOREM LockOverlap == LockSafety => []OverlapInv
<1> USE HookAssumption DEF OverlapInv
<1>1. LockInit => OverlapInv
  <2> SUFFICES ASSUME LockInit PROVE OverlapInv
    OBVIOUS
  <2>1. Inside = {}
    BY DEF LockInit, Inside
  <2>2. QED
    BY <2>1, FS_EmptySet DEF LockInit
<1>2. LockTypeOK /\ OverlapInv /\ [LockNext]_lockVars => OverlapInv'
  <2> SUFFICES ASSUME LockTypeOK, OverlapInv, [LockNext]_lockVars PROVE OverlapInv'
    OBVIOUS
  <2> USE InsideFinite
  <2>0. broken \in Nat
    BY DEF LockTypeOK
  <2>1. ASSUME NEW h \in Hook, Ask(h) PROVE OverlapInv'
    BY <2>1, SameInside DEF Ask
  <2>2. ASSUME NEW h \in Hook, MakeDir(h) PROVE OverlapInv'
    <3>1. Inside' = Inside \cup {h} /\ h \notin Inside
      BY <2>2 DEF MakeDir, Move, Inside, LockTypeOK
    <3>2. Cardinality(Inside') = Cardinality(Inside) + 1
      BY <3>1, FS_AddElement
    <3>3. NoHook \notin Inside
      BY DEF Inside
    <3>4. QED
      BY <2>0, <2>2, <3>1, <3>2, <3>3 DEF MakeDir
  <2>3. ASSUME NEW h \in Hook, FindLocked(h) PROVE OverlapInv'
    BY <2>3, SameInside DEF FindLocked
  <2>4. ASSUME NEW h \in Hook, SleepAndRetry(h) PROVE OverlapInv'
    BY <2>4, SameInside DEF SleepAndRetry
  <2>5. ASSUME NEW h \in Hook, DeadlinePasses(h) PROVE OverlapInv'
    BY <2>5 DEF DeadlinePasses, Inside
  <2>6. ASSUME NEW h \in Hook, Break(h) PROVE OverlapInv'
    <3>1. Inside' = Inside
      BY <2>6, SameInside DEF Break
    <3>2. NoHook \notin Inside
      BY DEF Inside
    <3>3. QED
      BY <2>0, <2>6, <3>1, <3>2 DEF Break
  <2>7. ASSUME NEW h \in Hook, Release(h) PROVE OverlapInv'
    <3>1. h \in Inside
      BY <2>7 DEF Release, Move, Inside
    <3>2. /\ Inside' = Inside \ {h}
          /\ Cardinality(Inside') = Cardinality(Inside) - 1
      BY <2>7, <3>1, OneLeaves DEF Release, Move
    <3>3. lock' \notin Inside' /\ broken' = broken
      BY <2>7, <3>2 DEF Release, Inside
    <3>4. QED
      BY <2>0, <3>2, <3>3
  <2>8. ASSUME NEW h \in Hook, Die(h) PROVE OverlapInv'
    <3>1. /\ Inside' = Inside \ {h}
          /\ Cardinality(Inside') = IF h \in Inside THEN Cardinality(Inside) - 1
                                                    ELSE Cardinality(Inside)
      BY <2>8, OneLeaves DEF Die
    <3>2. lock' = lock /\ broken' = broken
      BY <2>8 DEF Die
    <3>3. CASE h \in Inside
      BY <2>0, <3>1, <3>2, <3>3
    <3>4. CASE h \notin Inside
      BY <2>0, <3>1, <3>2, <3>4
    <3>5. QED
      BY <3>3, <3>4
  <2>9. CASE UNCHANGED lockVars
    BY <2>9 DEF lockVars, Inside
  <2> QED
    BY <2>1, <2>2, <2>3, <2>4, <2>5, <2>6, <2>7, <2>8, <2>9 DEF LockNext, LockStep
<1>3. QED
  BY <1>1, <1>2, LockType, PTL DEF LockSafety

(* The bound the runs check, and with broken = 0 mutual exclusion: two      *)
(* hooks are inside together only after the directory of one that was still *)
(* inside was removed by a waiter.                                          *)
THEOREM LockOverlapBounded ==
  LockSafety => []( /\ OverlapBounded
                  /\ broken = 0 => \A g, h \in Inside : g = h )
<1>1. LockTypeOK /\ OverlapInv
        => OverlapBounded /\ (broken = 0 => \A g, h \in Inside : g = h)
  <2> SUFFICES ASSUME LockTypeOK, OverlapInv
               PROVE  OverlapBounded /\ (broken = 0 => \A g, h \in Inside : g = h)
    OBVIOUS
  <2>1. broken \in Nat /\ Cardinality(Inside) \in Nat
    BY InsideFinite DEF LockTypeOK
  <2>2. OverlapBounded
    BY <2>1 DEF OverlapInv, OverlapBounded
  <2>3. ASSUME broken = 0, NEW g \in Inside, NEW h \in Inside PROVE g = h
    <3>1. Cardinality(Inside) = 1
      BY <2>1, <2>2, <2>3, InsideFinite, FS_EmptySet DEF OverlapBounded
    <3>2. PICK x : Inside = {x}
      BY <3>1, InsideFinite, FS_Singleton
    <3>3. QED
      BY <2>3, <3>2
  <2>4. QED
    BY <2>2, <2>3
<1>2. QED
  BY <1>1, LockType, LockOverlap, PTL

(* While no live lock was broken, a hook inside stands on its own           *)
(* directory, so that its release removes nobody else's (store.rs:143).     *)
THEOREM LockOwned == LockSafety => []InsideOwnsLock
<1>1. LockTypeOK /\ OverlapInv => InsideOwnsLock
  <2> SUFFICES ASSUME LockTypeOK, OverlapInv, broken = 0, NEW h \in Inside
               PROVE  lock = h
    BY DEF InsideOwnsLock
  <2>1. Cardinality(Inside) \in Nat /\ Cardinality(Inside) # 0
    BY InsideFinite, FS_EmptySet
  <2>2. lock \in Inside /\ Cardinality(Inside) = 1
    BY <2>1 DEF OverlapInv
  <2>3. PICK x : Inside = {x}
    BY <2>2, InsideFinite, FS_Singleton
  <2>4. QED
    BY <2>2, <2>3
<1>2. QED
  BY <1>1, LockType, LockOverlap, PTL
=============================================================================
