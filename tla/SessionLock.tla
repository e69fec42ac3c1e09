----------------------------- MODULE SessionLock -----------------------------
(***************************************************************************)
(* Store::with_session_lock (src/src/store.rs): the directory that hook    *)
(* processes of one session use as a lock around the read-modify-write of  *)
(* the session file.  Every hook is one process that takes the lock at     *)
(* most once.  mkdir is the test-and-set; the loop measures its deadline   *)
(* from the waiter's own start, and a waiter past its deadline removes     *)
(* whatever directory is there; the guard of a hook that leaves removes    *)
(* whatever directory is there too.  The watchdog of a hook and the host   *)
(* end a process at any point without running that guard.                  *)
(***************************************************************************)
EXTENDS Naturals, FiniteSets

CONSTANTS Hook,     \* the hook processes of one session
          NoHook    \* "the lock directory does not exist"

ASSUME HookAssumption == /\ IsFiniteSet(Hook)
                         /\ NoHook \notin Hook

VARIABLES
  pc,       \* pc[h]: where hook h is in with_session_lock
  lock,     \* the hook whose mkdir made the lock directory, or NoHook
  expired,  \* the hooks whose own deadline has passed
  broken    \* how often the directory of a hook still inside was removed by
            \* a waiter (history)

lockVars == <<pc, lock, expired, broken>>

Waiting == {h \in Hook : pc[h] \in {"mkdir", "blocked"}}
Inside  == {h \in Hook : pc[h] = "inside"}

Move(h, from, to) == /\ pc[h] = from
                     /\ pc' = [pc EXCEPT ![h] = to]

LockInit == /\ pc = [h \in Hook |-> "outside"]
            /\ lock = NoHook
            /\ expired = {}
            /\ broken = 0
-----------------------------------------------------------------------------
\* with_session_lock is called: the deadline is set from this hook's clock.
Ask(h) == /\ Move(h, "outside", "mkdir")
          /\ UNCHANGED <<lock, expired, broken>>

\* Mutant: create_dir_all, which succeeds on a directory that is there.
MakeDirEvenIfPresent(h) ==
  /\ Move(h, "mkdir", "inside")
  /\ lock' = h
  /\ UNCHANGED <<expired, broken>>

\* create_dir succeeds: the directory was not there and now it is.
MakeDir(h) ==
  /\ Move(h, "mkdir", "inside")
  /\ lock = NoHook
  /\ lock' = h
  /\ UNCHANGED <<expired, broken>>

\* create_dir fails: the directory is there, or for any other reason, as long as
\* the deadline has not passed.  (A reason that lasts longer keeps the hook in
\* the loop until the watchdog ends it.)
FindLocked(h) == /\ Move(h, "mkdir", "blocked")
                 /\ lock # NoHook \/ h \notin expired
                 /\ UNCHANGED <<lock, expired, broken>>

\* Not past the deadline: 15 ms of sleep and another mkdir.
SleepAndRetry(h) == /\ Move(h, "blocked", "mkdir")
                    /\ h \notin expired
                    /\ UNCHANGED <<lock, expired, broken>>

\* 2000 ms of the waiter's own clock go by.  The deadline is never set again.
DeadlinePasses(h) == /\ h \in Waiting \ expired
                     /\ expired' = expired \cup {h}
                     /\ UNCHANGED <<pc, lock, broken>>

\* Mutant: the expired waiter goes round again and removes nothing.
BreakWithoutRemoving(h) == /\ Move(h, "blocked", "mkdir")
                           /\ h \in expired
                           /\ UNCHANGED <<lock, expired, broken>>

\* Past the deadline: remove_dir_all on the path, whoever made the directory
\* that is there by now, and round again without a sleep.
Break(h) == /\ Move(h, "blocked", "mkdir")
            /\ h \in expired
            /\ lock' = NoHook
            /\ broken' = IF lock \in Inside THEN broken + 1 ELSE broken
            /\ UNCHANGED expired

\* Mutant: the lock is taken without its Drop guard.
ReleaseWithoutGuard(h) == /\ Move(h, "inside", "left")
                          /\ UNCHANGED <<lock, expired, broken>>

\* f() has returned (or unwound): the Drop guard removes the path.
Release(h) == /\ Move(h, "inside", "left")
              /\ lock' = NoHook
              /\ UNCHANGED <<expired, broken>>

\* Mutant: the guard exists before the lock is taken, so that a waiter that
\* unwinds removes the directory it waits for.
DieRunningGuard(h) == /\ pc[h] \in {"mkdir", "blocked", "inside"}
                      /\ pc' = [pc EXCEPT ![h] = "dead"]
                      /\ lock' = NoHook
                      /\ UNCHANGED <<expired, broken>>

\* The process ends where it stands (watchdog exit, host kill): no Drop runs.
Die(h) == /\ pc[h] \in {"mkdir", "blocked", "inside"}
          /\ pc' = [pc EXCEPT ![h] = "dead"]
          /\ UNCHANGED <<lock, expired, broken>>

LockStep(h) == \/ MakeDir(h)
               \/ FindLocked(h)
               \/ SleepAndRetry(h)
               \/ Break(h)

LockNext == \E h \in Hook : \/ Ask(h)
                            \/ LockStep(h)
                            \/ DeadlinePasses(h)
                            \/ Release(h)
                            \/ Die(h)

\* A process that runs is scheduled, time passes for it, and what it does
\* inside the lock ends: f() neither waits nor calls the network.  A hook may
\* be killed while it waits, but nothing relies on it, and nothing obliges a
\* hook to ask.
EndInside(h) == pc[h] = "inside" /\ (Release(h) \/ Die(h))

LockFairness == \A h \in Hook : /\ WF_lockVars(LockStep(h))
                                /\ WF_lockVars(DeadlinePasses(h))
                                /\ WF_lockVars(EndInside(h))

LockSafety == LockInit /\ [][LockNext]_lockVars
LockSpec   == LockSafety /\ LockFairness
-----------------------------------------------------------------------------
PC == {"outside", "mkdir", "blocked", "inside", "left", "dead"}

(* Types, and that the directory on disk was always made by a hook that got *)
(* in: one still inside or one that died there (store.rs:130-148).          *)
LockTypeOK == /\ pc \in [Hook -> PC]
              /\ lock \in Hook \cup {NoHook}
              /\ lock # NoHook => pc[lock] \in {"inside", "dead"}
              /\ expired \in SUBSET Hook
              /\ broken \in Nat

(* How far the lock can fail: each removal of the directory of a hook that  *)
(* is still inside admits at most one hook too many, however the releases   *)
(* of the displaced hooks then remove each other's directories, and crashes *)
(* and expiries of abandoned directories admit none (store.rs:132-146).     *)
(* With broken = 0 this is mutual exclusion.                                *)
OverlapBounded == Cardinality(Inside) <= broken + 1

(* While no live lock was broken, a hook inside owns the directory, so no   *)
(* release removes a directory another hook stands on (store.rs:143).       *)
InsideOwnsLock == broken = 0 => \A h \in Inside : lock = h

(* The strengthening of OverlapBounded that every step preserves: when the  *)
(* directory belongs to nobody inside, one hook fewer is inside than the    *)
(* bound allows, which pays for the mkdir that may follow.                  *)
OverlapInv ==
  Cardinality(Inside) <= IF lock \in Inside THEN broken + 1 ELSE broken

(* "A stale lock expires rather than wedging every later hook" (store.rs:   *)
(* 121-125): a hook that asks gets in or ends, even when the directory was  *)
(* left behind by a process that died inside.                               *)
NoWedge == \A h \in Hook : h \in Waiting ~> pc[h] \in {"inside", "left", "dead"}
=============================================================================
