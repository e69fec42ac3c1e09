---------------------------- MODULE MCSessionLock ----------------------------
(* Four hooks: a holder, a waiter that runs out of time, a third that gets  *)
(* in between, and one more for the release of a displaced hook to admit.   *)
EXTENDS SessionLock

(* Every hook has finished or never asked. *)
Over == /\ Waiting = {} /\ Inside = {}
        /\ UNCHANGED lockVars

MCNext == LockNext \/ Over

MCSpec == LockInit /\ [][MCNext]_lockVars /\ LockFairness
=============================================================================
