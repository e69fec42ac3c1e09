-------------------------- MODULE HookSessionProofs --------------------------
(***************************************************************************)
(* The hook handlers for every number of hooks and tool calls.             *)
(***************************************************************************)
EXTENDS HookSession, SessionLockProofs, SequenceLemmas

(* Beside the lock's own state the handlers take the steps of SessionLock.  *)
LEMMA StepsUseTheLock == [Next]_vars => [LockNext]_lockVars
<1> SUFFICES ASSUME [Next]_vars PROVE [LockNext]_lockVars
  OBVIOUS
<1>1. ASSUME NEW h \in Hook, Step(h) PROVE [LockNext]_lockVars
  <2>1. CASE FindLive(h) \/ FinishLive(h)
    BY <2>1 DEF FindLive, FinishLive, LockNext
  <2>2. CASE Leave(h)
    BY <2>2 DEF Leave, LockNext
  <2>3. CASE \/ FindNoSession(h) \/ FindInert(h) \/ FindDue(h) \/ ClaimRetry(h)
             \/ Handshake(h) \/ FinishStart(h) \/ FinishInert(h)
    BY <2>3 DEF FindNoSession, FindInert, FindDue, ClaimRetry, Handshake, FinishStart, FinishInert
  <2>4. CASE \/ SkipSeen(h) \/ CountTool(h) \/ SettleAtStop(h) \/ SettleAtEnd(h)
             \/ WriteBack(h) \/ HandOver(h) \/ ClearSession(h)
    BY <2>4 DEF SkipSeen, CountTool, SettleAtStop, SettleAtEnd, Inner, WriteBack, HandOver, ClearSession
  <2>5. QED
    BY <1>1, <2>1, <2>2, <2>3, <2>4 DEF Step
<1>2. ASSUME NEW h \in Hook, WaitForLock(h) PROVE [LockNext]_lockVars
  BY <1>2 DEF WaitForLock, LockNext
<1>3. ASSUME NEW h \in Hook, Kill(h) PROVE [LockNext]_lockVars
  BY <1>3 DEF Kill, LockNext
<1>4. ASSUME NEW h \in Hook, NEW j \in Job, Fire(h, j) PROVE [LockNext]_lockVars
  BY <1>4 DEF Fire
<1>5. CASE RetryFallsDue \/ Over \/ UNCHANGED vars
  BY <1>5 DEF RetryFallsDue, Over, vars
<1>6. QED
  BY <1>1, <1>2, <1>3, <1>4, <1>5 DEF Next

(* So the theorems about SessionLock hold of the handlers.                  *)
LEMMA HandlersUseTheLock == Spec => LockSafety
<1>1. Init => LockInit
  BY DEF Init
<1>2. QED
  BY <1>1, StepsUseTheLock, PTL DEF Spec, LockSafety

(* The states a handshake starts a session with.                            *)
LEMMA BaseStates == {Live, Inert, Retry} \subseteq State /\ Inert # NoFile
<1>1. {Live, Inert, Retry} \subseteq State
  BY DEF Live, Inert, Retry, Base, State
<1>2. QED
  BY <1>1, SessionAssumption

(* The newest ids of a list are a list of ids.                              *)
LEMMA CappedType == ASSUME NEW s \in Seq(Key) PROVE Capped(s) \in Seq(Key)
  BY SessionAssumption, SubSeqProperties DEF Capped

(* What a hook works on under the lock is a state of the session.           *)
LEMMA CurrentType == ASSUME HookTypeOK, NEW h \in Hook
                     PROVE  Current(h) \in State /\ CallId(h) \in Id
<1>1. Current(h) \in State
  BY DEF HookTypeOK, Current
<1>2. job[h].id \in Use \cup {NoUse}
  BY DEF HookTypeOK, Job, Tools, Others
<1>3. Current(h).seq + 1 \in Nat
  BY <1>1 DEF State
<1>4. QED
  BY <1>1, <1>2, <1>3 DEF CallId, Id

LEMMA SeqOfLength == ASSUME NEW S, NEW n \in Nat, NEW q \in [1 .. n -> S]
                     PROVE  q \in Seq(S)
  BY SeqDef

(* A sweep of the transcript finds finitely many declined calls.            *)
LEMMA NewFinite ==
  ASSUME NEW s
  PROVE  IsFiniteSet({Rejected(i) : i \in Declined \ s.swept} \ ToSet(s.seen))
<1>1. IsFiniteSet(Declined \ s.swept)
  BY SessionAssumption, FS_Subset
<1> DEFINE new == {Rejected(i) : i \in Declined \ s.swept}
           f   == [i \in Declined \ s.swept |-> Rejected(i)]
<1>2. f \in Surjection(Declined \ s.swept, new)
  BY DEF Surjection
<1>3. IsFiniteSet(new)
  <2> HIDE DEF new, f
  <2> QED
    BY <1>1, <1>2, FS_Surjection
<1>4. QED
  BY <1>3, FS_Difference

LEMMA TypeInit == Init => HookTypeOK
  <1> SUFFICES ASSUME Init PROVE HookTypeOK
    OBVIOUS
  <1>1. \E j \in Job : TRUE
    <2>1. PICK k \in Kinds : TRUE
      BY SessionAssumption
    <2>2. CASE k = "tool"
      <3>1. [kind |-> "tool", id |-> NoUse, edit |-> FALSE] \in Tools
        BY DEF Tools
      <3>2. QED
        BY <2>1, <2>2, <3>1 DEF Job
    <2>3. CASE k # "tool"
      <3>1. [kind |-> k, id |-> NoUse, edit |-> FALSE] \in Others
        BY <2>1, <2>3, SessionAssumption DEF Others
      <3>2. QED
        BY <2>1, <3>1 DEF Job
    <2>4. QED
      BY <2>2, <2>3
  <1>2. (CHOOSE j \in Job : TRUE) \in Job
    BY <1>1
  <1>3. file \in State \cup {NoFile} /\ mem \in [Hook -> State]
    BY BaseStates DEF Init
  <1>4. \A h \in Hook : pc[h] \in PlacesInLock(at[h])
    BY DEF Init, LockInit, PlacesInLock
  <1>5. QED
    BY <1>2, <1>3, <1>4 DEF Init, HookTypeOK, Places

(* Settling a turn and sweeping the transcript leave a state of the session. *)
LEMMA SettledType ==
  ASSUME NEW s \in State, NEW q \in Seq(Key)
  PROVE  SettleTurn(s) \in State /\ Sweep(s, q) \in State
<1>1. s.seen \o q \in Seq(Key)
  BY ConcatProperties DEF State
<1>2. SettleTurn(s) \in State
  <2>1. s.turn + 1 \in Nat /\ {} \subseteq Id
    BY DEF State
  <2>2. QED
    BY <2>1 DEF SettleTurn, State
<1>3. Sweep(s, q) \in State
  BY <1>1 DEF Sweep, State
<1>4. QED
  BY <1>2, <1>3

LEMMA TypeStep ==
  ASSUME LockTypeOK, HookTypeOK, [Next]_vars
  PROVE  HookTypeOK'
<1> USE DEF HookTypeOK, Go, Places
<1>0. pc \in [Hook -> PC]
  BY DEF LockTypeOK
<1>1. ASSUME NEW h \in Hook, NEW j \in Job, Fire(h, j) PROVE HookTypeOK'
  BY <1>1 DEF Fire, lockVars, PlacesInLock
<1>2. ASSUME NEW h \in Hook, FindNoSession(h) PROVE HookTypeOK'
  BY <1>2 DEF FindNoSession, lockVars, PlacesInLock
<1>3. ASSUME NEW h \in Hook, FindInert(h) PROVE HookTypeOK'
  BY <1>3 DEF FindInert, FindSession, AfterInert, lockVars, PlacesInLock
<1>4. ASSUME NEW h \in Hook, FindDue(h) PROVE HookTypeOK'
  BY <1>4 DEF FindDue, FindSession, lockVars, PlacesInLock
<1>5. ASSUME NEW h \in Hook, FindLive(h) PROVE HookTypeOK'
  BY <1>0, <1>5 DEF FindLive, FindSession, Ask, Move, PlacesInLock
<1>6. ASSUME NEW h \in Hook, ClaimRetry(h) PROVE HookTypeOK'
  <2>1. [mem[h] EXCEPT !.retry = "later"] \in State
    BY DEF State
  <2>2. QED
    BY <1>6, <2>1 DEF ClaimRetry, WriteUnlocked, lockVars, PlacesInLock
<1>7. ASSUME NEW h \in Hook, Handshake(h) PROVE HookTypeOK'
  BY <1>7, BaseStates DEF Handshake, lockVars, PlacesInLock
<1>8. ASSUME NEW h \in Hook, FinishStart(h) PROVE HookTypeOK'
  BY <1>8, BaseStates DEF FinishStart, Finish, WriteUnlocked, Forget, lockVars, PlacesInLock
<1>9. ASSUME NEW h \in Hook, FinishInert(h) PROVE HookTypeOK'
  BY <1>9, BaseStates DEF FinishInert, Finish, WriteUnlocked, Forget, AfterInert, lockVars, PlacesInLock
<1>10. ASSUME NEW h \in Hook, FinishLive(h) PROVE HookTypeOK'
  BY <1>0, <1>10 DEF FinishLive, Finish, WriteUnlocked, Ask, Move, PlacesInLock
<1>11. ASSUME NEW h \in Hook, WaitForLock(h) PROVE HookTypeOK'
  BY <1>0, <1>11 DEF WaitForLock, hookVars, LockStep, DeadlinePasses, MakeDir, FindLocked,
                     SleepAndRetry, Break, Move, PlacesInLock
<1>12. ASSUME NEW h \in Hook, SkipSeen(h) PROVE HookTypeOK'
  BY <1>12, BaseStates DEF SkipSeen, Inner, Forget, lockVars, PlacesInLock
<1>13. ASSUME NEW h \in Hook, CountTool(h) PROVE HookTypeOK'
  <2> DEFINE live == Current(h)
             i    == CallId(h)
  <2>1. live \in State /\ i \in Id
    BY CurrentType
  <2>2. job[h].id = NoUse => i \in Nat
    BY <2>1 DEF CallId, State
  <2>3. Tool(i) \in Key /\ (i \in Declined => Rejected(i) \in Key)
    BY <2>1, SessionAssumption DEF Tool, Rejected, Key
  <2>4. Append(live.seen, Tool(i)) \in Seq(Key)
    BY <2>1, <2>3 DEF State
  <2>5. mem'[h] \in State /\ mem' = [mem EXCEPT ![h] = mem'[h]]
    BY <1>13, <2>1, <2>2, <2>4 DEF CountTool, State
  <2>6. out'[h] \subseteq Event /\ out' = [out EXCEPT ![h] = out'[h]]
    BY <1>13, <2>3 DEF CountTool, Event
  <2>7. QED
    BY <1>13, <2>5, <2>6 DEF CountTool, Inner, lockVars, PlacesInLock
<1>14. ASSUME NEW h \in Hook, SettleAtStop(h) PROVE HookTypeOK'
  <2> DEFINE live == Current(h)
             new  == {Rejected(i) : i \in Declined \ live.swept} \ ToSet(live.seen)
  <2>1. live \in State
    BY CurrentType
  <2>2. new \subseteq Key
    BY SessionAssumption DEF Key, Rejected
  <2>3. PICK order \in [1 .. Cardinality(new) -> new] :
               /\ Inner(h, "write")
               /\ mem' = [mem EXCEPT ![h] = SettleTurn(Sweep(live, order))]
               /\ out' = [out EXCEPT ![h] = EditEvents(live) \cup new \cup TurnEvent(live)]
    BY <1>14 DEF SettleAtStop
  <2>4. order \in Seq(Key)
    <3>1. Cardinality(new) \in Nat
      BY NewFinite, FS_CardinalityType
    <3>2. order \in [1 .. Cardinality(new) -> Key]
      BY <2>2, <2>3
    <3>3. QED
      BY <3>1, <3>2, SeqOfLength
  <2>5. mem'[h] \in State /\ mem' = [mem EXCEPT ![h] = mem'[h]]
    <3>1. SettleTurn(Sweep(live, order)) \in State
      BY <2>1, <2>4, SettledType
    <3>2. QED
      BY <2>3, <3>1
  <2>6. out'[h] \subseteq Event /\ out' = [out EXCEPT ![h] = out'[h]]
    BY <2>1, <2>2, <2>3 DEF Event, State, EditEvents, TurnEvent, Accepted, Turn
  <2>7. QED
    BY <2>3, <2>5, <2>6 DEF Inner, lockVars, PlacesInLock
<1>15. ASSUME NEW h \in Hook, SettleAtEnd(h) PROVE HookTypeOK'
  <2> DEFINE live == Current(h)
  <2>1. live \in State
    BY CurrentType
  <2>2. mem'[h] \in State /\ mem' = [mem EXCEPT ![h] = mem'[h]]
    BY <1>15, <2>1, SettledType, EmptySeq DEF SettleAtEnd
  <2>3. out'[h] \subseteq Event /\ out' = [out EXCEPT ![h] = out'[h]]
    BY <1>15, <2>1 DEF SettleAtEnd, Event, State, EditEvents, TurnEvent, Accepted, Turn
  <2>4. QED
    BY <1>15, <2>2, <2>3 DEF SettleAtEnd, Inner, lockVars, PlacesInLock
<1>16. ASSUME NEW h \in Hook, WriteBack(h) PROVE HookTypeOK'
  <2>1. [mem[h] EXCEPT !.seen = Capped(@)] \in State
    BY CappedType DEF State
  <2>2. QED
    BY <1>16, <2>1, BaseStates DEF WriteBack, Forget, lockVars, PlacesInLock
<1>17. ASSUME NEW h \in Hook, Leave(h) PROVE HookTypeOK'
  BY <1>0, <1>17 DEF Leave, Release, Move, PlacesInLock
<1>18. ASSUME NEW h \in Hook, HandOver(h) PROVE HookTypeOK'
  BY <1>18 DEF HandOver, lockVars, PlacesInLock
<1>19. ASSUME NEW h \in Hook, ClearSession(h) PROVE HookTypeOK'
  BY <1>19 DEF ClearSession, WriteUnlocked, lockVars, PlacesInLock
<1>20. ASSUME NEW h \in Hook, Kill(h) PROVE HookTypeOK'
  BY <1>0, <1>20, BaseStates DEF Kill, Die, Forget, lockVars, PlacesInLock
<1>21. CASE RetryFallsDue
  BY <1>21 DEF RetryFallsDue, lockVars, State
<1>22. CASE Over \/ UNCHANGED vars
  BY <1>22 DEF Over, vars, hookVars, lockVars
<1> QED
  BY <1>1, <1>2, <1>3, <1>4, <1>5, <1>6, <1>7, <1>8, <1>9, <1>10, <1>11, <1>12, <1>13,
     <1>14, <1>15, <1>16, <1>17, <1>18, <1>19, <1>20, <1>21, <1>22 DEF Next, Step

(* The types of the handlers' state, and that work under the lock is done   *)
(* inside it (hooks.rs:104-222).                                            *)
THEOREM HookType == Spec => []TypeOK
<1>1. Spec => []LockTypeOK
  BY HandlersUseTheLock, LockType, PTL
<1>2. QED
  BY <1>1, TypeInit, TypeStep, PTL DEF Spec, TypeOK
-----------------------------------------------------------------------------
(* A live lock that was broken stays broken, and what a write without the   *)
(* lock changed stays changed.                                              *)
LEMMA WholeBefore ==
  ASSUME LockTypeOK, [Next]_vars, Whole'
  PROVE  Whole
<1>1. broken' = 0 => broken = 0
  BY StepsUseTheLock DEF LockNext, LockStep, Ask, MakeDir, FindLocked, SleepAndRetry, Break, DeadlinePasses,
         Release, Die, lockVars, LockTypeOK
<1>2. reset => reset'
  <2> SUFFICES ASSUME reset PROVE reset'
    OBVIOUS
  <2>1. ASSUME NEW h \in Hook, Step(h) PROVE reset'
    <3>1. CASE FindNoSession(h) \/ FindInert(h) \/ FindDue(h) \/ FindLive(h) \/ Handshake(h)
      BY <3>1 DEF FindNoSession, FindInert, FindDue, FindLive, FindSession, Handshake
    <3>2. CASE ClaimRetry(h) \/ FinishStart(h) \/ FinishInert(h) \/ FinishLive(h) \/ ClearSession(h)
      BY <3>2 DEF ClaimRetry, FinishStart, FinishInert, FinishLive, Finish, ClearSession, WriteUnlocked
    <3>3. CASE SkipSeen(h) \/ CountTool(h) \/ SettleAtStop(h) \/ SettleAtEnd(h)
      BY <3>3 DEF SkipSeen, CountTool, SettleAtStop, SettleAtEnd, Inner
    <3>4. CASE WriteBack(h) \/ Leave(h) \/ HandOver(h)
      BY <3>4 DEF WriteBack, Leave, HandOver
    <3>5. QED
      BY <2>1, <3>1, <3>2, <3>3, <3>4 DEF Step
  <2>2. ASSUME NEW h \in Hook, WaitForLock(h) \/ Kill(h) PROVE reset'
    BY <2>2 DEF WaitForLock, hookVars, Kill
  <2>3. ASSUME NEW h \in Hook, NEW j \in Job, Fire(h, j) PROVE reset'
    BY <2>3 DEF Fire
  <2>4. CASE RetryFallsDue \/ Over \/ UNCHANGED vars
    BY <2>4 DEF RetryFallsDue, Over, vars, hookVars
  <2>5. QED
    BY <2>1, <2>2, <2>3, <2>4 DEF Next
<1>3. QED
  BY <1>1, <1>2 DEF Whole

(* Of a file, Extends sees what is recorded in it, and an empty record is   *)
(* extended by every state.                                                 *)
LEMMA ExtendsRecorded ==
  ASSUME NEW f \in State \cup {NoFile}, NEW g \in State, NEW m \in State, NEW E,
         Recorded(g) = Recorded(f),
         f # NoFile => Extends(f, m, E)
  PROVE  Extends(g, m, E)
<1>1. g # NoFile /\ Inert \in State
  BY SessionAssumption, BaseStates
<1>2. CASE f # NoFile
  <2>1. /\ g.seq = f.seq /\ g.turn = f.turn /\ g.seen = f.seen
        /\ g.pending = f.pending /\ g.swept = f.swept
    BY <1>1, <1>2 DEF Recorded
  <2>2. QED
    BY <1>2, <2>1 DEF Extends
<1>3. CASE f = NoFile
  <2>1. /\ g.seq = 0 /\ g.turn = 0 /\ g.seen = <<>> /\ g.pending = {} /\ g.swept = {}
    BY <1>1, <1>3 DEF Recorded, Inert, Base
  <2>2. m.seq \in Nat /\ m.turn \in Nat
    BY DEF State
  <2>3. ToSet(g.seen) = {}
    BY <2>1 DEF ToSet
  <2>4. QED
    BY <2>1, <2>2, <2>3 DEF Extends
<1>4. QED
  BY <1>2, <1>3

(* A write without the lock that changes nothing recorded.                  *)
LEMMA UnlockedKeeps ==
  ASSUME HookTypeOK, NEW s \in State \cup {NoFile}, WriteUnlocked(s), reset' = FALSE,
         NEW g \in Hook, file # NoFile => Extends(file, mem[g], out[g]), file' # NoFile
  PROVE  Extends(file', mem[g], out[g])
<1>1. file' = s /\ Recorded(file') = Recorded(file)
  BY DEF WriteUnlocked, HookTypeOK
<1>2. QED
  BY <1>1, ExtendsRecorded DEF HookTypeOK

(* What the three locked sections make of the file extends it.              *)
LEMMA SettleExtends ==
  ASSUME NEW s \in State, NEW q \in Seq(Key), NEW E, EditEvents(s) \subseteq E
  PROVE  Extends(s, SettleTurn(s), E) /\ Extends(s, SettleTurn(Sweep(s, q)), E)
<1>1. /\ s.seq \in Nat /\ s.turn \in Nat /\ s.seen \in Seq(Key) /\ s.swept \subseteq Declined
      /\ \A i \in s.pending : Accepted(i) \in E
  BY DEF State, EditEvents
<1>2. /\ SettleTurn(s).seq = s.seq /\ SettleTurn(s).turn = s.turn + 1
      /\ SettleTurn(s).seen = s.seen /\ SettleTurn(s).swept = s.swept
  BY DEF SettleTurn, State
<1>3. /\ SettleTurn(Sweep(s, q)).seq = s.seq /\ SettleTurn(Sweep(s, q)).turn = s.turn + 1
      /\ SettleTurn(Sweep(s, q)).seen = s.seen \o q /\ SettleTurn(Sweep(s, q)).swept = Declined
  BY DEF SettleTurn, Sweep, State
<1>4. ToSet(s.seen) \subseteq ToSet(s.seen \o q)
  BY <1>1, ElementsOfConcat
<1>5. QED
  BY <1>1, <1>2, <1>3, <1>4 DEF Extends

Count(s, n, k, P) == [s EXCEPT !.seq = n, !.seen = Append(@, k), !.pending = @ \cup P]

LEMMA CountExtends ==
  ASSUME NEW s \in State, NEW n \in Nat, s.seq <= n, NEW k \in Key, NEW P \in SUBSET Id, NEW E
  PROVE  Extends(s, Count(s, n, k, P), E)
<1> DEFINE t == Count(s, n, k, P)
<1>1. s.seq \in Nat /\ s.turn \in Nat /\ s.seen \in Seq(Key)
  BY DEF State
<1>2. /\ t.seq = n /\ t.turn = s.turn /\ t.seen = Append(s.seen, k)
      /\ t.swept = s.swept /\ t.pending = s.pending \cup P
  BY DEF State, Count
<1>3. ToSet(s.seen) \subseteq ToSet(Append(s.seen, k))
  BY <1>1, ElementsOfAppend
<1>4. QED
  BY <1>1, <1>2, <1>3 DEF Extends

(* What a hook is about to write stays what it was, and so does the file,   *)
(* unless an action below says otherwise.                                   *)
LEMMA WriteStep ==
  ASSUME LockTypeOK, HookTypeOK, InsideOwnsLock, WriteInv, [Next]_vars
  PROVE  WriteInv'
<1> SUFFICES ASSUME Whole', NEW g \in Hook, at'[g] = "write", file' # NoFile
             PROVE  Extends(file', mem'[g], out'[g])
  BY DEF WriteInv
<1>1. Whole
  BY WholeBefore
<1>2. at[g] = "write" /\ file # NoFile => Extends(file, mem[g], out[g])
  BY <1>1 DEF WriteInv
<1>3. ASSUME at[g] = "write", file' = file, mem'[g] = mem[g], out'[g] = out[g]
      PROVE  Extends(file', mem'[g], out'[g])
  BY <1>2, <1>3
<1>4. ASSUME at[g] = "write", mem'[g] = mem[g], out'[g] = out[g],
             NEW s \in State \cup {NoFile}, WriteUnlocked(s)
      PROVE  Extends(file', mem'[g], out'[g])
  <2>1. reset' = FALSE
    BY <1>4 DEF Whole, WriteUnlocked
  <2>2. Extends(file', mem[g], out[g])
    BY <1>2, <1>4, <2>1, UnlockedKeeps
  <2>3. QED
    BY <1>4, <2>2
<1>5. at \in [Hook -> Places] /\ mem \in [Hook -> State] /\ out \in [Hook -> SUBSET Event]
  BY DEF HookTypeOK
<1>6. ASSUME NEW h \in Hook, NEW j \in Job, Fire(h, j) PROVE Extends(file', mem'[g], out'[g])
  BY <1>3, <1>5, <1>6 DEF Fire, Go
<1>7. ASSUME NEW h \in Hook, FindNoSession(h) \/ FindInert(h) \/ FindDue(h) \/ FindLive(h) \/ Handshake(h)
      PROVE  Extends(file', mem'[g], out'[g])
  BY <1>3, <1>5, <1>7 DEF FindNoSession, FindInert, FindDue, FindLive, FindSession, Handshake, Go, AfterInert
<1>8. ASSUME NEW h \in Hook, ClaimRetry(h) PROVE Extends(file', mem'[g], out'[g])
  <2>1. [mem[h] EXCEPT !.retry = "later"] \in State
    BY <1>5 DEF State
  <2>2. QED
    BY <1>4, <1>5, <1>8, <2>1 DEF ClaimRetry, Go
<1>9. ASSUME NEW h \in Hook, FinishStart(h) \/ FinishInert(h) \/ FinishLive(h)
      PROVE  Extends(file', mem'[g], out'[g])
  <2>1. at[g] = "write" /\ mem'[g] = mem[g] /\ out'[g] = out[g] /\ WriteUnlocked(mem[h])
    BY <1>5, <1>9 DEF FinishStart, FinishInert, FinishLive, Finish, Forget, Go, AfterInert
  <2>2. QED
    BY <1>4, <1>5, <2>1
<1>10. ASSUME NEW h \in Hook, SkipSeen(h) PROVE Extends(file', mem'[g], out'[g])
  BY <1>3, <1>5, <1>10 DEF SkipSeen, Inner, Forget, Go
<1>11. ASSUME NEW h \in Hook, CountTool(h) PROVE Extends(file', mem'[g], out'[g])
  <2>1. CASE g # h
    BY <1>3, <1>5, <1>11, <2>1 DEF CountTool, Inner, Go
  <2>2. CASE g = h
    <3> DEFINE i       == CallId(h)
               n       == IF job[h].id = NoUse THEN i ELSE file.seq
               applied == IF job[h].edit /\ i \notin Declined THEN {i} ELSE {}
    <3>1. file' = file /\ Current(h) = file /\ file \in State /\ i \in Id
      BY <1>11, CurrentType DEF CountTool, Inner, Current
    <3>2. n \in Nat /\ file.seq <= n
      BY <3>1 DEF CallId, State
    <3>3. Tool(i) \in Key /\ applied \subseteq Id
      BY <3>1 DEF Tool, Key
    <3>4. mem'[h] = Count(file, n, Tool(i), applied)
      BY <1>5, <1>11, <3>1 DEF CountTool, Count, State
    <3>5. Extends(file, Count(file, n, Tool(i), applied), out'[h])
      <4> HIDE DEF i, n, applied
      <4> QED
        BY <3>1, <3>2, <3>3, CountExtends
    <3>6. QED
      BY <2>2, <3>1, <3>4, <3>5
  <2>3. QED
    BY <2>1, <2>2
<1>12. ASSUME NEW h \in Hook, SettleAtStop(h) PROVE Extends(file', mem'[g], out'[g])
  <2> DEFINE live == Current(h)
             new  == {Rejected(i) : i \in Declined \ live.swept} \ ToSet(live.seen)
  <2>1. PICK order \in [1 .. Cardinality(new) -> new] :
               /\ Inner(h, "write")
               /\ mem' = [mem EXCEPT ![h] = SettleTurn(Sweep(live, order))]
               /\ out' = [out EXCEPT ![h] = EditEvents(live) \cup new \cup TurnEvent(live)]
    BY <1>12 DEF SettleAtStop
  <2>2. CASE g # h
    BY <1>3, <1>5, <2>1, <2>2 DEF Inner, Go
  <2>3. CASE g = h
    <3>1. file' = file /\ live = file /\ file \in State
      BY <2>1, CurrentType DEF Inner, Current
    <3>2. order \in Seq(Key)
      <4>1. new \subseteq Key
        BY SessionAssumption DEF Key, Rejected
      <4>2. Cardinality(new) \in Nat
        BY NewFinite, FS_CardinalityType
      <4>3. order \in [1 .. Cardinality(new) -> Key]
        BY <2>1, <4>1
      <4>4. QED
        BY <4>2, <4>3, SeqOfLength
    <3>3. mem'[h] = SettleTurn(Sweep(file, order)) /\ EditEvents(file) \subseteq out'[h]
      BY <1>5, <2>1, <3>1
    <3>4. QED
      BY <2>3, <3>1, <3>2, <3>3, SettleExtends
  <2>4. QED
    BY <2>2, <2>3
<1>13. ASSUME NEW h \in Hook, SettleAtEnd(h) PROVE Extends(file', mem'[g], out'[g])
  <2>1. CASE g # h
    BY <1>3, <1>5, <1>13, <2>1 DEF SettleAtEnd, Inner, Go
  <2>2. CASE g = h
    <3>1. file' = file /\ Current(h) = file /\ file \in State
      BY <1>13, CurrentType DEF SettleAtEnd, Inner, Current
    <3>2. mem'[h] = SettleTurn(file) /\ EditEvents(file) \subseteq out'[h]
      BY <1>5, <1>13, <3>1 DEF SettleAtEnd
    <3>3. QED
      BY <2>2, <3>1, <3>2, SettleExtends, EmptySeq
  <2>3. QED
    BY <2>1, <2>2
<1>14. ASSUME NEW h \in Hook, WriteBack(h) PROVE Extends(file', mem'[g], out'[g])
  <2>1. g # h /\ at[g] = "write" /\ at[h] = "write"
    BY <1>5, <1>14 DEF WriteBack, Go
  <2>2. g \in Inside /\ h \in Inside
    BY <2>1 DEF HookTypeOK, PlacesInLock, Inside
  <2>3. QED
    BY <1>1, <2>1, <2>2 DEF InsideOwnsLock, Whole
<1>15. ASSUME NEW h \in Hook, Leave(h) \/ HandOver(h) PROVE Extends(file', mem'[g], out'[g])
  BY <1>3, <1>5, <1>15 DEF Leave, HandOver, Go
<1>16. ASSUME NEW h \in Hook, ClearSession(h) PROVE Extends(file', mem'[g], out'[g])
  BY <1>16 DEF ClearSession, WriteUnlocked
<1>17. ASSUME NEW h \in Hook, WaitForLock(h) PROVE Extends(file', mem'[g], out'[g])
  BY <1>3, <1>17 DEF WaitForLock, hookVars
<1>18. ASSUME NEW h \in Hook, Kill(h) PROVE Extends(file', mem'[g], out'[g])
  BY <1>3, <1>5, <1>18 DEF Kill, Forget
<1>19. CASE RetryFallsDue
  <2>1. file \in State /\ file' = [file EXCEPT !.retry = "due"]
    BY <1>19 DEF RetryFallsDue, HookTypeOK
  <2>2. file' \in State /\ Recorded(file') = Recorded(file)
    BY <2>1, <1>19, SessionAssumption DEF State, Recorded, RetryFallsDue
  <2>3. at[g] = "write" /\ mem'[g] = mem[g] /\ out'[g] = out[g]
    BY <1>19 DEF RetryFallsDue
  <2>4. QED
    BY <1>2, <1>5, <2>1, <2>2, <2>3, ExtendsRecorded
<1>20. CASE Over \/ UNCHANGED vars
  BY <1>3, <1>20 DEF Over, vars, hookVars
<1> QED
  BY <1>6, <1>7, <1>8, <1>9, <1>10, <1>11, <1>12, <1>13, <1>14, <1>15, <1>16, <1>17, <1>18,
     <1>19, <1>20 DEF Next, Step

(* A hook about to write holds everything the file holds: between its read  *)
(* and its write nothing was added that its write would lose (hooks.rs:104, *)
(* 219).                                                                    *)
THEOREM HookWrites == Spec => []WriteInv
<1>1. Init => WriteInv
  BY DEF Init, WriteInv
<1>2. TypeOK /\ InsideOwnsLock /\ WriteInv /\ [Next]_vars => WriteInv'
  BY WriteStep DEF TypeOK
<1>3. Spec => []InsideOwnsLock
  BY HandlersUseTheLock, LockOwned, PTL
<1>4. QED
  BY <1>1, <1>2, <1>3, HookType, PTL DEF Spec

(* No write under the lock takes anything out of the file that others put   *)
(* there (store.rs:121-125, hooks.rs:219).                                  *)
THEOREM HookKeepsFile == Spec => LockedWriteKeepsFile
<1>1. WriteInv => \A h \in Hook : WriteBack(h) /\ Whole /\ file # NoFile
                                    => Extends(file, mem[h], out[h])
  BY DEF WriteInv, WriteBack, Go
<1>2. QED
  BY <1>1, HookWrites, PTL DEF LockedWriteKeepsFile
-----------------------------------------------------------------------------
Past == {"release", "enqueue", "clear", "done", "dead"}
Held(f) == IF f = NoFile THEN {} ELSE f.pending

(* A step that keeps what hooks wrote and are about to write, and the edits *)
(* pending in the file, keeps every edit.                                   *)
LEMMA EditsKept ==
  ASSUME EditInv, NoEditLost, Whole' => Whole, wrote' = wrote,
         \A h \in wrote : at'[h] \in Past /\ job'[h] = job[h] /\ out'[h] = out[h],
         \A h \in Hook : at'[h] = "write" =>
            /\ at[h] = "write" /\ job'[h] = job[h] /\ out'[h] = out[h] /\ mem'[h] = mem[h],
         Whole' => Held(file) \subseteq Held(file')
  PROVE  EditInv' /\ NoEditLost'
<1>1. \A h \in Hook : out'[h] = out[h] => Calls(h)' = Calls(h)
  BY DEF Calls
<1>2. EditInv'
  BY <1>1 DEF EditInv, Past
<1>3. ASSUME Whole', NEW h \in wrote, NEW i \in Calls(h) \ Declined, job[h].edit
      PROVE  \/ file' # NoFile /\ i \in file'.pending
             \/ \E g \in wrote : Accepted(i) \in out'[g]
  <2>1. i \in Held(file) \/ \E g \in wrote : Accepted(i) \in out[g]
    BY <1>3 DEF NoEditLost, Held
  <2>2. i \in Held(file') => file' # NoFile /\ i \in file'.pending
    BY DEF Held
  <2>3. QED
    BY <1>3, <2>1, <2>2
<1>4. \A h \in wrote : Calls(h)' = Calls(h)
  BY DEF Calls
<1>5. NoEditLost'
  BY <1>3, <1>4 DEF NoEditLost
<1>6. QED
  BY <1>2, <1>5

(* A write without the lock that changes nothing recorded keeps the edits.  *)
LEMMA UnlockedHolds ==
  ASSUME NEW s, WriteUnlocked(s), Whole'
  PROVE  Held(file) \subseteq Held(file')
<1>1. Recorded(file') = Recorded(file)
  BY DEF WriteUnlocked, Whole
<1>2. Held(file) = Recorded(file)[4] /\ Held(file') = Recorded(file')[4]
  BY DEF Held, Recorded, Inert, Base
<1>3. QED
  BY <1>1, <1>2

(* The work under the lock: what h is about to write holds its edit.        *)
LEMMA EditsCounted ==
  ASSUME HookTypeOK, EditInv, NoEditLost, Whole' => Whole, NEW h \in Hook, Inner(h, "write"),
         \A g \in Hook \ {h} : mem'[g] = mem[g] /\ out'[g] = out[g],
         job[h].edit => Calls(h)' \ Declined \subseteq mem'[h].pending
  PROVE  EditInv' /\ NoEditLost'
<1>1. /\ at[h] = "locked" /\ at' = [at EXCEPT ![h] = "write"]
      /\ file' = file /\ job' = job /\ wrote' = wrote /\ wrote \subseteq Hook
      /\ at \in [Hook -> Places]
  BY DEF Inner, Go, HookTypeOK
<1>2. h \notin wrote
  BY <1>1 DEF EditInv
<1>3. \A g \in Hook \ {h} : Calls(g)' = Calls(g) /\ at'[g] = at[g]
  BY <1>1 DEF Calls
<1>4. EditInv'
  BY <1>1, <1>2, <1>3 DEF EditInv
<1>5. NoEditLost'
  BY <1>1, <1>2, <1>3 DEF NoEditLost
<1>6. QED
  BY <1>4, <1>5

LEMMA EditStep ==
  ASSUME LockTypeOK, HookTypeOK, WriteInv, EditInv, NoEditLost, [Next]_vars
  PROVE  EditInv' /\ NoEditLost'
<1>1. Whole' => Whole
  BY WholeBefore
<1>2. /\ at \in [Hook -> Places] /\ mem \in [Hook -> State] /\ job \in [Hook -> Job]
      /\ out \in [Hook -> SUBSET Event] /\ wrote \subseteq Hook
  BY DEF HookTypeOK
<1>3. \A h \in wrote : at[h] \in Past
  BY DEF EditInv, Past
<1>4. ASSUME NEW h \in Hook, NEW j \in Job, Fire(h, j) PROVE EditInv' /\ NoEditLost'
  BY <1>1, <1>2, <1>3, <1>4, EditsKept DEF Fire, Go, Past
<1>5. ASSUME NEW h \in Hook, FindNoSession(h) \/ FindInert(h) \/ FindDue(h) \/ FindLive(h) \/ Handshake(h)
      PROVE  EditInv' /\ NoEditLost'
  BY <1>1, <1>2, <1>3, <1>5, EditsKept
  DEF FindNoSession, FindInert, FindDue, FindLive, FindSession, Handshake, Go, AfterInert, Past
<1>6. ASSUME NEW h \in Hook, NEW s, WriteUnlocked(s), wrote' = wrote, job' = job, out' = out,
             \A g \in Hook \ {h} : at'[g] = at[g] /\ mem'[g] = mem[g],
             at'[h] # "write", h \in wrote => at'[h] \in Past
      PROVE  EditInv' /\ NoEditLost'
  <2>1. Whole' => Held(file) \subseteq Held(file')
    BY <1>6, UnlockedHolds
  <2>2. QED
    BY <1>1, <1>2, <1>3, <1>6, <2>1, EditsKept
<1>7. ASSUME NEW h \in Hook, ClaimRetry(h) \/ FinishStart(h) \/ FinishInert(h) \/ FinishLive(h)
      PROVE  EditInv' /\ NoEditLost'
  <2>1. h \notin wrote
    BY <1>3, <1>7 DEF ClaimRetry, FinishStart, FinishInert, FinishLive, Go, Past
  <2>2. \E s : WriteUnlocked(s)
    BY <1>7 DEF ClaimRetry, FinishStart, FinishInert, FinishLive, Finish
  <2>3. /\ wrote' = wrote /\ job' = job /\ out' = out /\ at'[h] # "write"
        /\ \A g \in Hook \ {h} : at'[g] = at[g] /\ mem'[g] = mem[g]
    BY <1>2, <1>7 DEF ClaimRetry, FinishStart, FinishInert, FinishLive, Finish, Forget, Go, AfterInert
  <2>4. QED
    BY <1>6, <2>1, <2>2, <2>3
<1>8. ASSUME NEW h \in Hook, ClearSession(h) PROVE EditInv' /\ NoEditLost'
  BY <1>2, <1>6, <1>8 DEF ClearSession, Go, Past
<1>9. ASSUME NEW h \in Hook, SkipSeen(h) PROVE EditInv' /\ NoEditLost'
  BY <1>1, <1>2, <1>3, <1>9, EditsKept DEF SkipSeen, Inner, Forget, Go, Past
<1>10. ASSUME NEW h \in Hook, CountTool(h) PROVE EditInv' /\ NoEditLost'
  <2> DEFINE i       == CallId(h)
             applied == IF job[h].edit /\ i \notin Declined THEN {i} ELSE {}
             refused == IF job[h].edit /\ i \in Declined THEN {Rejected(i)} ELSE {}
  <2>1. out'[h] = {Tool(i)} \cup refused
    BY <1>2, <1>10 DEF CountTool
  <2>2. Calls(h)' = {i}
    <3>1. {f \in {Tool(i)} \cup refused : f[1] = "tu"} = {Tool(i)}
      BY DEF Tool, Rejected
    <3>2. Calls(h)' = {e[2] : e \in {f \in out'[h] : f[1] = "tu"}}
      BY DEF Calls
    <3>3. Calls(h)' = {e[2] : e \in {Tool(i)}}
      BY <2>1, <3>1, <3>2
    <3>4. Tool(i)[2] = i
      BY DEF Tool
    <3>5. QED
      BY <3>3, <3>4
  <2>3. mem'[h].pending = Current(h).pending \cup applied
    <3>1. Current(h) \in State
      BY CurrentType
    <3>2. QED
      BY <1>2, <1>10, <3>1 DEF CountTool, State
  <2>4. job[h].edit => Calls(h)' \ Declined \subseteq mem'[h].pending
    BY <2>2, <2>3
  <2>5. Inner(h, "write") /\ \A g \in Hook \ {h} : mem'[g] = mem[g] /\ out'[g] = out[g]
    BY <1>2, <1>10 DEF CountTool
  <2>6. QED
    BY <1>1, <2>4, <2>5, EditsCounted
<1>11. ASSUME NEW h \in Hook, SettleAtStop(h) \/ SettleAtEnd(h) PROVE EditInv' /\ NoEditLost'
  <2>1. Inner(h, "write") /\ job[h].kind \in {"stop", "end"}
    BY <1>11 DEF SettleAtStop, SettleAtEnd
  <2>2. ~job[h].edit
    BY <1>2, <2>1 DEF Job, Tools, Others
  <2>3. \A g \in Hook \ {h} : mem'[g] = mem[g] /\ out'[g] = out[g]
    BY <1>2, <1>11 DEF SettleAtStop, SettleAtEnd
  <2>4. QED
    BY <1>1, <2>1, <2>2, <2>3, EditsCounted
<1>12. ASSUME NEW h \in Hook, WriteBack(h) PROVE EditInv' /\ NoEditLost'
  <2>1. /\ at[h] = "write" /\ at' = [at EXCEPT ![h] = "release"] /\ wrote' = wrote \cup {h}
        /\ job' = job /\ out' = out
    BY <1>12 DEF WriteBack, Go
  <2>2. file' # NoFile /\ file'.pending = mem[h].pending
    <3>1. file' = [mem[h] EXCEPT !.seen = Capped(@)]
      BY <1>12 DEF WriteBack
    <3>2. file' \in State
      BY <1>2, <3>1, CappedType DEF State
    <3>3. QED
      BY <1>2, <3>1, <3>2, SessionAssumption DEF State
  <2>3. \A g \in Hook : Calls(g)' = Calls(g)
    BY <2>1 DEF Calls
  <2>4. EditInv'
    <3>1. \A g \in wrote' : at'[g] \in Past
      BY <1>2, <1>3, <2>1 DEF Past
    <3>2. \A g \in Hook : at'[g] = "write" => at[g] = "write" /\ mem'[g] = mem[g]
      BY <1>2, <1>12, <2>1 DEF WriteBack, Forget
    <3>3. QED
      BY <2>1, <2>3, <3>1, <3>2 DEF EditInv, Past
  <2>5. ASSUME Whole', NEW g \in wrote', NEW i \in Calls(g) \ Declined, job[g].edit
        PROVE  i \in mem[h].pending \/ \E k \in wrote' : Accepted(i) \in out[k]
    <3>1. CASE g = h
      BY <2>1, <2>5, <3>1 DEF EditInv
    <3>2. CASE g \in wrote
      <4>1. \/ file # NoFile /\ i \in file.pending
            \/ \E k \in wrote : Accepted(i) \in out[k]
        BY <1>1, <2>5, <3>2 DEF NoEditLost
      <4>2. file # NoFile => Extends(file, mem[h], out[h])
        BY <1>1, <2>1, <2>5 DEF WriteInv
      <4>3. QED
        BY <2>1, <4>1, <4>2 DEF Extends
    <3>3. QED
      BY <2>1, <2>5, <3>1, <3>2
  <2>6. NoEditLost'
    BY <1>2, <2>1, <2>2, <2>3, <2>5 DEF NoEditLost
  <2>7. QED
    BY <2>4, <2>6
<1>13. ASSUME NEW h \in Hook, Leave(h) \/ HandOver(h) PROVE EditInv' /\ NoEditLost'
  BY <1>1, <1>2, <1>3, <1>13, EditsKept DEF Leave, HandOver, Go, Past
<1>14. ASSUME NEW h \in Hook, WaitForLock(h) PROVE EditInv' /\ NoEditLost'
  BY <1>1, <1>3, <1>14, EditsKept DEF WaitForLock, hookVars
<1>15. ASSUME NEW h \in Hook, Kill(h) PROVE EditInv' /\ NoEditLost'
  BY <1>1, <1>2, <1>3, <1>15, EditsKept DEF Kill, Forget, Past
<1>16. CASE RetryFallsDue
  <2>1. Held(file) \subseteq Held(file')
    BY <1>16, SessionAssumption DEF RetryFallsDue, HookTypeOK, State, Held
  <2>2. QED
    BY <1>1, <1>3, <1>16, <2>1, EditsKept DEF RetryFallsDue
<1>17. CASE Over \/ UNCHANGED vars
  BY <1>1, <1>3, <1>17, EditsKept DEF Over, vars, hookVars
<1> QED
  BY <1>4, <1>5, <1>7, <1>8, <1>9, <1>10, <1>11, <1>12, <1>13, <1>14, <1>15, <1>16, <1>17
  DEF Next, Step

LEMMA EditsAreKept == Spec => [](EditInv /\ NoEditLost)
<1>1. Init => EditInv /\ NoEditLost
  BY DEF Init, EditInv, NoEditLost
<1>2. TypeOK /\ WriteInv /\ EditInv /\ NoEditLost /\ [Next]_vars => EditInv' /\ NoEditLost'
  BY EditStep DEF TypeOK
<1>3. QED
  BY <1>1, <1>2, HookType, HookWrites, PTL DEF Spec

(* No edit whose hook recorded it is lost (hooks.rs:165, 582-602).          *)
THEOREM HookKeepsEdits == Spec => []NoEditLost
  BY EditsAreKept, PTL
-----------------------------------------------------------------------------
(* Nothing is counted twice                                                *)

\* What the file records, none counting as an empty record.
Rec(f) == IF f = NoFile THEN Inert ELSE f
Blank  == Recorded(NoFile)

\* What s records of an event that has been handed over: that it happened.
Known(s, e) ==
    \/ e = End \/ \E i \in Use : e = Rejected(i)
    \/ \E i \in Id : e = Tool(i) /\ Tool(i) \in ToSet(s.seen)
    \/ \E i \in Id : e = Accepted(i) /\ Tool(i) \in ToSet(s.seen) /\ i \notin s.pending
    \/ \E n \in Nat : e = Turn(n) /\ n <= s.turn

\* No id is remembered twice, and the call of every pending edit is.
Tidy(s) == IsInjective(s.seen) /\ \A i \in s.pending : Tool(i) \in ToSet(s.seen)

Repeatable == {End} \cup {Rejected(i) : i \in Use}
Apart(g, h) == out[g] \cap out[h] \subseteq Repeatable

(* The record never becomes empty again, so that a hook which finds no file *)
(* under the lock goes on with an empty record too.                         *)
BlankInv ==
    /\ Whole /\ Recorded(file) = Blank =>
         \A h \in Hook : at[h] \in {"claim", "finish", "locked"} => Recorded(mem[h]) = Blank
    /\ \A h \in Hook : at[h] = "write" => Recorded(mem[h]) # Blank

(* Hooks hand over what they wrote that they had extracted.                 *)
HandInv ==
    /\ put \subseteq wrote
    /\ \A h \in Hook : at[h] \in {"release", "enqueue"} /\ out[h] # {} => h \in wrote
    /\ \A h \in Hook : at[h] = "enqueue" => out[h] # {}
    /\ \A h \in Hook : at[h] \in {"idle", "ensure", "claim", "shake", "finish", "locked"} => out[h] = {}

(* Every hook has the file remember finitely many ids.                      *)
FiniteInv == \A h \in Hook : IsFiniteSet(out[h] \cap Key)

Few == Cardinality(Remembered) <= MaxSeen

(* What CountedOnce needs to be inductive: the file and what a hook is      *)
(* about to write know of every event that was written, and what the hook   *)
(* adds was not known before.                                               *)
OnceInv ==
  Whole /\ Few =>
    /\ Tidy(Rec(file)) /\ ToSet(Rec(file).seen) \subseteq Remembered
    /\ \A g \in wrote : \A e \in out[g] : Known(Rec(file), e)
    /\ \A h \in Hook : at[h] = "write" =>
         /\ Tidy(mem[h]) /\ ToSet(mem[h].seen) \subseteq Remembered \cup (out[h] \cap Key)
         /\ \A g \in wrote \cup {h} : \A e \in out[g] : Known(mem[h], e)
         /\ \A g \in wrote : Apart(g, h)
    /\ \A g, h \in wrote : g # h => Apart(g, h)

(* The events by their names.                                               *)
LEMMA EventNames ==
  \A i, j : /\ Tool(i) = Tool(j) => i = j
            /\ Accepted(i) = Accepted(j) => i = j
            /\ Turn(i) = Turn(j) => i = j
            /\ Tool(i) # Accepted(j) /\ Tool(i) # Rejected(j) /\ Tool(i) # Turn(j) /\ Tool(i) # End
            /\ Accepted(i) # Rejected(j) /\ Accepted(i) # Turn(j) /\ Accepted(i) # End
            /\ Turn(i) # Rejected(j) /\ Turn(i) # End
            /\ Accepted(i) \notin Key /\ Turn(i) \notin Key /\ End \notin Key
  BY DEF Tool, Accepted, Rejected, Turn, End, Key

(* What it takes to know an event.                                          *)
LEMMA KnownEvents ==
  ASSUME NEW s
  PROVE  /\ \A e \in Repeatable : Known(s, e)
         /\ \A i \in Id : Known(s, Tool(i)) <=> Tool(i) \in ToSet(s.seen)
         /\ \A i \in Id : Known(s, Accepted(i)) <=> Tool(i) \in ToSet(s.seen) /\ i \notin s.pending
         /\ \A n \in Nat : Known(s, Turn(n)) <=> n <= s.turn
<1>1. \A e \in Repeatable : Known(s, e)
  BY DEF Known, Repeatable
<1>2. ASSUME NEW i \in Id PROVE Known(s, Tool(i)) <=> Tool(i) \in ToSet(s.seen)
  <2>1. /\ \A j : Tool(i) = Tool(j) => i = j
        /\ \A j : Tool(i) # Accepted(j) /\ Tool(i) # Rejected(j) /\ Tool(i) # Turn(j)
        /\ Tool(i) # End
    BY EventNames
  <2>2. QED
    BY <2>1 DEF Known
<1>3. ASSUME NEW i \in Id
      PROVE  Known(s, Accepted(i)) <=> Tool(i) \in ToSet(s.seen) /\ i \notin s.pending
  <2>1. /\ \A j : Accepted(i) = Accepted(j) => i = j
        /\ \A j : Tool(j) # Accepted(i) /\ Accepted(i) # Rejected(j) /\ Accepted(i) # Turn(j)
        /\ Accepted(i) # End
    BY EventNames
  <2>2. QED
    BY <2>1 DEF Known
<1>4. ASSUME NEW n \in Nat PROVE Known(s, Turn(n)) <=> n <= s.turn
  <2>1. /\ \A j : Turn(n) = Turn(j) => n = j
        /\ \A j : Tool(j) # Turn(n) /\ Turn(n) # Rejected(j) /\ Accepted(j) # Turn(n)
        /\ Turn(n) # End
    BY EventNames
  <2>2. QED
    BY <2>1 DEF Known
<1>5. QED
  BY <1>1, <1>2, <1>3, <1>4

(* Equal records know the same.                                             *)
LEMMA SameRecord ==
  ASSUME NEW f, NEW g, Recorded(f) = Recorded(g)
  PROVE  /\ Rec(f).seen = Rec(g).seen /\ Rec(f).pending = Rec(g).pending /\ Rec(f).turn = Rec(g).turn
         /\ Tidy(Rec(f)) <=> Tidy(Rec(g))
         /\ \A e : Known(Rec(f), e) <=> Known(Rec(g), e)
<1>1. Rec(f).seen = Rec(g).seen /\ Rec(f).pending = Rec(g).pending /\ Rec(f).turn = Rec(g).turn
  BY DEF Recorded, Rec
<1>2. QED
  BY <1>1 DEF Known, Tidy

(* Counting a call that was not seen keeps what was known, and adds it.     *)
LEMMA CountKnows ==
  ASSUME NEW s \in State, Tidy(s), NEW n \in Nat, NEW i \in Id, Tool(i) \notin ToSet(s.seen),
         NEW P \in SUBSET {i}
  PROVE  LET t == Count(s, n, Tool(i), P)
         IN  /\ Tidy(t) /\ ToSet(t.seen) = ToSet(s.seen) \cup {Tool(i)}
             /\ \A e : Known(s, e) => Known(t, e)
             /\ Known(t, Tool(i)) /\ ~Known(s, Tool(i))
<1> DEFINE t == Count(s, n, Tool(i), P)
<1>1. s.seen \in Seq(Key) /\ Tool(i) \in Key
  BY DEF State, Tool, Key
<1>2. t.seen = Append(s.seen, Tool(i)) /\ t.pending = s.pending \cup P /\ t.turn = s.turn
  BY DEF Count, State
<1> HIDE DEF t
<1>3. ToSet(t.seen) = ToSet(s.seen) \cup {Tool(i)}
  BY <1>1, <1>2, ElementsOfAppend
<1>4. IsInjective(t.seen)
  BY <1>1, <1>2, InjectiveAppend DEF Tidy
<1>5. Tidy(t)
  BY <1>2, <1>3, <1>4 DEF Tidy
<1>6. ASSUME NEW e, Known(s, e) PROVE Known(t, e)
  BY <1>2, <1>3, <1>6 DEF Known
<1>7. Known(t, Tool(i)) /\ ~Known(s, Tool(i))
  BY <1>3, KnownEvents
<1>8. QED
  BY <1>3, <1>5, <1>6, <1>7 DEF t

(* So does settling a turn, with ids from a sweep that were not remembered; *)
(* the edits it decides and the turn are new.                               *)
LEMMA SettleKnows ==
  ASSUME NEW s \in State, Tidy(s), NEW q \in Seq(Key), IsInjective(q), ToSet(q) \cap ToSet(s.seen) = {},
         NEW t \in State, t.seen = s.seen \o q, t.pending = {}, t.turn = s.turn + 1
  PROVE  /\ Tidy(t) /\ ToSet(t.seen) = ToSet(s.seen) \cup ToSet(q)
         /\ \A e : Known(s, e) => Known(t, e)
         /\ \A e \in EditEvents(s) \cup TurnEvent(s) : Known(t, e) /\ ~Known(s, e)
<1>1. s.seen \in Seq(Key) /\ s.turn \in Nat /\ s.pending \subseteq Id
  BY DEF State
<1>2. ToSet(t.seen) = ToSet(s.seen) \cup ToSet(q)
  BY <1>1, ElementsOfConcat
<1>3. Tidy(t)
  BY <1>1, InjectiveConcat DEF Tidy
<1>4. ASSUME NEW e, Known(s, e) PROVE Known(t, e)
  BY <1>1, <1>2, <1>4 DEF Known
<1>5. ASSUME NEW e \in EditEvents(s) PROVE Known(t, e) /\ ~Known(s, e)
  <2>1. PICK i \in s.pending : e = Accepted(i)
    BY DEF EditEvents
  <2>2. i \in Id /\ Tool(i) \in ToSet(t.seen)
    BY <1>1, <1>2 DEF Tidy
  <2>3. QED
    BY <2>1, <2>2, KnownEvents
<1>6. ASSUME NEW e \in TurnEvent(s) PROVE Known(t, e) /\ ~Known(s, e)
  <2>1. e = Turn(s.turn + 1)
    BY DEF TurnEvent
  <2>2. s.turn + 1 \in Nat /\ s.turn + 1 <= t.turn /\ ~(s.turn + 1 <= s.turn)
    BY <1>1
  <2>3. QED
    BY <2>1, <2>2, KnownEvents
<1>7. QED
  BY <1>2, <1>3, <1>4, <1>5, <1>6

Early == {"idle", "ensure", "claim", "shake", "finish", "locked"}
Loose == {"claim", "finish", "locked"}

\* A step that leaves alone what hooks extracted and wrote, and what the file
\* records, or else breaks the record.
Aside ==
    /\ out' = out /\ wrote' = wrote
    /\ Whole' => Recorded(file') = Recorded(file)
    /\ put' \subseteq put \cup {h \in Hook : at[h] = "enqueue"}
    /\ \A h \in Hook :
         /\ at'[h] = "write" => at[h] = "write" /\ mem'[h] = mem[h]
         /\ at'[h] \in Loose => \/ Recorded(mem'[h]) \in {Blank, Recorded(file)}
                                \/ at[h] \in Loose /\ Recorded(mem'[h]) = Recorded(mem[h])
         /\ at'[h] \in {"release", "enqueue"} => at[h] \in {"release", "enqueue", "locked"}
         /\ at'[h] = "enqueue" => at[h] = "enqueue" \/ out[h] # {}
         /\ at'[h] \in Early => at[h] \in Early

LEMMA UnlockedIsAside == ASSUME NEW s, WriteUnlocked(s), Whole' PROVE Recorded(file') = Recorded(file)
  BY DEF WriteUnlocked, Whole

LEMMA AsideSteps ==
  ASSUME HookTypeOK, [Next]_vars
  PROVE  Aside \/ \E h \in Hook : CountTool(h) \/ SettleAtStop(h) \/ SettleAtEnd(h) \/ WriteBack(h)
<1>1. at \in [Hook -> Places] /\ mem \in [Hook -> State] /\ file \in State \cup {NoFile}
  BY DEF HookTypeOK
<1>2. {Recorded(Live), Recorded(Inert), Recorded(Retry)} = {Blank}
  BY BaseStates, SessionAssumption DEF Recorded, Live, Inert, Retry, Base, Blank
<1>3. \A h \in Hook : at[h] \in Places
  BY <1>1
<1> USE DEF Go, Early, Loose
<1>4. ASSUME NEW h \in Hook, NEW j \in Job, Fire(h, j) PROVE Aside
  BY <1>1, <1>4 DEF Fire, Aside
<1>5. ASSUME NEW h \in Hook, FindNoSession(h) \/ FindInert(h) PROVE Aside
  BY <1>1, <1>5 DEF FindNoSession, FindInert, FindSession, AfterInert, Aside
<1>6. ASSUME NEW h \in Hook, FindDue(h) \/ FindLive(h) PROVE Aside
  BY <1>1, <1>6 DEF FindDue, FindLive, FindSession, Aside
<1>7. ASSUME NEW h \in Hook, ClaimRetry(h) PROVE Aside
  <2>1. Whole' => Recorded(file') = Recorded(file)
    BY <1>7, UnlockedIsAside DEF ClaimRetry
  <2>2. QED
    BY <1>1, <1>7, <2>1 DEF ClaimRetry, Aside
<1>8. ASSUME NEW h \in Hook, Handshake(h) PROVE Aside
  BY <1>1, <1>2, <1>8 DEF Handshake, Aside
<1>9. ASSUME NEW h \in Hook, FinishStart(h) \/ FinishInert(h) \/ FinishLive(h) PROVE Aside
  <2>1. Whole' => Recorded(file') = Recorded(file)
    BY <1>9, UnlockedIsAside DEF FinishStart, FinishInert, FinishLive, Finish
  <2>2. QED
    BY <1>1, <1>9, <2>1 DEF FinishStart, FinishInert, FinishLive, Finish, Forget, AfterInert, Aside
<1>10. ASSUME NEW h \in Hook, SkipSeen(h) PROVE Aside
  BY <1>1, <1>10 DEF SkipSeen, Inner, Forget, Aside
<1>11. ASSUME NEW h \in Hook, Leave(h) \/ HandOver(h) PROVE Aside
  BY <1>1, <1>11 DEF Leave, HandOver, Aside
<1>12. ASSUME NEW h \in Hook, ClearSession(h) PROVE Aside
  <2>1. Whole' => Recorded(file') = Recorded(file)
    BY <1>12, UnlockedIsAside DEF ClearSession
  <2>2. QED
    BY <1>1, <1>12, <2>1 DEF ClearSession, Aside
<1>13. ASSUME NEW h \in Hook, WaitForLock(h) PROVE Aside
  BY <1>13 DEF WaitForLock, hookVars, Aside
<1>14. ASSUME NEW h \in Hook, Kill(h) PROVE Aside
  BY <1>1, <1>14 DEF Kill, Forget, Aside
<1>15. CASE RetryFallsDue
  <2>1. file' = [file EXCEPT !.retry = "due"] /\ file # NoFile /\ file \in State
    BY <1>1, <1>15 DEF RetryFallsDue
  <2>2. file' \in State
    BY <2>1 DEF State
  <2>3. Recorded(file') = Recorded(file)
    BY <2>1, <2>2, SessionAssumption DEF Recorded, State
  <2>4. QED
    BY <1>15, <2>3 DEF RetryFallsDue, Aside
<1>16. CASE Over \/ UNCHANGED vars
  BY <1>16 DEF Over, vars, hookVars, Aside
<1>17. QED
  BY <1>4, <1>5, <1>6, <1>7, <1>8, <1>9, <1>10, <1>11, <1>12, <1>13, <1>14, <1>15, <1>16 DEF Next, Step

(* The work under the lock begins with the record in the file.              *)
LEMMA LockedRecord ==
  ASSUME HookTypeOK, BlankInv, Whole, NEW h \in Hook, at[h] = "locked"
  PROVE  Current(h) \in State /\ Recorded(Current(h)) = Recorded(file)
                              /\ Rec(Current(h)) = Current(h)
<1>1. Current(h) \in State
  BY CurrentType
<1>2. Recorded(Current(h)) = Recorded(file)
  BY DEF BlankInv, Current, Blank
<1>3. QED
  BY <1>1, <1>2, SessionAssumption DEF Rec

\* h has read the file under the lock and goes on to write what it made of it.
Works(h) ==
    /\ Inner(h, "write")
    /\ \A g \in Hook \ {h} : mem'[g] = mem[g] /\ out'[g] = out[g]

LEMMA WorksChanges ==
  ASSUME HookTypeOK, NEW h \in Hook, Works(h)
  PROVE  /\ at[h] = "locked" /\ at'[h] = "write" /\ \A g \in Hook \ {h} : at'[g] = at[g]
         /\ UNCHANGED <<file, wrote, put, reset>>
  BY DEF Works, Inner, Go, HookTypeOK

LEMMA LockedWorks ==
  ASSUME HookTypeOK, NEW h \in Hook, CountTool(h) \/ SettleAtStop(h) \/ SettleAtEnd(h)
  PROVE  Works(h)
<1>1. mem \in [Hook -> State] /\ out \in [Hook -> SUBSET Event]
  BY DEF HookTypeOK
<1>2. CASE CountTool(h)
  BY <1>1, <1>2 DEF CountTool, Works
<1>3. CASE SettleAtStop(h)
  BY <1>1, <1>3 DEF SettleAtStop, Works
<1>4. CASE SettleAtEnd(h)
  BY <1>1, <1>4 DEF SettleAtEnd, Works
<1>5. QED
  BY <1>2, <1>3, <1>4

(* What each kind of work knows: all that the file knew, and its events,    *)
(* which the file did not know.                                             *)
Advances(s, t, events) ==
    /\ Tidy(t) /\ ToSet(t.seen) \subseteq ToSet(s.seen) \cup (events \cap Key)
    /\ \A e : Known(s, e) => Known(t, e)
    /\ \A e \in events : Known(t, e) /\ (Known(s, e) => e \in Repeatable)

LEMMA CountAdvances ==
  ASSUME HookTypeOK, NEW h \in Hook, CountTool(h)
  PROVE  /\ IsFiniteSet(out'[h] \cap Key) /\ out'[h] # {}
         /\ Tidy(Current(h)) => Advances(Current(h), mem'[h], out'[h])
<1> DEFINE s       == Current(h)
           i       == CallId(h)
           n       == IF job[h].id = NoUse THEN i ELSE s.seq
           applied == IF job[h].edit /\ i \notin Declined THEN {i} ELSE {}
           refused == IF job[h].edit /\ i \in Declined THEN {Rejected(i)} ELSE {}
<1>1. s \in State /\ i \in Id /\ Tool(i) \notin ToSet(s.seen) /\ applied \in SUBSET {i}
  BY CurrentType DEF CountTool
<1>2. n \in Nat
  BY <1>1 DEF CallId, State
<1>3. mem'[h] = Count(s, n, Tool(i), applied)
  BY <1>1 DEF HookTypeOK, CountTool, Count, State
<1>4. out'[h] = {Tool(i)} \cup refused
  BY DEF HookTypeOK, CountTool
<1>5. Tool(i) \in Key
  BY <1>1 DEF Tool, Key
<1>6. refused \subseteq Repeatable
  BY SessionAssumption DEF Repeatable
<1>7. IsFiniteSet(out'[h] \cap Key)
  <2>1. IsFiniteSet({Tool(i)}) /\ IsFiniteSet(refused)
    BY FS_Singleton, FS_EmptySet
  <2>2. IsFiniteSet(out'[h])
    BY <1>4, <2>1, FS_Union
  <2>3. QED
    BY <2>2, FS_Intersection
<1>8. ASSUME Tidy(s) PROVE Advances(s, mem'[h], out'[h])
  <2> HIDE DEF s, i, n, applied, refused
  <2>1. /\ Tidy(mem'[h]) /\ ToSet(mem'[h].seen) = ToSet(s.seen) \cup {Tool(i)}
        /\ \A e : Known(s, e) => Known(mem'[h], e)
        /\ Known(mem'[h], Tool(i)) /\ ~Known(s, Tool(i))

    BY <1>1, <1>2, <1>3, <1>8, CountKnows
  <2>2. \A e \in refused : Known(mem'[h], e)
    BY <1>6, KnownEvents
  <2>3. QED
    BY <1>4, <1>5, <1>6, <2>1, <2>2 DEF Advances
<1>9. QED
  BY <1>4, <1>7, <1>8

LEMMA StopAdvances ==
  ASSUME HookTypeOK, NEW h \in Hook, SettleAtStop(h)
  PROVE  /\ IsFiniteSet(out'[h] \cap Key)
         /\ Tidy(Current(h)) => Advances(Current(h), mem'[h], out'[h])
<1> DEFINE s   == Current(h)
           new == {Rejected(i) : i \in Declined \ s.swept} \ ToSet(s.seen)
<1>1. s \in State /\ s.seen \in Seq(Key)
  BY CurrentType DEF State
<1>2. PICK q \in [1 .. Cardinality(new) -> new] :
        /\ new \subseteq ToSet(q)
        /\ mem' = [mem EXCEPT ![h] = SettleTurn(Sweep(s, q))]
        /\ out' = [out EXCEPT ![h] = EditEvents(s) \cup new \cup TurnEvent(s)]
  BY DEF SettleAtStop
<1>3. new \subseteq Key /\ new \subseteq Repeatable
  BY SessionAssumption DEF Key, Rejected, Repeatable
<1>4. IsFiniteSet(new)
  BY NewFinite
<1>5. q \in Seq(Key) /\ IsInjective(q) /\ ToSet(q) = new
  <2> HIDE DEF new
  <2>1. q \in Seq(new) /\ IsInjective(q) /\ ToSet(q) = new
    BY <1>2, <1>4, ListingInjective
  <2>2. QED
    BY <1>3, <2>1, SeqMonotonic
<1>6. /\ mem'[h] = SettleTurn(Sweep(s, q))
      /\ out'[h] = EditEvents(s) \cup new \cup TurnEvent(s)
  BY <1>2 DEF HookTypeOK
<1>7. (EditEvents(s) \cup TurnEvent(s)) \cap Key = {}
  <2> HIDE DEF s
  <2>1. \A i : Accepted(i) \notin Key /\ Turn(i) \notin Key
    BY EventNames
  <2>2. QED
    BY <2>1 DEF EditEvents, TurnEvent
<1>8. IsFiniteSet(out'[h] \cap Key)
  <2>1. out'[h] \cap Key = new
    BY <1>3, <1>6, <1>7
  <2>2. QED
    BY <1>4, <2>1
<1>9. ASSUME Tidy(s) PROVE Advances(s, mem'[h], out'[h])
  <2>1. ToSet(q) \cap ToSet(s.seen) = {}
    BY <1>5
  <2> HIDE DEF s, new
  <2>2. mem'[h] \in State /\ mem'[h].seen = s.seen \o q /\ mem'[h].pending = {} /\ mem'[h].turn = s.turn + 1
    <3> DEFINE swept == Sweep(s, q)
    <3>1. swept \in State
      BY <1>1, <1>5, SettledType
    <3>2. swept.seen = s.seen \o q /\ swept.turn = s.turn
      BY <1>1 DEF Sweep, State
    <3> HIDE DEF swept
    <3>3. SettleTurn(swept) \in State
      BY <1>5, <3>1, SettledType
    <3>4. /\ SettleTurn(swept).seen = swept.seen /\ SettleTurn(swept).pending = {}
          /\ SettleTurn(swept).turn = swept.turn + 1
      BY <3>1 DEF SettleTurn, State
    <3>5. mem'[h] = SettleTurn(swept)
      BY <1>6 DEF swept
    <3>6. QED
      BY <3>2, <3>3, <3>4, <3>5
  <2>3. /\ Tidy(mem'[h]) /\ ToSet(mem'[h].seen) = ToSet(s.seen) \cup new
        /\ \A e : Known(s, e) => Known(mem'[h], e)
        /\ \A e \in EditEvents(s) \cup TurnEvent(s) : Known(mem'[h], e) /\ ~Known(s, e)

    BY <1>1, <1>5, <1>9, <2>1, <2>2, SettleKnows
  <2>4. \A e \in new : Known(mem'[h], e)
    BY <1>3, KnownEvents
  <2>5. QED
    BY <1>3, <1>6, <2>3, <2>4 DEF Advances
<1>10. QED
  BY <1>8, <1>9

LEMMA EndAdvances ==
  ASSUME HookTypeOK, NEW h \in Hook, SettleAtEnd(h)
  PROVE  /\ IsFiniteSet(out'[h] \cap Key)
         /\ Tidy(Current(h)) => Advances(Current(h), mem'[h], out'[h])
<1> DEFINE s == Current(h)
<1>1. s \in State /\ s.seen \in Seq(Key)
  BY CurrentType DEF State
<1>2. /\ mem'[h] = SettleTurn(s)
      /\ out'[h] = EditEvents(s) \cup TurnEvent(s) \cup {End}
  BY DEF HookTypeOK, SettleAtEnd
<1>3. out'[h] \cap Key = {}
  BY <1>2, EventNames DEF EditEvents, TurnEvent
<1>4. ASSUME Tidy(s) PROVE Advances(s, mem'[h], out'[h])
  <2>1. <<>> \in Seq(Key) /\ IsInjective(<<>>) /\ ToSet(<<>>) = {} /\ s.seen \o <<>> = s.seen
    BY <1>1, EmptySeq, ConcatEmptySeq DEF IsInjective, ToSet
  <2>2. PICK q \in Seq(Key) : IsInjective(q) /\ ToSet(q) = {} /\ s.seen \o q = s.seen
    BY <2>1
  <2>3. mem'[h] \in State /\ mem'[h].seen = s.seen \o q /\ mem'[h].pending = {} /\ mem'[h].turn = s.turn + 1
    BY <1>1, <1>2, <2>2, SettledType DEF SettleTurn, State
  <2> HIDE DEF s
  <2>4. ToSet(q) \cap ToSet(s.seen) = {}
    BY <2>2
  <2>5. /\ Tidy(mem'[h]) /\ ToSet(mem'[h].seen) = ToSet(s.seen) \cup ToSet(q)
        /\ \A e : Known(s, e) => Known(mem'[h], e)
        /\ \A e \in EditEvents(s) \cup TurnEvent(s) : Known(mem'[h], e) /\ ~Known(s, e)

    BY <1>1, <1>4, <2>2, <2>3, <2>4, SettleKnows
  <2>6. End \in Repeatable /\ Known(mem'[h], End)
    BY KnownEvents DEF Repeatable
  <2>7. QED
    BY <1>2, <2>2, <2>5, <2>6 DEF Advances
<1>5. QED
  BY <1>3, <1>4, FS_EmptySet

(* Whatever the work was, the record is not empty after it.                 *)
LEMMA WorkRecords ==
  ASSUME HookTypeOK, HookTypeOK', NEW h \in Hook, CountTool(h) \/ SettleAtStop(h) \/ SettleAtEnd(h)
  PROVE  Recorded(mem'[h]) # Blank
<1> DEFINE s == Current(h)
<1>1. Blank[2] = 0 /\ Blank[3] = <<>>
  BY DEF Blank, Recorded, Inert, Base
<1>2. ASSUME NEW t \in State, t.turn # 0 \/ t.seen # <<>> PROVE Recorded(t) # Blank
  <2>1. Recorded(t)[2] = t.turn /\ Recorded(t)[3] = t.seen
    BY SessionAssumption DEF Recorded
  <2>2. QED
    BY <1>1, <1>2, <2>1
<1>3. mem'[h] \in State
  BY DEF HookTypeOK
<1>4. s \in State
  BY CurrentType
<1>5. s.turn + 1 # 0 /\ s.seen \in Seq(Key)
  BY <1>4 DEF State
<1>6. CASE CountTool(h)
  <2>1. mem'[h].seen = Append(s.seen, Tool(CallId(h)))
    BY <1>4, <1>6 DEF CountTool, HookTypeOK, State
  <2>2. Append(s.seen, Tool(CallId(h))) # <<>>
    BY <1>5
  <2>3. QED
    BY <1>2, <1>3, <2>1, <2>2
<1>7. CASE SettleAtStop(h) \/ SettleAtEnd(h)
  <2>1. mem'[h] = SettleTurn(s) \/ \E q : mem'[h] = SettleTurn(Sweep(s, q))
    BY <1>7 DEF SettleAtStop, SettleAtEnd, HookTypeOK
  <2>2. mem'[h].turn = s.turn + 1
    BY <1>4, <2>1 DEF SettleTurn, Sweep, State
  <2>3. QED
    BY <1>2, <1>3, <1>5, <2>2
<1>8. QED
  BY <1>6, <1>7

(* The newest ids of a list with room for all are all of them, and there    *)
(* are none only when the list has none.                                    *)
LEMMA CappedList ==
  ASSUME NEW s \in Seq(Key)
  PROVE  /\ Len(s) <= MaxSeen => Capped(s) = s
         /\ Capped(s) = <<>> => s = <<>>
<1>1. Len(s) \in Nat /\ MaxSeen \in Nat \ {0}
  BY SessionAssumption
<1>2. CASE Len(s) <= MaxSeen
  <2>1. ~(Len(s) > MaxSeen)
    BY <1>1, <1>2
  <2>2. Capped(s) = SubSeq(s, 1, Len(s))
    BY <2>1, Zenon DEF Capped
  <2>3. QED
    BY <2>2, SubSeqFull
<1>3. CASE Len(s) > MaxSeen
  <2> DEFINE m == Len(s) - MaxSeen + 1
  <2>1. Capped(s) = SubSeq(s, m, Len(s))
    BY <1>3 DEF Capped
  <2>2. m \in 1 .. Len(s) + 1 /\ m <= Len(s)
    BY <1>1, <1>3
  <2>3. Len(SubSeq(s, m, Len(s))) = Len(s) - m + 1
    BY <1>1, <2>2, SubSeqProperties
  <2>4. Len(Capped(s)) # 0
    BY <1>1, <2>1, <2>2, <2>3
  <2>5. QED
    BY <1>1, <1>3, <2>4
<1>4. QED
  BY <1>1, <1>2, <1>3

LEMMA CappedKeepsRecord ==
  ASSUME NEW s \in State, Recorded(s) # Blank
  PROVE  Recorded([s EXCEPT !.seen = Capped(@)]) # Blank
<1> DEFINE t == [s EXCEPT !.seen = Capped(@)]
<1>1. s.seen \in Seq(Key) /\ Capped(s.seen) \in Seq(Key)
  BY CappedType DEF State
<1>2. t \in State
  BY <1>1 DEF State
<1>3. Recorded(t) = <<s.seq, s.turn, Capped(s.seen), s.pending, s.swept>>
  BY <1>2, SessionAssumption DEF Recorded, State
<1>4. Recorded(s) = <<s.seq, s.turn, s.seen, s.pending, s.swept>>
  BY SessionAssumption DEF Recorded
<1>5. Blank = <<0, 0, <<>>, {}, {}>>
  BY DEF Blank, Recorded, Inert, Base
<1>6. Capped(s.seen) = <<>> => s.seen = <<>>
  BY <1>1, CappedList
<1>7. CASE Capped(s.seen) # <<>>
  BY <1>3, <1>5, <1>7
<1>8. CASE Capped(s.seen) = <<>>
  <2>1. s.seen = <<>> /\ Recorded(t) = Recorded(s)
    BY <1>3, <1>4, <1>6, <1>8
  <2>2. QED
    BY <2>1
<1>9. QED
  BY <1>7, <1>8

LEMMA HandStep ==
  ASSUME HookTypeOK, HandInv, [Next]_vars
  PROVE  HandInv'
<1>1. at \in [Hook -> Places] /\ out \in [Hook -> SUBSET Event]
  BY DEF HookTypeOK
<1>2. CASE Aside
  BY <1>2 DEF Aside, HandInv, Early
<1>3. ASSUME NEW h \in Hook, CountTool(h) \/ SettleAtStop(h) \/ SettleAtEnd(h) PROVE HandInv'
  <2>1. /\ at[h] = "locked" /\ at'[h] = "write" /\ wrote' = wrote /\ put' = put
        /\ \A g \in Hook \ {h} : at'[g] = at[g] /\ out'[g] = out[g]
    BY <1>3, LockedWorks, WorksChanges DEF Works
  <2>2. QED
    BY <2>1 DEF HandInv
<1>4. ASSUME NEW h \in Hook, WriteBack(h) PROVE HandInv'
  BY <1>1, <1>4 DEF WriteBack, Go, HandInv
<1>5. QED
  BY <1>2, <1>3, <1>4, AsideSteps

LEMMA FiniteStep ==
  ASSUME HookTypeOK, FiniteInv, [Next]_vars
  PROVE  FiniteInv'
<1>1. CASE Aside
  BY <1>1 DEF Aside, FiniteInv
<1>2. ASSUME NEW h \in Hook, CountTool(h) \/ SettleAtStop(h) \/ SettleAtEnd(h) PROVE FiniteInv'
  <2>1. \A g \in Hook \ {h} : out'[g] = out[g]
    BY <1>2, LockedWorks DEF Works
  <2>2. IsFiniteSet(out'[h] \cap Key)
    BY <1>2, CountAdvances, StopAdvances, EndAdvances
  <2>3. QED
    BY <2>1, <2>2 DEF FiniteInv
<1>3. ASSUME NEW h \in Hook, WriteBack(h) PROVE FiniteInv'
  BY <1>3 DEF WriteBack, FiniteInv
<1>4. QED
  BY <1>1, <1>2, <1>3, AsideSteps

LEMMA BlankStep ==
  ASSUME LockTypeOK, HookTypeOK, HookTypeOK', BlankInv, [Next]_vars
  PROVE  BlankInv'
<1>1. Whole' => Whole
  BY WholeBefore
<1>2. at \in [Hook -> Places] /\ mem \in [Hook -> State]
  BY DEF HookTypeOK
<1>3. Blank' = Blank
  BY DEF Blank, Recorded, Inert, Base
<1>4. CASE Aside
  <2>1. \A h \in Hook : at'[h] = "write" => Recorded(mem'[h]) # Blank
    BY <1>4 DEF Aside, BlankInv
  <2>2. ASSUME Whole', Recorded(file') = Blank, NEW h \in Hook, at'[h] \in Loose
        PROVE  Recorded(mem'[h]) = Blank
    <3>1. Recorded(file) = Blank /\ Whole
      BY <1>1, <1>4, <2>2 DEF Aside
    <3>2. at[h] \in Loose => Recorded(mem[h]) = Blank
      BY <3>1 DEF BlankInv, Loose
    <3>3. \/ Recorded(mem'[h]) \in {Blank, Recorded(file)}
          \/ at[h] \in Loose /\ Recorded(mem'[h]) = Recorded(mem[h])
      BY <1>4, <2>2 DEF Aside
    <3>4. QED
      BY <3>1, <3>2, <3>3
  <2>3. QED
    BY <1>3, <2>1, <2>2 DEF BlankInv, Loose
<1>5. ASSUME NEW h \in Hook, CountTool(h) \/ SettleAtStop(h) \/ SettleAtEnd(h) PROVE BlankInv'
  <2>1. /\ at[h] = "locked" /\ at'[h] = "write" /\ file' = file
        /\ \A g \in Hook \ {h} : at'[g] = at[g] /\ mem'[g] = mem[g]
    BY <1>5, LockedWorks, WorksChanges DEF Works
  <2>2. Recorded(mem'[h]) # Blank
    BY <1>5, WorkRecords
  <2>3. \A g \in Hook : at'[g] = "write" => Recorded(mem'[g]) # Blank
    BY <2>1, <2>2 DEF BlankInv
  <2>4. ASSUME Whole', Recorded(file') = Blank, NEW g \in Hook, at'[g] \in Loose
        PROVE  Recorded(mem'[g]) = Blank
    BY <1>1, <2>1, <2>4 DEF BlankInv, Loose
  <2>5. QED
    BY <1>3, <2>3, <2>4 DEF BlankInv, Loose
<1>6. ASSUME NEW h \in Hook, WriteBack(h) PROVE BlankInv'
  <2>1. /\ at[h] = "write" /\ at'[h] = "release" /\ file' = [mem[h] EXCEPT !.seen = Capped(@)]
        /\ \A g \in Hook \ {h} : at'[g] = at[g] /\ mem'[g] = mem[g]
    BY <1>2, <1>6 DEF WriteBack, Go, Forget
  <2>2. \A g \in Hook : at'[g] = "write" => Recorded(mem'[g]) # Blank
    BY <2>1 DEF BlankInv
  <2>3. Recorded(file') # Blank
    BY <1>2, <2>1, CappedKeepsRecord DEF BlankInv
  <2>4. QED
    BY <1>3, <2>2, <2>3 DEF BlankInv
<1>7. QED
  BY <1>4, <1>5, <1>6, AsideSteps

LEMMA FinitelyMany ==
  ASSUME NEW W \in SUBSET Hook, NEW f, \A h \in W : IsFiniteSet(f[h] \cap Key)
  PROVE  IsFiniteSet(UNION {f[h] \cap Key : h \in W})
<1> DEFINE part == [h \in W |-> f[h] \cap Key]
           all  == {f[h] \cap Key : h \in W}
<1>1. IsFiniteSet(W)
  BY HookAssumption, FS_Subset
<1>2. part \in Surjection(W, all)
  BY DEF Surjection
<1>3. IsFiniteSet(all)
  <2> HIDE DEF part, all
  <2> QED
    BY <1>1, <1>2, FS_Surjection
<1>4. \A T \in all : IsFiniteSet(T)
  OBVIOUS
<1>5. QED
  BY <1>3, <1>4, FS_UNION

(* The ids to be remembered are finitely many, and only grow in number.     *)
LEMMA FewBefore ==
  ASSUME HookTypeOK, FiniteInv, EditInv, HookTypeOK', FiniteInv', [Next]_vars
  PROVE  /\ IsFiniteSet(Remembered') /\ Remembered \subseteq Remembered'
         /\ Few' => Few
         /\ \A g \in wrote : g \in wrote' /\ out'[g] = out[g]
<1>1. IsFiniteSet(Remembered)
  <2>1. wrote \in SUBSET Hook /\ \A h \in wrote : IsFiniteSet(out[h] \cap Key)
    BY DEF FiniteInv, HookTypeOK
  <2>2. IsFiniteSet(UNION {out[h] \cap Key : h \in wrote})
    BY <2>1, FinitelyMany
  <2>3. QED
    BY <2>2 DEF Remembered
<1>2. IsFiniteSet(Remembered')
  <2>1. wrote' \in SUBSET Hook /\ \A h \in wrote' : IsFiniteSet(out'[h] \cap Key)
    BY DEF FiniteInv, HookTypeOK
  <2>2. IsFiniteSet(UNION {out'[h] \cap Key : h \in wrote'})
    BY <2>1, FinitelyMany
  <2>3. QED
    BY <2>2 DEF Remembered
<1>3. \A g \in wrote : g \in wrote' /\ out'[g] = out[g]
  <2>1. CASE Aside
    BY <2>1 DEF Aside
  <2>2. ASSUME NEW h \in Hook, CountTool(h) \/ SettleAtStop(h) \/ SettleAtEnd(h)
        PROVE  \A g \in wrote : g \in wrote' /\ out'[g] = out[g]
    <3>1. at[h] = "locked" /\ wrote' = wrote /\ \A g \in Hook \ {h} : out'[g] = out[g]
      BY <2>2, LockedWorks, WorksChanges DEF Works
    <3>2. QED
      BY <3>1 DEF EditInv, HookTypeOK
  <2>3. ASSUME NEW h \in Hook, WriteBack(h) PROVE \A g \in wrote : g \in wrote' /\ out'[g] = out[g]
    BY <2>3 DEF WriteBack
  <2>4. QED
    BY <2>1, <2>2, <2>3, AsideSteps
<1>4. Remembered \subseteq Remembered'
  BY <1>3 DEF Remembered
<1>5. Few' => Few
  <2>1. Cardinality(Remembered) <= Cardinality(Remembered')
    BY <1>2, <1>4, FS_Subset
  <2>2. Cardinality(Remembered) \in Nat /\ Cardinality(Remembered') \in Nat
    BY <1>1, <1>2, FS_CardinalityType
  <2>3. MaxSeen \in Nat
    BY SessionAssumption
  <2>4. QED
    BY <2>1, <2>2, <2>3 DEF Few
<1>6. QED
  BY <1>2, <1>3, <1>4, <1>5

\* The parts of OnceInv: what the file knows, and what a hook about to write does.
FileKnows  == /\ Tidy(Rec(file)) /\ ToSet(Rec(file).seen) \subseteq Remembered
              /\ \A g \in wrote : \A e \in out[g] : Known(Rec(file), e)
HookKnows(h) == /\ Tidy(mem[h]) /\ ToSet(mem[h].seen) \subseteq Remembered \cup (out[h] \cap Key)
                /\ \A g \in wrote \cup {h} : \A e \in out[g] : Known(mem[h], e)
                /\ \A g \in wrote : Apart(g, h)
WritesKnow == \A h \in Hook : at[h] = "write" => HookKnows(h)
WritesApart == \A g, h \in wrote : g # h => Apart(g, h)

LEMMA OnceParts == OnceInv <=> (Whole /\ Few => FileKnows /\ WritesKnow /\ WritesApart)
  BY DEF OnceInv, FileKnows, WritesKnow, HookKnows, WritesApart

(* A hook that works on what the file records adds what nobody wrote.       *)
LEMMA OnceWork ==
  ASSUME LockTypeOK, HookTypeOK, InsideOwnsLock, BlankInv, EditInv, Whole, FileKnows, WritesApart,
         NEW h \in Hook, CountTool(h) \/ SettleAtStop(h) \/ SettleAtEnd(h)
  PROVE  FileKnows' /\ WritesKnow' /\ WritesApart'
<1>1. /\ at[h] = "locked" /\ at'[h] = "write" /\ \A g \in Hook \ {h} : at'[g] = at[g] /\ out'[g] = out[g]
      /\ file' = file /\ wrote' = wrote /\ pc[h] = "inside"
  BY LockedWorks, WorksChanges DEF Works, Inner
<1>2. wrote \subseteq Hook \ {h}
  BY <1>1 DEF EditInv, HookTypeOK
<1>3. \A g \in wrote : out'[g] = out[g]
  BY <1>1, <1>2
<1>4. Remembered' = Remembered
  BY <1>1, <1>3 DEF Remembered
<1>5. FileKnows'
  <2>1. Rec(file)' = Rec(file)
    BY <1>1 DEF Rec, Inert, Base
  <2>2. QED
    BY <1>1, <1>3, <1>4, <2>1 DEF FileKnows, Tidy, Known
<1>6. WritesApart'
  BY <1>1, <1>3 DEF WritesApart, Apart
<1>7. /\ Current(h) \in State /\ Recorded(Current(h)) = Recorded(file) /\ Rec(Current(h)) = Current(h)
  BY <1>1, LockedRecord
<1>8. /\ Current(h).seen = Rec(file).seen /\ Tidy(Current(h))
      /\ \A e : Known(Current(h), e) <=> Known(Rec(file), e)
  <2>1. /\ Rec(Current(h)).seen = Rec(file).seen /\ Tidy(Rec(Current(h))) <=> Tidy(Rec(file))
        /\ \A e : Known(Rec(Current(h)), e) <=> Known(Rec(file), e)
    BY <1>7, SameRecord
  <2>2. QED
    BY <1>7, <2>1 DEF FileKnows
<1>9. Advances(Current(h), mem'[h], out'[h])
  BY <1>8, CountAdvances, StopAdvances, EndAdvances
<1>10. HookKnows(h)'
  <2>1. Tidy(mem'[h]) /\ ToSet(mem'[h].seen) \subseteq Remembered \cup (out'[h] \cap Key)
    BY <1>8, <1>9 DEF Advances, FileKnows
  <2>2. \A g \in wrote : \A e \in out[g] : Known(mem'[h], e)
    BY <1>8, <1>9 DEF Advances, FileKnows
  <2>3. \A e \in out'[h] : Known(mem'[h], e)
    BY <1>9 DEF Advances
  <2>4. ASSUME NEW g \in wrote, NEW e, e \in out[g], e \in out'[h] PROVE e \in Repeatable
    BY <1>8, <1>9, <2>4 DEF Advances, FileKnows
  <2>5. QED
    BY <1>1, <1>3, <1>4, <2>1, <2>2, <2>3, <2>4 DEF HookKnows, Apart, Tidy, Known, Repeatable
<1>11. ASSUME NEW g \in Hook, at'[g] = "write" PROVE g = h
  <2>1. g # h => at[g] = "write" /\ pc[g] = "inside"
    BY <1>1, <1>11 DEF HookTypeOK, PlacesInLock
  <2>2. g # h => g \in Inside /\ h \in Inside
    BY <1>1, <2>1 DEF Inside
  <2>3. QED
    BY <2>2 DEF InsideOwnsLock, Whole
<1>12. WritesKnow'
  BY <1>10, <1>11 DEF WritesKnow
<1>13. QED
  BY <1>5, <1>6, <1>12

(* A hook that writes what it has leaves a file that knows as much, as long *)
(* as no id falls out of the list.                                          *)
LEMMA OnceWrite ==
  ASSUME LockTypeOK, HookTypeOK, HookTypeOK', InsideOwnsLock, Whole, FileKnows, WritesKnow, WritesApart,
         NEW h \in Hook, WriteBack(h), IsFiniteSet(Remembered'), Few'
  PROVE  FileKnows' /\ WritesKnow' /\ WritesApart'
<1>1. /\ at[h] = "write" /\ at'[h] = "release" /\ file' = [mem[h] EXCEPT !.seen = Capped(@)]
      /\ wrote' = wrote \cup {h} /\ out' = out /\ \A g \in Hook \ {h} : at'[g] = at[g]
  BY DEF WriteBack, Go, HookTypeOK
<1>2. HookKnows(h) /\ mem[h] \in State /\ mem[h].seen \in Seq(Key)
  BY <1>1 DEF WritesKnow, HookTypeOK, State
<1>3. Remembered' = Remembered \cup (out[h] \cap Key)
  BY <1>1 DEF Remembered
<1>4. ToSet(mem[h].seen) \subseteq Remembered'
  BY <1>2, <1>3 DEF HookKnows
<1>5. Len(mem[h].seen) <= MaxSeen
  <2>1. IsFiniteSet(ToSet(mem[h].seen)) /\ Cardinality(ToSet(mem[h].seen)) = Len(mem[h].seen)
    BY <1>2, InjectiveLength DEF HookKnows, Tidy
  <2>2. Cardinality(ToSet(mem[h].seen)) <= Cardinality(Remembered')
    BY <1>4, FS_Subset
  <2>3. Cardinality(Remembered') \in Nat /\ Len(mem[h].seen) \in Nat /\ MaxSeen \in Nat
    BY <1>2, FS_CardinalityType, SessionAssumption
  <2>4. QED
    BY <2>1, <2>2, <2>3 DEF Few
<1>6. Capped(mem[h].seen) = mem[h].seen
  BY <1>2, <1>5, CappedList
<1>7. /\ Rec(file').seen = mem[h].seen /\ Rec(file').pending = mem[h].pending
      /\ Rec(file').turn = mem[h].turn
  <2>1. file' \in State
    BY <1>1, <1>2, <1>6 DEF State
  <2>2. Rec(file') = file'
    BY <2>1, SessionAssumption DEF Rec
  <2>3. QED
    BY <1>1, <1>2, <1>6, <2>2 DEF State
<1>8. FileKnows'
  <2>1. Tidy(Rec(file')) /\ ToSet(Rec(file').seen) \subseteq Remembered'
    BY <1>2, <1>4, <1>7 DEF HookKnows, Tidy
  <2>2. \A g \in wrote' : \A e \in out[g] : Known(Rec(file'), e)
    BY <1>1, <1>2, <1>7 DEF HookKnows, Known
  <2>3. QED
    BY <1>1, <2>1, <2>2 DEF FileKnows, Rec, Inert, Base, Tidy, Known
<1>9. ASSUME NEW g \in Hook, at'[g] = "write" PROVE FALSE
  <2>1. g # h /\ at[g] = "write" /\ pc[g] = "inside" /\ pc[h] = "inside"
    BY <1>1, <1>9 DEF HookTypeOK, PlacesInLock
  <2>2. g \in Inside /\ h \in Inside
    BY <2>1 DEF Inside
  <2>3. QED
    BY <2>1, <2>2 DEF InsideOwnsLock, Whole
<1>10. WritesKnow'
  BY <1>9 DEF WritesKnow
<1>11. WritesApart'
  <2>1. \A g \in wrote : Apart(g, h) /\ Apart(h, g)
    BY <1>2 DEF HookKnows, Apart
  <2>2. \A f, g \in wrote' : f # g => Apart(f, g)
    BY <1>1, <2>1 DEF WritesApart
  <2>3. QED
    BY <1>1, <2>2 DEF WritesApart, Apart, Repeatable
<1>12. QED
  BY <1>8, <1>10, <1>11

LEMMA OnceAside ==
  ASSUME Aside, Whole', FileKnows, WritesKnow, WritesApart
  PROVE  FileKnows' /\ WritesKnow' /\ WritesApart'
<1>1. /\ out' = out /\ wrote' = wrote /\ Remembered' = Remembered
      /\ Recorded(file') = Recorded(file)
      /\ \A h \in Hook : at'[h] = "write" => at[h] = "write" /\ mem'[h] = mem[h]
  BY DEF Aside, Remembered
<1>2. FileKnows'
  <2>1. /\ Rec(file').seen = Rec(file).seen /\ (Tidy(Rec(file')) <=> Tidy(Rec(file)))
        /\ \A e : Known(Rec(file'), e) <=> Known(Rec(file), e)
    BY <1>1, SameRecord
  <2>2. /\ Tidy(Rec(file')) /\ ToSet(Rec(file').seen) \subseteq Remembered'
        /\ \A g \in wrote' : \A e \in out'[g] : Known(Rec(file'), e)
    BY <1>1, <2>1 DEF FileKnows
  <2>3. QED
    BY <2>2 DEF FileKnows, Rec, Inert, Base, Tidy, Known
<1>3. WritesKnow'
  BY <1>1 DEF WritesKnow, HookKnows, Tidy, Known, Apart, Repeatable
<1>4. WritesApart'
  BY <1>1 DEF WritesApart, Apart, Repeatable
<1>5. QED
  BY <1>2, <1>3, <1>4

LEMMA OnceStep ==
  ASSUME LockTypeOK, HookTypeOK, HookTypeOK', InsideOwnsLock, EditInv, BlankInv, FiniteInv, FiniteInv',
         OnceInv, [Next]_vars
  PROVE  OnceInv'
<1> SUFFICES ASSUME Whole', Few' PROVE FileKnows' /\ WritesKnow' /\ WritesApart'
  BY DEF OnceInv, FileKnows, WritesKnow, HookKnows, WritesApart
<1>1. Whole /\ Few /\ IsFiniteSet(Remembered')
  BY WholeBefore, FewBefore
<1>2. FileKnows /\ WritesKnow /\ WritesApart
  BY <1>1, OnceParts
<1>3. CASE Aside
  BY <1>2, <1>3, OnceAside
<1>4. ASSUME NEW h \in Hook, CountTool(h) \/ SettleAtStop(h) \/ SettleAtEnd(h)
      PROVE  FileKnows' /\ WritesKnow' /\ WritesApart'
  BY <1>1, <1>2, <1>4, OnceWork
<1>5. ASSUME NEW h \in Hook, WriteBack(h) PROVE FileKnows' /\ WritesKnow' /\ WritesApart'
  BY <1>1, <1>2, <1>5, OnceWrite
<1>6. QED
  BY <1>3, <1>4, <1>5, AsideSteps

(* No two hooks hand over the same tool call, decided edit or turn, while   *)
(* the file has room for the ids (hooks.rs:107, 608).                       *)
THEOREM HookCountsOnce == Spec => []CountedOnce
<1> DEFINE Inv == HandInv /\ FiniteInv /\ BlankInv /\ OnceInv
<1>1. Init => Inv
  <2> SUFFICES ASSUME Init PROVE Inv
    OBVIOUS
  <2>1. /\ out = [h \in Hook |-> {}] /\ wrote = {} /\ put = {} /\ at = [h \in Hook |-> "idle"]
        /\ file \in {NoFile, Live}
    BY DEF Init
  <2>2. HandInv /\ FiniteInv /\ BlankInv
    BY <2>1, FS_EmptySet DEF HandInv, FiniteInv, BlankInv
  <2>3. Rec(file).seen = <<>> /\ Rec(file).pending = {}
    BY <2>1 DEF Rec, Live, Inert, Base
  <2>4. Tidy(Rec(file)) /\ ToSet(Rec(file).seen) = {}
    BY <2>3 DEF Tidy, IsInjective, ToSet
  <2>5. OnceInv
    BY <2>1, <2>4 DEF OnceInv
  <2>6. QED
    BY <2>2, <2>5
<1>2. TypeOK /\ TypeOK' /\ InsideOwnsLock /\ EditInv /\ Inv /\ [Next]_vars => Inv'
  <2> SUFFICES ASSUME TypeOK, TypeOK', InsideOwnsLock, EditInv, Inv, [Next]_vars PROVE Inv'
    OBVIOUS
  <2>1. LockTypeOK /\ HookTypeOK /\ HookTypeOK'
    BY DEF TypeOK
  <2>2. HandInv' /\ FiniteInv'
    BY <2>1, HandStep, FiniteStep
  <2>3. BlankInv'
    BY <2>1, BlankStep
  <2>4. OnceInv'
    BY <2>1, <2>2, OnceStep
  <2>5. QED
    BY <2>2, <2>3, <2>4
<1>3. Inv => CountedOnce
  BY DEF HandInv, OnceInv, Apart, Repeatable, Few, CountedOnce
<1>4. Spec => []InsideOwnsLock
  BY HandlersUseTheLock, LockOwned, PTL
<1>5. Spec => []EditInv
  BY EditsAreKept, PTL
<1>6. QED
  BY <1>1, <1>2, <1>3, <1>4, <1>5, HookType, PTL DEF Spec
=============================================================================
