----------------------------- MODULE HookSession -----------------------------
(***************************************************************************)
(* The hook handlers of src/src/hooks.rs and the handshake of              *)
(* src/src/session.rs over the one file that holds a session's state.      *)
(* Every hook is a process.  It makes sure there is a session (read the    *)
(* file; handshake when there is none, or when a retry is due), works on   *)
(* the file under the lock of module SessionLock, hands the events it      *)
(* extracted to the queue (module EventQueue goes on from there), and a    *)
(* SessionEnd removes the file.  What the handshake writes, the claim of a *)
(* retry and the removal are made without the lock.                        *)
(***************************************************************************)
EXTENDS SessionLock, Sequences, SequencesExt

CONSTANTS Use,       \* the tool_use_ids the host sends
          NoUse,     \* "the payload has none"
          Declined,  \* those of tool calls the transcript shows as declined
          NoFile,    \* "there is no session file"
          Kinds,     \* the hooks that fire in an instance
          MaxSeen,   \* MAX_SEEN_TOOL_USE_IDS
          MaxKills   \* the bound of the model on how many hooks are killed

\* What the program tells apart of a tool call's id, which is the host's or
\* the n of a synthesized "seq-n"; the events are named by their eventId, and
\* those of an edit decision also by the decision.
Id == Use \cup Nat
Tool(i)     == <<"tu", i>>
Accepted(i) == <<"ed", i, "accepted">>
Rejected(i) == <<"ed", i, "rejected">>
Turn(n)     == <<"tv", n>>
End         == <<"se">>

Key   == ({"tu"} \X Id) \cup ({"ed"} \X Use \X {"rejected"})
Event == Key \cup ({"ed"} \X Id \X {"accepted"}) \cup ({"tv"} \X Nat) \cup {End}

\* The file, as far as the properties tell its contents apart: the rest of the
\* turn's bookkeeping is filled and emptied together with pending_edits.
Base(inert, retry) ==
  [inert   |-> inert,
   retry   |-> retry,    \* handshake_retry_at: none, later, due
   seq     |-> 0,        \* event_seq
   turn    |-> 0,        \* turn_seq
   seen    |-> <<>>,     \* seen_tool_use_ids, i as Tool(i) and "ed:" ids
   pending |-> {},       \* pending_edits
   swept   |-> {}]       \* the declined calls before transcript_offset
Live  == Base(FALSE, "none")
Inert == Base(TRUE, "none")
Retry == Base(TRUE, "later")
State == [inert : BOOLEAN, retry : {"none", "later", "due"}, seq : Nat, turn : Nat,
          seen : Seq(Key), pending : SUBSET Id, swept : SUBSET Declined]

Tools  == [kind : {"tool"}, id : Use \cup {NoUse}, edit : BOOLEAN]
Others == [kind : {"start", "stop", "end"}, id : {NoUse}, edit : {FALSE}]
Job == {j \in Tools \cup Others : j.kind \in Kinds}

ASSUME SessionAssumption ==
  /\ IsFiniteSet(Use) /\ Use \cap Nat = {} /\ NoUse \notin Use \cup Nat
  /\ Declined \subseteq Use
  /\ Kinds \subseteq {"start", "tool", "stop", "end"}
  /\ Kinds # {} /\ MaxSeen \in Nat \ {0} /\ MaxKills \in Nat
  /\ NoFile \notin State

VARIABLES
  file,   \* the session file, or NoFile
  at,     \* at[h]: where in its handler hook h is
  job,    \* job[h]: which hook it is, and its tool call
  mem,    \* mem[h]: the SessionState h holds in memory
  out,    \* out[h]: the events h extracted under the lock
  wrote,  \* the hooks whose write under the lock reached the file (history)
  put,    \* the hooks that handed their events to the queue (history)
  reset,  \* a write without the lock changed what hooks recorded (history)
  muted,  \* the last handshake to be written forbids sending (history)
  barred  \* the hooks that fired since then (history)

hookVars == <<file, at, job, mem, out, wrote, put, reset, muted, barred>>
vars     == <<lockVars, hookVars>>

Init == /\ LockInit
        /\ file \in {NoFile, Live}
        /\ at = [h \in Hook |-> "idle"]
        /\ job = [h \in Hook |-> CHOOSE j \in Job : TRUE]
        /\ mem = [h \in Hook |-> Inert]
        /\ out = [h \in Hook |-> {}]
        /\ wrote = {} /\ put = {} /\ reset = FALSE
        /\ muted = FALSE /\ barred = {}

\* A state h has no more use for.
Forget(h) == mem' = [mem EXCEPT ![h] = Inert]

Go(h, from, to) == /\ at[h] = from
                   /\ at' = [at EXCEPT ![h] = to]

\* What hooks record in the file under the lock; no file is an empty record.
Recorded(s) == LET r == IF s = NoFile THEN Inert ELSE s
               IN <<r.seq, r.turn, r.seen, r.pending, r.swept>>

\* write_session and clear_session where the lock is not held.
WriteUnlocked(s) == /\ file' = s
                    /\ reset' = (reset \/ Recorded(s) # Recorded(file))
-----------------------------------------------------------------------------
(* ensure_session and begin_session                                        *)

\* The host runs a hook.  SessionStart handshakes whatever there is.
Fire(h, j) == /\ Go(h, "idle", IF j.kind = "start" THEN "shake" ELSE "ensure")
              /\ job' = [job EXCEPT ![h] = j]
              /\ barred' = IF muted THEN barred \cup {h} ELSE barred
              /\ UNCHANGED <<lockVars, file, mem, out, wrote, put, reset, muted>>

FindNoSession(h) == /\ Go(h, "ensure", "shake")
                    /\ file = NoFile
                    /\ UNCHANGED <<lockVars, file, job, mem, out, wrote, put, reset, muted, barred>>

FindSession(h) == /\ file # NoFile
                  /\ UNCHANGED <<file, job, out, wrote, put, reset, muted, barred>>

\* An inert session sends nothing, and a SessionEnd removes its file.
AfterInert(h) == IF job[h].kind = "end" THEN "clear" ELSE "done"

FindInert(h) == /\ Go(h, "ensure", AfterInert(h))
                /\ FindSession(h)
                /\ file.inert /\ file.retry # "due"
                /\ UNCHANGED <<lockVars, mem>>

FindDue(h) == /\ Go(h, "ensure", "claim")
              /\ FindSession(h)
              /\ file.inert /\ file.retry = "due"
              /\ mem' = [mem EXCEPT ![h] = file]
              /\ UNCHANGED lockVars

\* The hook goes on to with_session_lock.
FindLive(h) == /\ Go(h, "ensure", "locked")
               /\ FindSession(h)
               /\ ~file.inert
               /\ mem' = [mem EXCEPT ![h] = file]
               /\ Ask(h)

\* The next retry time is written before the attempt.
ClaimRetry(h) == /\ Go(h, "claim", "shake")
                 /\ WriteUnlocked([mem[h] EXCEPT !.retry = "later"])
                 /\ UNCHANGED <<lockVars, job, mem, out, wrote, put, muted, barred>>

\* begin_attempt: the session may run, must not (kill switch, repository not
\* allowed, no credential, an error that will stay), or is to try again.
Handshake(h) == \E s \in {Live, Inert, Retry} :
                  /\ Go(h, "shake", "finish")
                  /\ mem' = [mem EXCEPT ![h] = s]
                  /\ UNCHANGED <<lockVars, file, job, out, wrote, put, reset, muted, barred>>

\* finish: the new state replaces whatever is in the file by now.
Finish(h) == /\ WriteUnlocked(mem[h])
             /\ muted' = IF mem[h].inert THEN muted \/ mem[h].retry = "none" ELSE FALSE
             /\ barred' = IF mem[h].inert THEN barred ELSE {}
             /\ UNCHANGED <<job, out, wrote, put>>

FinishStart(h) == /\ Go(h, "finish", "done")
                  /\ job[h].kind = "start"
                  /\ Finish(h) /\ Forget(h) /\ UNCHANGED lockVars

FinishInert(h) == /\ Go(h, "finish", AfterInert(h))
                  /\ job[h].kind # "start" /\ mem[h].inert
                  /\ Finish(h) /\ Forget(h) /\ UNCHANGED lockVars

FinishLive(h) == /\ Go(h, "finish", "locked")
                 /\ job[h].kind # "start" /\ ~mem[h].inert
                 /\ Finish(h) /\ UNCHANGED mem /\ Ask(h)
-----------------------------------------------------------------------------
(* Under the lock                                                          *)

\* create_dir, the wait and the removal of an expired lock, of SessionLock.
WaitForLock(h) == /\ LockStep(h) \/ DeadlinePasses(h)
                  /\ UNCHANGED hookVars

\* Mutant: the closure works on what was read before the lock was taken.
ReadBeforeLock(h) == mem[h]

\* The closure begins by reading the file again; what ensure_session returned
\* is the fallback.
Current(h) == IF file = NoFile THEN mem[h] ELSE file

\* Mutant: the work is done without the lock.
InnerUnlocked(h, to) ==
  /\ Go(h, "locked", to)
  /\ UNCHANGED <<lockVars, file, job, wrote, put, reset, muted, barred>>

Inner(h, to) == /\ Go(h, "locked", to)
                /\ pc[h] = "inside"
                /\ UNCHANGED <<lockVars, file, job, wrote, put, reset, muted, barred>>

\* The id of h's tool call, the next of the sequence when the host sent none.
CallId(h) == IF job[h].id = NoUse THEN Current(h).seq + 1 ELSE job[h].id

\* A call that was counted is left alone, and the file is not written.
SkipSeen(h) == /\ Inner(h, "release")
               /\ job[h].kind = "tool"
               /\ Tool(CallId(h)) \in ToSet(Current(h).seen)
               /\ Forget(h) /\ UNCHANGED out

\* An applied edit is held until Stop; a declined one is an event at once.
CountTool(h) ==
  LET live    == Current(h)
      i       == CallId(h)
      applied == IF job[h].edit /\ i \notin Declined THEN {i} ELSE {}
      refused == IF job[h].edit /\ i \in Declined THEN {Rejected(i)} ELSE {}
  IN /\ Inner(h, "write")
     /\ job[h].kind = "tool"
     /\ Tool(i) \notin ToSet(live.seen)
     /\ mem' = [mem EXCEPT ![h] =
                 [live EXCEPT !.seq = IF job[h].id = NoUse THEN i ELSE @,
                              !.seen = Append(@, Tool(i)),
                              !.pending = @ \cup applied]]
     /\ out' = [out EXCEPT ![h] = {Tool(i)} \cup refused]

\* settle_edits, settle_turn: the state they leave and the events they make.
SettleTurn(live) == [live EXCEPT !.pending = {}, !.turn = @ + 1]
EditEvents(live) == {Accepted(i) : i \in live.pending}
TurnEvent(live) == IF live.pending = {} THEN {} ELSE {Turn(live.turn + 1)}

\* The transcript is read to its end, and the ids of the decisions found there
\* are remembered.
Sweep(s, found) == [s EXCEPT !.swept = Declined, !.seen = @ \o found]

\* Stop: the pending edits are decided, the transcript is swept for the calls
\* that were declined since the last sweep, and the turn is settled.
SettleAtStop(h) ==
  LET live == Current(h)
      new  == {Rejected(i) : i \in Declined \ live.swept} \ ToSet(live.seen)
  IN \E order \in {q \in [1 .. Cardinality(new) -> new] : new \subseteq ToSet(q)} :
       /\ Inner(h, "write")
       /\ job[h].kind = "stop"
       /\ mem' = [mem EXCEPT ![h] = SettleTurn(Sweep(live, order))]
       /\ out' = [out EXCEPT ![h] = EditEvents(live) \cup new \cup TurnEvent(live)]

\* Mutant: a SessionEnd drops the edits of a turn no Stop has settled.
SettleAtEndWithoutEdits(h) ==
  LET live == Current(h)
  IN /\ Inner(h, "write")
     /\ job[h].kind = "end"
     /\ mem' = [mem EXCEPT ![h] = SettleTurn(live)]
     /\ out' = [out EXCEPT ![h] = TurnEvent(live) \cup {End}]

\* SessionEnd: the same without the sweep, and the event of the end.
SettleAtEnd(h) ==
  LET live == Current(h)
  IN /\ Inner(h, "write")
     /\ job[h].kind = "end"
     /\ mem' = [mem EXCEPT ![h] = SettleTurn(live)]
     /\ out' = [out EXCEPT ![h] = EditEvents(live) \cup TurnEvent(live) \cup {End}]

\* write_session keeps the newest MAX_SEEN_TOOL_USE_IDS ids.
Capped(s) == SubSeq(s, IF Len(s) > MaxSeen THEN Len(s) - MaxSeen + 1 ELSE 1, Len(s))

WriteBack(h) == /\ Go(h, "write", "release")
                /\ file' = [mem[h] EXCEPT !.seen = Capped(@)]
                /\ wrote' = wrote \cup {h}
                /\ Forget(h)
                /\ UNCHANGED <<lockVars, job, out, put, reset, muted, barred>>

\* The closure returns and the guard removes the lock.
Leave(h) == /\ Go(h, "release", IF out[h] = {} THEN "done" ELSE "enqueue")
            /\ Release(h)
            /\ UNCHANGED <<file, job, mem, out, wrote, put, reset, muted, barred>>
-----------------------------------------------------------------------------
(* After the lock                                                          *)

\* enqueue, the ledger and the flush.
HandOver(h) == /\ Go(h, "enqueue", IF job[h].kind = "end" THEN "clear" ELSE "done")
               /\ put' = put \cup {h}
               /\ UNCHANGED <<lockVars, file, job, mem, out, wrote, reset, muted, barred>>

ClearSession(h) == /\ Go(h, "clear", "done")
                   /\ WriteUnlocked(NoFile)
                   /\ UNCHANGED <<lockVars, job, mem, out, wrote, put, muted, barred>>

\* The watchdog or the host ends the process; no guard runs.
Kill(h) == /\ at[h] \notin {"idle", "done", "dead"}
           /\ at' = [at EXCEPT ![h] = "dead"]
           /\ IF at[h] \in {"locked", "write", "release"} THEN Die(h) ELSE UNCHANGED lockVars
           /\ Cardinality({g \in Hook : at[g] = "dead"}) < MaxKills
           /\ Forget(h)
           /\ UNCHANGED <<file, job, out, wrote, put, reset, muted, barred>>

\* handshake_retry_at passes.
RetryFallsDue == /\ file # NoFile /\ file.retry = "later"
                 /\ file' = [file EXCEPT !.retry = "due"]
                 /\ UNCHANGED <<lockVars, at, job, mem, out, wrote, put, reset, muted, barred>>

Step(h) == \/ FindNoSession(h) \/ FindInert(h) \/ FindDue(h) \/ FindLive(h)
           \/ ClaimRetry(h) \/ Handshake(h)
           \/ FinishStart(h) \/ FinishInert(h) \/ FinishLive(h)
           \/ SkipSeen(h) \/ CountTool(h) \/ SettleAtStop(h) \/ SettleAtEnd(h)
           \/ WriteBack(h) \/ Leave(h) \/ HandOver(h) \/ ClearSession(h)

\* Every hook that fired has ended.
Over == /\ \A h \in Hook : at[h] \in {"idle", "done", "dead"}
        /\ UNCHANGED vars

Next == \/ \E h \in Hook : \/ \E j \in Job : Fire(h, j)
                           \/ Step(h) \/ WaitForLock(h) \/ Kill(h)
        \/ RetryFallsDue
        \/ Over

\* A process that runs is scheduled and time passes for it; requests are cut
\* off by their timeouts.  Nothing obliges the host to fire a hook, nor is a
\* hook obliged to be killed.
Fairness == \A h \in Hook : /\ WF_vars(Step(h))
                            /\ WF_vars(LockStep(h) /\ UNCHANGED hookVars)
                            /\ WF_vars(DeadlinePasses(h) /\ UNCHANGED hookVars)

Spec == Init /\ [][Next]_vars /\ Fairness
-----------------------------------------------------------------------------
Places == {"idle", "ensure", "claim", "shake", "finish", "locked", "write", "release",
           "enqueue", "clear", "done", "dead"}

PlacesInLock(a) == CASE a \in {"idle", "ensure", "claim", "shake", "finish"} -> {"outside"}
                     [] a = "locked"              -> {"mkdir", "blocked", "inside"}
                     [] a \in {"write", "release"} -> {"inside"}
                     [] a = "dead"                -> {"outside", "left", "dead"}
                     [] OTHER                     -> {"outside", "left"}

\* The part of the type invariant that is not the lock's own.
HookTypeOK ==
  /\ file \in State \cup {NoFile}
  /\ at \in [Hook -> Places] /\ job \in [Hook -> Job]
  /\ mem \in [Hook -> State] /\ out \in [Hook -> SUBSET Event]
  /\ wrote \subseteq Hook /\ put \subseteq Hook /\ barred \subseteq Hook
  /\ reset \in BOOLEAN /\ muted \in BOOLEAN
  /\ \A h \in Hook : pc[h] \in PlacesInLock(at[h])

(* Types, and how the handler and the lock agree on where a hook is         *)
(* (hooks.rs:104-222): what is done under the lock is done inside it.       *)
TypeOK == LockTypeOK /\ HookTypeOK

\* What has to hold for the session's record of itself to be whole.
Whole == broken = 0 /\ ~reset

\* What t records includes what s records, but for the edits that events decide.
Extends(s, t, events) ==
  /\ s.seq <= t.seq /\ s.turn <= t.turn
  /\ ToSet(s.seen) \subseteq ToSet(t.seen) /\ s.swept \subseteq t.swept
  /\ \A i \in s.pending \ t.pending : Accepted(i) \in events

(* A write under the lock takes nothing out of the file that others put     *)
(* there, except edits it decides, although hooks handshake, claim a retry  *)
(* and end beside it without the lock (store.rs:121-125, session.rs:285,    *)
(* 311): the read-modify-write is one while no live lock was broken and no  *)
(* write without the lock changed what had been recorded.                   *)
LockedWriteKeepsFile ==
  [][\A h \in Hook : WriteBack(h) /\ Whole /\ file # NoFile => Extends(file, mem[h], out[h])]_vars

\* What a hook is about to write has everything the file has by now: the
\* inductive invariant behind LockedWriteKeepsFile.
WriteInv == \A h \in Hook : at[h] = "write" /\ Whole /\ file # NoFile
                               => Extends(file, mem[h], out[h])

Calls(h) == {e[2] : e \in {f \in out[h] : f[1] = "tu"}}

\* The ids that hooks have had the file remember: of the calls they counted and
\* of the declined calls they told of.
Remembered == UNION {out[h] \cap Key : h \in wrote}

(* A tool call is counted once and a turn is settled once, however often    *)
(* the host reports a call (PostToolUse and PostToolUseFailure, replays)    *)
(* and whatever hooks overlap or are killed: no two hooks hand over the     *)
(* same event, while the file has room for the ids (hooks.rs:107, 608).     *)
CountedOnce ==
  Whole /\ Cardinality(Remembered) <= MaxSeen =>
    \A g, h \in put : g # h => out[g] \cap out[h] \subseteq {End} \cup {Rejected(i) : i \in Use}

(* An edit whose hook recorded it is pending in the file until a Stop or a  *)
(* SessionEnd decides it and writes that down: killed hooks, waits and      *)
(* overlapping Stops do not lose it (hooks.rs:165, 582-602).                *)
NoEditLost ==
  Whole => \A h \in wrote : \A i \in Calls(h) \ Declined :
             job[h].edit =>
               \/ file # NoFile /\ i \in file.pending
               \/ \E g \in wrote : Accepted(i) \in out[g]

\* What NoEditLost needs to be inductive: hooks that wrote are past their
\* write, and an edit is pending in what its hook is about to write.
EditInv ==
  /\ \A h \in wrote : at[h] \in {"release", "enqueue", "clear", "done", "dead"}
  /\ \A h \in Hook : at[h] = "write" /\ job[h].edit => Calls(h) \ Declined \subseteq mem[h].pending

(* Every hook the host runs ends on its own, a lock left behind by a killed *)
(* one notwithstanding: "a wedged hook is a wedged editor" (store.rs:125).  *)
EveryHookEnds == \A h \in Hook : at[h] # "idle" ~> at[h] \in {"done", "dead"}

(* A kill switch, or a repository that is not allowed, means "on the wire,  *)
(* ... nothing at all" (session.rs:5-6): a hook that fires after such an    *)
(* answer was written hands nothing to the queue until another is.          *)
MutedStaysSilent == barred \cap put = {}
=============================================================================
