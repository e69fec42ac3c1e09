----------------------------- MODULE Handshake ------------------------------
(***************************************************************************)
(* The handshake of a session (session.rs): what is asked of the backend,  *)
(* what is made of the answer, and when it is tried again.  Hooks of one   *)
(* session run at the same time and share the session file, the policy     *)
(* bundle, the opt-in caches and the credential; the lock of SessionLock   *)
(* is not held here.  HookSession has the handshake in one step with three *)
(* outcomes; this module has what is in that step.  What the handlers of   *)
(* hooks.rs do to the session file afterwards is here too, for it is what  *)
(* a handshake meets: a handler reads the file again, writes it back, and  *)
(* at the end of a session removes it.                                     *)
(*                                                                         *)
(* Time is counted in minutes to go, for a hook is over within seconds     *)
(* (the watchdog, cli.rs): no retry comes due during an attempt.  It may   *)
(* come due while a handler is at work.                                    *)
(***************************************************************************)
EXTENDS Naturals, Sequences, FiniteSets, FiniteSetsExt

CONSTANTS
    Hook,        \* the processes; one may be several hooks in turn
    OptIn,       \* the opt-ins
    MaxChanges,  \* the bound of the model on changes of what surrounds the client,
    MaxFaults,   \* and on faults and ends of a session
    MaxFailures  \* failures are not counted further: the delay stays the same

ASSUME HandshakeAssumption ==
    /\ IsFiniteSet(Hook) /\ IsFiniteSet(OptIn) /\ MaxChanges \in Nat /\ MaxFaults \in Nat
    /\ MaxFailures \in Nat /\ MaxFailures >= 5

VARIABLES
    policy,      \* what the backend would answer: whether the session may run (no
                 \* kill switch, the repository on the allowlist), the version of
                 \* the bundle, 0 for none, and the opt-ins
    mood,        \* whether the backend answers, is silent or refuses
    cred,        \* "good", "expired" by its clock, "rejected" by the backend,
                 \* "gone"
    file,        \* the session file, {} for none
    bundle,      \* bundle.json: a version, 0 for none
    flags,       \* the opt-in caches
    last,        \* last-handshake.json: whether it went well, and the retry
    at, mem,     \* where each hook is, and what it works with
    changes, faults, \* counted
    quiet, missed, \* history: the minutes until the next attempt should be made,
                 \* and the attempts in a row that got no answer
    newest,      \* history: the newest answer
    unruly       \* history: the causes for which an attempt may come early, or
                 \* never

backend == <<policy, mood, cred, changes>>
disk == <<file, bundle, flags, last>>
hooks == <<at, mem>>
history == <<faults, quiet, missed, newest, unruly>>
vars == <<backend, disk, hooks, history>>

Silence == [runs |-> FALSE, optIns |-> {}]
Told == [runs |-> policy.runs, optIns |-> policy.optIns]
Idle == [start |-> FALSE, claimed |-> FALSE, prior |-> 0, etag |-> 0, bundle |-> 0, answer |-> Silence,
         kept |-> {}]   \* kept: the session a handler works on

\* A session file.  retry is {} or the minutes until handshake_retry_at.
State(inert, retry, failures, answer) ==
    [inert |-> inert, retry |-> retry, failures |-> failures, answer |-> answer]

Init ==
    /\ policy = [runs |-> TRUE, version |-> 1, optIns |-> {}]
    /\ mood \in {"answers", "silent"}
    /\ cred \in {"good", "expired"}
    /\ file = {} /\ bundle \in {0, 1} /\ flags = {} /\ last = [ok |-> TRUE, retry |-> {}]
    /\ at = [h \in Hook |-> "idle"] /\ mem = [h \in Hook |-> Idle]
    /\ changes = 0 /\ faults = 0 /\ quiet = 0 /\ missed = 0 /\ newest = Silence /\ unruly = {}

Go(h, from, to) == at[h] = from /\ at' = [at EXCEPT ![h] = to]
Set(h, value) == mem' = [mem EXCEPT ![h] = value]

\* retry_delay_ms: 1, 2, 4, 8 minutes, then every 10.
\* Mutant: the delay has no bound but that of the doublings.
DelayUnbounded(failures) == 2 ^ Min({Max({failures, 1}) - 1, 8})
Delay(failures) == Min({2 ^ Min({Max({failures, 1}) - 1, 8}), 10})

-----------------------------------------------------------------------------
(* ensure_session.                                                         *)

Attempting == {h \in Hook : at[h] \notin {"idle", "handle", "write", "clear"}}

\* Two hooks are in a handshake and neither could know of the other.
Together(h) ==
    IF \E g \in Attempting \ {h} : ~mem[g].claimed \/ mem[h].start THEN unruly \cup {"overlap"} ELSE unruly

FireStart(h) ==
    /\ Go(h, "idle", "token")
    /\ Set(h, [Idle EXCEPT !.start = TRUE])
    /\ unruly' = IF Attempting # {} THEN unruly \cup {"overlap"} ELSE unruly
    /\ missed' = 0
    /\ UNCHANGED <<backend, disk, faults, quiet, newest>>

\* A later hook reads the session file.
FindNoSession(h) ==
    /\ Go(h, "idle", "token")
    /\ file = {}
    /\ unruly' = Together(h)
    /\ UNCHANGED <<backend, disk, mem, faults, quiet, missed, newest>>

\* A live session is worked on by the handler.
FindLive(h) ==
    /\ Go(h, "idle", "handle")
    /\ \E s \in file : ~s.inert /\ Set(h, [Idle EXCEPT !.kept = {s}])
    /\ UNCHANGED <<backend, disk, history>>

\* One that is inert with no retry due is left as it is, but by a SessionEnd: it
\* is removed. One whose own attempt left the session inert goes on here.
FindInert(h) ==
    /\ Go(h, "idle", "clear")
    /\ \E s \in file : s.inert /\ s.retry # {0}
    /\ faults < MaxFaults
    /\ faults' = faults + 1
    /\ UNCHANGED <<backend, disk, mem, quiet, missed, newest, unruly>>

FindDue(h) ==
    /\ Go(h, "idle", "claim")
    /\ \E s \in file : /\ s.inert /\ s.retry = {0}
                       /\ Set(h, [Idle EXCEPT !.prior = s.failures, !.answer = s.answer])
    /\ unruly' = Together(h)
    /\ UNCHANGED <<backend, disk, faults, quiet, missed, newest>>

\* Mutant: the retry is taken off the file for the time of the attempt.
ClaimTaken(h) ==
    /\ Go(h, "claim", "token")
    /\ file' = {State(TRUE, {}, mem[h].prior, mem[h].answer)}
    /\ Set(h, [mem[h] EXCEPT !.claimed = TRUE, !.answer = Silence])
    /\ UNCHANGED <<backend, bundle, flags, last, history>>

\* Mutant: the attempt is made and the next time is written after it.
ClaimLater(h) ==
    /\ Go(h, "claim", "token")
    /\ Set(h, [mem[h] EXCEPT !.claimed = TRUE])
    /\ UNCHANGED <<backend, disk, history>>

\* The next retry time is written before the attempt, over what is there by now.
Claim(h) ==
    /\ Go(h, "claim", "token")
    /\ file' = {State(TRUE, {Delay(mem[h].prior + 1)}, mem[h].prior, mem[h].answer)}
    /\ Set(h, [mem[h] EXCEPT !.claimed = TRUE, !.answer = Silence])
    /\ UNCHANGED <<backend, bundle, flags, last, history>>

-----------------------------------------------------------------------------
(* begin_attempt.                                                          *)

\* finish, and what the hook goes on with.
Finish(h, state) ==
    /\ file' = {state}
    /\ at' = [at EXCEPT ![h] = "idle"]
    /\ Set(h, Idle)

\* No credential, or none that can be renewed.
NotConnected(h) ==
    /\ Finish(h, State(TRUE, {}, 0, Silence))
    /\ UNCHANGED <<bundle, flags, last, faults, quiet, missed, newest>>

\* current_token: an expired credential is renewed first.
Connected(h) ==
    /\ at[h] = "token"
    /\ cred # "gone"
    /\ IF cred = "expired" THEN Go(h, "token", "renew") /\ UNCHANGED mem
       ELSE Go(h, "token", "ask") /\ Set(h, [mem[h] EXCEPT !.etag = bundle])
    /\ UNCHANGED <<backend, disk, history>>

NoCredential(h) ==
    /\ at[h] = "token" /\ cred = "gone"
    /\ NotConnected(h)
    /\ unruly' = unruly \cup {"no credential"}
    /\ UNCHANGED backend

\* The credential store does not answer in time, which counts as not connected.
StoreIsSilent(h) ==
    /\ at[h] = "token" /\ cred # "gone"
    /\ faults < MaxFaults
    /\ Finish(h, State(TRUE, {}, 0, Silence))
    /\ faults' = faults + 1
    /\ unruly' = unruly \cup {"store"}
    /\ UNCHANGED <<backend, bundle, flags, last, quiet, missed, newest>>

\* refresh: to begin with, or after a 401 ("again").
Renew(h) ==
    /\ at[h] \in {"renew", "again"}
    /\ mood = "answers" /\ cred # "gone"
    /\ cred' = "good"
    /\ Go(h, at[h], IF at[h] = "renew" THEN "ask" ELSE "askAgain")
    /\ Set(h, [mem[h] EXCEPT !.etag = IF at[h] = "renew" THEN bundle ELSE @])
    /\ UNCHANGED <<policy, mood, changes, disk, history>>

\* What a failed handshake leaves, with the retry if it is worth one.
Failed(h, retryable) ==
    LET failures == Min({mem[h].prior + 1, MaxFailures})
        retry == IF retryable THEN {Delay(failures)} ELSE {}
    IN /\ last' = [ok |-> FALSE, retry |-> retry]
       /\ Finish(h, State(TRUE, retry, failures, Silence))
       /\ UNCHANGED <<bundle, flags>>

\* The renewal fails: without a token at all, or with the 401 that led to it.
RenewFails(h) ==
    /\ at[h] \in {"renew", "again"}
    /\ mood # "answers" \/ cred = "gone"
    /\ IF at[h] = "renew" THEN NotConnected(h) ELSE Failed(h, FALSE) /\ UNCHANGED <<faults, quiet, missed, newest>>
    /\ unruly' = unruly \cup {"renewal"}
    /\ UNCHANGED backend

Asking == {"ask", "askAgain"}

\* History: one more attempt without an answer.
Missed ==
    /\ missed' = Min({missed + 1, MaxFailures})
    /\ quiet' = <<1, 2, 4, 8, 10>>[Min({missed + 1, 5})]

\* A 401; the second one stays.
Rejected(h) ==
    /\ at[h] \in Asking
    /\ mood = "answers" /\ cred # "good"
    /\ IF at[h] = "ask" THEN Go(h, "ask", "again") /\ UNCHANGED <<disk, mem, unruly>>
       ELSE Failed(h, FALSE) /\ unruly' = unruly \cup {"renewal"}
    /\ UNCHANGED <<backend, faults, quiet, missed, newest>>

\* No answer, or one that passes (408, 429, 5xx).
NoAnswer(h) ==
    /\ at[h] \in Asking
    /\ mood = "silent"
    /\ Failed(h, TRUE)
    /\ Missed
    /\ UNCHANGED <<backend, faults, newest, unruly>>

\* Any other refusal (400, 403).
Refused(h) ==
    /\ at[h] \in Asking
    /\ mood = "refuses"
    /\ Failed(h, FALSE)
    /\ unruly' = unruly \cup {"refused"}
    /\ UNCHANGED <<backend, faults, quiet, missed, newest>>

\* The bundle comes if it is not the one of the etag.
Sent(etag) == IF policy.version = etag THEN 0 ELSE policy.version

\* An answer: its bundle is kept; without one the cached one holds; without
\* either it is asked for once more.
Answered(h) ==
    /\ at[h] \in Asking
    /\ mood = "answers" /\ cred = "good"
    /\ LET sent == Sent(mem[h].etag)
           has == IF sent # 0 THEN sent ELSE mem[h].etag
       IN /\ bundle' = IF sent # 0 THEN sent ELSE bundle
          /\ Go(h, at[h], IF has = 0 THEN "refetch" ELSE "finish")
          /\ Set(h, [mem[h] EXCEPT !.answer = Told, !.bundle = has])
    /\ last' = [ok |-> TRUE, retry |-> {}]
    /\ missed' = 0 /\ quiet' = 0
    /\ newest' = Told
    /\ UNCHANGED <<backend, file, flags, faults, unruly>>

\* The second request counts if it brings a bundle; after a 401 it is made with
\* a renewed credential.
Refetch(h) ==
    /\ Go(h, "refetch", "finish")
    /\ LET answered == mood = "answers" /\ cred # "gone"
       IN /\ cred' = IF answered THEN "good" ELSE cred
          /\ IF answered /\ policy.version # 0
             THEN /\ bundle' = policy.version
                  /\ Set(h, [mem[h] EXCEPT !.answer = Told, !.bundle = policy.version])
                  /\ newest' = Told
             ELSE UNCHANGED <<bundle, mem, newest>>
    /\ UNCHANGED <<policy, mood, changes, file, flags, last, faults, quiet, missed, unruly>>

\* Mutant: a session without a classifier may run.
PermitsWithoutBundle(m) == m.answer.runs
Permits(m) == m.answer.runs /\ m.bundle # 0

\* A session that may run is handed to the handler, but by a SessionStart.
Decide(h) ==
    /\ at[h] = "finish"
    /\ flags' = mem[h].answer.optIns
    /\ LET state == State(~Permits(mem[h]), {}, 0, mem[h].answer)
       IN IF state.inert \/ mem[h].start THEN Finish(h, state)
          ELSE file' = {state} /\ Go(h, "finish", "handle") /\ Set(h, [Idle EXCEPT !.kept = {state}])
    /\ unruly' = IF Permits(mem[h]) THEN unruly ELSE unruly \cup {"muted"}
    /\ UNCHANGED <<backend, bundle, last, faults, quiet, missed, newest>>

-----------------------------------------------------------------------------
(* The handler of a live session. with_session_lock is no part of this: a     *)
(* handshake writes without it, and a hook that waited too long goes on       *)
(* without it.                                                                *)

\* The file as it is by now; without one, the session found at the start.
ReadAgain(h) ==
    /\ Go(h, "handle", "write")
    /\ Set(h, [mem[h] EXCEPT !.kept = IF file = {} THEN @ ELSE file])
    /\ UNCHANGED <<backend, disk, history>>

\* A tool call that was seen before: nothing is written.
SeenBefore(h) ==
    /\ Go(h, "handle", "idle")
    /\ Set(h, Idle)
    /\ UNCHANGED <<backend, disk, history>>

\* What was read is written back, over what others wrote since ("late write").
\* A SessionEnd goes on to remove the session.
WriteBack(h) ==
    /\ at[h] = "write"
    /\ file' = mem[h].kept
    /\ unruly' = IF file = mem[h].kept THEN unruly ELSE unruly \cup {"late write"}
    /\ Set(h, Idle)
    /\ \/ Go(h, "write", "idle") /\ faults' = faults
       \/ Go(h, "write", "clear") /\ faults < MaxFaults /\ faults' = faults + 1
    /\ UNCHANGED <<backend, bundle, flags, last, quiet, missed, newest>>

\* clear_session: nothing is left to be known of the attempts so far, nor of one
\* that is being made ("ended"). What went wrong before is over if no other hook
\* is there.
Clear(h) ==
    /\ Go(h, "clear", "idle")
    /\ file' = {}
    /\ quiet' = 0 /\ missed' = 0
    /\ unruly' = IF \A g \in Hook \ {h} : at[g] = "idle" THEN {}
                 ELSE IF Attempting = {} THEN unruly ELSE unruly \cup {"ended"}
    /\ UNCHANGED <<backend, bundle, flags, last, mem, faults, newest>>

-----------------------------------------------------------------------------
\* A request for a new token may take 10 s, and the watchdog ends the process
\* after 8 s; the host may end it anywhere.
Cut(h) ==
    /\ at[h] # "idle"
    /\ faults < MaxFaults
    /\ at' = [at EXCEPT ![h] = "idle"] /\ Set(h, Idle)
    /\ faults' = faults + 1
    /\ unruly' = IF h \in Attempting THEN unruly \cup {"cut"} ELSE unruly
    /\ IF at[h] \in Asking \cup {"renew", "again"} THEN Missed ELSE UNCHANGED <<quiet, missed>>
    /\ UNCHANGED <<backend, disk, newest>>

\* The minutes until the retry pass.
Tick ==
    /\ Attempting = {}
    /\ \E s \in file, m \in 1..10 :
        /\ s.retry = {m}
        /\ file' = {[s EXCEPT !.retry = {0}]}
        /\ quiet' = Max({quiet, m}) - m
    /\ UNCHANGED <<backend, bundle, flags, last, hooks, faults, missed, newest, unruly>>

\* The organisation, the network and the credential change.
Change ==
    /\ changes < MaxChanges
    /\ \/ mood' \in {"silent", "refuses"} \ {mood} /\ UNCHANGED <<policy, cred>>
       \/ /\ \/ \E v \in 0..2 \ {policy.version} : policy' = [policy EXCEPT !.version = v]
             \/ policy' = [policy EXCEPT !.runs = ~@]
             \/ \E o \in SUBSET OptIn \ {policy.optIns} : policy' = [policy EXCEPT !.optIns = o]
          /\ UNCHANGED <<mood, cred>>
       \/ cred' \in {"good", "expired", "rejected", "gone"} \ {cred} /\ UNCHANGED <<policy, mood>>
    /\ changes' = changes + 1
    /\ UNCHANGED <<disk, hooks, history>>

\* The backend answers again.
Recover ==
    /\ mood # "answers" /\ mood' = "answers"
    /\ UNCHANGED <<policy, cred, changes, disk, hooks, history>>

Step(h) ==
    \/ FindNoSession(h) \/ FindDue(h) \/ FindLive(h) \/ FindInert(h) \/ Claim(h)
    \/ Connected(h) \/ NoCredential(h) \/ Renew(h) \/ RenewFails(h)
    \/ Rejected(h) \/ NoAnswer(h) \/ Refused(h) \/ Answered(h) \/ Refetch(h) \/ Decide(h)
    \/ ReadAgain(h) \/ SeenBefore(h) \/ WriteBack(h) \/ Clear(h)

Next ==
    \/ \E h \in Hook : FireStart(h) \/ Step(h) \/ StoreIsSilent(h) \/ Cut(h)
    \/ Tick \/ Change \/ Recover

\* A process goes on until it ends, minutes pass, and the developer goes on
\* working: hooks keep coming.  Nothing says that a session starts again.
Fairness == WF_vars(Tick) /\ \A h \in Hook : WF_vars(Step(h))

Spec == Init /\ [][Next]_vars /\ Fairness

-----------------------------------------------------------------------------
Answer == [runs : BOOLEAN, optIns : SUBSET OptIn]
Retry == {{}} \cup {{m} : m \in 0..10}
Policy == [runs : BOOLEAN, version : 0..2, optIns : SUBSET OptIn]
Result == [ok : BOOLEAN, retry : Retry]
Places == {"idle", "claim", "token", "renew", "ask", "again", "askAgain", "refetch", "finish",
           "handle", "write", "clear"}
FileState == [inert : BOOLEAN, retry : Retry, failures : 0..MaxFailures, answer : Answer]
Files == {{}} \cup {{s} : s \in FileState}
Mind == [start : BOOLEAN, claimed : BOOLEAN, prior : 0..MaxFailures, etag : 0..2, bundle : 0..2,
         answer : Answer, kept : Files]

\* Values stay in their types; a retry is never further away than ten minutes
\* (session.rs:250).
TypeOK ==
    /\ policy \in Policy
    /\ mood \in {"answers", "silent", "refuses"}
    /\ cred \in {"good", "expired", "rejected", "gone"}
    /\ file \in Files
    /\ bundle \in 0..2 /\ flags \in SUBSET OptIn
    /\ last \in Result
    /\ at \in [Hook -> Places]
    /\ mem \in [Hook -> Mind]
    /\ changes \in 0..MaxChanges /\ faults \in 0..MaxFaults /\ quiet \in 0..10 /\ missed \in 0..MaxFailures
    /\ newest \in Answer
    /\ unruly \subseteq {"overlap", "cut", "store", "renewal", "refused", "no credential", "muted", "late write", "ended"}

\* What hooks that run together, and one that is ended, do to the session file.
Disorder == {"overlap", "cut", "late write", "ended"}

\* Fail closed (session.rs:163-203): a live session has a classifier on disk and
\* runs as the newest answer says, with its opt-ins and no others, unless a hook
\* has yet to write what that answer means, was ended before it did, another
\* attempt wrote over it, a handler that had read the session before wrote it
\* back (hooks.rs:219, 465, 561), or the session ended during an attempt and
\* another one began.
FailClosed ==
    \A s \in file : ~s.inert =>
        /\ bundle # 0 /\ s.answer.runs
        /\ \/ s.answer = newest
           \/ unruly \cap Disorder # {}
           \/ \E h \in Hook : at[h] = "finish"

\* "The next retry time is written before the attempt, so hooks that fire
\* together do not all make the same request" (session.rs:297-300): a hook that
\* is not the start of a session makes an attempt only when the time that the
\* failures so far call for is over and no other hook is making it, unless two
\* hooks both read the file before either wrote it, a hook ended before it could
\* write, the retry time was written over by a handler that had read the session
\* before, or removed by the end of the session.
BackoffKept ==
    [][\A h \in Hook : h \notin Attempting /\ h \in Attempting' /\ ~mem'[h].start =>
          \/ quiet = 0 /\ \A g \in Hook : ~mem[g].claimed
          \/ unruly' \cap Disorder # {}]_vars

Healthy == mood = "answers" /\ policy.runs /\ policy.version # 0 /\ cred # "gone"
Live == \E s \in file : ~s.inert
ForGood == {"store", "renewal", "refused", "no credential", "muted"}

\* "A later hook in this same session tries again, with backoff, instead of
\* muting a session that can run for hours" (session.rs:100-103): once the
\* backend answers and lets the session run, the session comes to run, whatever
\* was cut, overlapped or written over, unless something muted it for good. It
\* need not stay so: hooks that overlap each time, one of them writing back the
\* inert session it read during an attempt, mute it until the next retry.
BecomesLive == <>[](Healthy /\ unruly \cap ForGood = {}) => []<>Live
=============================================================================
