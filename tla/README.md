# A verification development of the Flueny client

TLA+ models of the client in `src/` (a Rust program that an editor's hooks
start), the TLC instances that check them, and proofs of what matters most that
TLAPS checks. Paths below are relative to `src/src/` unless they name `hooks/`.

## 1. The system

A coding host (Claude Code or Grok) runs `flueny hook <event>` as a new process
for every SessionStart, PostToolUse, PostToolUseFailure, Stop and SessionEnd
(`hooks/hooks.json`, `cli.rs:74-108`). Such a process reads a payload, derives a
few events from it, keeps what it has to remember in files of one directory,
sends what is queued, and exits. There is no daemon: **all coordination is
between short processes that share files**, that run at the same time when the
host runs tools in parallel, and that can be ended anywhere, by their own
watchdog after 8 s (`cli.rs:76-79`) or by the host after 10 s.

| Component | State it keeps | Operations | Interacts with |
| --- | --- | --- | --- |
| session lock (`store.rs:121-149`) | a directory `<session>.json.lock` | `with_session_lock`: mkdir, sleep, expire, release | hook handlers |
| session file (`store.rs:98-119`, `SessionState`) | `sessions/<id>.json` | `read_session`, `write_session` (caps the ids), `clear_session` | handlers, handshake |
| handshake (`session.rs`) | the session file, bundle, flags, last handshake | `ensure_session`, `begin_attempt`, `finish`; retries with backoff | backend, credentials |
| hook handlers (`hooks.rs`) | the session file | `on_session_start`, `on_post_tool_use`, `on_stop`, `on_session_end` | all below |
| outbound queue (`queue.rs`, `store.rs:151-200`) | `queue.jsonl` | `enqueue`, `flush` | credentials, backend |
| credentials (`credentials.rs`, `api.rs:117-159`) | OS store, file fallback, token cache | `read`, `write`, `clear`, `current_token`, `refresh`, legacy migration | backend, command line |
| turn verification (`verify.rs`) | `TurnState` in the session | `record_*`, `catch_file`, `turn_verification` | handlers |
| revert detection (`revert.rs`, `git.rs`) | `FileTrack`s in the session | `track_edit`, `track_command`, `mark_reverted` | working tree |
| signals (`signal/*.rs`) | none | test commands and outcomes, git commands, weakened tests | handlers |
| transcript sweep (`transcript.rs`, `decline.rs`) | a byte offset in the session | `sweep_transcript` | the host's file |
| prompt insight (`prompt_insight.rs`, `hooks.rs:491-534`) | a line offset and a number | turns since the last Stop, one attempt each | backend |
| extraction (`extract.rs`, `classify.rs`, `types.rs`, `wire.rs`) | none | payload to facts, path to class, event to wire | handlers |
| receipt (`receipt.rs`, `store.rs:202-270`) | ledger and counters per day | `record`, `record_insight` | handlers |
| command line (`cli.rs`) | none of its own | login, logout, status, dry run | credentials |
| the rest (`copy.rs`, `settings.rs`, `reads.rs`, `repo_id.rs`, `time.rs`, `api_url.rs`, launchers) | none | texts, conversions, packaging | |

### What is hard about it

* **Interleaving.** Parallel tool calls run handlers of one session at once.
  The session file is read, changed and written under the lock; the handshake,
  the claim of a retry and the removal write it *without* the lock. The queue
  has no lock at all: a flush holds what it read for seconds.
* **Ends at any point.** No `Drop` runs when the watchdog or the host ends a
  process: locks stay, appends are torn, what was sent is still queued.
* **Timeouts.** The lock's expiry measures how long a hook has waited, not how
  old the lock is.
* **Repetition.** The host may report a call twice and starts sessions again in
  their middle (resume, compaction); undelivered batches are sent again.
* **Bounds.** 2000 queued events, 500 per request, 2000 remembered ids.
* **Guesses.** What happened is read out of a command's text, an exit status, the
  runner's output, the content of files at the time a hook runs, and a
  transcript that the host is still writing.

`PROJECT.json` lists every hazard at its line with the property that would catch
it, or why none does yet.

### What makes each component correct

* *Lock*: at most one hook inside; a lock left behind does not wedge the others.
* *Session file and handlers*: no hook undoes what another recorded; a call is
  counted and a turn is settled once; no edit is lost between PostToolUse and
  Stop; a muted session is silent; every hook ends.
* *Queue*: what was taken in is delivered or was dropped by the bound, oldest
  first; the bound holds; nothing is sent twice needlessly; one session that
  cannot send does not hold up the others.
* *Credentials*: a sign-in survives concurrent renewals, slow stores and kills; a
  logout leaves nothing to send with.
* *Signals*: never "passed" on an exit code that another command may have set;
  counts are those of the run.
* *Turn and reverts*: a revert is reported once and only for content that went
  back; a turn ends green only if its tests passed after its edits.
* *Transcript*: every decline and every prompt is found once, however the file
  grows, and nothing that only looks like one.
* *Handshake*: fail closed; retries kept to the backoff; a session that may run
  comes to run.

## 2. Modules

| Module | Models | |
| --- | --- | --- |
| `SessionLock` | `with_session_lock` | its own instance, and the lock of `HookSession` |
| `HookSession` | handlers and handshake over the session file | extends `SessionLock` |
| `Outbox` | what the queue promises | abstract specification |
| `EventQueue` | `enqueue`, `flush` over `queue.jsonl` | implements `Outbox` |
| `Credentials` | `current_token`, `refresh`, `read`, `write`, `clear`, login and logout | on its own |
| `Handshake` | `ensure_session`, `begin_attempt`, `run_handshake`, and what handlers write to the session beside them | details the handshake step of `HookSession` |
| `Shell` | segments, words, wrappers and git invocations of a command | operators |
| `TestRun` | `signal/testrun.rs`: runners, trust, summaries, outcome | extends `Shell` |
| `Extract` | `extract.rs`, `decline.rs`, `classify.rs` | extends `TestRun` |
| `GitCommand` | `signal/gitcmd.rs`, `signal/weakened.rs` | extends `Extract` |
| `Signal` | `LocalSignal::read` of `hooks.rs` | extends `GitCommand` |
| `BashCall` | a Bash call from the shell to what the hook reports of it | extends `Signal` |
| `Verification` | `verify.rs` | operators |
| `Turn` | the turns of a session: `on_post_tool_use`, `on_stop`, `revert.rs` | extends `Signal`, `Verification` |
| `Transcript` | `transcript.rs`, `prompt_insight.rs`, the sweeps of `on_stop` | on its own |
| `SessionLockProofs`, `HookSessionProofs`, `BashCallProofs`, `TurnProofs`, `CredentialsProofs`, `HandshakeProofs`, `EventQueueProofs` | | theorems, each over the module of its name |
| `SequenceLemmas` | | sequences without repetition, sequences cut in two, induction, recursion, sums |
| `MC...` | | instances for TLC |

The modules meet at the session file. `HookSession` shows what of it survives
concurrent hooks; `Turn`, `Transcript` and `Handshake` have the fields that
`HookSession` abstracts, and take a handler's read, change and write as one step
where the lock justifies it.

### SessionLock

A hook is a process with a place `pc` in `with_session_lock`: `outside`, about
to `mkdir`, `blocked` by a directory that is there, `inside`, `left`, `dead`.
`lock` is the hook whose `mkdir` made the directory that is there now. The path
does not say whose it is, and neither `Break` (a waiter past its deadline) nor
`Release` (the guard) asks. `expired` holds the hooks whose own 2000 ms are over:
the deadline is set once, before the loop (`store.rs:130`), and never again, so
an expired hook that finds the directory again removes it again. A mkdir may also
fail for another reason than a directory that is there; the loop does not tell the
difference and waits (`FindLocked`). `Die` leaves
the directory. `broken` is a history variable: how often a directory was removed
under a hook that was still inside.

### HookSession

Every hook is a process with a place `at[h]` in its handler. `Fire` starts it
with a `job` (which hook; for a tool call, its id and whether it edited). The
places before the lock are `ensure_session`: read the file, claim a retry,
handshake, `finish`. In the lock a handler reads the file again (`Current`) and
either leaves a call that was counted alone (`SkipSeen`), counts it
(`CountTool`), or settles the turn (`SettleAtStop`, `SettleAtEnd`); `WriteBack` is
`write_session` with its cap, `Leave` the end of the closure, `HandOver` the
hand-over to the queue, `ClearSession` the removal of the file. Reading and
computing are one step, because nothing but the file is read and the effect of
others on the file before `WriteBack` is what the properties are about. The write
is one step because it is a rename (`store.rs:458-481`).

The file is a record of what the handlers' promises depend on: `inert` and
`retry` (the handshake's), `seq`, `turn`, `seen`, `pending` edits and the part of
the transcript that was `swept`. The rest of the turn's bookkeeping (runs, flags,
files) is filled when an edit becomes pending and emptied when it is decided, and
is left out; so are counters that nothing reads back. A transcript is the set of
the calls it shows as declined. A handshake is one of three answers: run, stay
inert, stay inert and try again later.

Four history variables tell what happened apart from what should have: `reset`
(a write without the lock changed what hooks had recorded), `broken`, `wrote` and
`put`. `Whole == broken = 0 /\ ~reset` says that neither of the two ways the
file's integrity is given up on purpose has occurred: an expired lock of a hook
that still runs, and a session that starts again or ends beside a running hook.
The properties that need it say so; what happens without it is stated by the
runs that expect a violation.

### EventQueue and Outbox

A hook goes through `enqueue` (`ReadForEnqueue`, then `AppendFresh` or
`ReplaceWithNewest`) and `flush` (`ReadForFlush`, then per session `BeginGroup` or
`FailGroup`, then per chunk a post with its answers, then `ReplaceWithFailed`).
Every read, request and write is a step of its own, and so is a kill, also in the
middle of an append (`KillInAppend`: a partial line that swallows the first record
of the next append). After a hook ends the next hook may take its place, so that
a few model hooks stand for any number in sequence.

An event of the model is one handing-in, and `IdOf` gives its eventId, which is all
`enqueue` compares, and only with the ids in the file (`New`). So an id
that was sent and left the file is taken in again when it is handed in again. That
is no rare case: PostToolUse tells of a declined edit (`hooks.rs:146-160`) and the
sweep at Stop tells of it once more under the same id (`hooks.rs:427-441`); whether
the backend keeps the two apart is the backend's.
`raced` and `overlap` are
history variables: a file was replaced although it had changed since it was
read; two hooks were between their reads and their writes at the same time.

`Outbox` is what a single hook at a time relies on: a bounded buffer that an
event leaves by being sent or for lack of room, where what was sent occupies room
until the file is rewritten, and that takes in an id that is not in it (`NewIdsTo`).
`EventQueue` implements it with the queued events
that were not acknowledged as `held` and those that were as `spent`.

### Credentials

A credential is the serial number of its access token and that of its refresh token; the
backend numbers what it issues, and `honoured` are the refresh tokens it takes. The
credential is in three places: `store`, `file` and, for the access token alone, `cache`.
A process is a hook or the developer's command; `mem` is the credential in its hands,
`held` its own cache of the last read. Every call to the store, every request and every
file operation that another process may come between is a step of its own: a read looks
into the store (`ReadStore`, `StoreIsSilent`) and, if that is empty, for the file
(`LookForFile`, `ReadFile`), which it may `Move`; where the store fails at once, holds
what cannot be parsed, or does not exist, the file is read and left where it is
(`ReadAlone`); a refresh exchanges, sets the store and settles, or keeps the file. Any
step may be followed by `Kill`. A token may be found fresh or about to expire at any
time, so there is no clock. A set or delete that times out has taken effect or has not;
that it takes effect later is left out. The backend replaces the refresh token it is
given (`Rotates`); where it does not, a renewal cannot lose one.

The history variable `signed` says how the sign-in ended: "lost" marks a step that
loses it in a way the code leaves open (an answer lost or a kill between exchange
and write; a step of `Move`, `Settle` or `Keep` that leaves less to be read than
there was), and `LoginKept` says that there is no other way. `mixed` is what a
logout met: a running hook, a store that was silent.

### Handshake

A hook goes from `ensure_session` (`FindNoSession`, `FindDue`, `Claim`) through a token,
a renewal, a request, a second one after a 401, the refetch of a bundle nobody has, to
`finish`; each read, request and write is a step, and `Cut` ends the process at any of
them. A hook whose session is live goes on to its handler, which reads the file again,
writes back what it read (`WriteBack`), or leaves it (`SeenBefore`), and at the end of
the session removes it (`Clear`). Handlers hold the session lock; a handshake and the
removal do not, and a waiter past its deadline goes on without it, so that nothing keeps
these steps apart and the module has no lock. The answer is a record of what decides:
whether the session may run (the kill switch and the allowlist are one choice, `runs`),
the version of the bundle and the opt-ins. Hooks are over in seconds and the backoff is
minutes, so time passes (`Tick`, to the next retry) only while no attempt is made.
`Change` is the environment: the organisation, the network, the credential; `Recover` is
a backend that answers again.

History says when an attempt should come (`quiet`, the minutes the failures so far
call for) and which causes a deviation has (`unruly`): "overlap", two hooks that
began before either wrote; "cut", a hook that ended in between; "late write", a handler
that wrote back a session over what another hook had written since it was read;
"ended", a session removed while an attempt was made; and the causes for
which a session stays inert for good although it is no answer of the organisation:
"store" (a credential store that did not answer in time counts as not connected),
"renewal", "refused", "no credential"; "muted" is the organisation's own. `FailClosed` and
`BackoffKept` name the first four (`Disorder`), and without any one of them TLC finds a
counterexample; `BecomesLive` needs none of them.

### Shell, TestRun, Extract, GitCommand, Signal

Pure functions of the code as operators of the same names. A command is a sequence
of tokens, an output a sequence of lines, a line a record of the pattern that
matches it and the numbers it captures, a path its components, a text the markers
on its lines. So the regular expressions, quoting and character counts are data;
what is done with matches is all there: the order of parsers, which of several
lines stands or whether they add up, which number stays unknown, which connector
takes the status away, which wrapper is skipped with which flags.

### BashCall

An agent types a command of `phrases` and `links`; a small shell runs it, with
`&&`, `||`, `;`, pipes, `&` and here documents, where each test run has counts, fails or
not, and prints the summary of its runner in its style; the host tells the result in
one of the shapes of its payload, and `Read` is the hook. The shell is the
reference: what ran and how it ended is compared with what is reported.

A run may also break before its tests run: a module that cannot be collected, a suite that does
not load, a build. Some runners say so in their summary (pytest's errors), others in a
line that no parser reads, or not at all (`Silent`). Other programs of the command print
too: `cat` shows the log of any earlier run, of any runner and in any style, one that
failed included (`otherRed`). What is seen of a summary is all of it, its last line, or
nothing (`Printed`), as when a pipe cuts it. `MaxScan`, the
256 KiB at the end of an output that are looked at, counts lines.

### Verification and Turn

`Turn` has a small repository (files, commits), an agent that edits, tests and runs
git, several calls of one batch in any order, and a hook for each call that comes
some time after it, in another order, twice (`Again`), or never (`Killed`).
`Record` is `on_post_tool_use` up to `track_command`, whose targets and commit are
steps of their own (`TrackTarget`, `TrackCommit`) because each reads the state the
one before it left; the lock keeps other hooks out in between. What a hook takes from
its payload alone (`ReadCall`) is a constant of the instance, the table `Reads`. `Stop` settles the
turn.

The client sees calls and not the repository, so reports can be wrong; `unseen`
names the causes: "overlap" (calls of one batch), "killed", "commit before restore"
(`track_command` takes restores first), "half done" and "no status" (the status is of
a whole command, and an unknown one counts as 0, `hooks.rs:351`), "other head" (a
commit the client did not follow) and "untracked" (git leaves a new file alone, the
client does not know that it is new to git). Each property lists the causes it
excuses, and each of them is needed.

### Transcript

The file is a sequence of tokens: line ends, the markers and keys the scanner looks
for, braces. The host writes the lines of a conversation, each in one go or in two,
and may begin a new file. `Stop` sweeps the declines (`SweepTranscript`, with the tail
window, the spans of blocks and the two budgets) and the turns (`SweepTurns`, with its
count of lines), `Send` posts one submission. `StopUnread` is a Stop that cannot read the
file: where its size is not to be had the offset stays, where only its content is not, the
offset moves to the end and the declines before it are lost (`transcript.rs:72-97`); turns are
then left for the next Stop. A message has one or more blocks of text, which are
joined. `StartAgain` is a second SessionStart,
which reads everything again. The properties speak of messages, not of bytes.

## 3. What is checked

| Run | Bounds | Shows |
| --- | --- | --- |
| `session_lock` | 4 hooks, 62 000 states | `OverlapBounded`: every live lock broken admits at most one hook too many; deaths and abandoned directories admit none. `InsideOwnsLock`: with none broken, exclusion, and nobody removes another's directory. `NoWedge`: who waits gets in or ends. |
| `hook_handlers` | 2 hooks of all kinds, 2 calls, 1 kill, 165 000 states | `LockedWriteKeepsFile`: what is written under the lock loses nothing of the file unless it decides it, while `Whole`. `EveryHookEnds`. |
| `hook_session` | 3 hooks (tool, stop, end), 1 call id or none, 1 kill, 1.6 million states up to symmetry | `CountedOnce`: no two hooks hand over the same event, while the file has room for the ids of the calls that hooks counted or told of as declined. `NoEditLost`: a recorded edit is pending until a hook that wrote has decided it. |
| `event_queue` | 2 hooks, 2 sessions, any 3 of 4 events of which two have one id, room for 2, chunks of 1, 1 kill, 918 000 states up to symmetry | `LostOnlyByRace`: what was taken in is lost only by a replacement from a stale read. `QueueBounded`, `SessionShedsOldest`. `NoResend`: what was handed in once is sent once, and an id once for all hand-ins that waited together, unless hooks overlapped or one was killed. |
| `serial_queue` | 1 hook at a time, 5 events, two of them with one id, room for 3, one session never connected, 25 000 states | `ImplementsOutbox`, `Drains`. |
| `credentials` | 2 hooks and the command, 3 credentials, 3.0 million states up to symmetry | `LoginKept`: no renewal, timeout or kill loses a sign-in but in the ways named. `LogoutKept`: nothing is left after a logout that met no hook and no silent store. |
| `handshake` | 2 hooks, 2 versions, 1 opt-in, 1 change and 1 fault or end, 1.1 million states | `FailClosed`: who runs has a classifier and the newest answer. `BackoffKept`: no attempt before its time, nor two for one. Both but for the four ways of `Disorder`. `BecomesLive`: a session that may run comes to run, whatever was cut, overlapped or written over. |
| `bash_call` | 5 dialects: 4 phrases and 4 connectors in up to 5 parts; logs of earlier runs and cut output; 18 summaries of 15 runners, with suites that break; here documents; 1.3 million states | `GreenByStatus`, `GreenBySummary`: "passed" only if tests ran and none failed, where the exit status decides and where the summary has to. `NoFalseRed`: "failed" only if a test failed or broke, or another program showed a summary that says so. `CountsAsRun`, `ExitAsHappened`. |
| `turn` | 2 files, 2 contents, 4 scenarios of 3 or 4 calls, 380 000 states | `NothingRevertedTwice`, `ReportedMeansUndone`, `UndoneIsReported`: a revert is reported when and only when one happened. `EndedGreenAsHappened`, `DecidedAsVerified`, `StreakIsLongest`: the turn's event. |
| `transcript` | 5 conversations of 4 to 6 messages, 3 Stops, 1 fault, 503 000 states | `RejectionsAreDeclines`, `DeclinesReported`: exactly the declines, at Stops that can read the file. `SubmittedAsWritten`, `TurnsSubmitted`: every prompt with its reply. |

Two runs expect a violation: each checks one sentence of the source's comments
against what the code does.

| Run | The sentence | What TLC shows |
| --- | --- | --- |
| `nothing_lost` | "Nothing is ever lost, only delayed" (`queue.rs:77`) | A flushes what it read, B appends, A replaces the file by its failures: B's event is gone. |
| `muted` | "nothing at all" (`session.rs:5-6`) | A hook inside the lock writes the live state back over the inert state the handshake has just written. |

### Where the code is not what its comments say

The passing properties have exceptions exactly where the code leaves something
open; a reader of the code should know these:

* A waiter's deadline is the age of its wait: one that queued behind several short
  holders removes the directory of a hook that just got in, although "a stale lock
  expires" (`store.rs:124`). `OverlapBounded` counts such breaks.
* A failed flush leaves the file grouped by session, and the next overflow drops
  a newer event of the first group, although "the OLDEST records go" (`queue.rs:3`).
  `SessionShedsOldest` holds within a session only.
* A second SessionStart (resume, compaction) sets `event_seq` back to 0, although it
  is "only ever incremented" (`store.rs:335`), so two calls without an id of their
  own can get one id; and it reads the transcript again.
* A logout whose calls to the store time out says "Flueny will send nothing" (`cli.rs:308`),
  and the next hook finds the credential. `LogoutKept` excuses a silent store.
* The trust in a status looks at what follows the test command only. In
  `a || cargo test` the tests are skipped if `a` succeeds, and the status, trusted in
  full as the test's "own" (`testrun.rs:81`), becomes "passed". A here document that holds a
  test command is a test run, although a heredoc "can only make a detector miss,
  never invent a run" (`testrun.rs:112-114`). `GreenByStatus` excuses both (`MayNotRun`).
* A summary is not asked whose it is. In `cat old.log; npm test` the failures of the old log
  make a run "failed" whose tests pass, although "The runner said tests failed"
  (`testrun.rs:913`); jest's line of tests says nothing of a suite that did not load, and
  with the status lost to a pipe the run is "passed", although the code must "never guess
  `passed`" (`testrun.rs:14-15`). `NoFalseRed` excuses the first (`otherRed`),
  `GreenBySummary` both (`Mixed`, `BrokeUnstated`); without them TLC finds either at once.
* An eventId is compared with what is queued, not with what was sent: a declined edit
  that PostToolUse has told of is told of again by the sweep at Stop, and sent twice,
  with one hook after the other and nobody killed. The comment says the two share
  an eventId (`hooks.rs:148-151`); it is for the backend to use that. `NoResend` and `Outbox` allow
  it, `CountedOnce` exempts it.
* A handler that had read a live session writes it back over the inert one that a
  handshake wrote in the meantime (`muted`), and over the retry time that another hook had
  claimed. `FailClosed` and `BackoffKept` name it ("late write").
* A Stop that can tell the size of the transcript and not read it declares all of it swept
  (`transcript.rs:92-97`): the declines in it are not reported by a later Stop.
  `DeclinesReported` speaks of declines that were there at a Stop that could read.
* A decline, or a prompt, of which one half was in the file at a Stop is not
  reported by the next: both sweeps go on behind the half (`transcript.rs:128`,
  `prompt_insight.rs:105`), although that line is taken for "a torn final line"
  that is merely skipped (`prompt_insight.rs:84`).
* A credential store that is slow once at SessionStart mutes the session without a
  retry (`session.rs:74-84`), where a slow backend is retried.
* A renewal may take 10 s (`api.rs:21-23`) and the watchdog ends the hook after 8 s: the
  attempt leaves nothing behind, and at SessionStart not even a file, so that every
  hook begins anew, without a backoff.

### Why the bounds are enough

The lock's failure needs a holder, an expired waiter, a hook that gets in after the
break, and one more that the displaced holder's release lets in: four. Handlers interact
through the file only, so two see every order of two read-modify-writes with every
unlocked write; a third is needed for one that counts, one that settles and one that
ends (`hook_session`), and the proofs cover any number. With room for two events,
hand-ins of two and chunks of one (`event_queue`), every hand-in can overflow, every
group has several chunks and both sessions queue. One of the four events has the id of
another, so that it is handed in before, beside and after the other was sent;
`ThreeHandIns` cuts off what is reached with the fourth. `serial_queue` has five, one
hook at a time, and a hand-in in which the known id is not the only one. Three
credentials are one to start with, one renewed and one of a new login or a second
renewal, which is every pair a late write can put in the wrong order; kills, timeouts
and logouts are not bounded there. `MaxKills` counts the kills of the others; one
suffices for each of the places a kill leaves something behind (a lock, a mark without
events, a torn line, an unrecorded delivery), and the lock's own instance has no bound
on deaths. In `handshake` a change makes an answer differ or an attempt fail, before,
beside or after a fault or the end of the session, and that a backend answers again
(`Recover`) is not counted; TLC finds that each of the four causes of `Disorder` is
needed. Its session begins where most is still to come (`MCInit`: no bundle, a
credential to renew, a silent backend). That `FailClosed` and `BackoffKept` hold from
every beginning and for every number of changes, faults and hooks is proved. `bash_call`
has all pairs of connectors around a test with a program before and after it, and every
summary by itself, two runs in one output included, the log of a red run before and
after a green one, and outputs longer than the lines that are looked at (`MaxScan` = 3);
`turn` every order of edit, commit, restore and revert up to four calls, in one scenario
each for single calls, new files, overlapping calls, and runs. In `transcript` a tail is
shorter than the longest conversation and longer than the shortest, so is the size that
is read whole, and three Stops are one before, one in the middle and one after any line.
The constraint of `hook_session` (`Whole`) cuts off states in which both its properties
hold for want of their premise, and from which `Whole` cannot come true again.

### Fairness

* A process that runs goes on (`WF` of its next step), until it ends or is
  killed; nothing obliges a hook to be killed, or the host to fire one.
* Time passes for a waiter (`WF` of `DeadlinePasses`): the clock is monotonic.
* What happens inside the lock ends (`EndInside`): the closures neither wait nor
  use the network (`hooks.rs:402-403`).
* `Drains` alone needs an environment: hooks fire now and then (the client has no
  timer), and of infinitely many attempts for a connected session some find a
  credential and some are answered (`SF`). Nothing is assumed of other sessions.
* `BecomesLive` assumes that a process goes on (`WF` of `Step`), that hooks keep coming
  (the steps that begin a later hook are among them) and that minutes pass (`WF` of
  `Tick`); nothing says that a session starts again or that a change happens.

`EveryHookEnds` and `NoWedge` include the wait: the loop ends because an expired
waiter removes what is there and mkdirs again without sleeping, and because only
finitely many hooks exist in an instance. Deadlock is checked except in `bash_call`,
`turn` and `transcript`, where a command, a session and a conversation are over after a
bounded number of steps by design; the other specifications go on for ever or have
an explicit step for "every hook has ended".

## 4. What is proved

Every theorem holds for every number of hooks, calls and events and every bound. What is
assumed of the constants are the named `ASSUME`s of the modules (`HookAssumption`,
`SessionAssumption`, `CredentialAssumption`, `HandshakeAssumption`,
`QueueAssumption`, `CountAssumption`, `ScanAssumption`, `DialectAssumption`,
`ScenarioAssumption`, `DetectAssumption`): hooks are finitely many, the sets are apart,
bounds are numbers, what they must at least be (one event in the queue, five failures
until the backoff no longer grows) is the code's, and a phrase of a command is words without
connectors. Those of `Turn` say of an instance that its edits are of its files, that
its commands run what its git models, with tests at the end if at all (behind `&&` they
decide whether what follows runs, and a failure later on hides them), and that the
detector sees the tests: whether it does for any command is the subject of `BashCall`.
TLC evaluates them in every run.

**The lock** (`SessionLockProofs`): `LockType`, `LockOverlap`, `LockOverlapBounded`,
`LockOwned`. `OverlapBounded` is not inductive: a mkdir after a break would exceed it.
`OverlapInv` adds that one hook fewer is inside while the directory belongs to none of
them; `mkdir` spends that credit, and `Break` of a live lock and `Release` create it.
`InsideOwnsLock` says more than exclusion because a release by path would otherwise
admit two hooks.

**Handlers** (`HookSessionProofs`):

* `HandlersUseTheLock`: a behaviour of `HookSession` is one of `SessionLock`, so the
  lock's theorems hold of it.
* `HookType`: the types, and that a hook at `write` or `release` is inside the lock.
* `HookWrites`: the inductive invariant `WriteInv`, that a hook about to write
  holds all the file holds. A second write between is excluded by
  `InsideOwnsLock`; writes without the lock either leave the record as it is or set
  `reset`. `HookKeepsFile` (`LockedWriteKeepsFile`) follows.
* `HookKeepsEdits` (`NoEditLost`): with `EditInv` (who wrote is past its write; an
  edit is pending in what its hook is about to write) every step keeps each edit
  pending or decided; `WriteInv` covers the step that matters, another hook's write.
* `HookCountsOnce` (`CountedOnce`): that two hooks have handed over nothing in common
  says nothing of a third that is about to. `OnceInv` says that the file, and what a
  hook is about to write, know of every event that was written (`Known`: its id is
  remembered, its edit is no longer pending, its turn is not above the counter), and
  that a hook hands over only what was not known to the file it read. `BlankInv` is
  there for the file that is not there yet: a record never becomes empty again, so that
  a hook that finds no file under the lock had not found one before.

**The queue** (`EventQueueProofs`): the file and the lists a hook carries from its read
to its write. The steps are put in six classes (lemma `Cases`): a read for enqueue or
flush, work on what was read, an append, a replacement, a kill; each invariant has one
lemma per class.

* `QueueTypes` (`TypeOK`), with what a hook may hold at each place (`HookIn`) and that
  no list has an event twice. New events of two hooks are different (`HookInv`), as ids
  of events are, and what is new to the file has never been in it.
* `NothingLostButByRace` (`LostOnlyByRace`): `LostInv`, that a hook whose file has
  not moved on since its read knows all of it: what is queued is answered or among what
  the hook still has (`Local`), so that the replacement loses nothing else.
* `SentOnce` (`NoResend`): `AloneInv` and `CleanInv`, that one hook at most is
  between its read and its write while there was no overlap, and that nothing queued was
  answered unless a hook is about to take it out. That nothing else queued has the id of
  what is sent comes from `New`: ids are looked for in the file and in the hand-in itself.
* `OldestShedFirst` (`SessionShedsOldest`), whatever hooks race: a hook's lists are in
  the order in which the events of a session reached the file (`Sorted`), although
  the file as a whole is not.
* `QueueStaysBounded` (`QueueBounded`): each hook that appends found room for what it
  adds, but at different times. `RoomInv` counts: once hooks have overlapped there is
  room, up to the bound and one hand-in for every hook but one, for one hand-in of each
  hook that is still to append, or for what one of them adds and one hand-in of each of
  the others. A hook that begins to append joins as the one whose addition was measured
  against the file as it is now.
* `QueueIsOutbox` (`ImplementsOutbox`), for one hook at a time, the case in which the
  promise is made: an append and a replacement by the newest are `Accept`, a 2xx is
  `Deliver`, the replacement by what failed is `Clear`, everything else, kills included, stutters.
  `Accept` asks for ids that are not in the buffer, and no more: one that was sent and
  cleared may come again.
  With more hooks it is false, which is what `raced`, `overlap` and the weaker
  invariants above are about. It covers the safety of `Outbox`; that has no fairness.

**Credentials** (`CredentialsProofs`): `CredentialTypes` (`TypeOK`), `SignInKept`
(`LoginKept`) and `SignedOutKept` (`LogoutKept`). That a credential the backend takes
is in the store or the file does not survive a renewal, which makes the stored one
worthless before the new one is written. `LoginInv` counts a process that is about to
write a credential newer than the stored one as another place, also where the store is
empty and a late write to the file could follow; `NewInv` says why no other process
can spoil it: where refresh tokens rotate, what was just got is nowhere else. `LogoutInv` follows
a logout through its deletion, with what a hook that could write something back would
have left in `mixed`.

**Handshake** (`HandshakeProofs`), for any number of hooks, handlers among them:
`HandshakeTypes` (`TypeOK`), `SessionFailsClosed` (`FailClosed`) from `BundleInv` (what
a handler holds included), `OneInv` (one attempt at a time unless they overlapped) and
`AnswerInv` (who is past the answer knows the newest), and `AttemptsKeepDistance`
(`BackoffKept`) from `BackoffInv`: the retry in the file is not before the minutes the
failures call for, and the hook in an attempt knows of as many failures as were missed;
the delays grow with the failures (`DelayGrows`).

**Bash calls** (`BashCallProofs`), for commands of any length, any phrases, any runs of
tests of any number of packages, any runners and either host. The detector reads the
text of a command, the shell runs it, and neither knows of the other:

* `CallTypes` (`TypeOK`).
* `ExitTold` (`ExitAsHappened`): each shape a payload can have is read by `BashResult` as the
  status of the shell or as no status (`ReadShapes`, `ToldAsEnded`).
* `NeverGuessPassed` (`GreenByStatus`): "passed" by the status means that the tests ran
  and none failed. Where no here document and no `||` or `&` is in the command, the
  segments of the detector are the simple commands of the shell (`SegmentsAgree`, by
  induction over the tokens, from `SegmentsByScan` and `SimpleByRead`). `RunInv` says of the
  shell after some of them: if a test is behind it and only `&&` between, a status of 0
  means that the first run of tests passed. A trusted status has only `&&` behind
  its test (`TrustJoins`).
* `NoFailureInvented` (`NoFalseRed`): a number above 0 under a kind that stands for
  failures or errors is in the output only if a test of the command failed or broke, or
  another program showed a summary of a run in which one did (`Tells`, `IsText`,
  `OutputInv`: twenty styles of summaries, cut off, cut to a line or whole, the packages
  one by one and in total), and each of the thirteen parsers, whether hinted or one of
  those tried after it, makes a number of failures only of such (`ParsersSure`,
  `GoSure`, `DotnetSure`, `SummarySure`): the last line, the sum of lines or the last
  number of each kind, capped, of the last lines of the output. A total minus its parts
  is never a number of failures.

**Turns** (`TurnProofs`), for every repository, classifier, set of commands, number of
calls, order of hooks and faults:

* `RevertsOnce` (`NothingRevertedTwice`): not inductive alone; with `Spent` a file's
  reverts, one for being dirty and one for its place in the last commit together are at
  most its recorded edits: a revert spends one of the two, an edit brings one, and a
  commit passes it on. `TrackType` has the types it needs.
* `TurnAgrees` (`DecidedAsVerified`): `Agree`, that a turn has noted as many edits as
  are waiting for a decision. It needs that a waiting call was seen, as otherwise a call
  reported twice would be one decision and two edits.
* `StreakReported` (`StreakIsLongest`): the loop over the runs computes the longest
  block of failing runs of one command, for every list of runs. `StreakEndsBlock` is
  its invariant, and `Agree` gives that the runs of a turn are a list.
* `GreenFollowsBatches` (`EndedGreenAsHappened`): the client numbers what it notes down in
  the order of its hooks, the property is about the order of the calls. `NotedInv` maps
  each step of the turn to the call it was noted for (`Follows`): steps in order are calls
  of batches in order, an edit's step is of an edit and a passed run's of tests that
  passed, and every seen call of the turn has its step. A new step keeps that only because
  a call whose hook is still to come is of the last batch (`OrderInv`: a batch begins when
  no hook is out), and a call reported twice is skipped. What a hook reads of its call is
  proved from its payload (`ReadsEdit`, `ReadsCommand`): accepted if and only if applied,
  passed if and only if the tests were done, which the repository does (`RunEnds`). When the
  turn is stopped every call of it was seen or killed (`TurnJudged`).
* `TurnTypes` (`TypeOK`): from the invariants of the other three and `TypeInv`. That the last
  commit has only files that were edited needs that what is uncommitted was; that
  a turn has a step for each entry is counted entry by entry (`Counted`).

### Induction over data

The library's induction theorems take a predicate as a parameter, which the provers
here cannot instantiate, but well-foundedness of `<` on the numbers (`WFMin`) is about
sets. `LeastNumber` and `Induction` of `SequenceLemmas` are induction for a set of
numbers, and `Recursion` says that what is computed step by step exists; with them it is
proved what the recursive functions of the models compute for every input: `Kept` and `New`
of the queue (lemmas `KeptFacts` and `NewFacts`), `Streak` of a turn, `Segments` of a command and
`Simple` of the shell. Those are therefore written as recursive functions, as the loops
of the code, and not as folds. Two operators of the community modules could be
reasoned about in the same way: `FlattenSeq` (`FlattenIn`) and `SumFunction`
(`SumPositive`: a sum of numbers is positive if one of them is).

### What the proofs corrected

* `LoginKept` noted a migration that puts an older credential over a newer one by
  comparing serial numbers; a number may be older and still be honoured.
  `Revives` asks for what matters, whether the backend still takes it.
* `CountedOnce` had its bound on the calls that were counted; declined calls take the
  room of ids too. The bound is now on all of them (`Remembered`).
* `SessionShedsOldest` excused races. It holds with them, and says so now.
* `ExitAsHappened` said nothing of a call that was still running; it now asks that a call
  with a status has nothing left to run. The shell could start a command that ends with
  `|&`, which no shell does, and the segments then had one connector more than there
  were commands.
* One property held "passed" by the status and "passed" by the summary against the
  same exceptions. They are two now: the exceptions for mixed output (`Mixed`) are not
  needed where the status decides.
* `GreenBySummary` and `CountsAsRun` were checked with outputs that are looked at whole.
  With shorter tails both fail: where each package prints a summary of its own, that of
  a failing one can lie before the tail, and the others add up to "passed". The code
  takes a summary to be at the end (`testrun.rs:496`). The exception is named
  (`BeforeTheTail`), and the instance now has such outputs.
* Four models were narrower than the code. `EventQueue` took in no id a second time, as if
  it remembered what was sent; a command could print no summary of failures but its
  runner's, and no errors at all; `Handshake` ended where the handlers begin; a Stop always
  read its transcript. The properties of each held for less than they said; the code's
  cases are in now, and the exceptions they call for are stated.
* Several operators had the `if`/`else if` of the code as a `CASE` whose guards
  overlap, which in TLA+ leaves the choice open: TLC takes the first, a proof may not.
  They are chains of `IF` in the order of the code.

### Only model-checked

* Liveness (`NoWedge`, `EveryHookEnds`, `Drains`, `BecomesLive`): liveness under
  fairness and `ENABLED` are out of the prover's reach. So are the two violations.
* `GreenBySummary` and `CountsAsRun` of `BashCall`: they need that each parser reads back
  exactly what each style prints, and that none tried before it fits, style by style.
* `Transcript`: its properties compare a scanner with a conversation, and its instances fix
  which tokens there are; for arbitrary files they are false (the scanner is a guess), and
  a theorem would have to say for which grammar they hold.
* `ReportedMeansUndone` and `UndoneIsReported` of `Turn`, for the same reason: they compare
  the files the client takes to be put back, word by word, with what git did, for the
  commands of the instance. What is proved of turns needs only whether a command runs tests
  (`DetectAssumption`).

## 5. What is not modelled

Texts, settings, status output, packaging and conversions (`copy.rs`, `settings.rs`,
`reads.rs`, `repo_id.rs`, `time.rs`, `api_url.rs`, `wire.rs`, launchers) have no behaviour to
check and are covered by unit tests; `git.rs` finds the repository and its remote by
reading git's files and is an input here. The receipt (`receipt.rs`) only reports to
the developer; its counters are read, added to and written without a lock.

In `HookSession` the raw activity request and the receipt follow the hand-over and
write nothing that the handlers read. In `SessionLock` a mkdir that fails for another
reason than a directory that is there fails until the deadline at most; one that always
fails (a directory without permission) keeps a hook in the loop until the watchdog ends
it, which is `Die`, and `NoWedge` does not speak of it. In `Credentials` the migration of the single
`credentials.json` of older clients, a no-op once that file is gone, and the choice
of the file by `FLUENY_CREDENTIAL_STORE` are left out. A payload without a session id
gets a session of its own (`hooks.rs`, `session_id_of`) and shares nothing with other
hooks.

In `Turn` every edit is told with an absolute path and, as Claude Code does, with the
content before it; without that no edit can put a file back (`revert.rs:112`) and the
rest is the same. Subagent counters and the list of tool activity are counted and
emptied with the turn and decide nothing. `on_session_end` settles as `on_stop` does. In
`Transcript` a Stop reads the size and the content at once, or is not able to read; a
transcript that ends within a character of several bytes is not read by
`prompt_insight.rs` at that Stop and keeps its offset. In `Handshake` what inert reasons
say is left out. In `BashCall` quoting, substitutions and redirections are words of the
shell that the detectors see as words too.

## 6. Plan

1. Proofs: `GreenBySummary` and `CountsAsRun` style by style; the parts of
   `ReportedMeansUndone` that do not depend on which commands there are; `Transcript`'s
   safety for conversations of any length.
2. Composition of `HookSession` with `EventQueue`: what one kill can lose.
3. `Receipt`: counters and ledger of concurrent hooks.
