-------------------------------- MODULE Turn --------------------------------
(***************************************************************************)
(* The turns of a session as its hooks see them: which tests ran after     *)
(* which edits, and which edits were undone (hooks.rs with verify.rs and   *)
(* revert.rs).                                                             *)
(*                                                                         *)
(* The agent's calls change a small repository, several of one batch in    *)
(* any order; the hook of a call comes some time after it, and the hooks   *)
(* of a batch in another order than the calls.  The repository, git and    *)
(* the host are the environment the reports are judged against.  Sequence  *)
(* ids, the list of tool activity and how events are handed over are those *)
(* of HookSession; on_session_end settles as on_stop does.                 *)
(***************************************************************************)
EXTENDS Signal, Verification

CONSTANTS
    File,          \* the files of the repository, by their path in it
    Lines,         \* the text of each content a file may have
    AtStart,       \* what the files hold before the session
    Root, Cwd,     \* the repository and where the session was started
    Scenario       \* what happens in one instance: [edits, fates, commands,
                   \* plain, calls, overlap, stop, faults, maxFaults], with the
                   \* edits (file and content), how they end, the commands,
                   \* whether a status may be missing, the bound on calls,
                   \* whether they overlap, whether the turn is stopped, what
                   \* the hooks may miss, and how often

VARIABLES
    scenario,                     \* one of Scenario
    tree, commits,                \* the repository: the files, and the commits
    calls,                        \* what was called, in order, and where each is
    faults,                       \* how many faults there were
    unseen,                       \* the causes for which a report may be wrong
    seen, testsRan, pending,      \* SessionState: seen_tool_use_ids,
    turn, files, lastCommit,      \* tests_ran_this_turn, pending_edits, turn,
                                  \* files, last_commit_files
    tracking,                     \* the hook that is in track_command
    reported,                     \* the "reverted" events: [call, file]
    accepted,                     \* the edits of each file that were recorded
    known,                        \* the commit that lastCommit is about
    settled, verdict              \* the calls of settled turns, the last one's events

world == <<scenario, tree, commits, calls, faults, unseen>>
session == <<seen, testsRan, pending, turn, files, lastCommit>>
vars == <<world, session, tracking, reported, accepted, known, settled, verdict>>

Absent == "absent"
Idle == {}
HeadTree == Last(commits)
Present == {f \in File : HeadTree[f] # Absent}
Open == {c \in DOMAIN calls : calls[c].state = "told"}

Track0 == [known |-> FALSE, dirty |-> FALSE, pre |-> {}, reverts |-> 0]

Init ==
    /\ scenario \in Scenario
    /\ tree = AtStart
    /\ commits = <<AtStart>>
    /\ calls = <<>>
    /\ faults = 0
    /\ unseen = {}
    /\ seen = {} /\ testsRan = FALSE /\ pending = {}
    /\ turn = NewTurn
    /\ files = [f \in File |-> Track0]
    /\ lastCommit = {}
    /\ tracking = Idle
    /\ reported = {}
    /\ accepted = [f \in File |-> 0]
    /\ known = 0
    /\ settled = 0
    /\ verdict = {}

-----------------------------------------------------------------------------
(* Git and the host.                                                       *)

\* The files a path names from the directory of the session.
Named(words) ==
    {f \in File : \E i \in DOMAIN words : IsPrefix(Normalize(Cwd \o PathOf(words[i]).parts), Root \o f)}

Restoring == {"restore", "checkout", "reset", "stash"}

\* A repository while a command runs: [tree, commits, ok, done].  A commit takes
\* the whole tree; HEAD is reverted if nothing is uncommitted.
Git(w, call) ==
    LET head == Last(w.commits)
        tracked == {f \in File : head[f] # Absent}
        fs == IF call.sub \in {"restore", "checkout"} THEN Named(Positionals(call.args)) ELSE File
        previous == w.commits[Len(w.commits) - 1]
    IN IF call.sub \in Restoring
       THEN IF fs \cap tracked = {} THEN [w EXCEPT !.ok = FALSE]
            ELSE [w EXCEPT !.tree = [f \in File |-> IF f \in fs \cap tracked THEN head[f] ELSE @[f]]]
       ELSE IF call.sub = "commit"
       THEN IF w.tree = head THEN [w EXCEPT !.ok = FALSE] ELSE [w EXCEPT !.commits = Append(@, w.tree)]
       ELSE IF w.tree # head \/ Len(w.commits) = 1 THEN [w EXCEPT !.ok = FALSE]
            ELSE [w EXCEPT !.tree = previous, !.commits = Append(@, previous)]

\* The steps of each command, which are joined by "&&" only: git invocations
\* and runs of tests.
Steps == [command \in UNION {s.commands : s \in Scenario} |->
            [i \in DOMAIN Segments(command) |->
                LET ws == Segments(command)[i].words
                IN IF Program(ws) = "git" THEN SplitGit(Arguments(ws)) ELSE [sub |-> "tests"]]]

RunStep(w, step, pass) ==
    LET next == IF step.sub = "tests" THEN [w EXCEPT !.ok = pass] ELSE Git(w, step)
    IN IF ~w.ok THEN w
       ELSE IF next.ok THEN [next EXCEPT !.done = Append(@, step.sub)]
       ELSE next

Run(command, pass) ==
    LET w[n \in 0..Len(Steps[command])] ==
          IF n = 0 THEN [tree |-> tree, commits |-> commits, ok |-> TRUE, done |-> <<>>]
          ELSE RunStep(w[n - 1], Steps[command][n], pass)
    IN w[Len(Steps[command])]

\* Whether tests pass is a choice where there are tests.
HasTests(command) == \E i \in DOMAIN Steps[command] : Steps[command][i].sub = "tests"
Passes(command) == IF HasTests(command) THEN BOOLEAN ELSE {TRUE}

\* A call made while every hook before it has ended begins a batch.
Batch ==
    LET last == IF calls = <<>> THEN 0 ELSE Last(calls).batch
    IN IF Open = {} /\ tracking = Idle THEN last + 1 ELSE last

\* What a call is and what it did; result says how it ended for the host.
Made(w, tool, file, input, result) ==
    [state |-> "told", batch |-> Batch, tool |-> tool, file |-> file, input |-> input, result |-> result,
     replaced |-> IF file = NoFile THEN Absent ELSE tree[file], done |-> w.done, before |-> tree, head |-> HeadTree,
     after |-> w.tree, commits |-> Len(w.commits)]

\* Whether the agent may call a tool now.
MayCall ==
    /\ Len(calls) < scenario.calls
    /\ scenario.overlap \/ (Open = {} /\ tracking = Idle)

Fault(kind) == faults < scenario.maxFaults /\ kind \in scenario.faults

Overlap == IF Open # {} \/ tracking # Idle THEN {"overlap"} ELSE {}

DoEdit(f, content, fate) ==
    /\ MayCall
    /\ content # tree[f]
    /\ LET w == [tree |-> IF fate = "applied" THEN [tree EXCEPT ![f] = content] ELSE tree,
                 commits |-> commits, done |-> IF fate = "applied" THEN <<"edit">> ELSE <<>>]
       IN /\ tree' = w.tree
          /\ calls' = Append(calls, Made(w, "write", f, content, fate))
    /\ unseen' = unseen \cup Overlap
    /\ UNCHANGED <<scenario, commits, faults, session, tracking, reported, accepted, known, settled, verdict>>

\* What a hook cannot tell from the command and its status.
Causes(w, plain) ==
    {cause \in {"commit before restore", "half done", "no status", "other head", "untracked"} :
       \/ cause = "commit before restore"
          /\ \E i, j \in DOMAIN w.done : i < j /\ w.done[i] = "commit" /\ w.done[j] \in Restoring \cup {"revert"}
       \/ cause = "half done" /\ ~w.ok /\ w.done # <<>>
       \/ cause = "no status" /\ ~w.ok /\ plain
       \/ cause = "other head" /\ "revert" \in ToSet(w.done) /\ known # Len(commits)
       \/ cause = "untracked" /\ ToSet(w.done) \cap Restoring # {} /\ \E f \in File \ Present : tree[f] # Absent}

DoCommand(command, pass, plain) ==
    /\ MayCall
    /\ plain => scenario.plain /\ ~Run(command, pass).ok
    /\ LET w == Run(command, pass)
       IN /\ tree' = w.tree
          /\ commits' = w.commits
          /\ calls' = Append(calls, Made(w, "bash", NoFile, command, IF w.ok THEN "ok" ELSE IF plain THEN "plain" ELSE "failed"))
          /\ unseen' = unseen \cup Overlap \cup Causes(w, plain)
    /\ UNCHANGED <<scenario, faults, session, tracking, reported, accepted, known, settled, verdict>>

\* The developer changes a file that has nothing uncommitted, and commits it.
Developer(f, content) ==
    /\ Fault("developer")
    /\ f \in Present /\ tree[f] = HeadTree[f] /\ content # tree[f]
    /\ tree' = [tree EXCEPT ![f] = content]
    /\ commits' = Append(commits, [HeadTree EXCEPT ![f] = content])
    /\ faults' = faults + 1
    /\ unseen' = unseen \cup Overlap
    /\ UNCHANGED <<scenario, calls, session, tracking, reported, accepted, known, settled, verdict>>

\* A hook is killed before it has written.
Killed(c) ==
    /\ Fault("killed")
    /\ c \in Open
    /\ calls' = [calls EXCEPT ![c].state = "killed"]
    /\ faults' = faults + 1
    /\ unseen' = unseen \cup {"killed"}
    /\ UNCHANGED <<scenario, tree, commits, session, tracking, reported, accepted, known, settled, verdict>>

\* The host reports a call once more.
Again(c) ==
    /\ Fault("again")
    /\ calls[c].state = "recorded"
    /\ calls' = [calls EXCEPT ![c].state = "told"]
    /\ faults' = faults + 1
    /\ UNCHANGED <<scenario, tree, commits, unseen, session, tracking, reported, accepted, known, settled, verdict>>

Object(fields) == [kind |-> "object", text |-> <<>>, object |-> fields]
Text(lines) == [kind |-> "text", text |-> lines, object |-> <<>>]

\* What the host tells of a call.  An edit is applied, declined by the developer
\* or fails; a command is told with its status, or as a text without one.  The
\* id of the call is its place in calls.
Payload(call) ==
    [event |-> IF call.result = "failed" THEN "PostToolUseFailure" ELSE "PostToolUse",
     tool |-> call.tool,
     id |-> {},
     input |-> IF call.tool = "bash" THEN [command |-> call.input]
               ELSE [file_path |-> [root |-> TRUE, parts |-> Root \o call.file], content |-> Lines[call.input]],
     response |-> IF call.result = "applied" THEN Object([originalFile |-> Lines[call.replaced], output |-> <<>>])
                  ELSE IF call.result = "ok" THEN Object([stdout |-> TRUE, output |-> <<>>])
                  ELSE IF call.result = "declined" THEN Text(<<[form |-> "decline"]>>)
                  ELSE Text(<<>>),
     error |-> [code |-> IF call.tool = "bash" THEN {1} ELSE {}, text |-> <<>>],
     interrupt |-> FALSE]

-----------------------------------------------------------------------------
(* revert.rs.                                                              *)

MarkRevertedStillDirty(track) == [track EXCEPT !.reverts = @ + 1]  \* mutant
MarkReverted(track) == [track EXCEPT !.dirty = FALSE, !.reverts = @ + 1]

\* track_edit: the first edit of a file remembers what was there before (nothing
\* for a file it creates); a later one that leaves the same on the disk, read
\* when the hook runs, is a revert.
PutsBack(track, onDisk) == track.known /\ track.dirty /\ track.pre = {onDisk}

TrackEdit(track, original, onDisk) ==
    IF ~track.known THEN [known |-> TRUE, dirty |-> TRUE, pre |-> original \ {NewFile}, reverts |-> 0]
    ELSE IF PutsBack(track, onDisk) THEN MarkReverted(track)
    ELSE [track EXCEPT !.dirty = TRUE]

\* Mutants: a commit does not protect from "git stash"; directories are not
\* looked at.
TakesBackCommitted(target, f) == IF target.kind = "head" THEN f \in lastCommit ELSE files[f].known
TakesBackExact(target, f) ==
    CASE target.kind = "paths" ->
           /\ files[f].dirty
           /\ \E i \in DOMAIN target.paths : f \in ResolveFrom(Cwd, PathOf(target.paths[i]), {Root})
      [] target.kind = "all" -> files[f].dirty
      [] target.kind = "head" -> f \in lastCommit
      [] OTHER -> FALSE

\* The files a target of track_command takes back.
TakesBack(target, f) ==
    CASE target.kind = "paths" ->
           /\ files[f].dirty
           /\ \E i \in DOMAIN target.paths :
                \E rel \in ResolveFrom(Cwd, PathOf(target.paths[i]), {Root}) : f = rel \/ IsStrictPrefix(rel, f)
      [] target.kind = "all" -> files[f].dirty
      [] target.kind = "head" -> f \in lastCommit
      [] OTHER -> FALSE

-----------------------------------------------------------------------------
(* The hooks.  The lock keeps one at a time inside.                        *)

Declined(payload, facts) ==
    \/ facts.declined
    \/ payload.event = "PostToolUseFailure" /\ Declines(payload.error.text)

\* What the hook of a call takes from its payload, before it looks at the
\* session: the facts, the signal and what follows from both.
Take(payload, facts, signal) ==
    [facts |-> facts,
     signal |-> signal,
     declined |-> Declined(payload, facts),
     accepted |-> facts.isEdit /\ ~Declined(payload, facts) /\ payload.event = "PostToolUse",
     commands |-> IF signal.commandSucceeded
                  THEN {[todo |-> RevertTargets(command), commit |-> IsGitCommit(command)] : command \in signal.command}
                  ELSE {}]

ReadCall(call) ==
    LET payload == Payload(call)
    IN Take(payload, Facts(payload, {Root}), LocalSignal(payload, Facts(payload, {Root}), "claude", {Root}))

\* ReadCall of each call of the instance.
CallsOf(s) ==
    [tool : {"write"}, file : File, input : {e.content : e \in s.edits}, result : s.fates, replaced : DOMAIN Lines]
    \cup [tool : {"bash"}, file : {NoFile}, input : s.commands, result : {"ok", "plain", "failed"}, replaced : {Absent}]
Reads == [call \in UNION {CallsOf(s) : s \in Scenario} |-> ReadCall(call)]

\* The instance: edits of files there are, by contents there are; commands of
\* what Git models, with a run of tests at the end if at all.
ASSUME ScenarioAssumption ==
    /\ NoFile \notin File
    /\ AtStart \in [File -> DOMAIN Lines] /\ Absent \in DOMAIN Lines
    /\ \A s \in Scenario :
        /\ \A edit \in s.edits : edit.file \in File /\ edit.content \in DOMAIN Lines
        /\ s.fates \subseteq {"applied", "declined", "failed"}
        /\ \A command \in s.commands :
             /\ \E n \in 0..Len(command) : DOMAIN Steps[command] = 1..n
             /\ \A i \in DOMAIN Steps[command] :
                  /\ Steps[command][i].sub \in Restoring \cup {"commit", "revert", "tests"}
                  /\ Steps[command][i].sub = "tests" => i + 1 \notin DOMAIN Steps[command]

\* The detector sees whether a command runs tests, and that only they decide
\* its status.
ASSUME DetectAssumption ==
    \A s \in Scenario : \A command \in s.commands :
        Detect(command).trust \in IF HasTests(command) THEN {"full", "zeroOnly"} ELSE {None}

Sensitive == {"auth", "infra", "payments", "security"}

\* The calls to record_edit, record_flags, catch_file and record_run, in the
\* order of on_post_tool_use.
Noted(signal, facts, isAccepted, isDeclined, back) ==
    LET edited == IF isAccepted
                  THEN RecordFlags(RecordEdit(turn, signal.file, signal.isTestFile, facts.pathClass \cap Sensitive # {}),
                                   signal.file, signal.editFlags, FALSE)
                  ELSE IF facts.isEdit /\ isDeclined THEN RecordFlags(turn, signal.file, signal.editFlags, TRUE)
                  ELSE turn
        caught == IF back THEN CatchFiles(edited, {signal.file}) ELSE edited
        run == CHOOSE run \in signal.testRun : TRUE
        ran == IF signal.testRun = {} THEN caught ELSE RecordRun(caught, run.outcome, run.key)
    IN IF signal.commandSucceeded THEN RecordFlags(ran, NoFile, signal.commandFlags, FALSE) ELSE ran

\* What on_post_tool_use writes for call c, of which it read as much.
Write(c, read) ==
    LET Edits(f) == read.accepted /\ f = read.signal.file
        back == {f \in File : Edits(f) /\ PutsBack(files[f], Lines[tree[f]])}
    IN /\ testsRan' = (testsRan \/ read.facts.isTestCommand)
       /\ pending' = IF read.accepted THEN pending \cup {c} ELSE pending
       /\ turn' = Noted(read.signal, read.facts, read.accepted, read.declined, back # {})
       /\ files' = [f \in File |-> IF Edits(f) THEN TrackEdit(files[f], read.signal.original, Lines[tree[f]]) ELSE files[f]]
       /\ accepted' = [f \in File |-> IF Edits(f) THEN accepted[f] + 1 ELSE accepted[f]]
       /\ reported' = reported \cup {[call |-> c, file |-> f] : f \in back}
       /\ tracking' = {[todo |-> r.todo, commit |-> r.commit, call |-> c] : r \in read.commands}

\* on_post_tool_use, up to track_command.
Record(c) ==
    /\ tracking = Idle
    /\ c \in Open
    /\ c \notin seen
    /\ Write(c, Reads[[k \in {"tool", "file", "input", "result", "replaced"} |-> calls[c][k]]])
    /\ seen' = seen \cup {c}
    /\ calls' = [calls EXCEPT ![c].state = "recorded"]
    /\ UNCHANGED <<scenario, tree, commits, faults, unseen, lastCommit, known, settled, verdict>>

\* A call that was seen is skipped.
SkipSeen(c) ==
    /\ tracking = Idle
    /\ c \in Open
    /\ c \in seen
    /\ calls' = [calls EXCEPT ![c].state = "recorded"]
    /\ UNCHANGED <<scenario, tree, commits, faults, unseen, session, tracking, reported, accepted, known, settled, verdict>>

\* track_command, one target; the events and catch_file follow from it.
TrackTarget ==
    \E t \in tracking :
        /\ t.todo # <<>>
        /\ LET back == {f \in File : TakesBack(Head(t.todo), f)}
           IN /\ files' = [f \in File |-> IF f \in back THEN MarkReverted(files[f]) ELSE files[f]]
              /\ turn' = CatchFiles(turn, back)
              /\ reported' = reported \cup {[call |-> t.call, file |-> f] : f \in back}
        /\ lastCommit' = IF Head(t.todo).kind = "head" THEN {} ELSE lastCommit
        /\ tracking' = {[t EXCEPT !.todo = Tail(@)]}
        /\ UNCHANGED <<world, seen, testsRan, pending, accepted, known, settled, verdict>>

\* track_command, the commit.
TrackCommit ==
    \E t \in tracking :
        /\ t.todo = <<>>
        /\ LET committed == {f \in File : t.commit /\ files[f].dirty}
           IN /\ files' = [f \in File |-> IF f \in committed THEN [files[f] EXCEPT !.dirty = FALSE] ELSE files[f]]
              /\ lastCommit' = IF committed # {} THEN committed ELSE lastCommit
              /\ known' = IF committed # {} THEN calls[t.call].commits ELSE known
        /\ tracking' = Idle
        /\ UNCHANGED <<world, seen, testsRan, pending, turn, reported, accepted, settled, verdict>>

\* Mutant: the decided edits stay in the file.
StopKeepingEdits ==
    /\ scenario.stop
    /\ tracking = Idle
    /\ Open = {}
    /\ settled < Len(calls)
    /\ verdict' = {[decided |-> pending, testsRun |-> testsRan, verification |-> TurnVerification(turn),
                    calls |-> settled + 1..Len(calls)]}
    /\ testsRan' = FALSE /\ turn' = NewTurn
    /\ settled' = Len(calls)
    /\ UNCHANGED <<world, seen, pending, files, lastCommit, tracking, reported, accepted, known>>

\* settle_edits and settle_turn.  The host fires Stop when its hooks have ended.
Stop ==
    /\ scenario.stop
    /\ tracking = Idle
    /\ Open = {}
    /\ settled < Len(calls)
    /\ verdict' = {[decided |-> pending, testsRun |-> testsRan, verification |-> TurnVerification(turn),
                    calls |-> settled + 1..Len(calls)]}
    /\ pending' = {} /\ testsRan' = FALSE /\ turn' = NewTurn
    /\ settled' = Len(calls)
    /\ UNCHANGED <<world, seen, files, lastCommit, tracking, reported, accepted, known>>

Next ==
    \/ \E edit \in scenario.edits, fate \in scenario.fates : DoEdit(edit.file, edit.content, fate)
    \/ \E command \in scenario.commands, plain \in BOOLEAN : \E pass \in Passes(command) : DoCommand(command, pass, plain)
    \/ \E edit \in scenario.edits : Developer(edit.file, edit.content)
    \/ \E c \in DOMAIN calls : Killed(c) \/ Again(c) \/ Record(c) \/ SkipSeen(c)
    \/ TrackTarget \/ TrackCommit \/ Stop

Spec == Init /\ [][Next]_vars

-----------------------------------------------------------------------------
Texts == {Lines[content] : content \in DOMAIN Lines}

TypeOK ==
    /\ commits # <<>>
    /\ files \in [File -> [known : BOOLEAN, dirty : BOOLEAN, pre : SUBSET Texts, reverts : Nat]]
    /\ lastCommit \subseteq {f \in File : files[f].known}
    /\ pending \subseteq seen /\ seen \subseteq DOMAIN calls
    /\ Cardinality(tracking) <= 1
    /\ turn.step = Len(turn.edits) + Len(turn.runs) + Len(turn.flagged)
    /\ accepted \in [File -> Nat]

\* "Nothing is reverted twice" (a test of revert.rs): over commits, resets,
\* reverts, edits that put a file back and calls reported twice, a file is
\* reported as reverted at most once for every edit of it that was accepted.
NothingRevertedTwice == \A f \in File : files[f].reverts <= accepted[f]

Edits(f) == {c \in DOMAIN calls : calls[c].file = f /\ calls[c].done = <<"edit">>}
Original(f) == calls[Min(Edits(f))].before[f]

\* A file is reported as reverted only if the call left it as it was before
\* one of the agent's edits, as long as nothing happened that a hook cannot see
\* (the causes of unseen; a hook that never came reports nothing).
ReportedMeansUndone ==
    unseen \subseteq {"killed"} =>
        \A r \in reported : \E e \in Edits(r.file) : e <= r.call /\ calls[r.call].after[r.file] = calls[e].before[r.file]

\* A call that takes away what the agent wrote is reported: git, or an edit
\* that puts the file back to what it held before the agent, if it was not
\* committed in between (track_edit looks at dirty files only).
UndoneIsReported ==
    unseen \cap {"overlap", "killed", "half done", "other head"} = {} /\ tracking = Idle =>
        \A c \in seen, f \in File :
            LET call == calls[c]
                undone == Edits(f) # {} /\ Min(Edits(f)) < c /\ call.before[f] \notin {Original(f), call.after[f]}
            IN undone /\ (call.file = f => call.after[f] = Original(f) /\ Original(f) # Absent /\ call.before[f] # call.head[f])
               => [call |-> c, file |-> f] \in reported

\* A turn ends green if its tests passed in a batch after all of its edits, and
\* it does not if each run that passed has an edit in a batch after it: the
\* order in which the hooks of one batch come does not count.
EndedGreenAsHappened ==
    \A v \in verdict : \A event \in v.verification :
        LET edits == {c \in v.calls : calls[c].done = <<"edit">>}
            greens == {c \in v.calls : "tests" \in ToSet(calls[c].done)}
            After(c, d) == calls[c].batch > calls[d].batch
        IN "killed" \in unseen
           \/ /\ event.endedGreen => \E g \in greens : \A e \in edits : ~After(e, g)
              /\ (\E g \in greens : \A e \in edits : After(g, e)) => event.endedGreen

\* The turn's event counts as many accepted edits as decisions are sent with it.
DecidedAsVerified ==
    \A v \in verdict :
        {Cardinality(v.decided)} \ {0} = {event.editsAccepted : event \in v.verification}

\* The longest block of failing runs of one command.
StreakIsLongest ==
    LET Block(i, j) == \A k \in i..j : Failing(turn.runs[k]) /\ turn.runs[k].command = turn.runs[i].command
        blocks == {b \in (DOMAIN turn.runs) \X (DOMAIN turn.runs) : b[1] <= b[2] /\ Block(b[1], b[2])}
    IN Streak(turn.runs) = Max({0} \cup {b[2] - b[1] + 1 : b \in blocks})
=============================================================================
