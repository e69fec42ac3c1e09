------------------------------ MODULE BashCall ------------------------------
(***************************************************************************)
(* One Bash call from its text to the test run the hook reports            *)
(* (LocalSignal::read of hooks.rs over signal/testrun.rs and extract.rs).  *)
(*                                                                         *)
(* An agent types a command, a shell runs it simple command by simple      *)
(* command, the host puts the end of the call into a payload, and the hook *)
(* reads the payload.  The shell, the commands and the host are the        *)
(* environment; they are what the hook's report is judged against.         *)
(***************************************************************************)
EXTENDS Signal

CONSTANTS
    Agent,         \* the hosts
    Dialect        \* what is typed and run in one instance: [phrases, links,
                   \* parts, runs, styles], with the sequences of words between
                   \* two connectors, the connectors ("&" perhaps), the bound
                   \* on both, the runs of tests (a sequence of the counts of
                   \* each package; what broke did so before, after or in
                   \* the middle of tests) and the styles of what names no
                   \* runner

\* A phrase is one simple command, a link one connector.
ASSUME DialectAssumption ==
    \A d \in Dialect :
        /\ d.parts \in Nat
        /\ d.links \subseteq DOMAIN Connector \cup {"&"}
        /\ \A p \in d.phrases : /\ p \in Seq(STRING) /\ p # <<>>
                                /\ ToSet(p) \cap (DOMAIN Connector \cup {"&"}) = {}
        /\ \A run \in d.runs : run \in Seq([passed : Nat, failed : Nat, broken : Nat, skipped : Nat])

VARIABLES
    dialect,       \* one of Dialect
    command,       \* the tokens typed
    parts,         \* how many phrases and connectors they are
    stage,         \* "typing", "running", "ended", "told", "read"
    shell,         \* where the shell is: the simple commands to come and the
                   \* connector before them, $?, whether the last one ran, the
                   \* runs of tests, what was printed, whether some of it was
                   \* cut off or is not the tests' own, and whether a summary
                   \* that is not the tests' own tells of failures
    payload,       \* what the host tells of the call
    report         \* what the hook makes of it

vars == <<dialect, command, parts, stage, shell, payload, report>>

-----------------------------------------------------------------------------
(* The shell.  It sees what Segments does not: "&", and the lines of a here *)
(* document, which are data.                                                *)

Joins == {"And", "Or", "Pipe"}

ReadToken(read, token) ==
    IF read.doc = "body" THEN [read EXCEPT !.doc = IF token = "EOF" THEN "no" ELSE @]
    ELSE IF token = "&" THEN [PushSegment(read, "Amp") EXCEPT !.doc = read.doc]
    ELSE IF token \in DOMAIN Connector THEN
        IF read.current = <<>> THEN read
        ELSE [PushSegment(read, Connector[token]) EXCEPT !.doc = IF token = "\n" /\ @ = "armed" THEN "body" ELSE @]
    ELSE [read EXCEPT !.current = Append(@, token), !.doc = IF token = "<<EOF" THEN "armed" ELSE @]

\* The simple commands of the command with the connector after each.
Simple(tokens) ==
    LET read[n \in 0..Len(tokens)] ==
          IF n = 0 THEN [out |-> <<>>, current |-> <<>>, doc |-> "no"] ELSE ReadToken(read[n - 1], tokens[n])
    IN PushSegment(read[Len(tokens)], NoConnector).out

\* Whether the next simple command runs, by the status so far.
Reached ==
    \/ shell.before \in {"Semi", "Amp"}
    \/ shell.before = "And" /\ shell.status = 0
    \/ shell.before = "Or" /\ shell.status # 0
    \/ shell.before = "Pipe" /\ shell.ran

-----------------------------------------------------------------------------
(* The runners, by the style of their summary.                             *)

StylesOf(runner) ==
    CASE runner = "unnamed" -> dialect.styles
      [] runner = "cargo" -> {"cargo", "nextest"}
      [] runner = "phpunit" -> {"phpunit", "pest"}
      [] runner = "dotnet" -> {"dotnet", "dotnet old"}
      [] runner = "jvm" -> {"maven", "gradle"}
      [] runner = "pytest" -> {"pytest", "pytest -q"}
      [] runner = "go" -> {"go", "go -v"}
      [] runner = "other" -> {"tap"}
      [] OTHER -> {runner}

\* Styles that print lines for every package which add up, and styles that end
\* with a summary of all packages; of the others each package prints its own.
AddingUp == {"cargo", "dotnet", "cypress", "go", "go -v"}
Aggregating == {"nextest", "maven", "gradle", "playwright", "dotnet old"}

Line(form, numbers) == [form |-> form, n |-> numbers]
Some(numbers, always) == [k \in {k \in DOMAIN numbers : numbers[k] > 0 \/ k \in always} |-> numbers[k]]
Nonzero(numbers) == Some(numbers, {})
Times(n, line) == [i \in 1..n |-> line]

\* Styles whose counts leave out what broke: a suite that does not load, a
\* package that does not build, an error outside of the examples.
Silent == {"jest", "vitest", "cargo", "go", "go -v", "rspec"}

\* The lines of one package with counts c.
Block(style, c) ==
    LET bad == c.failed + c.broken
        total == c.passed + bad + c.skipped
        word == [passed |-> c.passed, failed |-> IF style \in Silent THEN c.failed ELSE bad, skipped |-> c.skipped]
        mochas == [passing |-> c.passed, failing |-> bad, pending |-> c.skipped]
        mocha == <<Line("mocha", Some(mochas, {"passing"}))>>
        tests == Times(c.failed, Line("go test", [FAIL |-> 1]))
        others == Times(c.passed, Line("go test", [PASS |-> 1])) \o Times(c.skipped, Line("go test", [SKIP |-> 1]))
        package == <<Line("go package", IF bad > 0 THEN [FAIL |-> 1] ELSE [ok |-> 1])>>
    IN CASE style \in {"jest", "vitest", "pest"} -> <<Line(style, Nonzero(word))>>
         [] style = "playwright" ->
              <<Line(style, Nonzero([passed |-> c.passed, failed |-> c.failed, interrupted |-> c.broken,
                                     skipped |-> c.skipped]))>>
         [] style \in {"pytest", "pytest -q"} ->
              <<Line(style, IF total = 0 THEN [k \in {"no tests ran"} |-> 0]
                            ELSE Nonzero([passed |-> c.passed, failed |-> c.failed, errors |-> c.broken,
                                          skipped |-> c.skipped]))>>
         [] style = "nextest" ->
              <<Line(style, [k \in {"passed", "failed", "timed out", "skipped"} |->
                               IF k = "passed" THEN c.passed ELSE IF k = "failed" THEN c.failed
                               ELSE IF k = "skipped" THEN c.skipped ELSE c.broken])>>
         [] style = "dotnet" -> <<Line(style, word)>>
         [] style = "mocha" -> mocha
         [] style = "node" -> <<Line("node", [pass |-> c.passed]), Line("node", [fail |-> c.failed]),
                                Line("node", [cancelled |-> c.broken]), Line("node", [skipped |-> c.skipped])>>
         [] style = "cargo" -> <<Line("cargo", [passed |-> c.passed, failed |-> c.failed, ignored |-> c.skipped])>>
         [] style = "go" -> tests \o package
         [] style = "go -v" -> tests \o others \o package
         [] style = "rspec" ->
              <<Line("rspec", [examples |-> c.passed + c.failed + c.skipped, failures |-> c.failed, pending |-> c.skipped])>>
         [] style = "phpunit" ->
              <<IF bad + c.skipped = 0 THEN Line("phpunit ok", [tests |-> total])
                ELSE Line("phpunit", [tests |-> total, Errors |-> c.broken, Failures |-> c.failed, Skipped |-> c.skipped])>>
         [] style = "dotnet old" -> <<Line("dotnet total", [total |-> total]), Line("dotnet old", Nonzero(word))>>
         [] style = "maven" ->
              <<Line("maven", [run |-> total, failures |-> c.failed, errors |-> c.broken, skipped |-> c.skipped])>>
         [] style = "gradle" -> IF bad = 0 THEN <<>>
                                ELSE <<Line("gradle", [completed |-> total, failed |-> bad, skipped |-> c.skipped])>>
         [] style = "cypress" -> mocha \o <<Line("cypress", mochas)>>
         [] OTHER -> <<>>

SumOver(run, kind) == SumFunction([i \in DOMAIN run |-> run[i][kind]])
Total(run) == [passed |-> SumOver(run, "passed"), failed |-> SumOver(run, "failed"),
               broken |-> SumOver(run, "broken"), skipped |-> SumOver(run, "skipped")]

\* A test failed, or something broke: the runner fails.
Fails(run) == Total(run).failed + Total(run).broken > 0

\* The counts a runner means to state.
Stated(style, run) ==
    [passed |-> Total(run).passed,
     failed |-> IF style \in Silent THEN Total(run).failed ELSE Total(run).failed + Total(run).broken,
     skipped |-> Total(run).skipped]

Shown(style, run) ==
    LET each == FlattenSeq([i \in DOMAIN run |-> Block(style, run[i])])
    IN IF style = "maven" THEN each \o Block(style, Total(run))
       ELSE IF style \in Aggregating THEN Block(style, Total(run))
       ELSE each

\* What is printed of it: all, the last line only, or nothing.
Printed(style, run) ==
    LET all == Shown(style, run) IN {all, <<>>, IF all = <<>> THEN <<>> ELSE <<Last(all)>>}

-----------------------------------------------------------------------------
Init ==
    /\ dialect \in Dialect
    /\ command = <<>>
    /\ parts = 0
    /\ stage = "typing"
    /\ shell = [todo |-> <<>>, before |-> "Semi", status |-> 0, ran |-> FALSE, tests |-> <<>>,
                output |-> <<>>, doubtful |-> FALSE, otherRed |-> FALSE, interrupted |-> FALSE]
    /\ payload = {}
    /\ report = {}

Type(more) ==
    /\ stage = "typing"
    /\ parts < dialect.parts
    /\ command' = command \o more
    /\ parts' = parts + 1
    /\ UNCHANGED <<dialect, stage, shell, payload, report>>

AfterLink == command # <<>> => Last(command) \in dialect.links

TypePhrase == AfterLink /\ \E p \in dialect.phrases : Type(p)
TypeLink == ~AfterLink /\ \E l \in dialect.links : Type(<<l>>)

Start ==
    /\ stage = "typing"
    /\ command # <<>>
    /\ Last(command) \notin {"&&", "||", "|", "|&"}
    /\ stage' = "running"
    /\ shell' = [shell EXCEPT !.todo = Simple(command)]
    /\ UNCHANGED <<dialect, command, parts, payload, report>>

Running == stage = "running" /\ shell.todo # <<>>
Now == Head(shell.todo)
Proceed == [shell EXCEPT !.todo = Tail(@), !.before = Now.after]

\* The status of a command before a pipe is no one's, that of one in the
\* background is 0.
StatusAfter(status) ==
    CASE Now.after = "Pipe" -> shell.status [] Now.after = "Amp" -> 0 [] OTHER -> status

SkipCommand ==
    /\ Running /\ ~Reached
    /\ shell' = [Proceed EXCEPT !.ran = FALSE]
    /\ UNCHANGED <<dialect, command, parts, stage, payload, report>>

\* A command that runs no tests; "cat" may print the log of an earlier run,
\* whichever runner it was of and however it ended.
RunOther ==
    /\ Running /\ Reached /\ ~IsTest(Now.words)
    /\ \E status \in {0, 1} :
        \/ shell' = [Proceed EXCEPT !.ran = TRUE, !.status = StatusAfter(status)]
        \/ /\ Program(Now.words) = "cat"
           /\ \E run \in dialect.runs, style \in dialect.styles : \E shown \in Printed(style, run) :
                shell' = [Proceed EXCEPT !.ran = TRUE, !.status = StatusAfter(status), !.output = @ \o shown,
                                         !.doubtful = TRUE, !.otherRed = @ \/ (shown # <<>> /\ Fails(run))]
    /\ UNCHANGED <<dialect, command, parts, stage, payload, report>>

\* A run of tests.  A failing test makes the runner fail; it may fail without.
RunTests ==
    /\ Running /\ Reached /\ IsTest(Now.words)
    /\ \E status \in {0, 1}, run \in dialect.runs, style \in StylesOf(Classify(StripWrappers(Now.words).rest)) :
       \E shown \in Printed(style, run) :
        /\ Fails(run) => status # 0
        /\ shell' = [Proceed EXCEPT !.ran = TRUE, !.status = StatusAfter(status),
                                   !.tests = Append(@, [failing |-> Fails(run), counts |-> Stated(style, run)]),
                                   !.output = @ \o shown,
                                   !.doubtful = \/ @
                                                \/ shown \notin {Shown(style, run), <<>>}
                                                \/ Len(run) > 1 /\ style \notin AddingUp \cup Aggregating]
    /\ UNCHANGED <<dialect, command, parts, stage, payload, report>>

End ==
    /\ stage = "running" /\ ~Running
    /\ stage' = "ended"
    /\ UNCHANGED <<dialect, command, parts, shell, payload, report>>

Interrupt ==
    /\ Running
    /\ stage' = "ended"
    /\ shell' = [shell EXCEPT !.interrupted = TRUE]
    /\ UNCHANGED <<dialect, command, parts, payload, report>>

-----------------------------------------------------------------------------
(* The host.  A background call is reported when it is started.            *)

Payload(event, response, code) ==
    [event |-> event, tool |-> "bash", id |-> {}, input |-> [command |-> command], response |-> response,
     error |-> [code |-> code, text |-> shell.output], interrupt |-> shell.interrupted]

Object(fields) == [kind |-> "object", text |-> <<>>, object |-> fields]
Text == [kind |-> "text", text |-> shell.output, object |-> <<>>]

\* Claude Code: no code on success, a failure event otherwise.
ClaudeTells ==
    IF shell.interrupted
    THEN {Payload("PostToolUse", Object([stdout |-> TRUE, output |-> shell.output, interrupted |-> TRUE]), {}),
          Payload("PostToolUseFailure", Text, {})}
    ELSE IF shell.status = 0
    THEN {Payload("PostToolUse", Object([stdout |-> TRUE, output |-> shell.output, interrupted |-> FALSE]), {})}
    ELSE {Payload("PostToolUseFailure", Text, {shell.status})}

\* Grok: the code in the result, or a plain text for a result too large.
GrokTells ==
    {Payload("PostToolUse", Object(IF shell.interrupted THEN [output |-> shell.output, interrupted |-> TRUE]
                                   ELSE [output |-> shell.output, interrupted |-> FALSE, exit_code |-> shell.status]), {}),
     Payload("PostToolUse", Text, {})}

Background ==
    Payload("PostToolUse", Object([stdout |-> TRUE, output |-> <<>>, backgroundTaskId |-> 1, interrupted |-> FALSE]), {})

Tell(agent) ==
    /\ \/ stage = "ended" /\ payload' \in {[agent |-> agent, told |-> p] :
                                           p \in IF agent = "claude" THEN ClaudeTells ELSE GrokTells}
       \/ stage = "running" /\ shell.tests = <<>> /\ shell.output = <<>> /\ payload' = [agent |-> agent, told |-> Background]
    /\ stage' = "told"
    /\ UNCHANGED <<dialect, command, parts, shell, report>>

-----------------------------------------------------------------------------
\* LocalSignal::read of the hook.
Read ==
    /\ stage = "told"
    /\ report' = TestRunOf(payload.told, payload.agent)
    /\ stage' = "read"
    /\ UNCHANGED <<dialect, command, parts, shell, payload>>

Next ==
    \/ TypePhrase \/ TypeLink \/ Start
    \/ SkipCommand \/ RunOther \/ RunTests \/ End \/ Interrupt
    \/ \E agent \in Agent : Tell(agent)
    \/ Read

Spec == Init /\ [][Next]_vars

-----------------------------------------------------------------------------
TypeOK ==
    /\ parts \in 0..dialect.parts
    /\ stage \in {"typing", "running", "ended", "told", "read"}
    /\ stage = "ended" /\ ~shell.interrupted => shell.todo = <<>>
    /\ shell.status \in {0, 1}
    /\ stage = "read" => \A r \in report : r.outcome \in {"passed", "failed", "error", "unknown"}

\* What the code knowingly leaves open (testrun.rs:109-114, 134-136, 468): a
\* command that another may replace, "&", and the text of a here document.
MayNotRun == {"||", "&", "<<EOF"} \cap ToSet(command) # {}

\* The exit status answers for the test command.
StatusDecides(r) ==
    LET exit == BashResult(payload.told, payload.agent).exit
    IN exit # {} /\ (r.trust = "full" \/ (r.trust = "zeroOnly" /\ exit = {0}))

\* Only the last lines of an output are looked at, on the ground that a summary
\* is at the end of a run (testrun.rs:496-498). Where each package prints its
\* own, those of the first packages may lie before them.
BeforeTheTail == Len(shell.output) > MaxScan

\* A summary cannot be held against the run if it is cut off, printed by
\* another command, one of several of which the last stands, if several runs
\* printed into one output, or if the output is longer than what is looked at.
Mixed == shell.doubtful \/ Len(shell.tests) > 1 \/ BeforeTheTail

\* Its tests ran, and none failed or broke.
TestsPassed == shell.tests # <<>> /\ ~shell.tests[1].failing

\* "Never guess passed" (testrun.rs:12-14), where the exit status decides: a run
\* is reported as passed only if its tests ran and none failed, but for what
\* MayNotRun names.
GreenByStatus ==
    \A r \in report : r.outcome = "passed" /\ StatusDecides(r) => MayNotRun \/ TestsPassed

\* Something broke and the runner's own counts do not tell of it.
BrokeUnstated == shell.tests # <<>> /\ shell.tests[1].failing /\ shell.tests[1].counts.failed = 0

\* The same where the summary has to decide, but for what Mixed names and for a
\* summary that is silent about what broke.
GreenBySummary ==
    \A r \in report :
        r.outcome = "passed" /\ ~StatusDecides(r) => MayNotRun \/ Mixed \/ BrokeUnstated \/ TestsPassed

\* A test of the command failed or broke.
SomeTestFailed == \E i \in DOMAIN shell.tests : shell.tests[i].failing

\* No number is taken for failures that is not one: a run is reported as failed
\* only if a test of the command failed or broke, whatever was printed of it and
\* whichever parser reads it, or if another command of the line (the log of an
\* earlier run) has printed a summary of a run that failed, which the parsers
\* read like the runner's own (testrun.rs:894-914).
NoFalseRed ==
    \A r \in report : r.outcome = "failed" => SomeTestFailed \/ shell.otherRed

\* The counts that are sent are those of the run, whichever runner printed
\* them and whether or not the command named it (testrun.rs:897-905); a count
\* that the runner did not state is not sent.
CountsAsRun ==
    \A r \in report : \A c \in r.counts :
        \/ Mixed
        \/ /\ c.passed \subseteq {shell.tests[1].counts.passed}
           /\ c.failed \subseteq {shell.tests[1].counts.failed}
           /\ c.skipped \subseteq {shell.tests[1].counts.skipped}

\* The exit status taken from a payload is the one the shell ended with; a call
\* that has not ended, or was stopped, has none (extract.rs:275-287).
ExitAsHappened ==
    stage \in {"told", "read"} =>
        LET result == BashResult(payload.told, payload.agent)
        IN result.exit # {} => shell.todo = <<>> /\ result.exit = {shell.status}
=============================================================================
