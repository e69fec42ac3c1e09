------------------------------- MODULE Signal -------------------------------
(***************************************************************************)
(* What one tool call tells before the lock is taken (LocalSignal::read of *)
(* hooks.rs over the detectors of signal/ and extract.rs).                 *)
(***************************************************************************)
EXTENDS GitCommand

CONSTANT
    PathOf(_)      \* the path a word of a command denotes

\* LocalSignal::read, the test run: none for a call in the background.
RunFrom(result, command, invocation, summary) ==
    IF invocation = NotATest \/ result.background THEN {}
    ELSE {[outcome |-> Outcome(result.exit, invocation.trust, {s.counts : s \in summary}, result.interrupted),
           runner |-> IF summary # {} THEN (CHOOSE s \in summary : TRUE).runner
                      ELSE IF invocation.runner = "unnamed" THEN "other" ELSE invocation.runner,
           trust |-> invocation.trust,
           counts |-> {s.counts : s \in summary},
           key |-> CommandKey(command)]}

TestRunOf(payload, agent) ==
    LET result == BashResult(payload, agent)
        invocation == Detect(payload.input.command)
    IN RunFrom(result, payload.input.command, invocation, ParseSummary(invocation.runner, result.output))

\* command_succeeded: a code that is not known counts as 0.
Succeeded(payload, agent) ==
    LET result == BashResult(payload, agent)
    IN payload.event = "PostToolUse" /\ result.exit \subseteq {0} /\ ~result.interrupted

\* is_test: a path outside the repository is looked at as it is written.
IsTestFile(word, root) ==
    LET inside == ToRepoRelative(PathOf(word), root)
        rel == IF inside = <<>> THEN PathOf(word).parts ELSE inside
    IN IsTestPath(rel, ClassifyPath(rel))

\* LocalSignal::read.  rel and file are <<>> for no file of the repository.
LocalSignal(payload, facts, agent, root) ==
    LET rel == UNION {{ToRepoRelative(p, root)} : p \in FilePathIn(payload.input)} \ {<<>>}
        file == IF rel = {} THEN <<>> ELSE CHOOSE r \in rel : TRUE
        bash == facts.category = "bash" /\ CommandIn(payload.input) # {}
    IN [file |-> file,
        isTestFile |-> rel # {} /\ IsTestPath(file, facts.pathClass),
        original |-> OriginalContent(payload),
        editFlags |-> IF ~facts.isEdit \/ rel = {} THEN {}
                      ELSE UNION {FlagsForEdit(file, facts.pathClass, t.old, t.new) : t \in EditTexts(payload)},
        command |-> IF bash THEN CommandIn(payload.input) ELSE {},
        commandFlags |-> IF bash
                         THEN UNION {FlagsForCommand(c, {word \in ToSet(c) : IsTestFile(word, root)}) : c \in CommandIn(payload.input)}
                         ELSE {},
        commandSucceeded |-> bash /\ Succeeded(payload, agent),
        testRun |-> IF bash THEN TestRunOf(payload, agent) ELSE {}]
=============================================================================
