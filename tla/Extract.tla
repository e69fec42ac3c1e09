------------------------------ MODULE Extract ------------------------------
(***************************************************************************)
(* What a hook takes from the payload of a tool call (extract.rs,          *)
(* decline.rs, the path classifier of classify.rs): facts about the call,  *)
(* how a Bash call ended, what an edit replaced, and where a path lies in  *)
(* the repository.                                                         *)
(*                                                                         *)
(* A payload is a record [event, tool, id, input, response, error,         *)
(* interrupt]: the name of the hook, that of the tool (in lower case), the *)
(* set of its id, the arguments by field, the result, and for a failure    *)
(* what it says.  A result is [kind, text, object]: none, a plain text or  *)
(* an object by field.  A text is a sequence of lines.  A path is [root,   *)
(* parts]: whether it is absolute, and its components.                     *)
(***************************************************************************)
EXTENDS TestRun

CONSTANTS
    ScanLimit,     \* the lines of a result that are searched for a decline
    Classifier,    \* the bundle: a sequence of [class, patterns]
    MentionsTest   \* the words in which TEST_COMMAND finds a test command

ASSUME ScanAssumption == ScanLimit \in Nat \ {0}

\* first_string and its like: the value of the first field that is there.
First(fields, keys) ==
    LET there == {i \in DOMAIN keys : keys[i] \in DOMAIN fields}
    IN IF there = {} THEN {} ELSE {fields[keys[Min(there)]]}

-----------------------------------------------------------------------------
\* normalize: without "." and with ".." applied.
Normalize(parts) ==
    FoldLeft(LAMBDA out, p : CASE p = "." -> out
                               [] p = ".." -> IF out = <<>> THEN out ELSE Front(out)
                               [] OTHER -> Append(out, p),
             <<>>, parts)

\* The path within root (a set of at most one root), if it lies there.
Within(parts, root) ==
    {From(Normalize(parts), Len(Normalize(r)) + 1) : r \in {r \in root : IsPrefix(Normalize(r), Normalize(parts))}}

\* to_repo_relative, for the path of an edit: what is not absolute is left as
\* it is written; <<>> for a path outside.
ToRepoRelative(path, root) ==
    IF ~path.root THEN path.parts
    ELSE IF Within(path.parts, root) = {} THEN <<>>
    ELSE CHOOSE rel \in Within(path.parts, root) : TRUE

\* resolve_from, for the path of a command: as a shell does from cwd.
ResolveFrom(cwd, path, root) == Within(IF path.root THEN path.parts ELSE cwd \o path.parts, root)

-----------------------------------------------------------------------------
\* A path as the matcher reads it; here a component is one character.
Characters(parts) == FoldLeft(LAMBDA t, p : IF t = <<>> THEN <<p>> ELSE t \o <<"/", p>>, <<>>, parts)

\* glob_match on the tokens of a pattern: "*" and "?" stay within a component,
\* "**/" takes whole directories, another "**" anything.
GlobMatch(tokens, text) ==
    LET match[t \in 1..Len(tokens) + 1, s \in 1..Len(text) + 1] ==
            LET Slash(i) == text[i] = "/"
                left == s <= Len(text)
            IN IF t > Len(tokens) THEN ~left
               ELSE CASE tokens[t] = "?" -> left /\ ~Slash(s) /\ match[t + 1, s + 1]
                      [] tokens[t] = "*" -> \E end \in s..Len(text) + 1 :
                                               match[t + 1, end] /\ \A i \in s..end - 1 : ~Slash(i)
                      [] tokens[t] = "**" -> \E end \in s..Len(text) + 1 : match[t + 1, end]
                      [] tokens[t] = "**/" -> \/ match[t + 1, s]
                                              \/ \E i \in s..Len(text) : Slash(i) /\ match[t + 1, i + 1]
                      [] OTHER -> left /\ text[s] = tokens[t] /\ match[t + 1, s + 1]
    IN match[1, 1]

Without(parts, drop) == SkipWhile(parts, LAMBDA p : p = drop)

\* classify_path: the class of the first pattern that matches, {} for none.
ClassifyPath(rel) ==
    LET parts == Without(rel, ".")
        hits == SelectSeq(Classifier, LAMBDA c : \E pattern \in c.patterns : GlobMatch(pattern, Characters(parts)))
    IN IF parts = <<>> \/ hits = <<>> THEN {} ELSE {Head(hits).class}

-----------------------------------------------------------------------------
EditTools == {"edit", "write", "multiedit", "notebookedit", "applypatch", "apply_patch", "update", "search_replace"}
SubagentTools == {"task", "agent", "spawn_subagent"}

ToolCategory(tool) ==
    CASE tool \in EditTools -> "edit"
      [] tool \in {"bash", "shell", "terminal", "run_terminal_cmd", "run_terminal_command"} -> "bash"
      [] tool \in {"read", "read_file", "cat", "view"} -> "read"
      [] tool \in {"grep", "glob", "search", "find", "search_files", "codebase_search", "ls", "list_dir"} -> "search"
      [] tool \in {"webfetch", "web_fetch", "websearch", "web_search", "browse"} -> "web"
      [] OTHER -> "other"

FilePathIn(input) == First(input, <<"file_path", "notebook_path", "path", "filePath", "target_file">>)
CommandIn(input) == First(input, <<"command", "cmd">>)

\* is_test_command: an older pattern over the whole text, quotes included, or
\* the detector.
IsTestCommand(command) == ToSet(command) \cap MentionsTest # {} \/ Detect(command) # NotATest

\* looks_declined: a marker near the beginning.
Declines(text) == \E i \in DOMAIN text : i <= ScanLimit /\ text[i].form = "decline"

Output(response) == IF response.kind = "object" THEN response.object.output ELSE response.text
LooksDeclined(response) == response.kind # "none" /\ Declines(Output(response))

\* extract_tool_facts.
Facts(payload, root) ==
    LET rel == {ToRepoRelative(p, root) : p \in FilePathIn(payload.input)}
        command == CommandIn(payload.input)
        isTest == \E c \in command : IsTestCommand(c)
        category == ToolCategory(payload.tool)
    IN [id |-> payload.id,
        kind |-> IF payload.tool \in SubagentTools THEN "subagent" ELSE "tool-use",
        isEdit |-> payload.tool \in EditTools,
        isTestCommand |-> isTest,
        pathClass |-> UNION {ClassifyPath(r) : r \in rel},
        declined |-> LooksDeclined(payload.response),
        category |-> category,
        commandCategory |-> IF category = "bash" THEN {IF isTest THEN "test" ELSE "other"} ELSE {}]

-----------------------------------------------------------------------------
NoResult == [exit |-> {}, interrupted |-> FALSE, background |-> FALSE, output |-> <<>>]

\* bash_result for a failure: the exit code is what the error begins with.
FailureResult(payload) ==
    [exit |-> payload.error.code, interrupted |-> payload.interrupt, background |-> FALSE, output |-> payload.error.text]

\* Mutant: a call that was put in the background has ended with 0.
BashResultOfBackground(payload, agent) ==
    LET fields == payload.response.object
    IN IF payload.event = "PostToolUseFailure" THEN FailureResult(payload)
       ELSE IF payload.response.kind = "text" THEN [NoResult EXCEPT !.output = payload.response.text]
       ELSE [exit |-> IF agent = "claude" THEN {0} ELSE First(fields, <<"exit_code">>),
             interrupted |-> fields.interrupted, background |-> FALSE, output |-> fields.output]

\* bash_result for a result: a plain text tells nothing but the output; an
\* object of Claude Code without a code stands for 0, unless it was
\* interrupted or put in the background.
BashResult(payload, agent) ==
    LET fields == payload.response.object
        code == First(fields, <<"exit_code", "exitCode", "returnCode", "return_code", "code">>)
        interrupted == TRUE \in First(fields, <<"interrupted">>)
        background == First(fields, <<"backgroundTaskId", "background_task_id", "backgroundTaskID">>) # {}
        claude == agent = "claude" /\ "stdout" \in DOMAIN fields
    IN IF payload.event = "PostToolUseFailure" THEN FailureResult(payload)
       ELSE IF payload.response.kind = "none" THEN NoResult
       ELSE IF payload.response.kind = "text" THEN [NoResult EXCEPT !.output = payload.response.text]
       ELSE [exit |-> IF code = {} /\ claude /\ ~interrupted /\ ~background THEN {0} ELSE code,
             interrupted |-> interrupted, background |-> background, output |-> fields.output]

-----------------------------------------------------------------------------
\* original_content: {} if the host does not say, {NewFile} for a file the edit
\* created.
NewFile == <<{"no file"}>>
OriginalContent(payload) ==
    IF payload.response.kind # "object" THEN {}
    ELSE First(payload.response.object, <<"originalFile", "original_file">>)

\* split_patch: the lines taken away and the lines added.
SplitPatch(patch) ==
    LET Signed(sign) == SelectSeq(patch, LAMBDA l : l.sign = sign)
        Text(lines) == [i \in DOMAIN lines |-> lines[i].line]
    IN [old |-> Text(Signed("-")), new |-> Text(Signed("+"))]

LooksLikePatch(patch) == \E i \in DOMAIN patch : patch[i].sign \in {"+", "-"}

\* edit_texts: what an edit replaced and what it wrote, if the payload says
\* both.
EditTexts(payload) ==
    LET input == payload.input
        edits == First(input, <<"edits">>)
        old == First(input, <<"old_string", "oldString", "old_str">>)
        new == First(input, <<"new_string", "newString", "new_str">>)
        patch == {p \in First(input, <<"patch", "input", "diff">>) : LooksLikePatch(p)}
        content == First(input, <<"content", "file_text", "contents">>)
        Text(es, side) == FoldLeft(LAMBDA text, e : text \o e[side], <<>>, es)
    IN IF edits # {} THEN {[old |-> Text(es, "old"), new |-> Text(es, "new")] : es \in edits}
       ELSE IF old # {} /\ new # {} THEN [old : old, new : new]
       ELSE IF patch # {} THEN {SplitPatch(p) : p \in patch}
       ELSE {[old |-> IF o = NewFile THEN <<>> ELSE o, new |-> c] : o \in OriginalContent(payload), c \in content}
=============================================================================
