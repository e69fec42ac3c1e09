------------------------------- MODULE Shell -------------------------------
(***************************************************************************)
(* What the client reads in the text of a Bash command before it looks for *)
(* tests or for git (signal/testrun.rs, "Shell scanning"; split_git and    *)
(* paths_of of signal/weakened.rs): the segments of the command, the words *)
(* a segment starts with that only launch the program, the parts of a git  *)
(* invocation.                                                             *)
(*                                                                         *)
(* A command is a sequence of tokens.  A token is a connector or a word; a *)
(* quoted or escaped text is one word, whatever stands in it, and a path   *)
(* to a program is the word that program_name makes of it.  A lone "&" is  *)
(* no connector for the code, hence a word.                                *)
(***************************************************************************)
EXTENDS Naturals, Sequences, SequencesExt

CONSTANTS
    Flag,          \* the words that begin with "-"
    Assignment     \* the words of the form NAME=value

\* The newline separates like ";" and "|&" pipes like "|".
Connector == [token \in {"&&", "||", ";", "\n", "|", "|&"} |->
                 IF token = "&&" THEN "And" ELSE IF token = "||" THEN "Or" ELSE IF token \in {";", "\n"} THEN "Semi" ELSE "Pipe"]

NoConnector == "end"

-----------------------------------------------------------------------------
\* push_segment: ends the segment being read.  One without words is dropped,
\* but its connector replaces a ";" after the segment before it.
PushSegment(read, after) ==
    IF read.current # <<>>
    THEN [read EXCEPT !.out = Append(@, [words |-> read.current, after |-> after]), !.current = <<>>]
    ELSE LET weak == read.out # <<>> /\ Last(read.out).after = "Semi" /\ after # NoConnector
         IN [read EXCEPT !.out = IF weak THEN Front(@) \o <<[Last(@) EXCEPT !.after = after]>> ELSE @]

Scan(read, token) ==
    IF token \in DOMAIN Connector THEN PushSegment(read, Connector[token])
    ELSE [read EXCEPT !.current = Append(@, token)]

\* The segments of a command with the connector after each.  A ";" that ends
\* the command says nothing.
Segments(command) ==
    LET read[n \in 0..Len(command)] ==
          IF n = 0 THEN [out |-> <<>>, current |-> <<>>] ELSE Scan(read[n - 1], command[n])
        out == PushSegment(read[Len(command)], NoConnector).out
    IN IF out # <<>> /\ Last(out).after = "Semi"
       THEN Front(out) \o <<[Last(out) EXCEPT !.after = NoConnector]>>
       ELSE out

-----------------------------------------------------------------------------
\* Word i of ws, or a word that is none.
Word(ws, i) == IF i <= Len(ws) THEN ws[i] ELSE ""

From(ws, i) == SubSeq(ws, i, Len(ws))

\* ws without the leading words that satisfy Skip.
SkipWhile(ws, Skip(_)) ==
    LET keep == {i \in 1..Len(ws) : ~Skip(ws[i])}
    IN IF keep = {} THEN <<>> ELSE From(ws, CHOOSE i \in keep : \A j \in keep : i <= j)

IsFlag(w) == w \in Flag
Positionals(ws) == SelectSeq(ws, LAMBDA w : ~IsFlag(w))
SkipFlags(ws) == SkipWhile(ws, IsFlag)

Launcher == {"time", "sudo", "env", "nice", "command", "exec", "nohup", "npx", "bunx", "pnpx"}
Executor == ("pnpm" :> {"exec", "dlx"}) @@ ("yarn" :> {"exec", "dlx"}) @@ ("npm" :> {"exec"})
Environment == {"poetry", "uv", "pipenv", "hatch", "pdm", "rye"}
Python == {"python", "python3", "py"}

\* One round of strip_wrappers: an assignment is kept aside, a launcher goes
\* with its own flags; anything else is the program.
StripOne(s) ==
    LET ws == s.rest
        first == Word(ws, 1)
        second == Word(ws, 2)
    IN CASE first \in Assignment -> [env |-> Append(s.env, first), rest |-> Tail(ws)]
         [] first \in Launcher -> [s EXCEPT !.rest = SkipFlags(Tail(ws))]
         [] first \in DOMAIN Executor /\ second \in Executor[first] -> [s EXCEPT !.rest = SkipFlags(From(ws, 3))]
         [] \/ first = "bundle" /\ second = "exec"
            \/ first \in Environment /\ second = "run"
            \/ first \in Python /\ second = "-m" /\ Len(ws) > 2 -> [s EXCEPT !.rest = From(ws, 3)]
         [] OTHER -> s

\* strip_wrappers.  Every round takes a word at least, so as many rounds as
\* there are words are enough.
StripWrappers(ws) == FoldLeft(LAMBDA s, w : StripOne(s), [env |-> <<>>, rest |-> ws], ws)

Program(ws) == Word(StripWrappers(ws).rest, 1)
Arguments(ws) == From(StripWrappers(ws).rest, 2)

-----------------------------------------------------------------------------
\* A flag in valued takes the next word with it, words after one of literal are
\* taken as they are, of the others the flags are kept apart: the loop that
\* restore, stash_push_paths, revert, commit_short_no_verify and paths_of share.
ReadArgs(args, valued, literal) ==
    FoldLeft(LAMBDA s, a :
                IF s.skip THEN [s EXCEPT !.skip = FALSE]
                ELSE IF s.literal THEN [s EXCEPT !.paths = Append(@, a)]
                ELSE IF a \in literal THEN [s EXCEPT !.literal = TRUE]
                ELSE IF a \in valued THEN [s EXCEPT !.skip = TRUE]
                ELSE IF IsFlag(a) THEN [s EXCEPT !.flags = @ \cup {a}] ELSE [s EXCEPT !.paths = Append(@, a)],
             [paths |-> <<>>, flags |-> {}, skip |-> FALSE, literal |-> FALSE], args)

PathsOf(args) == ReadArgs(args, {}, {"--"}).paths

\* split_git: the values of -c among the global options, the subcommand ("" if
\* there is none) and its arguments.
GitSkip(s, arg) ==
    IF s.sub # "" THEN [s EXCEPT !.args = Append(@, arg)]
    ELSE IF s.value = "config" THEN [s EXCEPT !.configs = Append(@, arg), !.value = "none"]
    ELSE IF s.value = "other" THEN [s EXCEPT !.value = "none"]
    ELSE IF arg = "-c" THEN [s EXCEPT !.value = "config"]
    ELSE IF arg \in {"-C", "--git-dir", "--work-tree", "--namespace"} THEN [s EXCEPT !.value = "other"]
    ELSE IF IsFlag(arg) THEN s ELSE [s EXCEPT !.sub = arg]

SplitGit(args) == FoldLeft(GitSkip, [configs |-> <<>>, sub |-> "", args |-> <<>>, value |-> "none"], args)
=============================================================================
