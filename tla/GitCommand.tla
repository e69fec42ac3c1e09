----------------------------- MODULE GitCommand -----------------------------
(***************************************************************************)
(* Git in a Bash command (signal/gitcmd.rs) and weakened tests             *)
(* (signal/weakened.rs): what the command puts back the way it was,        *)
(* whether it commits, whether it turns hooks off, updates snapshots or    *)
(* removes tests, and what an edit takes from the tests.                   *)
(*                                                                         *)
(* A revert is [kind, paths] with kind "paths", "all", "head" or "other".  *)
(* An edit's text is a sequence of the markers on its lines.               *)
(***************************************************************************)
EXTENDS Extract

CONSTANTS
    PathLike,          \* the words that read as a file rather than a branch
    ShortNoVerify,     \* clusters of short flags of "git commit" with an n
    ShortValued,       \* those that end in a flag that takes the next word
    HooksOff,          \* the assignments and configurations that turn hooks off
    TestFileName,      \* the file names that a test runner's convention makes tests
    SnapshotName       \* the file names of snapshots

\* The git invocations of a command, as SplitGit reads them, with the
\* assignments before them.
GitCalls(command) ==
    LET git == SelectSeq(Segments(command), LAMBDA seg : Program(seg.words) = "git")
    IN [i \in DOMAIN git |-> SplitGit(Arguments(git[i].words)) @@ [env |-> StripWrappers(git[i].words).env]]

Nothing == {}
Paths(ps) == IF ps = <<>> THEN Nothing ELSE {[kind |-> "paths", paths |-> ps]}
All == {[kind |-> "all", paths |-> <<>>]}

-----------------------------------------------------------------------------
\* checkout: what follows "--", what follows a ref, or one word that reads as
\* a file.
Checkout(args) ==
    LET named == Positionals(args)
        dashes == {i \in DOMAIN args : args[i] = "--"}
    IN IF dashes # {} THEN Paths(From(args, Min(dashes) + 1))
       ELSE IF ToSet(args) \cap {"-b", "-B", "--orphan", "--detach", "-"} # {} THEN Nothing
       ELSE IF Len(named) = 1 THEN IF named[1] \in PathLike THEN Paths(named) ELSE Nothing
       ELSE Paths(From(named, 2))

\* restore: of the index alone it restores nothing the agent wrote.
Restore(args) ==
    LET read == ReadArgs(args, {"-s", "--source"}, {"--"})
        staged == read.flags \cap {"--staged", "-S", "-SW", "-WS"} # {}
        worktree == read.flags \cap {"--worktree", "-W", "-SW", "-WS"} # {}
    IN IF staged /\ ~worktree THEN Nothing ELSE Paths(read.paths)

StashPushPaths(args) ==
    LET after == From(SkipWhile(args, LAMBDA a : a # "push"), 2)
    IN ReadArgs(after, {"-m", "--message", "--pathspec-from-file"}, {"--"}).paths

\* stash: a push (also without its name), or one of the others, which restore
\* nothing.
Stash(args) ==
    LET sub == Word(Positionals(args), 1)
        paths == StashPushPaths(args)
        others == {"pop", "apply", "list", "show", "drop", "clear", "branch", "create", "store"}
    IN CASE sub \in {"", "save"} -> All
         [] sub = "push" -> IF paths = <<>> THEN All ELSE Paths(paths)
         [] OTHER -> IF IsFlag(args[1]) /\ sub \notin others THEN All ELSE Nothing

\* revert: of HEAD, or of a commit that cannot be mapped to files.
Revert(args) ==
    LET targets == ReadArgs(args, {"-m", "--mainline", "-S", "--strategy", "-X", "--strategy-option"}, {}).paths
    IN IF \/ ToSet(args) \cap {"--abort", "--continue", "--quit", "--skip"} # {}
          \/ targets = <<>>
       THEN Nothing
       ELSE {[kind |-> IF ToSet(targets) \subseteq {"HEAD", "HEAD~0", "HEAD^0", "@"} THEN "head" ELSE "other",
              paths |-> <<>>]}

Restores(call) ==
    CASE call.sub = "checkout" -> Checkout(call.args)
      [] call.sub = "restore" -> Restore(call.args)
      [] call.sub = "reset" -> IF "--hard" \in ToSet(call.args) THEN All ELSE Nothing
      [] call.sub = "stash" -> Stash(call.args)
      [] call.sub = "revert" -> Revert(call.args)
      [] OTHER -> Nothing

\* revert_targets: in the order of the command.
RevertTargets(command) ==
    FoldLeft(LAMBDA out, call : out \o SetToSeq(Restores(call)), <<>>, GitCalls(command))

\* is_git_commit.
IsGitCommit(command) ==
    \E call \in ToSet(GitCalls(command)) : call.sub = "commit" /\ "--dry-run" \notin ToSet(call.args)

-----------------------------------------------------------------------------
TestDirs == {"tests", "test", "spec", "specs", "__tests__", "e2e", "cypress", "playwright"}

\* is_test_path: by the bundle's class, a directory above it, or its name.
IsTestPath(rel, class) ==
    LET parts == SelectSeq(rel, LAMBDA p : p # ".")
    IN \/ "tests" \in class
       \/ parts # <<>> /\ (ToSet(Front(parts)) \cap TestDirs # {} \/ Last(parts) \in TestFileName)

IsSnapshotPath(rel) == rel # <<>> /\ (Last(rel) \in SnapshotName \/ "__snapshots__" \in ToSet(rel))

\* flags_for_edit: a flag only when the edit leaves more of a marker, or fewer
\* assertions and tests, than there were.
FlagsForEdit(rel, class, old, new) ==
    LET Count(text, marker) == Cardinality({i \in DOMAIN text : marker \in text[i]})
        Added(marker) == Count(new, marker) > Count(old, marker)
        Removed(marker) == Count(new, marker) < Count(old, marker)
        Blank(text) == \A i \in DOMAIN text : text[i] = {}
        isTest == IsTestPath(rel, class)
    IN {f \in {"skip-added", "only-added", "assertion-removed", "test-deleted", "snapshot-updated",
               "type-suppression", "lint-suppression"} :
          \/ f = "skip-added" /\ (Added("skip") \/ (Last(rel) = "a_spec.rb" /\ Added("rspec skip")))
          \/ f = "only-added" /\ Added("only")
          \/ f = "assertion-removed" /\ isTest /\ Removed("assertion")
          \/ f = "test-deleted" /\ isTest /\ (Removed("test") \/ (Blank(new) /\ ~Blank(old)))
          \/ f = "snapshot-updated" /\ IsSnapshotPath(rel) /\ old # new
          \/ f = "type-suppression" /\ Added("type suppression")
          \/ f = "lint-suppression" /\ Added("lint suppression")}

-----------------------------------------------------------------------------
LongValued == {"--message", "--file", "--author", "--date", "--reuse-message", "--reedit-message",
               "--fixup", "--squash", "--template", "--trailer"}

\* commit_short_no_verify: the words that belong to a message are no flags.
CommitShortNoVerify(args) ==
    ReadArgs(args, LongValued \cup ShortValued, {"--"}).flags \cap ShortNoVerify # {}

Hooked == {"commit", "push", "merge", "rebase", "cherry-pick", "am"}

\* git_flags, for the flag no-verify.
NoVerify(call) ==
    /\ call.sub \in Hooked
    /\ \/ call.sub \in {"commit", "push"} /\ ToSet(call.env \o call.configs) \cap HooksOff # {}
       \/ "--no-verify" \in ToSet(call.args)
       \/ call.sub = "commit" /\ CommitShortNoVerify(call.args)

UpdateFlags == {"--update-snapshots", "--updateSnapshot", "--snapshot-update", "--update-snapshots=all"}

\* A segment that updates snapshots; "-u" only where tests run.
UpdatesSnapshots(ws) ==
    LET program == Program(ws)
        args == Arguments(ws)
    IN \/ "INSTA_UPDATE=always" \in ToSet(StripWrappers(ws).env)
       \/ ToSet(args) \cap UpdateFlags # {}
       \/ IsTest(ws) /\ ToSet(args) \cap {"-u", "--update"} # {}
       \/ program = "cargo" /\ Word(args, 1) = "insta" /\ (Word(args, 2) \in {"accept", "review"} \/ "--accept" \in ToSet(args))

\* flags_for_command; testFiles are the words that name a test file.
FlagsForCommand(command, testFiles) ==
    LET segs == Segments(command)
        Started == {i \in DOMAIN segs : Program(segs[i].words) # ""}
        Tests(args) == ToSet(PathsOf(args)) \cap testFiles # {}
        Removes(ws) == \/ Program(ws) \in {"rm", "unlink", "del", "trash"} /\ Tests(Arguments(ws))
                       \/ Program(ws) = "git" /\ SplitGit(Arguments(ws)).sub = "rm"
                          /\ Tests(SplitGit(Arguments(ws)).args)
    IN (IF \E i \in Started : UpdatesSnapshots(segs[i].words) THEN {"snapshot-updated"} ELSE {})
       \cup (IF \E i \in Started : Removes(segs[i].words) THEN {"test-deleted"} ELSE {})
       \cup (IF \E call \in ToSet(GitCalls(command)) : NoVerify(call) THEN {"no-verify"} ELSE {})
=============================================================================
