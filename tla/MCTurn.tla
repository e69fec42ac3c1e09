------------------------------- MODULE MCTurn -------------------------------
(* A repository with a file that is in git and one the agent may create.      *)
EXTENDS Turn

MCFlag == {"--", "--hard"}
A == <<"src", "auth">>
B == <<"test">>
MCFile == {A, B}

\* V1 skips a test and takes an assertion away.
MCLines == "v0" :> <<{"assertion"}, {"test"}>> @@ "v1" :> <<{"skip"}, {"test"}>> @@ Absent :> NewFile
MCAtStart == A :> "v0" @@ B :> Absent

Edit(f, content) == [file |-> f, content |-> content]

\* Edits that are undone in every way, one call at a time.
Undoing == [edits |-> {Edit(A, "v0"), Edit(A, "v1")}, fates |-> {"applied"},
            commands |-> {<<"git", "commit">>, <<"git", "restore", "..">>, <<"git", "revert", "HEAD">>,
                          <<"git", "restore", "auth", "&&", "git", "commit">>,
                          <<"git", "commit", "&&", "git", "reset", "--hard">>},
            plain |-> TRUE, calls |-> 4, overlap |-> FALSE, stop |-> FALSE, faults |-> {"developer"}, maxFaults |-> 1]

\* A file the agent creates: git leaves it alone until it is committed.
Creating == [edits |-> {Edit(A, "v1"), Edit(B, "v1")}, fates |-> {"applied"},
             commands |-> {<<"git", "commit">>, <<"git", "stash">>, <<"git", "revert", "HEAD">>,
                           <<"git", "checkout", "--", "auth">>},
             plain |-> FALSE, calls |-> 4, overlap |-> FALSE, stop |-> FALSE, faults |-> {}, maxFaults |-> 0]

\* Edits and tests that overlap, with hooks that come in any order or not at all.
Overlapping == [edits |-> {Edit(A, "v0"), Edit(A, "v1")}, fates |-> {"applied", "declined", "failed"},
                commands |-> {<<"npm", "test">>, <<"git", "stash", "&&", "npm", "test">>},
                plain |-> FALSE, calls |-> 3, overlap |-> TRUE, stop |-> TRUE, faults |-> {"killed", "again"}, maxFaults |-> 1]

\* Runs of two commands, one of them written in two ways.
Running == [edits |-> {}, fates |-> {}, commands |-> {<<"npm", "test">>, <<"CI=1", "npm", "test">>, <<"cargo", "test">>},
            plain |-> TRUE, calls |-> 4, overlap |-> FALSE, stop |-> FALSE, faults |-> {}, maxFaults |-> 0]

MCScenario == {Undoing, Creating, Overlapping, Running}

MCRoot == <<"repo">>
MCCwd == <<"repo", "src">>
MCPathOf(word) == [root |-> FALSE, parts |-> <<word>>]
MCClassifier == <<[class |-> "auth", patterns |-> {<<"src", "/", "auth">>}]>>
=============================================================================
