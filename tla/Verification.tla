---------------------------- MODULE Verification ----------------------------
(***************************************************************************)
(* Turn verification (verify.rs): what the hooks of one turn note down in  *)
(* TurnState, numbered in the order the hooks come, and what is made of it *)
(* when the turn is settled.                                               *)
(***************************************************************************)
EXTENDS Naturals, Sequences, SequencesExt, FiniteSets, FiniteSetsExt

NoFile == <<>>
NewTurn == [step |-> 0, edits |-> <<>>, runs |-> <<>>, flagged |-> <<>>]

\* record_edit, record_run, record_flags: each takes the next step.
RecordEdit(turn, file, test, sensitive) ==
    [turn EXCEPT !.step = @ + 1,
                 !.edits = Append(@, [step |-> turn.step + 1, file |-> file, test |-> test, sensitive |-> sensitive])]

\* Mutant: a run has the step of what came before it.
RecordRunSameStep(turn, outcome, command) ==
    [turn EXCEPT !.step = @ + 1,
                 !.runs = Append(@, [step |-> turn.step, outcome |-> outcome, command |-> command])]

RecordRun(turn, outcome, command) ==
    [turn EXCEPT !.step = @ + 1,
                 !.runs = Append(@, [step |-> turn.step + 1, outcome |-> outcome, command |-> command])]

\* Mutant: a flagged change takes no step.
RecordFlagsNoStep(turn, file, flags, caught) ==
    IF flags = {} THEN turn
    ELSE [turn EXCEPT !.flagged = Append(@, [step |-> turn.step, file |-> file, flags |-> flags, caught |-> caught])]

RecordFlags(turn, file, flags, caught) ==
    IF flags = {} THEN turn
    ELSE [turn EXCEPT !.step = @ + 1,
                      !.flagged = Append(@, [step |-> turn.step + 1, file |-> file, flags |-> flags, caught |-> caught])]

\* catch_file, for every file of a set.
CatchFiles(turn, files) ==
    [turn EXCEPT !.flagged = [i \in DOMAIN @ |->
        IF @[i].file \in files \ {NoFile} THEN [@[i] EXCEPT !.caught = TRUE] ELSE @[i]]]

-----------------------------------------------------------------------------
Failing(run) == run.outcome \in {"failed", "error"}

\* The loop of turn_verification over the runs: the streak that ends with each
\* run, and the longest.
\* Mutant: the command is not compared.
StreakOfAny(runs) ==
    LET streak[n \in 0..Len(runs)] ==
          IF n = 0 THEN 0 ELSE IF Failing(runs[n]) THEN streak[n - 1] + 1 ELSE 0
    IN Max({streak[n] : n \in 0..Len(runs)})

Streak(runs) ==
    LET streak[n \in 0..Len(runs)] ==
          IF n = 0 THEN 0
          ELSE IF ~Failing(runs[n]) THEN 0
          ELSE IF n > 1 /\ runs[n].command = runs[n - 1].command THEN streak[n - 1] + 1 ELSE 1
    IN Max({streak[n] : n \in 0..Len(runs)})

\* turn_verification: {} for a turn without an accepted edit.  The weakened
\* flags are seven kinds and their bound of eight never bites.
TurnVerification(turn) ==
    LET edits == ToSet(turn.edits)
        named == {e \in edits : e.file # NoFile}
        Files(test) == {e.file : e \in {e \in named : e.test = test}}
        First(test) == {e.step : e \in {e \in named : e.test = test}}
        lastEdit == Max({e.step : e \in edits})
        greens == {r.step : r \in {r \in ToSet(turn.runs) : r.outcome = "passed"}}
        endedGreen == greens # {} /\ Max(greens) > lastEdit
    IN IF edits = {} THEN {}
       ELSE {[editsAccepted |-> Len(turn.edits),
              sourceFilesChanged |-> Cardinality(Files(FALSE)),
              testFilesChanged |-> Cardinality(Files(TRUE)),
              testFirst |-> First(TRUE) # {} /\ First(FALSE) # {} /\ Min(First(TRUE)) < Min(First(FALSE)),
              testRuns |-> Len(turn.runs),
              endedGreen |-> endedGreen,
              editsAfterLastGreen |-> Cardinality({e \in edits : \A g \in greens : e.step > g}),
              failingRunStreakMax |-> Streak(turn.runs),
              reworkFiles |-> Cardinality({f \in Files(TRUE) \cup Files(FALSE) :
                                             Cardinality({e \in edits : e.file = f}) >= 3}),
              sensitiveUntested |-> (\E e \in edits : e.sensitive) /\ ~endedGreen,
              weakenedFlags |-> UNION {c.flags : c \in ToSet(turn.flagged)},
              weakenedCaught |-> Cardinality({i \in DOMAIN turn.flagged : turn.flagged[i].caught})]}
=============================================================================
