--------------------------- MODULE BashCallProofs ---------------------------
(***************************************************************************)
(* A Bash call for any commands, any runners and any host: how a call ends *)
(* is read as it ended, and where the exit status decides no run is        *)
(* reported as passed that did not pass.                                   *)
(***************************************************************************)
EXTENDS BashCall, SequenceLemmas

(* The types.                                                              *)

Fields == {"todo", "before", "status", "ran", "tests", "output", "doubtful", "otherRed", "interrupted"}
Stages == {"typing", "running", "ended", "told", "read"}

\* The shell is a record of its fields.
ShellShape == shell = [k \in Fields |-> shell[k]]

Outcomes == {"passed", "failed", "error", "unknown"}

TypeInv ==
    /\ dialect \in Dialect
    /\ parts \in 0 .. dialect.parts
    /\ stage \in Stages
    /\ ShellShape
    /\ shell.status \in {0, 1}
    /\ stage = "ended" /\ ~shell.interrupted => shell.todo = <<>>
    /\ \A r \in report : r.outcome \in Outcomes

LEMMA OutcomeType ==
  ASSUME NEW exit, NEW trust, NEW summary, NEW interrupted
  PROVE  Outcome(exit, trust, summary, interrupted) \in Outcomes
  BY Zenon DEF Outcome, Outcomes

\* What can be known of a run of tests: "tap" stands for the styles that count
\* what broke.
Verdicts == UNION {{[failing |-> Fails(run), counts |-> Stated(style, run)] : run \in dialect.runs}
                   : style \in Silent \cup {"tap"}}

LEMMA IsVerdict ==
  ASSUME NEW run \in dialect.runs, NEW style
  PROVE  [failing |-> Fails(run), counts |-> Stated(style, run)] \in Verdicts
  <1>1. CASE style \in Silent
    BY <1>1 DEF Verdicts
  <1>2. CASE style \notin Silent
    <2>1. Stated(style, run) = Stated("tap", run)
      BY <1>2 DEF Stated, Silent
    <2> QED BY <2>1 DEF Verdicts
  <1> QED BY <1>1, <1>2

\* What a command that is skipped or runs does to the shell.
LEMMA ShellSteps ==
  ASSUME ShellShape
  PROVE  /\ SkipCommand => shell' = [shell EXCEPT !.todo = Tail(shell.todo), !.before = Now.after, !.ran = FALSE]
         /\ RunOther => \E status \in {0, 1} : \E output, doubtful, otherRed :
              shell' = [shell EXCEPT !.todo = Tail(shell.todo), !.before = Now.after, !.ran = TRUE,
                                     !.status = StatusAfter(status), !.output = output, !.doubtful = doubtful,
                                     !.otherRed = otherRed]
         /\ RunTests => \E status \in {0, 1} : \E test \in Verdicts : \E output, doubtful :
              /\ test.failing => status # 0
              /\ shell' = [shell EXCEPT !.todo = Tail(shell.todo), !.before = Now.after, !.ran = TRUE,
                                        !.status = StatusAfter(status), !.tests = Append(shell.tests, test),
                                        !.output = output, !.doubtful = doubtful]
  <1>1. ASSUME SkipCommand
        PROVE  shell' = [shell EXCEPT !.todo = Tail(shell.todo), !.before = Now.after, !.ran = FALSE]
    BY <1>1 DEF SkipCommand, Proceed, ShellShape, Fields
  <1>2. ASSUME RunOther
        PROVE  \E status \in {0, 1} : \E output, doubtful, otherRed :
                 shell' = [shell EXCEPT !.todo = Tail(shell.todo), !.before = Now.after, !.ran = TRUE,
                                        !.status = StatusAfter(status), !.output = output, !.doubtful = doubtful,
                                        !.otherRed = otherRed]
    <2>1. PICK status \in {0, 1} :
            \/ shell' = [Proceed EXCEPT !.ran = TRUE, !.status = StatusAfter(status)]
            \/ \E run, shown :
                 shell' = [Proceed EXCEPT !.ran = TRUE, !.status = StatusAfter(status), !.output = @ \o shown,
                                          !.doubtful = TRUE, !.otherRed = @ \/ (shown # <<>> /\ Fails(run))]
      BY <1>2, Zenon DEF RunOther
    <2>2. CASE shell' = [Proceed EXCEPT !.ran = TRUE, !.status = StatusAfter(status)]
      <3>1. shell' = [shell EXCEPT !.todo = Tail(shell.todo), !.before = Now.after, !.ran = TRUE,
                                   !.status = StatusAfter(status), !.output = shell.output,
                                   !.doubtful = shell.doubtful, !.otherRed = shell.otherRed]
        BY <2>2 DEF Proceed, ShellShape, Fields
      <3> QED BY <3>1
    <2>3. ASSUME NEW run, NEW shown,
                 shell' = [Proceed EXCEPT !.ran = TRUE, !.status = StatusAfter(status), !.output = @ \o shown,
                                          !.doubtful = TRUE, !.otherRed = @ \/ (shown # <<>> /\ Fails(run))]
          PROVE  \E output, doubtful, otherRed :
                   shell' = [shell EXCEPT !.todo = Tail(shell.todo), !.before = Now.after, !.ran = TRUE,
                                          !.status = StatusAfter(status), !.output = output, !.doubtful = doubtful,
                                          !.otherRed = otherRed]
      <3> DEFINE output == shell.output \o shown
                 otherRed == shell.otherRed \/ (shown # <<>> /\ Fails(run))
      <3>1. shell' = [shell EXCEPT !.todo = Tail(shell.todo), !.before = Now.after, !.ran = TRUE,
                                   !.status = StatusAfter(status), !.output = output, !.doubtful = TRUE,
                                   !.otherRed = otherRed]
        BY <2>3 DEF Proceed, ShellShape, Fields
      <3> HIDE DEF output, otherRed
      <3> QED BY <3>1
    <2> QED BY <2>1, <2>2, <2>3
  <1>3. ASSUME RunTests
        PROVE  \E status \in {0, 1} : \E test \in Verdicts : \E output, doubtful :
                 /\ test.failing => status # 0
                 /\ shell' = [shell EXCEPT !.todo = Tail(shell.todo), !.before = Now.after, !.ran = TRUE,
                                           !.status = StatusAfter(status), !.tests = Append(shell.tests, test),
                                           !.output = output, !.doubtful = doubtful]
    <2>0. PICK status \in {0, 1}, run \in dialect.runs, style \in StylesOf(Classify(StripWrappers(Now.words).rest)) :
            \E shown \in Printed(style, run) :
              /\ Fails(run) => status # 0
              /\ shell' = [Proceed EXCEPT !.ran = TRUE, !.status = StatusAfter(status),
                                !.tests = Append(@, [failing |-> Fails(run), counts |-> Stated(style, run)]),
                                !.output = @ \o shown,
                                !.doubtful = \/ @
                                             \/ shown \notin {Shown(style, run), <<>>}
                                             \/ Len(run) > 1 /\ style \notin AddingUp \cup Aggregating]
      BY <1>3, Zenon DEF RunTests
    <2>1. PICK shown :
                 /\ Fails(run) => status # 0
                 /\ shell' = [Proceed EXCEPT !.ran = TRUE, !.status = StatusAfter(status),
                                   !.tests = Append(@, [failing |-> Fails(run), counts |-> Stated(style, run)]),
                                   !.output = @ \o shown,
                                   !.doubtful = \/ @
                                                \/ shown \notin {Shown(style, run), <<>>}
                                                \/ Len(run) > 1 /\ style \notin AddingUp \cup Aggregating]
      BY <2>0, Zenon
    <2> DEFINE test == [failing |-> Fails(run), counts |-> Stated(style, run)]
               output == shell.output \o shown
               doubtful == \/ shell.doubtful
                           \/ shown \notin {Shown(style, run), <<>>}
                           \/ Len(run) > 1 /\ style \notin AddingUp \cup Aggregating
    <2>2. test.failing => status # 0
      BY <2>1
    <2>3. shell' = [shell EXCEPT !.todo = Tail(shell.todo), !.before = Now.after, !.ran = TRUE,
                                 !.status = StatusAfter(status), !.tests = Append(shell.tests, test),
                                 !.output = output, !.doubtful = doubtful]
      BY <2>1 DEF Proceed, ShellShape, Fields
    <2>4. test \in Verdicts
      BY IsVerdict
    <2> HIDE DEF test, output, doubtful
    <2> QED BY <2>2, <2>3, <2>4
  <1> QED BY <1>1, <1>2, <1>3

LEMMA StatusType ==
  ASSUME shell.status \in {0, 1}, NEW status \in {0, 1}
  PROVE  StatusAfter(status) \in {0, 1}
  BY DEF StatusAfter

LEMMA TypeInit == Init => TypeInv
  <1> SUFFICES ASSUME Init PROVE TypeInv
    OBVIOUS
  <1>1. ShellShape /\ shell.status = 0
    BY DEF Init, ShellShape, Fields
  <1>2. dialect \in Dialect /\ dialect.parts \in Nat
    BY DialectAssumption DEF Init
  <1>3. 0 \in 0 .. dialect.parts
    BY <1>2
  <1> QED BY <1>1, <1>2, <1>3 DEF Init, TypeInv, Stages

LEMMA TypeStep == TypeInv /\ [Next]_vars => TypeInv'
  <1> SUFFICES ASSUME TypeInv, [Next]_vars PROVE TypeInv'
    OBVIOUS
  <1>0. dialect \in Dialect /\ dialect.parts \in Nat
    BY DialectAssumption DEF TypeInv
  <1>1. ASSUME NEW more, Type(more) PROVE TypeInv'
    <2>1. parts + 1 \in 0 .. dialect.parts
      BY <1>0, <1>1 DEF Type, TypeInv
    <2> QED BY <1>1, <2>1 DEF Type, TypeInv, ShellShape
  <1>2. CASE TypePhrase
    BY <1>1, <1>2 DEF TypePhrase
  <1>3. CASE TypeLink
    BY <1>1, <1>3 DEF TypeLink
  <1>4. CASE Start
    <2>1. ShellShape' /\ (shell').status = shell.status
      BY <1>4 DEF Start, TypeInv, ShellShape, Fields
    <2> QED BY <1>4, <2>1 DEF Start, TypeInv, Stages
  <1>5. ASSUME stage = "running", UNCHANGED <<dialect, parts, stage, report>>,
               ShellShape', (shell').status \in {0, 1}
        PROVE  TypeInv'
    BY <1>5 DEF TypeInv
  <1>6. CASE SkipCommand
    <2>1. shell' = [shell EXCEPT !.todo = Tail(shell.todo), !.before = Now.after, !.ran = FALSE]
      BY <1>6, ShellSteps DEF TypeInv
    <2>2. ShellShape' /\ (shell').status = shell.status
      BY <2>1 DEF TypeInv, ShellShape, Fields
    <2> QED BY <1>5, <1>6, <2>2 DEF SkipCommand, Running, TypeInv
  <1>7. CASE RunOther
    <2>1. PICK status \in {0, 1} : \E output, doubtful, otherRed :
             shell' = [shell EXCEPT !.todo = Tail(shell.todo), !.before = Now.after, !.ran = TRUE,
                                    !.status = StatusAfter(status), !.output = output, !.doubtful = doubtful,
                                    !.otherRed = otherRed]
      BY <1>7, ShellSteps DEF TypeInv
    <2>2. ShellShape' /\ (shell').status = StatusAfter(status)
      BY <2>1 DEF TypeInv, ShellShape, Fields
    <2>3. (shell').status \in {0, 1}
      BY <2>2, StatusType DEF TypeInv
    <2> QED BY <1>5, <1>7, <2>2, <2>3 DEF RunOther, Running
  <1>8. CASE RunTests
    <2>0. ShellShape
      BY DEF TypeInv
    <2>1. PICK status \in {0, 1} : \E test \in Verdicts : \E output, doubtful :
             /\ test.failing => status # 0
             /\ shell' = [shell EXCEPT !.todo = Tail(shell.todo), !.before = Now.after, !.ran = TRUE,
                                       !.status = StatusAfter(status), !.tests = Append(shell.tests, test),
                                       !.output = output, !.doubtful = doubtful]
      BY <1>8, <2>0, ShellSteps, Zenon
    <2>2. ShellShape' /\ (shell').status = StatusAfter(status)
      BY <2>1 DEF TypeInv, ShellShape, Fields
    <2>3. (shell').status \in {0, 1}
      BY <2>2, StatusType DEF TypeInv
    <2> QED BY <1>5, <1>8, <2>2, <2>3 DEF RunTests, Running
  <1>9. CASE End
    BY <1>9 DEF End, Running, TypeInv, Stages, ShellShape
  <1>10. CASE Interrupt
    <2>1. ShellShape' /\ (shell').status = shell.status /\ (shell').interrupted
      BY <1>10 DEF Interrupt, TypeInv, ShellShape, Fields
    <2> QED BY <1>10, <2>1 DEF Interrupt, TypeInv, Stages
  <1>11. CASE \E agent \in Agent : Tell(agent)
    BY <1>11 DEF Tell, TypeInv, Stages, ShellShape
  <1>12. CASE Read
    <2>1. \A r \in report' : r.outcome \in Outcomes
      BY <1>12, OutcomeType DEF Read, TestRunOf, RunFrom
    <2> QED BY <1>12, <2>1 DEF Read, TypeInv, Stages, ShellShape
  <1>13. CASE UNCHANGED vars
    BY <1>13 DEF vars, TypeInv, ShellShape
  <1> QED BY <1>2, <1>3, <1>4, <1>6, <1>7, <1>8, <1>9, <1>10, <1>11, <1>12, <1>13 DEF Next

\* Whatever is typed and run, a command that is over has no simple command left
\* unless it was stopped, and what is reported of it is one of the outcomes of
\* testrun.rs.
THEOREM CallTypes == Spec => []TypeOK
  <1>1. TypeInv => TypeOK
    BY DEF TypeInv, TypeOK, Stages, Outcomes
  <1> QED BY <1>1, TypeInit, TypeStep, PTL DEF Spec
-----------------------------------------------------------------------------
(* How a call ends.                                                        *)

\* The first of several keys, and keys of which none is there.
LEMMA FirstIs ==
  ASSUME NEW fields, NEW keys
  PROVE  /\ (\A i \in DOMAIN keys : keys[i] \notin DOMAIN fields) => First(fields, keys) = {}
         /\ (1 \in DOMAIN keys /\ DOMAIN keys \subseteq Nat \ {0} /\ keys[1] \in DOMAIN fields)
               => First(fields, keys) = {fields[keys[1]]}
  <1> DEFINE there == {i \in DOMAIN keys : keys[i] \in DOMAIN fields}
  <1>1. ASSUME \A i \in DOMAIN keys : keys[i] \notin DOMAIN fields PROVE First(fields, keys) = {}
    <2>1. there = {}
      BY <1>1
    <2> QED BY <2>1 DEF First
  <1>2. ASSUME 1 \in DOMAIN keys, DOMAIN keys \subseteq Nat \ {0}, keys[1] \in DOMAIN fields
        PROVE  First(fields, keys) = {fields[keys[1]]}
    <2>1. 1 \in there /\ there \in SUBSET Nat /\ \A i \in there : 1 <= i
      BY <1>2
    <2>2. First(fields, keys) = IF there = {} THEN {} ELSE {fields[keys[Min(there)]]}
      BY Zenon DEF First
    <2> HIDE DEF there
    <2>3. Min(there) = 1
      BY <2>1, LeastOf
    <2> QED BY <2>1, <2>2, <2>3
  <1> QED BY <1>1, <1>2

\* What a hook is told of a call, and what it makes of it, is of the call as it
\* was; the call is still running, or was stopped, or is over.
TellInv ==
    /\ stage \in {"told", "read"} =>
         /\ payload.told.input.command = command
         /\ LET exit == BashResult(payload.told, payload.agent).exit
            IN exit # {} => shell.todo = <<>> /\ exit = {shell.status}
    /\ report = IF stage = "read" THEN TestRunOf(payload.told, payload.agent) ELSE {}

Codes == <<"exit_code", "exitCode", "returnCode", "return_code", "code">>
Backgrounds == <<"backgroundTaskId", "background_task_id", "backgroundTaskID">>

\* What is read of the shapes a payload has: a failure, a text, an object with
\* the code, and one without.
LEMMA ReadShapes ==
  ASSUME NEW p, NEW agent
  PROVE  LET result == BashResult(p, agent)
             fields == p.response.object
             interrupted == TRUE \in First(fields, <<"interrupted">>)
         IN /\ p.event = "PostToolUseFailure" => result.exit = p.error.code
            /\ p.event # "PostToolUseFailure" /\ p.response.kind = "text" => result.exit = {}
            /\ p.event # "PostToolUseFailure" /\ p.response.kind = "object" =>
                 result.exit = IF /\ First(fields, Codes) = {} /\ agent = "claude" /\ "stdout" \in DOMAIN fields
                                  /\ ~interrupted /\ First(fields, Backgrounds) = {}
                               THEN {0} ELSE First(fields, Codes)
  BY Zenon DEF BashResult, FailureResult, NoResult, Codes, Backgrounds

\* An object without a code.
LEMMA NoCode ==
  ASSUME NEW fields, DOMAIN fields \cap {"exit_code", "exitCode", "returnCode", "return_code", "code"} = {}
  PROVE  First(fields, Codes) = {}
  <1>1. \A i \in DOMAIN Codes : Codes[i] \in {"exit_code", "exitCode", "returnCode", "return_code", "code"}
    BY DEF Codes
  <1>2. \A i \in DOMAIN Codes : Codes[i] \notin DOMAIN fields
    BY <1>1
  <1> QED BY <1>2, FirstIs

\* The status that is read of what the host tells is that of the shell.
LEMMA ToldAsEnded ==
  ASSUME TypeInv, NEW agent, Tell(agent)
  PROVE  /\ (payload').told.input.command = command
         /\ LET exit == BashResult((payload').told, (payload').agent).exit
            IN exit # {} => shell.todo = <<>> /\ exit = {shell.status}
  <1> DEFINE Fine(p) == /\ p.input.command = command
                        /\ BashResult(p, agent).exit # {} => shell.todo = <<>> /\ BashResult(p, agent).exit = {shell.status}
  <1>1. ASSUME NEW event, NEW response, NEW code
        PROVE  LET p == Payload(event, response, code)
               IN p.input.command = command /\ p.event = event /\ p.response = response /\ p.error.code = code
    BY DEF Payload
  <1>2. ASSUME NEW response, NEW code, code # {} => shell.todo = <<>> /\ code = {shell.status}
        PROVE  Fine(Payload("PostToolUseFailure", response, code))
    <2> DEFINE p == Payload("PostToolUseFailure", response, code)
    <2>1. p.input.command = command /\ p.event = "PostToolUseFailure" /\ p.error.code = code
      BY <1>1
    <2> HIDE DEF p
    <2>2. BashResult(p, agent).exit = code
      BY <2>1, ReadShapes, Zenon
    <2>3. Fine(p)
      BY <1>2, <2>1, <2>2
    <2> QED BY <2>3 DEF p
  <1>3. Fine(Payload("PostToolUse", Text, {}))
    <2> DEFINE p == Payload("PostToolUse", Text, {})
    <2>1. p.input.command = command /\ p.event # "PostToolUseFailure" /\ p.response.kind = "text"
      BY <1>1 DEF Text
    <2> HIDE DEF p
    <2>2. BashResult(p, agent).exit = {}
      BY <2>1, ReadShapes, Zenon
    <2>3. Fine(p)
      BY <2>1, <2>2
    <2> QED BY <2>3 DEF p
  <1>4. ASSUME NEW fields,
               LET exit == IF /\ First(fields, Codes) = {} /\ agent = "claude" /\ "stdout" \in DOMAIN fields
                              /\ ~ TRUE \in First(fields, <<"interrupted">>) /\ First(fields, Backgrounds) = {}
                           THEN {0} ELSE First(fields, Codes)
               IN exit # {} => shell.todo = <<>> /\ exit = {shell.status}
        PROVE  Fine(Payload("PostToolUse", Object(fields), {}))
    <2>1. Object(fields).kind = "object" /\ Object(fields).object = fields
      BY DEF Object
    <2> DEFINE p == Payload("PostToolUse", Object(fields), {})
    <2>2. p.input.command = command /\ p.event = "PostToolUse" /\ p.response.kind = "object" /\ p.response.object = fields
      BY <1>1, <2>1
    <2> HIDE DEF p
    <2>3. BashResult(p, agent).exit =
            IF /\ First(fields, Codes) = {} /\ agent = "claude" /\ "stdout" \in DOMAIN fields
               /\ ~ TRUE \in First(fields, <<"interrupted">>) /\ First(fields, Backgrounds) = {}
            THEN {0} ELSE First(fields, Codes)
      BY <2>2, ReadShapes, Zenon
    <2>4. Fine(p)
      BY <1>4, <2>2, <2>3
    <2> QED BY <2>4 DEF p
  <1> HIDE DEF Fine
  <1>5. Fine(Background)
    <2> DEFINE fields == [stdout |-> TRUE, output |-> <<>>, backgroundTaskId |-> 1, interrupted |-> FALSE]
    <2>1. First(fields, Codes) = {}
      BY NoCode
    <2>2. First(fields, Backgrounds) # {}
      <3>1. 1 \in DOMAIN Backgrounds /\ DOMAIN Backgrounds \subseteq Nat \ {0} /\ Backgrounds[1] \in DOMAIN fields
        BY DEF Backgrounds
      <3> QED BY <3>1, FirstIs
    <2>3. Background = Payload("PostToolUse", Object(fields), {})
      BY DEF Background
    <2> HIDE DEF fields
    <2> QED BY <1>4, <2>1, <2>2, <2>3
  <1>6. ASSUME stage = "ended", NEW p \in ClaudeTells PROVE Fine(p)
    <2>1. CASE shell.interrupted
      <3> DEFINE fields == [stdout |-> TRUE, output |-> shell.output, interrupted |-> TRUE]
      <3>1. p \in {Payload("PostToolUse", Object(fields), {}), Payload("PostToolUseFailure", Text, {})}
        BY <1>6, <2>1 DEF ClaudeTells
      <3>2. First(fields, Codes) = {}
        BY NoCode
      <3>3. TRUE \in First(fields, <<"interrupted">>)
        <4> DEFINE keys == <<"interrupted">>
        <4>1. 1 \in DOMAIN keys /\ DOMAIN keys \subseteq Nat \ {0} /\ keys[1] = "interrupted"
          OBVIOUS
        <4>2. keys[1] \in DOMAIN fields /\ fields[keys[1]] = TRUE
          BY <4>1
        <4> HIDE DEF keys, fields
        <4>3. First(fields, keys) = {TRUE}
          BY <4>1, <4>2, FirstIs
        <4> QED BY <4>3 DEF keys
      <3> HIDE DEF fields
      <3> QED BY <1>2, <1>4, <3>1, <3>2, <3>3
    <2>2. CASE ~shell.interrupted /\ shell.status = 0
      <3> DEFINE fields == [stdout |-> TRUE, output |-> shell.output, interrupted |-> FALSE]
      <3>1. p = Payload("PostToolUse", Object(fields), {})
        BY <1>6, <2>2 DEF ClaudeTells
      <3>2. First(fields, Codes) = {}
        BY NoCode
      <3>3. shell.todo = <<>>
        BY <1>6, <2>2 DEF TypeInv
      <3> HIDE DEF fields
      <3> QED BY <1>4, <2>2, <3>1, <3>2, <3>3
    <2>3. CASE ~shell.interrupted /\ shell.status # 0
      <3>1. p = Payload("PostToolUseFailure", Text, {shell.status})
        BY <1>6, <2>3 DEF ClaudeTells
      <3>2. shell.todo = <<>>
        BY <1>6, <2>3 DEF TypeInv
      <3> QED BY <1>2, <3>1, <3>2
    <2> QED BY <2>1, <2>2, <2>3
  <1>7. ASSUME stage = "ended", NEW p \in GrokTells PROVE Fine(p)
    <2> DEFINE fields == IF shell.interrupted THEN [output |-> shell.output, interrupted |-> TRUE]
                         ELSE [output |-> shell.output, interrupted |-> FALSE, exit_code |-> shell.status]
    <2>1. p \in {Payload("PostToolUse", Object(fields), {}), Payload("PostToolUse", Text, {})}
      BY <1>7 DEF GrokTells
    <2>2. CASE shell.interrupted
      <3>1. DOMAIN fields = {"output", "interrupted"}
        BY <2>2
      <3>2. First(fields, Codes) = {}
        BY <3>1, NoCode
      <3>3. "stdout" \notin DOMAIN fields
        BY <3>1
      <3> HIDE DEF fields
      <3> QED BY <1>3, <1>4, <2>1, <3>2, <3>3
    <2>3. CASE ~shell.interrupted
      <3>1. "exit_code" \in DOMAIN fields /\ fields["exit_code"] = shell.status
        BY <2>3
      <3> HIDE DEF fields
      <3>2. 1 \in DOMAIN Codes /\ DOMAIN Codes \subseteq Nat \ {0} /\ Codes[1] = "exit_code"
        BY DEF Codes
      <3>3. First(fields, Codes) = {shell.status}
        BY <3>1, <3>2, FirstIs
      <3>4. shell.todo = <<>>
        BY <1>7, <2>3 DEF TypeInv
      <3> QED BY <1>3, <1>4, <2>1, <3>3, <3>4
    <2> QED BY <2>2, <2>3
  <1>8. \E p : payload' = [agent |-> agent, told |-> p] /\ Fine(p)
    <2>1. CASE stage = "ended"
      <3>1. PICK p \in IF agent = "claude" THEN ClaudeTells ELSE GrokTells : payload' = [agent |-> agent, told |-> p]
        BY <2>1 DEF Tell
      <3>2. Fine(p)
        BY <1>6, <1>7, <2>1, <3>1
      <3> QED BY <3>1, <3>2
    <2>2. CASE stage # "ended"
      BY <1>5, <2>2 DEF Tell
    <2> QED BY <2>1, <2>2
  <1> QED BY <1>8 DEF Fine

LEMMA TellInit == Init => TellInv
  BY DEF Init, TellInv

LEMMA TellStep == TypeInv /\ TellInv /\ [Next]_vars => TellInv'
  <1> SUFFICES ASSUME TypeInv, TellInv, [Next]_vars PROVE TellInv'
    OBVIOUS
  <1>1. ASSUME stage' \notin {"told", "read"}, stage # "read", report' = report PROVE TellInv'
    BY <1>1 DEF TellInv
  <1>2. CASE TypePhrase
    BY <1>1, <1>2 DEF TypePhrase, Type
  <1>3. CASE TypeLink
    BY <1>1, <1>3 DEF TypeLink, Type
  <1>4. CASE Start
    BY <1>1, <1>4 DEF Start
  <1>5. CASE SkipCommand
    BY <1>1, <1>5 DEF SkipCommand, Running
  <1>6. CASE RunOther
    BY <1>1, <1>6 DEF RunOther, Running
  <1>7. CASE RunTests
    BY <1>1, <1>7 DEF RunTests, Running
  <1>8. CASE End
    BY <1>1, <1>8 DEF End
  <1>9. CASE Interrupt
    BY <1>1, <1>9 DEF Interrupt, Running
  <1>10. CASE \E agent \in Agent : Tell(agent)
    <2>1. PICK agent \in Agent : Tell(agent)
      BY <1>10
    <2>2. stage \notin {"told", "read"} /\ stage' = "told" /\ UNCHANGED <<command, shell, report>>
      BY <2>1 DEF Tell
    <2>3. /\ (payload').told.input.command = command
          /\ LET exit == BashResult((payload').told, (payload').agent).exit
             IN exit # {} => shell.todo = <<>> /\ exit = {shell.status}
      BY <2>1, ToldAsEnded
    <2> QED BY <2>2, <2>3, Zenon DEF TellInv
  <1>11. CASE Read
    BY <1>11 DEF Read, TellInv
  <1>12. CASE UNCHANGED vars
    BY <1>12 DEF vars, TellInv
  <1> QED BY <1>2, <1>3, <1>4, <1>5, <1>6, <1>7, <1>8, <1>9, <1>10, <1>11, <1>12 DEF Next

\* The exit status read of a payload is the one the shell ended with, and a call
\* that was put in the background or stopped has none (bash_result of
\* extract.rs), whatever was run and whichever host tells of it.
THEOREM ExitTold == Spec => []ExitAsHappened
  <1>1. TellInv => ExitAsHappened
    BY DEF TellInv, ExitAsHappened
  <1>2. Init => TypeInv /\ TellInv
    BY TypeInit, TellInit
  <1>3. TypeInv /\ TellInv /\ [Next]_vars => (TypeInv /\ TellInv)'
    BY TypeStep, TellStep
  <1> QED BY <1>1, <1>2, <1>3, PTL DEF Spec
-----------------------------------------------------------------------------
(* The segments a detector reads, and the simple commands a shell does.    *)

Links == DOMAIN Connector \cup {"&"}
Tokens == STRING \cup Links
Afters == {"And", "Or", "Semi", "Pipe", "Amp", NoConnector}
Segment == [words : Seq(Tokens), after : Afters]

\* What has been read of a command: by the code, and by the shell.
Reading == [out : Seq(Segment), current : Seq(Tokens)]
ShellReading == [out : Seq(Segment), current : Seq(Tokens), doc : {"no", "armed", "body"}]

LEMMA ConnectorType ==
  ASSUME NEW token \in DOMAIN Connector
  PROVE  /\ Connector[token] \in {"And", "Or", "Semi", "Pipe"}
         /\ Connector[token] = "Or" => token = "||"
         /\ Connector[token] \in {"And", "Pipe"} => token \in {"&&", "|", "|&"}
  <1>1. token \in {"&&", "||", ";", "\n", "|", "|&"}
    BY DEF Connector
  <1>2. Connector[token] = IF token = "&&" THEN "And" ELSE IF token = "||" THEN "Or"
                           ELSE IF token \in {";", "\n"} THEN "Semi" ELSE "Pipe"
    BY <1>1 DEF Connector
  <1>3. CASE token \in {"&&", "||"}
    BY <1>2, <1>3
  <1>4. CASE token \in {";", "\n"}
    BY <1>2, <1>4
  <1>5. CASE token \in {"|", "|&"}
    BY <1>2, <1>5
  <1> QED BY <1>1, <1>3, <1>4, <1>5

\* Another last entry.
LEMMA LastReplaced ==
  ASSUME NEW S, NEW s \in Seq(S), s # <<>>, NEW x \in S
  PROVE  /\ Front(s) \o <<x>> \in Seq(S) /\ Len(Front(s) \o <<x>>) = Len(s)
         /\ (Front(s) \o <<x>>)[Len(s)] = x
         /\ \A i \in 1 .. Len(s) - 1 : (Front(s) \o <<x>>)[i] = s[i]
         /\ Last(s) \in S /\ Last(s) = s[Len(s)] /\ Len(s) \in Nat \ {0}
  <1>1. Len(s) \in Nat \ {0} /\ Len(s) - 1 \in 0 .. Len(s)
    BY EmptySeq
  <1>2. Last(s) = s[Len(s)] /\ Last(s) \in S
    BY <1>1 DEF Last
  <1>3. /\ Front(s) \in Seq(S) /\ Len(Front(s)) = Len(s) - 1
        /\ \A i \in 1 .. Len(s) - 1 : Front(s)[i] = s[i]
    <2> DEFINE k == Len(s) - 1
    <2>1. k \in 0 .. Len(s)
      BY <1>1
    <2>2. SubSeq(s, 1, k) \in Seq(S) /\ Len(SubSeq(s, 1, k)) = k /\ \A i \in 1 .. k : SubSeq(s, 1, k)[i] = s[i]
      <3> HIDE DEF k
      <3> QED BY <2>1, CutInTwo
    <2> QED BY <2>2 DEF Front
  <1>4. <<x>> \in Seq(S) /\ Len(<<x>>) = 1 /\ <<x>>[1] = x
    OBVIOUS
  <1> DEFINE front == Front(s)
             one == <<x>>
  <1> HIDE DEF front, one
  <1>5. front \in Seq(S) /\ Len(front) = Len(s) - 1 /\ \A i \in 1 .. Len(s) - 1 : front[i] = s[i]
    BY <1>3 DEF front
  <1>6. one \in Seq(S) /\ Len(one) = 1 /\ one[1] = x
    BY <1>4 DEF one
  <1>7. /\ front \o one \in Seq(S) /\ Len(front \o one) = Len(s)
        /\ \A i \in 1 .. Len(s) : (front \o one)[i] = IF i <= Len(s) - 1 THEN front[i] ELSE one[i - (Len(s) - 1)]
    <2>1. /\ front \o one \in Seq(S) /\ Len(front \o one) = Len(front) + Len(one)
          /\ \A i \in 1 .. Len(front) + Len(one) : (front \o one)[i] = IF i <= Len(front) THEN front[i] ELSE one[i - Len(front)]
      BY <1>5, <1>6, ConcatProperties
    <2>2. Len(front) + Len(one) = Len(s)
      BY <1>1, <1>5, <1>6
    <2> QED BY <1>5, <2>1, <2>2
  <1>8. (front \o one)[Len(s)] = x
    <2>1. Len(s) \in 1 .. Len(s) /\ ~(Len(s) <= Len(s) - 1) /\ Len(s) - (Len(s) - 1) = 1
      BY <1>1
    <2> QED BY <1>6, <1>7, <2>1
  <1>9. \A i \in 1 .. Len(s) - 1 : (front \o one)[i] = s[i]
    BY <1>1, <1>5, <1>7
  <1> QED BY <1>1, <1>2, <1>7, <1>8, <1>9 DEF front, one

LEMMA PushType ==
  ASSUME NEW read, NEW after \in Afters
  PROVE  /\ read \in Reading => PushSegment(read, after) \in Reading
         /\ read \in ShellReading => PushSegment(read, after) \in ShellReading /\ PushSegment(read, after).doc = read.doc
  <1> DEFINE seg == [words |-> read.current, after |-> after]
             weak == read.out # <<>> /\ Last(read.out).after = "Semi" /\ after # NoConnector
             out == IF read.current # <<>> THEN Append(read.out, seg)
                    ELSE IF weak THEN Front(read.out) \o <<[Last(read.out) EXCEPT !.after = after]>> ELSE read.out
             current == IF read.current # <<>> THEN <<>> ELSE read.current
  <1>1. ASSUME read.out \in Seq(Segment), read.current \in Seq(Tokens)
        PROVE  out \in Seq(Segment) /\ current \in Seq(Tokens)
    <2>1. seg \in Segment
      BY <1>1 DEF Segment
    <2>2. ASSUME read.out # <<>> PROVE out \in Seq(Segment)
      <3>1. Last(read.out) \in Segment
        BY <1>1, <2>2, LastReplaced, <2>1
      <3> DEFINE x == [Last(read.out) EXCEPT !.after = after]
      <3>2. x \in Segment
        BY <3>1 DEF Segment
      <3> HIDE DEF x
      <3>3. Front(read.out) \o <<x>> \in Seq(Segment)
        <4> DEFINE sss == read.out
        <4>1. sss \in Seq(Segment) /\ sss # <<>>
          BY <1>1, <2>2
        <4> HIDE DEF sss
        <4>2. Front(sss) \o <<x>> \in Seq(Segment)
          BY <3>2, <4>1, LastReplaced
        <4> QED BY <4>2 DEF sss
      <3>4. CASE read.current # <<>>
        <4>1. Append(read.out, seg) \in Seq(Segment)
          BY <1>1, <2>1
        <4> QED BY <3>4, <4>1, Zenon
      <3>5. CASE read.current = <<>> /\ weak
        BY <3>3, <3>5, Zenon DEF x
      <3>6. CASE read.current = <<>> /\ ~weak
        BY <1>1, <3>6, Zenon
      <3> QED BY <3>4, <3>5, <3>6
    <2>3. ASSUME read.out = <<>> PROVE out \in Seq(Segment)
      <3>1. CASE read.current # <<>>
        <4>1. Append(read.out, seg) \in Seq(Segment)
          BY <1>1, <2>1
        <4> QED BY <3>1, <4>1, Zenon
      <3>2. CASE read.current = <<>>
        <4>1. ~weak
          BY <2>3
        <4> QED BY <1>1, <3>2, <4>1, Zenon
      <3> QED BY <3>1, <3>2
    <2> HIDE DEF out
    <2>4. current \in Seq(Tokens)
      <3>1. <<>> \in Seq(Tokens)
        OBVIOUS
      <3> QED BY <1>1, <3>1, Zenon
    <2> QED BY <2>2, <2>3, <2>4
  <1>2. ASSUME read \in Reading PROVE PushSegment(read, after) \in Reading
    <2>1. PushSegment(read, after) = [out |-> out, current |-> current]
      BY <1>2 DEF PushSegment, Reading
    <2> QED BY <1>1, <1>2, <2>1 DEF Reading
  <1>3. ASSUME read \in ShellReading
        PROVE  PushSegment(read, after) \in ShellReading /\ PushSegment(read, after).doc = read.doc
    <2>1. PushSegment(read, after) = [out |-> out, current |-> current, doc |-> read.doc]
      BY <1>3 DEF PushSegment, ShellReading
    <2> HIDE DEF out, current
    <2> QED BY <1>1, <1>3, <2>1 DEF ShellReading
  <1> QED BY <1>2, <1>3

LEMMA ReadTypes ==
  ASSUME NEW read, NEW token \in Tokens
  PROVE  /\ read \in Reading => Scan(read, token) \in Reading
         /\ read \in ShellReading => ReadToken(read, token) \in ShellReading
  <1>1. ASSUME read.current \in Seq(Tokens) PROVE Append(read.current, token) \in Seq(Tokens)
    BY <1>1
  <1>2. token \in DOMAIN Connector => Connector[token] \in Afters
    BY ConnectorType DEF Afters
  <1>3. "Amp" \in Afters
    BY DEF Afters
  <1>4. ASSUME read \in Reading PROVE Scan(read, token) \in Reading
    <2>1. CASE token \in DOMAIN Connector
      BY <1>2, <1>4, <2>1, PushType DEF Scan
    <2>2. CASE token \notin DOMAIN Connector
      <3>1. Scan(read, token) = [out |-> read.out, current |-> Append(read.current, token)]
        BY <1>4, <2>2 DEF Scan, Reading
      <3> QED BY <1>1, <1>4, <3>1 DEF Reading
    <2> QED BY <2>1, <2>2
  <1>5. ASSUME read \in ShellReading PROVE ReadToken(read, token) \in ShellReading
    <2>0. /\ read.out \in Seq(Segment) /\ read.current \in Seq(Tokens) /\ read.doc \in {"no", "armed", "body"}
          /\ \A doc \in {"no", "armed", "body"} : [read EXCEPT !.doc = doc] \in ShellReading
      BY <1>5 DEF ShellReading
    <2>1. CASE read.doc = "body"
      BY <2>0, <2>1 DEF ReadToken
    <2>2. CASE read.doc # "body" /\ token = "&"
      <3> DEFINE push == PushSegment(read, "Amp")
      <3>1. push \in ShellReading
        BY <1>3, <1>5, PushType
      <3> HIDE DEF push
      <3>2. [push EXCEPT !.doc = read.doc] \in ShellReading
        BY <2>0, <3>1 DEF ShellReading
      <3> QED BY <2>2, <3>2 DEF ReadToken, push
    <2>3. CASE read.doc # "body" /\ token # "&" /\ token \in DOMAIN Connector
      <3> DEFINE push == PushSegment(read, Connector[token])
      <3>1. push \in ShellReading
        BY <1>2, <1>5, <2>3, PushType
      <3> HIDE DEF push
      <3>2. [push EXCEPT !.doc = IF token = "\n" /\ @ = "armed" THEN "body" ELSE @] \in ShellReading
        BY <2>0, <3>1 DEF ShellReading
      <3> QED BY <1>5, <2>3, <3>2 DEF ReadToken, push
    <2>4. CASE read.doc # "body" /\ token # "&" /\ token \notin DOMAIN Connector
      <3>1. [read EXCEPT !.current = Append(@, token), !.doc = IF token = "<<EOF" THEN "armed" ELSE @] \in ShellReading
        BY <1>1, <1>5, <2>0 DEF ShellReading
      <3> QED BY <2>4, <3>1 DEF ReadToken
    <2> QED BY <2>1, <2>2, <2>3, <2>4
  <1> QED BY <1>4, <1>5

\* What the code has read of the first tokens, of all of them, and its segments.
ScannedBy(f, tokens) ==
    /\ f \in [0 .. Len(tokens) -> Reading]
    /\ f[0] = [out |-> <<>>, current |-> <<>>]
    /\ \A i \in 1 .. Len(tokens) : f[i] = Scan(f[i - 1], tokens[i])

LEMMA SegmentsByScan ==
  ASSUME NEW tokens \in Seq(Tokens)
  PROVE  \E f : /\ ScannedBy(f, tokens)
                /\ LET out == PushSegment(f[Len(tokens)], NoConnector).out
                   IN Segments(tokens) = IF out # <<>> /\ Last(out).after = "Semi"
                                         THEN Front(out) \o <<[Last(out) EXCEPT !.after = NoConnector]>>
                                         ELSE out
  <1> DEFINE n == Len(tokens)
             base == [out |-> <<>>, current |-> <<>>]
             Next1(p) == Scan(p[2], tokens[p[1]])
             step == [p \in (1 .. n) \X Reading |-> Next1(p)]
             Is(f) == f = [i \in 0 .. n |-> IF i = 0 THEN [out |-> <<>>, current |-> <<>>] ELSE Scan(f[i - 1], tokens[i])]
  <1>1. n \in Nat
    OBVIOUS
  <1>2. base \in Reading
    BY DEF Reading
  <1>3. step \in [(1 .. n) \X Reading -> Reading]
    <2>1. ASSUME NEW p \in (1 .. n) \X Reading PROVE Next1(p) \in Reading
      <3>1. tokens[p[1]] \in Tokens /\ p[2] \in Reading
        OBVIOUS
      <3> QED BY <3>1, ReadTypes
    <2> HIDE DEF Next1
    <2> QED BY <2>1
  <1>4. PICK f \in [0 .. n -> Reading] : f[0] = base /\ \A i \in 1 .. n : f[i] = step[<<i, f[i - 1]>>]
    <2> DEFINE first == base
    <2>1. first \in Reading
      BY <1>2
    <2> HIDE DEF step, n, first
    <2>2. \E f \in [0 .. n -> Reading] : Computes(f, n, first, step)
      BY <1>1, <1>3, <2>1, Recursion
    <2> QED BY <2>2, Zenon DEF first, Computes
  <1>5. \A i \in 1 .. n : f[i] = Scan(f[i - 1], tokens[i])
    <2>1. ASSUME NEW i \in 1 .. n PROVE f[i] = Scan(f[i - 1], tokens[i])
      <3>1. <<i, f[i - 1]>> \in (1 .. n) \X Reading
        BY <1>1
      <3>2. step[<<i, f[i - 1]>>] = Next1(<<i, f[i - 1]>>)
        <4> HIDE DEF Next1, n
        <4> QED BY <3>1
      <3> QED BY <1>4, <3>2
    <2> QED BY <2>1
  <1> HIDE DEF step
  <1>6. Is(f)
    <2>1. \A i \in 0 .. n : i = 0 \/ i \in 1 .. n
      BY <1>1
    <2>2. \A i \in 0 .. n : f[i] = IF i = 0 THEN [out |-> <<>>, current |-> <<>>] ELSE Scan(f[i - 1], tokens[i])
      BY <1>4, <1>5, <2>1
    <2> QED BY <2>2, Zenon
  <1> DEFINE g == CHOOSE h : Is(h)
  <1>7. Is(g)
    BY <1>6
  <1>8. LET out == PushSegment(g[Len(tokens)], NoConnector).out
        IN Segments(tokens) = IF out # <<>> /\ Last(out).after = "Semi"
                              THEN Front(out) \o <<[Last(out) EXCEPT !.after = NoConnector]>>
                              ELSE out
    BY Zenon DEF Segments
  <1> HIDE DEF g
  <1>9. \A h : Is(h) => DOMAIN h = 0 .. n /\ h[0] = base /\ \A i \in 1 .. n : h[i] = Scan(h[i - 1], tokens[i])
    <2>1. 0 \in 0 .. n /\ \A i \in 1 .. n : i \in 0 .. n /\ i # 0
      BY <1>1
    <2> SUFFICES ASSUME NEW h, Is(h)
                 PROVE  DOMAIN h = 0 .. n /\ h[0] = base /\ \A i \in 1 .. n : h[i] = Scan(h[i - 1], tokens[i])
      OBVIOUS
    <2>2. DOMAIN h = 0 .. n
      BY Zenon
    <2>3. \A i \in 0 .. n : h[i] = IF i = 0 THEN [out |-> <<>>, current |-> <<>>] ELSE Scan(h[i - 1], tokens[i])
      BY Zenon
    <2> QED BY <2>1, <2>2, <2>3
  <1>10. g \in [0 .. n -> Reading]
    <2> DEFINE T == {i \in 0 .. n : g[i] \in Reading}
    <2>1. 0 \in T
      BY <1>1, <1>2, <1>7, <1>9
    <2>2. ASSUME NEW k \in 1 .. n, k - 1 \in T PROVE k \in T
      <3>1. g[k] = Scan(g[k - 1], tokens[k]) /\ tokens[k] \in Tokens /\ k \in 0 .. n
        BY <1>1, <1>7, <1>9
      <3> QED BY <2>2, <3>1, ReadTypes
    <2>3. \A k \in 0 .. n : k \in T
      <3>1. ASSUME NEW k \in 0 .. n PROVE k \in T
        <4>1. k \in Nat /\ \A j \in 1 .. k : j \in 1 .. n
          BY <1>1
        <4> HIDE DEF T, n
        <4> QED BY <2>1, <2>2, <4>1, Induction
      <3> QED BY <3>1
    <2>4. \A k \in 0 .. n : g[k] \in Reading
      BY <2>3
    <2>5. g = [i \in 0 .. n |-> g[i]]
      BY <1>7, Zenon
    <2> HIDE DEF n
    <2> QED BY <2>4, <2>5, Zenon
  <1>11. ScannedBy(g, tokens)
    BY <1>7, <1>9, <1>10 DEF ScannedBy
  <1> QED BY <1>8, <1>11

\* What the shell has read of them, and its simple commands.
ShellReadBy(f, tokens) ==
    /\ f \in [0 .. Len(tokens) -> ShellReading]
    /\ f[0] = [out |-> <<>>, current |-> <<>>, doc |-> "no"]
    /\ \A i \in 1 .. Len(tokens) : f[i] = ReadToken(f[i - 1], tokens[i])

LEMMA SimpleByRead ==
  ASSUME NEW tokens \in Seq(Tokens)
  PROVE  \E f : /\ ShellReadBy(f, tokens)
                /\ Simple(tokens) = PushSegment(f[Len(tokens)], NoConnector).out
  <1> DEFINE n == Len(tokens)
             base == [out |-> <<>>, current |-> <<>>, doc |-> "no"]
             Next1(p) == ReadToken(p[2], tokens[p[1]])
             step == [p \in (1 .. n) \X ShellReading |-> Next1(p)]
             Is(f) == f = [i \in 0 .. n |-> IF i = 0 THEN [out |-> <<>>, current |-> <<>>, doc |-> "no"] ELSE ReadToken(f[i - 1], tokens[i])]
  <1>1. n \in Nat
    OBVIOUS
  <1>2. base \in ShellReading
    BY DEF ShellReading
  <1>3. step \in [(1 .. n) \X ShellReading -> ShellReading]
    <2>1. ASSUME NEW p \in (1 .. n) \X ShellReading PROVE Next1(p) \in ShellReading
      <3>1. tokens[p[1]] \in Tokens /\ p[2] \in ShellReading
        OBVIOUS
      <3> QED BY <3>1, ReadTypes
    <2> HIDE DEF Next1
    <2> QED BY <2>1
  <1>4. PICK f \in [0 .. n -> ShellReading] : f[0] = base /\ \A i \in 1 .. n : f[i] = step[<<i, f[i - 1]>>]
    <2> DEFINE first == base
    <2>1. first \in ShellReading
      BY <1>2
    <2> HIDE DEF step, n, first
    <2>2. \E f \in [0 .. n -> ShellReading] : Computes(f, n, first, step)
      BY <1>1, <1>3, <2>1, Recursion
    <2> QED BY <2>2, Zenon DEF first, Computes
  <1>5. \A i \in 1 .. n : f[i] = ReadToken(f[i - 1], tokens[i])
    <2>1. ASSUME NEW i \in 1 .. n PROVE f[i] = ReadToken(f[i - 1], tokens[i])
      <3>1. <<i, f[i - 1]>> \in (1 .. n) \X ShellReading
        BY <1>1
      <3>2. step[<<i, f[i - 1]>>] = Next1(<<i, f[i - 1]>>)
        <4> HIDE DEF Next1, n
        <4> QED BY <3>1
      <3> QED BY <1>4, <3>2
    <2> QED BY <2>1
  <1> HIDE DEF step
  <1>6. Is(f)
    <2>1. \A i \in 0 .. n : i = 0 \/ i \in 1 .. n
      BY <1>1
    <2>2. \A i \in 0 .. n : f[i] = IF i = 0 THEN [out |-> <<>>, current |-> <<>>, doc |-> "no"] ELSE ReadToken(f[i - 1], tokens[i])
      BY <1>4, <1>5, <2>1
    <2> QED BY <2>2, Zenon
  <1> DEFINE g == CHOOSE h : Is(h)
  <1>7. Is(g)
    BY <1>6
  <1>8. Simple(tokens) = PushSegment(g[Len(tokens)], NoConnector).out
    BY Zenon DEF Simple
  <1> HIDE DEF g
  <1>9. \A h : Is(h) => DOMAIN h = 0 .. n /\ h[0] = base /\ \A i \in 1 .. n : h[i] = ReadToken(h[i - 1], tokens[i])
    <2>1. 0 \in 0 .. n /\ \A i \in 1 .. n : i \in 0 .. n /\ i # 0
      BY <1>1
    <2> SUFFICES ASSUME NEW h, Is(h)
                 PROVE  DOMAIN h = 0 .. n /\ h[0] = base /\ \A i \in 1 .. n : h[i] = ReadToken(h[i - 1], tokens[i])
      OBVIOUS
    <2>2. DOMAIN h = 0 .. n
      BY Zenon
    <2>3. \A i \in 0 .. n : h[i] = IF i = 0 THEN [out |-> <<>>, current |-> <<>>, doc |-> "no"] ELSE ReadToken(h[i - 1], tokens[i])
      BY Zenon
    <2> QED BY <2>1, <2>2, <2>3
  <1>10. g \in [0 .. n -> ShellReading]
    <2> DEFINE T == {i \in 0 .. n : g[i] \in ShellReading}
    <2>1. 0 \in T
      BY <1>1, <1>2, <1>7, <1>9
    <2>2. ASSUME NEW k \in 1 .. n, k - 1 \in T PROVE k \in T
      <3>1. g[k] = ReadToken(g[k - 1], tokens[k])
        BY <1>7, <1>9
      <3>2. tokens[k] \in Tokens /\ k \in 0 .. n
        BY <1>1
      <3> QED BY <2>2, <3>1, <3>2, ReadTypes
    <2>3. \A k \in 0 .. n : k \in T
      <3>1. ASSUME NEW k \in 0 .. n PROVE k \in T
        <4>1. k \in Nat /\ \A j \in 1 .. k : j \in 1 .. n
          BY <1>1
        <4> HIDE DEF T, n
        <4> QED BY <2>1, <2>2, <4>1, Induction
      <3> QED BY <3>1
    <2>4. \A k \in 0 .. n : g[k] \in ShellReading
      BY <2>3
    <2>5. g = [i \in 0 .. n |-> g[i]]
      BY <1>7, Zenon
    <2> HIDE DEF n
    <2> QED BY <2>4, <2>5, Zenon
  <1>11. ShellReadBy(g, tokens)
    BY <1>7, <1>9, <1>10 DEF ShellReadBy
  <1> QED BY <1>8, <1>11

\* As the tokens are typed: no connector is first or follows another.
WellFormed(tokens) ==
    /\ tokens \in Seq(Tokens)
    /\ \A i \in 1 .. Len(tokens) : tokens[i] \in Links => i > 1 /\ tokens[i - 1] \notin Links

\* Nothing that MayNotRun names.
Plain(tokens) == {"||", "&", "<<EOF"} \cap ToSet(tokens) = {}

PlainAfters == {"And", "Semi", "Pipe"}

\* One more token makes of a reading of the shell what it makes of that of the
\* code, when the shell is in no here document.
LEMMA ReadOneAlike ==
  ASSUME NEW read \in Reading, NEW token \in Tokens, token \notin {"||", "&", "<<EOF"},
         token \in Links => read.current # <<>>
  PROVE  LET shellRead == [out |-> read.out, current |-> read.current, doc |-> "no"]
             next == Scan(read, token)
         IN /\ ReadToken(shellRead, token) = [out |-> next.out, current |-> next.current, doc |-> "no"]
            /\ token \notin Links => next.current = Append(read.current, token) /\ next.out = read.out
            /\ token \in Links => /\ next.current = <<>>
                                  /\ next.out = Append(read.out, [words |-> read.current, after |-> Connector[token]])
  <1> DEFINE shellRead == [out |-> read.out, current |-> read.current, doc |-> "no"]
             next == Scan(read, token)
             seg == [words |-> read.current, after |-> Connector[token]]
  <1>1. read = [out |-> read.out, current |-> read.current]
    BY DEF Reading
  <1>2. CASE token \in Links
    <2>1. token \in DOMAIN Connector /\ read.current # <<>>
      BY <1>2 DEF Links
    <2>2. next = [out |-> Append(read.out, seg), current |-> <<>>]
      BY <1>1, <2>1 DEF Scan, PushSegment
    <2>3. PushSegment(shellRead, Connector[token]) = [out |-> Append(read.out, seg), current |-> <<>>, doc |-> "no"]
      BY <2>1 DEF PushSegment
    <2>4. ReadToken(shellRead, token) = [PushSegment(shellRead, Connector[token]) EXCEPT !.doc = IF token = "\n" /\ @ = "armed" THEN "body" ELSE @]
      BY <2>1 DEF ReadToken
    <2>5. ReadToken(shellRead, token) = [out |-> Append(read.out, seg), current |-> <<>>, doc |-> "no"]
      BY <2>3, <2>4
    <2> QED BY <1>2, <2>2, <2>5
  <1>3. CASE token \notin Links
    <2>1. token \notin DOMAIN Connector
      BY <1>3 DEF Links
    <2>2. next = [out |-> read.out, current |-> Append(read.current, token)]
      BY <1>1, <2>1 DEF Scan
    <2>3. ReadToken(shellRead, token) = [out |-> read.out, current |-> Append(read.current, token), doc |-> "no"]
      BY <2>1 DEF ReadToken
    <2> QED BY <1>3, <2>2, <2>3
  <1> QED BY <1>2, <1>3

\* What the shell has read of the first tokens is what the code has.
ReadAlike(tokens, f, g, k) ==
    /\ g[k] = [out |-> f[k].out, current |-> f[k].current, doc |-> "no"]
    /\ k > 0 /\ tokens[k] \notin Links => f[k].current # <<>>
    /\ k > 0 /\ tokens[k] \in Links => f[k].current = <<>> /\ f[k].out # <<>> /\ Last(f[k].out).after = Connector[tokens[k]]
    /\ \A j \in 1 .. Len(f[k].out) : f[k].out[j].after \in PlainAfters

LEMMA AllReadAlike ==
  ASSUME NEW tokens, WellFormed(tokens), Plain(tokens), NEW f, ScannedBy(f, tokens), NEW g, ShellReadBy(g, tokens)
  PROVE  \A k \in 0 .. Len(tokens) : ReadAlike(tokens, f, g, k)
  <1> DEFINE n == Len(tokens)
             T == {k \in 0 .. n : ReadAlike(tokens, f, g, k)}
  <1>0. tokens \in Seq(Tokens) /\ n \in Nat
    BY DEF WellFormed
  <1>1. 0 \in T
    <2>1. f[0] = [out |-> <<>>, current |-> <<>>] /\ g[0] = [out |-> <<>>, current |-> <<>>, doc |-> "no"]
      BY DEF ScannedBy, ShellReadBy
    <2>2. ReadAlike(tokens, f, g, 0)
      BY <2>1 DEF ReadAlike
    <2> QED BY <1>0, <2>2
  <1>2. ASSUME NEW k \in 1 .. n, k - 1 \in T PROVE k \in T
    <2> DEFINE read == f[k - 1]
               token == tokens[k]
               seg == [words |-> read.current, after |-> Connector[token]]
    <2>1. k \in 0 .. n /\ k - 1 \in 0 .. n /\ k \in Nat /\ k > 0
      BY <1>0
    <2>2. ReadAlike(tokens, f, g, k - 1)
      BY <1>2
    <2>3. token \in Tokens /\ token \in ToSet(tokens)
      BY <1>0, Elements
    <2>4. token \notin {"||", "&", "<<EOF"}
      BY <2>3, Zenon DEF Plain
    <2>5. read \in Reading /\ f[k] = Scan(read, token) /\ g[k] = ReadToken(g[k - 1], token)
      BY <2>1 DEF ScannedBy, ShellReadBy
    <2>6. token \in Links => read.current # <<>>
      <3>1. SUFFICES ASSUME token \in Links PROVE read.current # <<>>
        OBVIOUS
      <3>2. k > 1 /\ tokens[k - 1] \notin Links
        BY <3>1 DEF WellFormed
      <3>3. k - 1 > 0
        BY <2>1, <3>2
      <3> QED BY <2>2, <3>2, <3>3 DEF ReadAlike
    <2>7. g[k - 1] = [out |-> read.out, current |-> read.current, doc |-> "no"]
      BY <2>2 DEF ReadAlike
    <2>8. read.out \in Seq(Segment) /\ read.current \in Seq(Tokens) /\ \A j \in 1 .. Len(read.out) : read.out[j].after \in PlainAfters
      BY <2>2, <2>5 DEF Reading, ReadAlike
    <2> DEFINE next == f[k]
    <2>9. /\ g[k] = [out |-> next.out, current |-> next.current, doc |-> "no"]
          /\ token \notin Links => next.current = Append(read.current, token) /\ next.out = read.out
          /\ token \in Links => next.current = <<>> /\ next.out = Append(read.out, seg)
      <3> HIDE DEF read, token
      <3> QED BY <2>3, <2>4, <2>5, <2>6, <2>7, ReadOneAlike
    <2> HIDE DEF next, read
    <2>10. CASE token \notin Links
      <3>1. next.current # <<>>
        BY <2>3, <2>8, <2>9, <2>10
      <3>2. \A j \in 1 .. Len(next.out) : next.out[j].after \in PlainAfters
        BY <2>8, <2>9, <2>10
      <3>3. ReadAlike(tokens, f, g, k)
        BY <2>9, <2>10, <3>1, <3>2 DEF ReadAlike, next
      <3> QED BY <2>1, <3>3
    <2>11. CASE token \in Links
      <3>1. token \in DOMAIN Connector
        BY <2>4, <2>11 DEF Links
      <3>2. Connector[token] \in PlainAfters
        BY <2>4, <3>1, ConnectorType DEF PlainAfters
      <3>3. seg \in Segment /\ seg.after = Connector[token]
        BY <2>8, <3>2 DEF Segment, Afters, PlainAfters
      <3> HIDE DEF seg
      <3>4. /\ Len(next.out) = Len(read.out) + 1 /\ Len(read.out) \in Nat /\ next.out[Len(read.out) + 1] = seg
            /\ \A j \in 1 .. Len(read.out) : next.out[j] = read.out[j]
            /\ next.out # <<>>
        BY <2>8, <2>9, <2>11, <3>3
      <3>5. Last(next.out) = seg
        BY <3>4 DEF Last
      <3>6. \A j \in 1 .. Len(next.out) : next.out[j].after \in PlainAfters
        <4>1. \A j \in 1 .. Len(next.out) : j = Len(read.out) + 1 \/ j \in 1 .. Len(read.out)
          BY <3>4
        <4> QED BY <2>8, <3>2, <3>3, <3>4, <4>1
      <3>7. ReadAlike(tokens, f, g, k)
        BY <2>9, <2>11, <3>3, <3>4, <3>5, <3>6 DEF ReadAlike, next
      <3> QED BY <2>1, <3>7
    <2> QED BY <2>10, <2>11
  <1>3. ASSUME NEW k \in 0 .. n PROVE ReadAlike(tokens, f, g, k)
    <2>1. k \in Nat /\ \A j \in 1 .. k : j \in 1 .. n
      BY <1>0
    <2>2. k \in T
      <3> HIDE DEF T, n
      <3> QED BY <1>1, <1>2, <2>1, Induction
    <2> QED BY <2>2
  <1> QED BY <1>3

\* As Start takes them.
Complete(tokens) == tokens # <<>> /\ Last(tokens) \notin {"&&", "||", "|", "|&"}

\* The segments are the simple commands, but that a ";" at the end is none.
LEMMA SegmentsAgree ==
  ASSUME NEW tokens, WellFormed(tokens), Plain(tokens), Complete(tokens)
  PROVE  LET segs == Segments(tokens)
             simple == Simple(tokens)
             n == Len(simple)
         IN /\ segs \in Seq(Segment) /\ simple \in Seq(Segment) /\ Len(segs) = n /\ n \in Nat \ {0}
            /\ \A i \in 1 .. n : segs[i].words = simple[i].words
            /\ \A i \in 1 .. n - 1 : simple[i].after \in PlainAfters /\ segs[i].after = simple[i].after
            /\ simple[n].after \in {"Semi", NoConnector} /\ segs[n].after = NoConnector
  <1> DEFINE m == Len(tokens)
             Closed(out) == IF out # <<>> /\ Last(out).after = "Semi"
                            THEN Front(out) \o <<[Last(out) EXCEPT !.after = NoConnector]>> ELSE out
  <1>0. tokens \in Seq(Tokens) /\ m \in Nat \ {0} /\ m \in 1 .. m /\ m \in 0 .. m /\ Last(tokens) = tokens[m]
    BY EmptySeq DEF WellFormed, Complete, Last
  <1>1. PICK f : ScannedBy(f, tokens) /\ Segments(tokens) = Closed(PushSegment(f[m], NoConnector).out)
    BY <1>0, SegmentsByScan
  <1>2. PICK g : ShellReadBy(g, tokens) /\ Simple(tokens) = PushSegment(g[m], NoConnector).out
    BY <1>0, SimpleByRead
  <1>3. ReadAlike(tokens, f, g, m)
    BY <1>0, <1>1, <1>2, AllReadAlike
  <1> DEFINE read == f[m]
             seg == [words |-> read.current, after |-> NoConnector]
             out == IF read.current # <<>> THEN Append(read.out, seg) ELSE read.out
  <1>4. read \in Reading /\ read.out \in Seq(Segment) /\ read.current \in Seq(Tokens)
    BY <1>0, <1>1 DEF ScannedBy, Reading
  <1>5. Simple(tokens) = out /\ PushSegment(f[m], NoConnector).out = out
    <2>1. PushSegment(read, NoConnector).out = out
      BY <1>4 DEF PushSegment, Reading
    <2>2. PushSegment(g[m], NoConnector).out = out
      BY <1>3 DEF PushSegment, ReadAlike
    <2> QED BY <1>2, <2>1, <2>2
  <1>6. \A j \in 1 .. Len(read.out) : read.out[j].after \in PlainAfters
    BY <1>3 DEF ReadAlike
  <1> DEFINE segs == Segments(tokens)
             simple == Simple(tokens)
             n == Len(simple)
             Goal == /\ segs \in Seq(Segment) /\ simple \in Seq(Segment) /\ Len(segs) = n /\ n \in Nat \ {0}
                     /\ \A i \in 1 .. n : segs[i].words = simple[i].words
                     /\ \A i \in 1 .. n - 1 : simple[i].after \in PlainAfters /\ segs[i].after = simple[i].after
                     /\ simple[n].after \in {"Semi", NoConnector} /\ segs[n].after = NoConnector
  <1>7. ASSUME read.current # <<>> PROVE Goal
    <2>1. simple = Append(read.out, seg)
      BY <1>5, <1>7
    <2>2. seg \in Segment /\ seg.after = NoConnector
      BY <1>4 DEF Segment, Afters
    <2> HIDE DEF seg, out, read, simple, segs
    <2>3. /\ simple \in Seq(Segment) /\ n = Len(read.out) + 1 /\ Len(read.out) \in Nat /\ simple[n] = seg
          /\ \A i \in 1 .. Len(read.out) : simple[i] = read.out[i]
      BY <1>4, <2>1, <2>2
    <2>4. Last(simple) = seg
      BY <2>3 DEF Last
    <2>5. segs = simple
      <3>1. Last(simple).after # "Semi"
        BY <2>2, <2>4 DEF NoConnector
      <3> QED BY <1>1, <1>5, <3>1 DEF simple, segs
    <2>6. \A i \in 1 .. n - 1 : simple[i].after \in PlainAfters
      BY <1>6, <2>3
    <2> QED BY <2>2, <2>3, <2>5, <2>6
  <1>8. ASSUME read.current = <<>> PROVE Goal
    <2>1. simple = read.out
      BY <1>5, <1>8
    <2>2. tokens[m] \in Links
      BY <1>0, <1>3, <1>8 DEF ReadAlike
    <2>3. read.out # <<>> /\ Last(read.out).after = Connector[tokens[m]]
      BY <1>0, <1>3, <2>2 DEF ReadAlike
    <2>4. tokens[m] \in DOMAIN Connector
      <3>1. tokens[m] \in ToSet(tokens)
        BY <1>0, Elements
      <3>2. tokens[m] # "&"
        BY <3>1, Zenon DEF Plain
      <3> QED BY <2>2, <3>2 DEF Links
    <2>5. Connector[tokens[m]] = "Semi"
      <3>1. tokens[m] \notin {"&&", "||", "|", "|&"}
        BY <1>0 DEF Complete
      <3> QED BY <2>4, <3>1, ConnectorType
    <2> DEFINE x == [Last(simple) EXCEPT !.after = NoConnector]
    <2>6. simple # <<>> /\ simple \in Seq(Segment) /\ Last(simple).after = "Semi"
      BY <1>4, <2>1, <2>3, <2>5
    <2>7. segs = Front(simple) \o <<x>>
      BY <1>1, <1>5, <2>6
    <2> HIDE DEF segs, simple
    <2>8. Last(simple) \in Segment /\ Last(simple) = simple[n] /\ n \in Nat \ {0}
      <3>1. n \in Nat \ {0} /\ Last(simple) = simple[n]
        BY <2>6, EmptySeq DEF Last
      <3>2. n \in 1 .. n
        BY <3>1
      <3> QED BY <2>6, <3>1, <3>2
    <2>9. x \in Segment /\ x.after = NoConnector /\ x.words = Last(simple).words
      BY <2>8 DEF Segment, Afters
    <2> HIDE DEF x
    <2>10. /\ segs \in Seq(Segment) /\ Len(segs) = n /\ segs[n] = x
           /\ \A i \in 1 .. n - 1 : segs[i] = simple[i]
      BY <2>6, <2>7, <2>9, LastReplaced
    <2>11. \A i \in 1 .. n : segs[i].words = simple[i].words
      <3>1. \A i \in 1 .. n : i = n \/ i \in 1 .. n - 1
        BY <2>8
      <3> QED BY <2>8, <2>9, <2>10, <3>1
    <2>12. \A i \in 1 .. n - 1 : simple[i].after \in PlainAfters
      BY <1>6, <2>1, <2>8
    <2> QED BY <2>6, <2>8, <2>9, <2>10, <2>11, <2>12
  <1> QED BY <1>7, <1>8
-----------------------------------------------------------------------------
(* Where the exit status decides.                                          *)

CommandInv ==
    /\ WellFormed(command)
    /\ ToSet(command) \cap Links \subseteq dialect.links
    /\ stage # "typing" => Complete(command)

LEMMA CommandInit == Init => CommandInv
  <1> SUFFICES ASSUME Init PROVE CommandInv
    OBVIOUS
  <1>1. command = <<>> /\ command \in Seq(Tokens) /\ Len(command) = 0 /\ stage = "typing"
    BY DEF Init
  <1>2. ToSet(command) = {}
    BY <1>1, Elements
  <1>3. WellFormed(command)
    BY <1>1 DEF WellFormed
  <1> QED BY <1>1, <1>2, <1>3 DEF CommandInv

\* More of a command.
LEMMA MoreTokens ==
  ASSUME NEW more \in Seq(Tokens), WellFormed(command), ToSet(command) \cap Links \subseteq dialect.links,
         ToSet(more) \cap Links \subseteq dialect.links,
         \A i \in 1 .. Len(more) : more[i] \in Links => i = 1 /\ command # <<>> /\ Last(command) \notin Links
  PROVE  WellFormed(command \o more) /\ ToSet(command \o more) \cap Links \subseteq dialect.links
  <1> DEFINE n == Len(command)
  <1>1. command \in Seq(Tokens) /\ n \in Nat /\ Len(more) \in Nat
    BY DEF WellFormed
  <1>2. /\ command \o more \in Seq(Tokens) /\ Len(command \o more) = n + Len(more)
        /\ \A i \in 1 .. n + Len(more) : (command \o more)[i] = IF i <= n THEN command[i] ELSE more[i - n]
    BY <1>1, ConcatProperties
  <1>3. ToSet(command \o more) \cap Links \subseteq dialect.links
    BY <1>1, ElementsOfConcat
  <1>4. ASSUME NEW i \in 1 .. n + Len(more), (command \o more)[i] \in Links
        PROVE  i > 1 /\ (command \o more)[i - 1] \notin Links
    <2>1. CASE i <= n
      <3>1. i \in 1 .. n /\ command[i] \in Links
        BY <1>1, <1>2, <1>4, <2>1
      <3>2. i > 1 /\ command[i - 1] \notin Links
        BY <3>1 DEF WellFormed
      <3>3. i - 1 \in 1 .. n + Len(more) /\ i - 1 <= n
        BY <1>1, <2>1, <3>2
      <3> QED BY <1>2, <3>2, <3>3
    <2>2. CASE ~(i <= n)
      <3>1. i - n \in 1 .. Len(more) /\ more[i - n] \in Links
        BY <1>1, <1>2, <1>4, <2>2
      <3>2. i - n = 1 /\ command # <<>> /\ Last(command) \notin Links
        BY <3>1
      <3>3. n > 0 /\ i - 1 = n /\ n \in 1 .. n + Len(more) /\ Last(command) = command[n]
        BY <1>1, <3>1, <3>2, EmptySeq DEF Last
      <3> QED BY <1>1, <1>2, <3>2, <3>3
    <2> QED BY <2>1, <2>2
  <1> QED BY <1>2, <1>3, <1>4 DEF WellFormed

LEMMA CommandStep == TypeInv /\ CommandInv /\ [Next]_vars => CommandInv'
  <1> SUFFICES ASSUME TypeInv, CommandInv, [Next]_vars PROVE CommandInv'
    OBVIOUS
  <1>0. /\ dialect.links \subseteq Links
        /\ \A p \in dialect.phrases : p \in Seq(STRING) /\ ToSet(p) \cap Links = {}
    BY DialectAssumption DEF TypeInv, Links
  <1>1. CASE TypePhrase
    <2>1. PICK p \in dialect.phrases : Type(p)
      BY <1>1 DEF TypePhrase
    <2>2. p \in Seq(STRING) /\ p \in Seq(Tokens) /\ ToSet(p) \cap Links = {}
      BY <1>0, SeqMonotonic DEF Tokens
    <2>3. \A i \in 1 .. Len(p) : p[i] \notin Links
      BY <2>2, Elements
    <2>4. WellFormed(command \o p) /\ ToSet(command \o p) \cap Links \subseteq dialect.links
      BY <2>2, <2>3, MoreTokens DEF CommandInv
    <2> QED BY <2>1, <2>4 DEF Type, CommandInv
  <1>2. CASE TypeLink
    <2>1. PICK l \in dialect.links : Type(<<l>>)
      BY <1>2 DEF TypeLink
    <2>2. l \in Links /\ l \in Tokens
      BY <1>0 DEF Tokens
    <2>3. command # <<>> /\ Last(command) \notin dialect.links
      BY <1>2 DEF TypeLink, AfterLink
    <2>4. Last(command) \notin Links
      <3>1. command \in Seq(Tokens) /\ Len(command) \in 1 .. Len(command) /\ Last(command) = command[Len(command)]
        BY <2>3, EmptySeq DEF CommandInv, WellFormed, Last
      <3>2. Last(command) \in ToSet(command)
        BY <3>1, Elements
      <3> QED BY <2>3, <3>2 DEF CommandInv
    <2> DEFINE more == <<l>>
    <2>5. more \in Seq(Tokens) /\ Len(more) = 1 /\ more[1] = l
      BY <2>2
    <2> HIDE DEF more
    <2>6. \A i \in 1 .. Len(more) : i = 1
      BY <2>5
    <2>7. ToSet(more) \cap Links \subseteq dialect.links
      BY <2>1, <2>5, <2>6, Elements
    <2>8. WellFormed(command \o more) /\ ToSet(command \o more) \cap Links \subseteq dialect.links
      BY <2>3, <2>4, <2>5, <2>6, <2>7, MoreTokens DEF CommandInv
    <2> QED BY <2>1, <2>8 DEF Type, CommandInv, more
  <1>3. CASE Start
    BY <1>3 DEF Start, CommandInv, Complete
  <1>4. ASSUME UNCHANGED <<command, dialect>>, stage # "typing" PROVE CommandInv'
    BY <1>4 DEF CommandInv, Complete, WellFormed
  <1>5. CASE SkipCommand \/ RunOther \/ RunTests
    BY <1>4, <1>5 DEF SkipCommand, RunOther, RunTests, Running
  <1>6. CASE End \/ Interrupt
    BY <1>4, <1>6 DEF End, Interrupt, Running
  <1>7. CASE \E agent \in Agent : Tell(agent)
    BY <1>4, <1>7 DEF Tell
  <1>8. CASE Read
    BY <1>4, <1>8 DEF Read
  <1>9. CASE UNCHANGED vars
    BY <1>9 DEF vars, CommandInv, Complete, WellFormed
  <1> QED BY <1>1, <1>2, <1>3, <1>5, <1>6, <1>7, <1>8, <1>9 DEF Next

IsFirstTest(simple, i) == IsTest(simple[i].words) /\ \A j \in 1 .. i - 1 : ~IsTest(simple[j].words)

\* From simple command i on, all are joined by "&&".
JoinedFrom(simple, i) == \A j \in i .. Len(simple) - 1 : simple[j].after = "And"

\* The shell has come to simple command k.  One that was not reached leaves a
\* failure behind; if its tests come first and only "&&" after them, a success
\* is theirs.
RunAt(simple, k) ==
    /\ shell.todo = SubSeq(simple, k, Len(simple))
    /\ shell.before = IF k = 1 THEN "Semi" ELSE simple[k - 1].after
    /\ k = 1 \/ shell.ran \/ shell.status # 0
    /\ (\A j \in 1 .. k - 1 : ~IsTest(simple[j].words)) => shell.tests = <<>>
    /\ \A i \in 1 .. k - 1 : IsFirstTest(simple, i) /\ JoinedFrom(simple, i) /\ shell.status = 0 => TestsPassed

RunInv ==
    /\ shell.tests \in Seq(Verdicts)
    /\ stage = "typing" => shell.before = "Semi" /\ shell.tests = <<>>
    /\ stage # "typing" /\ Plain(command) =>
         \E k \in 1 .. Len(Simple(command)) + 1 : RunAt(Simple(command), k)

\* What agrees with SegmentsAgree.
PlainSimple(simple) ==
    /\ simple \in Seq(Segment) /\ Len(simple) \in Nat \ {0}
    /\ \A i \in 1 .. Len(simple) - 1 : simple[i].after \in PlainAfters
    /\ simple[Len(simple)].after \in {"Semi", NoConnector}

LEMMA CommandIsPlain ==
  ASSUME CommandInv, stage # "typing", Plain(command)
  PROVE  PlainSimple(Simple(command))
  <1> DEFINE simple == Simple(command)
  <1>1. WellFormed(command) /\ Complete(command)
    BY DEF CommandInv
  <1>2. /\ simple \in Seq(Segment) /\ Len(simple) \in Nat \ {0}
        /\ \A i \in 1 .. Len(simple) - 1 : simple[i].after \in PlainAfters
        /\ simple[Len(simple)].after \in {"Semi", NoConnector}
    BY <1>1, SegmentsAgree
  <1> QED BY <1>2 DEF PlainSimple

\* The simple command the shell is at.
LEMMA ComesNext ==
  ASSUME NEW simple, PlainSimple(simple), NEW k \in 1 .. Len(simple) + 1, RunAt(simple, k)
  PROVE  /\ shell.todo = <<>> <=> k = Len(simple) + 1
         /\ shell.todo # <<>> => /\ k \in 1 .. Len(simple) /\ Now = simple[k]
                                 /\ Tail(shell.todo) = SubSeq(simple, k + 1, Len(simple))
                                 /\ k > 1 => k - 1 \in 1 .. Len(simple) - 1 /\ shell.before \in PlainAfters
  <1> DEFINE n == Len(simple)
  <1>1. simple \in Seq(Segment) /\ n \in Nat \ {0}
    BY DEF PlainSimple
  <1>2. shell.todo = SubSeq(simple, k, n)
    BY DEF RunAt
  <1>3. CASE k = n + 1
    <2>1. SubSeq(simple, k, n) = <<>>
      BY <1>1, <1>3, SubSeqEmpty
    <2> QED BY <1>2, <1>3, <2>1
  <1>4. CASE k # n + 1
    <2>1. k \in 1 .. n /\ n \in k .. n
      BY <1>1, <1>4
    <2>2. Head(SubSeq(simple, k, n)) = simple[k] /\ Tail(SubSeq(simple, k, n)) = SubSeq(simple, k + 1, n)
      <3> HIDE DEF n
      <3>1. n = Len(simple)
        BY DEF n
      <3> QED BY <1>1, <2>1, <3>1, HeadTailOfSubSeq
    <2>3. SubSeq(simple, k, n) # <<>>
      <3>1. k - 1 \in 0 .. n /\ (k - 1) + 1 = k
        BY <1>1, <2>1
      <3>2. Len(SubSeq(simple, (k - 1) + 1, n)) = n - (k - 1)
        BY <1>1, <3>1, CutInTwo
      <3>3. Len(SubSeq(simple, k, n)) = n - (k - 1)
        BY <3>1, <3>2
      <3>4. n - (k - 1) # 0
        BY <1>1, <2>1
      <3> QED BY <3>3, <3>4
    <2>4. k > 1 => k - 1 \in 1 .. n - 1 /\ shell.before = simple[k - 1].after
      BY <1>1, <2>1 DEF RunAt
    <2>5. k > 1 => shell.before \in PlainAfters
      BY <2>4 DEF PlainSimple
    <2> QED BY <1>2, <1>4, <2>1, <2>2, <2>3, <2>4, <2>5 DEF Now
  <1> QED BY <1>3, <1>4

\* A simple command that is skipped leaves a failure behind.
LEMMA SkippedFails ==
  ASSUME NEW simple, PlainSimple(simple), NEW k \in 1 .. Len(simple) + 1, RunAt(simple, k), shell.todo # <<>>, ~Reached
  PROVE  k > 1 /\ shell.status # 0
  <1>1. k # 1
    BY DEF Reached, RunAt
  <1>2. k > 1 /\ shell.before \in PlainAfters
    BY <1>1, ComesNext, CommandIsPlain DEF PlainSimple
  <1>3. shell.before = "Pipe" \/ shell.before = "And"
    BY <1>2 DEF PlainAfters, Reached
  <1> QED BY <1>1, <1>2, <1>3 DEF Reached, RunAt

\* What runs behind tests that come first, joined to them by "&&" only, runs
\* because they passed.
LEMMA RunsBehindPassed ==
  ASSUME NEW simple, PlainSimple(simple), NEW k \in 1 .. Len(simple) + 1, RunAt(simple, k), shell.todo # <<>>, Reached,
         NEW i \in 1 .. k - 1, IsFirstTest(simple, i), JoinedFrom(simple, i)
  PROVE  TestsPassed
  <1>1. k \in 1 .. Len(simple) /\ Len(simple) \in Nat
    BY ComesNext DEF PlainSimple
  <1>2. k > 1 /\ k - 1 \in i .. Len(simple) - 1
    BY <1>1
  <1>3. simple[k - 1].after = "And"
    BY <1>2 DEF JoinedFrom
  <1>4. shell.before = "And"
    BY <1>2, <1>3 DEF RunAt
  <1>5. shell.status = 0
    BY <1>4 DEF Reached
  <1> QED BY <1>5 DEF RunAt

\* One more simple command, whether it is skipped or runs.
LEMMA RunOne ==
  ASSUME TypeInv, shell.tests \in Seq(Verdicts), NEW simple, PlainSimple(simple),
         NEW k \in 1 .. Len(simple) + 1, RunAt(simple, k), SkipCommand \/ RunOther \/ RunTests
  PROVE  k + 1 \in 1 .. Len(simple) + 1 /\ RunAt(simple, k + 1)'
  <1> DEFINE n == Len(simple)
  <1>0. shell.todo # <<>> /\ ShellShape
    BY DEF SkipCommand, RunOther, RunTests, Running, TypeInv
  <1>1. /\ k \in 1 .. n /\ n \in Nat /\ Now = simple[k] /\ Tail(shell.todo) = SubSeq(simple, k + 1, n)
    BY <1>0, ComesNext DEF PlainSimple
  <1>2. k + 1 \in 1 .. n + 1 /\ k + 1 # 1 /\ (k + 1) - 1 = k /\ \A i \in 1 .. k : i = k \/ i \in 1 .. k - 1
    BY <1>1
  <1>3. ASSUME (shell').todo = Tail(shell.todo), (shell').before = Now.after, (shell').ran \/ (shell').status # 0,
               (\A j \in 1 .. k : ~IsTest(simple[j].words)) => (shell').tests = <<>>,
               \A i \in 1 .. k : IsFirstTest(simple, i) /\ JoinedFrom(simple, i) /\ (shell').status = 0 => TestsPassed'
        PROVE  RunAt(simple, k + 1)'
    BY <1>1, <1>2, <1>3 DEF RunAt
  <1>4. CASE SkipCommand
    <2>1. shell' = [shell EXCEPT !.todo = Tail(shell.todo), !.before = Now.after, !.ran = FALSE]
      BY <1>0, <1>4, ShellSteps
    <2>2. /\ (shell').todo = Tail(shell.todo) /\ (shell').before = Now.after /\ (shell').status = shell.status
          /\ (shell').tests = shell.tests
      BY <1>0, <2>1 DEF ShellShape, Fields
    <2>3. shell.status # 0
      BY <1>0, <1>4, SkippedFails DEF SkipCommand
    <2>4. (\A j \in 1 .. k : ~IsTest(simple[j].words)) => shell.tests = <<>>
      BY <1>1 DEF RunAt
    <2> QED BY <1>2, <1>3, <2>2, <2>3, <2>4
  <1>5. CASE RunOther
    <2>1. PICK status \in {0, 1} : \E output, doubtful, otherRed :
             shell' = [shell EXCEPT !.todo = Tail(shell.todo), !.before = Now.after, !.ran = TRUE,
                                    !.status = StatusAfter(status), !.output = output, !.doubtful = doubtful,
                                    !.otherRed = otherRed]
      BY <1>0, <1>5, ShellSteps
    <2>2. /\ (shell').todo = Tail(shell.todo) /\ (shell').before = Now.after /\ (shell').ran
          /\ (shell').tests = shell.tests
      BY <1>0, <2>1 DEF ShellShape, Fields
    <2>3. ~IsTest(simple[k].words) /\ Reached
      BY <1>1, <1>5 DEF RunOther
    <2>4. (\A j \in 1 .. k : ~IsTest(simple[j].words)) => shell.tests = <<>>
      BY <1>1 DEF RunAt
    <2>5. ASSUME NEW i \in 1 .. k, IsFirstTest(simple, i), JoinedFrom(simple, i) PROVE TestsPassed'
      <3>1. i # k
        BY <2>3, <2>5 DEF IsFirstTest
      <3>2. i \in 1 .. k - 1
        BY <1>2, <3>1
      <3>3. TestsPassed
        BY <1>0, <2>3, <2>5, <3>2, RunsBehindPassed
      <3> QED BY <2>2, <3>3 DEF TestsPassed
    <2> QED BY <1>2, <1>3, <2>2, <2>4, <2>5
  <1>6. CASE RunTests
    <2>1. PICK status \in {0, 1} : \E test \in Verdicts : \E output, doubtful :
             /\ test.failing => status # 0
             /\ shell' = [shell EXCEPT !.todo = Tail(shell.todo), !.before = Now.after, !.ran = TRUE,
                                       !.status = StatusAfter(status), !.tests = Append(shell.tests, test),
                                       !.output = output, !.doubtful = doubtful]
      BY <1>0, <1>6, ShellSteps, Zenon
    <2>2. PICK test \in Verdicts : \E output, doubtful :
             /\ test.failing => status # 0
             /\ shell' = [shell EXCEPT !.todo = Tail(shell.todo), !.before = Now.after, !.ran = TRUE,
                                       !.status = StatusAfter(status), !.tests = Append(shell.tests, test),
                                       !.output = output, !.doubtful = doubtful]
      BY <2>1
    <2>3. /\ (shell').todo = Tail(shell.todo) /\ (shell').before = Now.after /\ (shell').ran
          /\ (shell').tests = Append(shell.tests, test) /\ (shell').status = StatusAfter(status)
          /\ test.failing => status # 0
      BY <1>0, <2>2 DEF ShellShape, Fields
    <2>4. IsTest(simple[k].words) /\ Reached
      BY <1>1, <1>6 DEF RunTests
    <2>5. ASSUME NEW i \in 1 .. k, IsFirstTest(simple, i), JoinedFrom(simple, i), (shell').status = 0 PROVE TestsPassed'
      <3>1. CASE i = k
        <4>1. shell.tests = <<>>
          BY <2>5, <3>1 DEF IsFirstTest, RunAt
        <4>2. (shell').tests # <<>> /\ (shell').tests[1] = test
          BY <2>3, <4>1
        <4>3. Now.after \notin {"Pipe", "Amp"}
          <5>1. k = n \/ k \in k .. n - 1
            BY <1>1
          <5> QED BY <1>1, <2>5, <3>1, <5>1 DEF JoinedFrom, PlainSimple, NoConnector
        <4>4. StatusAfter(status) = status
          BY <4>3, Zenon DEF StatusAfter
        <4>5. ~test.failing
          BY <2>3, <2>5, <4>4
        <4> QED BY <4>2, <4>5 DEF TestsPassed
      <3>2. CASE i # k
        <4>1. i \in 1 .. k - 1
          BY <1>2, <3>2
        <4>2. TestsPassed
          BY <1>0, <2>4, <2>5, <4>1, RunsBehindPassed
        <4>3. Append(shell.tests, test) # <<>> /\ Append(shell.tests, test)[1] = shell.tests[1]
          <5>1. shell.tests # <<>>
            BY <4>2 DEF TestsPassed
          <5>2. 1 \in 1 .. Len(shell.tests)
            BY <5>1, EmptySeq
          <5> QED BY <5>2, AppendProperties
        <4> QED BY <2>3, <4>2, <4>3 DEF TestsPassed
      <3> QED BY <3>1, <3>2
    <2>6. ~(\A j \in 1 .. k : ~IsTest(simple[j].words))
      <3>1. k \in 1 .. k
        BY <1>1
      <3> QED BY <2>4, <3>1
    <2> QED BY <1>2, <1>3, <2>3, <2>5, <2>6
  <1> QED BY <1>2, <1>4, <1>5, <1>6

LEMMA RunInit == Init => RunInv
  BY DEF Init, RunInv

LEMMA TestsType ==
  ASSUME TypeInv, shell.tests \in Seq(Verdicts), SkipCommand \/ RunOther \/ RunTests
  PROVE  (shell').tests \in Seq(Verdicts)
  <1>0. ShellShape
    BY DEF TypeInv
  <1>1. CASE SkipCommand
    <2>1. shell' = [shell EXCEPT !.todo = Tail(shell.todo), !.before = Now.after, !.ran = FALSE]
      BY <1>0, <1>1, ShellSteps
    <2>2. (shell').tests = shell.tests
      BY <1>0, <2>1 DEF ShellShape, Fields
    <2> QED BY <2>2
  <1>2. CASE RunOther
    <2>1. PICK status \in {0, 1} : \E output, doubtful, otherRed :
             shell' = [shell EXCEPT !.todo = Tail(shell.todo), !.before = Now.after, !.ran = TRUE,
                                    !.status = StatusAfter(status), !.output = output, !.doubtful = doubtful,
                                    !.otherRed = otherRed]
      BY <1>0, <1>2, ShellSteps
    <2>2. (shell').tests = shell.tests
      BY <1>0, <2>1 DEF ShellShape, Fields
    <2> QED BY <2>2
  <1>3. CASE RunTests
    <2>1. PICK status \in {0, 1} : \E test \in Verdicts : \E output, doubtful :
             /\ test.failing => status # 0
             /\ shell' = [shell EXCEPT !.todo = Tail(shell.todo), !.before = Now.after, !.ran = TRUE,
                                       !.status = StatusAfter(status), !.tests = Append(shell.tests, test),
                                       !.output = output, !.doubtful = doubtful]
      BY <1>0, <1>3, ShellSteps, Zenon
    <2>2. PICK test \in Verdicts : (shell').tests = Append(shell.tests, test)
      BY <1>0, <2>1 DEF ShellShape, Fields
    <2> QED BY <2>2
  <1> QED BY <1>1, <1>2, <1>3

LEMMA RunStep == TypeInv /\ CommandInv /\ RunInv /\ [Next]_vars => RunInv'
  <1> SUFFICES ASSUME TypeInv, CommandInv, RunInv, [Next]_vars PROVE RunInv'
    OBVIOUS
  <1>0. dialect' = dialect => Verdicts' = Verdicts
    BY DEF Verdicts
  <1>1. CASE TypePhrase \/ TypeLink
    <2>1. stage' = "typing" /\ stage = "typing" /\ shell' = shell /\ dialect' = dialect
      BY <1>1 DEF TypePhrase, TypeLink, Type
    <2> QED BY <1>0, <2>1 DEF RunInv
  <1>2. CASE Start
    <2>1. /\ stage' # "typing" /\ dialect' = dialect /\ command' = command
          /\ (shell').todo = Simple(command) /\ (shell').before = "Semi" /\ (shell').tests = <<>>
      BY <1>2 DEF Start, RunInv, TypeInv, ShellShape, Fields
    <2>2. ASSUME Plain(command) PROVE \E k \in 1 .. Len(Simple(command)) + 1 : RunAt(Simple(command), k)'
      <3> DEFINE simple == Simple(command)
      <3>1. WellFormed(command) /\ Complete(command)
        BY <1>2 DEF CommandInv, Start, Complete
      <3>2. simple \in Seq(Segment)
        BY <2>2, <3>1, SegmentsAgree
      <3> HIDE DEF simple
      <3>3. SubSeq(simple, 1, Len(simple)) = simple /\ 1 \in 1 .. Len(simple) + 1
        BY <3>2, SubSeqFull
      <3>4. RunAt(simple, 1)'
        BY <2>1, <3>3 DEF RunAt, simple
      <3> QED BY <3>3, <3>4 DEF simple
    <2> QED BY <1>0, <2>1, <2>2 DEF RunInv
  <1>3. CASE SkipCommand \/ RunOther \/ RunTests
    <2>1. stage # "typing" /\ stage' = stage /\ command' = command /\ dialect' = dialect
      BY <1>3 DEF SkipCommand, RunOther, RunTests, Running
    <2>2. (shell').tests \in Seq(Verdicts)
      BY <1>3, TestsType DEF RunInv
    <2>3. ASSUME Plain(command) PROVE \E k \in 1 .. Len(Simple(command)) + 1 : RunAt(Simple(command), k)'
      <3>0. PICK simple : simple = Simple(command)
        OBVIOUS
      <3>1. PlainSimple(simple)
        BY <2>1, <2>3, <3>0, CommandIsPlain
      <3>2. PICK k \in 1 .. Len(simple) + 1 : RunAt(simple, k)
        BY <2>1, <2>3, <3>0 DEF RunInv
      <3>3. shell.tests \in Seq(Verdicts)
        BY DEF RunInv
      <3>4. k + 1 \in 1 .. Len(simple) + 1 /\ RunAt(simple, k + 1)'
        BY <1>3, <3>1, <3>2, <3>3, RunOne
      <3>5. Simple(command)' = simple
        BY <2>1, <3>0
      <3> QED BY <3>0, <3>4, <3>5
    <2> QED BY <1>0, <2>1, <2>2, <2>3 DEF RunInv
  <1>4. ASSUME stage # "typing", stage' # "typing", command' = command, dialect' = dialect,
               \A k \in {"todo", "before", "status", "ran", "tests"} : (shell')[k] = shell[k]
        PROVE  RunInv'
    <2>1. /\ (shell').todo = shell.todo /\ (shell').before = shell.before /\ (shell').status = shell.status
          /\ (shell').ran = shell.ran /\ (shell').tests = shell.tests
      BY <1>4
    <2>2. \A simple, k : RunAt(simple, k) => RunAt(simple, k)'
      BY <2>1 DEF RunAt, TestsPassed
    <2> QED BY <1>0, <1>4, <2>1, <2>2 DEF RunInv
  <1>5. CASE End
    BY <1>4, <1>5 DEF End
  <1>6. CASE Interrupt
    <2>1. \A k \in {"todo", "before", "status", "ran", "tests"} : (shell')[k] = shell[k]
      BY <1>6 DEF Interrupt, TypeInv, ShellShape, Fields
    <2> QED BY <1>4, <1>6, <2>1 DEF Interrupt, Running
  <1>7. CASE \E agent \in Agent : Tell(agent)
    BY <1>4, <1>7 DEF Tell
  <1>8. CASE Read
    BY <1>4, <1>8 DEF Read
  <1>9. CASE UNCHANGED vars
    <2>1. UNCHANGED <<dialect, command, stage, shell>>
      BY <1>9 DEF vars
    <2>2. \A simple, k : RunAt(simple, k) => RunAt(simple, k)'
      BY <2>1 DEF RunAt, TestsPassed
    <2> QED BY <1>0, <2>1, <2>2 DEF RunInv
  <1> QED BY <1>1, <1>2, <1>3, <1>5, <1>6, <1>7, <1>8, <1>9 DEF Next

\* A run that is reported as passed by its exit status exited with 0.
LEMMA PassedByStatus ==
  ASSUME NEW exit, NEW trust, NEW summary, NEW interrupted, Outcome(exit, trust, summary, interrupted) = "passed",
         exit # {}, trust = "full" \/ (trust = "zeroOnly" /\ exit = {0})
  PROVE  0 \in exit
  <1> SUFFICES ASSUME 0 \notin exit PROVE FALSE
    OBVIOUS
  <1>1. trust = "full"
    OBVIOUS
  <1>2. Outcome(exit, trust, summary, interrupted) \in {"unknown", "failed", "error"}
    BY <1>1, Zenon DEF Outcome
  <1> QED BY <1>2

\* A status that is trusted is that of tests with nothing but "&&" behind.
LEMMA TrustJoins ==
  ASSUME NEW segs \in Seq(Segment), NEW i \in 1 .. Len(segs), TrustAfter(From(segs, i)) # None
  PROVE  \A j \in i .. Len(segs) : segs[j].after \in {"And", NoConnector}
  <1> DEFINE rest == From(segs, i)
             after == {rest[j].after : j \in 1 .. Len(rest)} \ {NoConnector}
  <1>1. after \subseteq {"And"}
    <2>1. TrustAfter(rest) = CASE after = {} -> "full" [] after = {"And"} -> "zeroOnly" [] OTHER -> None
      BY Zenon DEF TrustAfter
    <2> HIDE DEF after
    <2>2. after = {} \/ after = {"And"}
      BY <2>1, Zenon
    <2> QED BY <2>2
  <1>2. /\ i - 1 \in 0 .. Len(segs) /\ (i - 1) + 1 = i /\ Len(segs) \in Nat
    OBVIOUS
  <1>3. /\ Len(rest) = Len(segs) - (i - 1)
        /\ \A j \in 1 .. Len(segs) - (i - 1) : rest[j] = segs[i - 1 + j]
    <2> DEFINE k == i - 1
    <2>1. k \in 0 .. Len(segs) /\ k + 1 = i
      BY <1>2
    <2> HIDE DEF k
    <2>2. /\ Len(SubSeq(segs, k + 1, Len(segs))) = Len(segs) - k
          /\ \A j \in 1 .. Len(segs) - k : SubSeq(segs, k + 1, Len(segs))[j] = segs[k + j]
      BY <2>1, CutInTwo
    <2> QED BY <2>1, <2>2 DEF From, k
  <1> SUFFICES ASSUME NEW j \in i .. Len(segs) PROVE segs[j].after \in {"And", NoConnector}
    OBVIOUS
  <1>4. j - (i - 1) \in 1 .. Len(segs) - (i - 1) /\ i - 1 + (j - (i - 1)) = j
    BY <1>2
  <1> HIDE DEF rest
  <1>5. j - (i - 1) \in 1 .. Len(rest) /\ rest[j - (i - 1)] = segs[j]
    BY <1>3, <1>4
  <1> QED BY <1>1, <1>5

\* What is detected is the first segment that runs tests.
LEMMA DetectsFirst ==
  ASSUME NEW tokens, Detect(tokens) # NotATest, Segments(tokens) \in Seq(Segment)
  PROVE  \E i \in 1 .. Len(Segments(tokens)) :
            /\ IsFirstTest(Segments(tokens), i)
            /\ Detect(tokens).trust = TrustAfter(From(Segments(tokens), i))
  <1>0. PICK segs : segs = Segments(tokens)
    OBVIOUS
  <1> DEFINE tests == {i \in 1 .. Len(segs) : IsTest(segs[i].words)}
             i == CHOOSE i \in tests : \A j \in tests : i <= j
  <1>1. Detect(tokens) = IF tests = {} THEN NotATest
                         ELSE [runner |-> Classify(StripWrappers(segs[i].words).rest), trust |-> TrustAfter(From(segs, i))]
    BY <1>0, Zenon DEF Detect
  <1>2. tests # {} /\ tests \in SUBSET Nat
    BY <1>1
  <1>3. i \in tests /\ \A j \in tests : i <= j
    <2> HIDE DEF tests
    <2>1. \E k \in tests : \A j \in tests : k <= j
      BY <1>2, LeastNumber
    <2> QED BY <2>1, Zenon
  <1> HIDE DEF i
  <1>4. Detect(tokens).trust = TrustAfter(From(segs, i))
    <2> HIDE DEF tests
    <2> QED BY <1>1, <1>2
  <1>5. i \in 1 .. Len(segs) /\ IsTest(segs[i].words)
    BY <1>3
  <1>6. \A j \in 1 .. i - 1 : ~IsTest(segs[j].words)
    <2>1. ASSUME NEW j \in 1 .. i - 1, IsTest(segs[j].words) PROVE FALSE
      <3>1. j \in 1 .. Len(segs) /\ j < i
        BY <1>0, <1>5
      <3>2. j \in tests
        BY <2>1, <3>1
      <3> QED BY <1>3, <3>1, <3>2
    <2> QED BY <2>1
  <1> QED BY <1>0, <1>4, <1>5, <1>6 DEF IsFirstTest

LEMMA PlainIfRuns == ~MayNotRun => Plain(command)
  BY Zenon DEF MayNotRun, Plain

LEMMA GreenIsGreen == TypeInv /\ TellInv /\ CommandInv /\ RunInv => GreenByStatus
  <1> SUFFICES ASSUME TypeInv, TellInv, CommandInv, RunInv, NEW r \in report,
                      r.outcome = "passed", StatusDecides(r), ~MayNotRun
               PROVE  TestsPassed
    BY DEF GreenByStatus
  <1> DEFINE result == BashResult(payload.told, payload.agent)
             invocation == Detect(command)
             summary == ParseSummary(invocation.runner, result.output)
  <1>1. stage = "read" /\ r \in TestRunOf(payload.told, payload.agent) /\ payload.told.input.command = command
    BY DEF TellInv
  <1>2. /\ invocation # NotATest
        /\ r.outcome = Outcome(result.exit, invocation.trust, {s.counts : s \in summary}, result.interrupted)
        /\ r.trust = invocation.trust
    <2>1. r \in RunFrom(result, command, invocation, summary)
      BY <1>1, Zenon DEF TestRunOf
    <2> HIDE DEF result, invocation, summary
    <2> QED BY <2>1 DEF RunFrom
  <1>3. result.exit # {} /\ (r.trust = "full" \/ (r.trust = "zeroOnly" /\ result.exit = {0}))
    BY Zenon DEF StatusDecides
  <1>4. shell.todo = <<>> /\ result.exit = {shell.status}
    BY <1>1, <1>3 DEF TellInv
  <1> HIDE DEF result, summary
  <1>5. shell.status = 0
    <2>1. 0 \in result.exit
      BY <1>2, <1>3, PassedByStatus
    <2> QED BY <1>4, <2>1
  <1>6. Plain(command) /\ stage # "typing"
    BY <1>1, PlainIfRuns
  <1>0. PICK simple, segs : simple = Simple(command) /\ segs = Segments(command)
    OBVIOUS
  <1> DEFINE n == Len(simple)
  <1>7. /\ segs \in Seq(Segment) /\ simple \in Seq(Segment) /\ Len(segs) = n /\ n \in Nat \ {0}
        /\ \A i \in 1 .. n : segs[i].words = simple[i].words
        /\ \A i \in 1 .. n - 1 : simple[i].after \in PlainAfters /\ segs[i].after = simple[i].after
    <2>1. WellFormed(command) /\ Complete(command)
      BY <1>6 DEF CommandInv
    <2> QED BY <1>0, <1>6, <2>1, SegmentsAgree
  <1>8. PICK i \in 1 .. n : IsFirstTest(segs, i) /\ invocation.trust = TrustAfter(From(segs, i))
    BY <1>0, <1>2, <1>7, DetectsFirst
  <1>9. TrustAfter(From(segs, i)) # None
    BY <1>2, <1>3, <1>8 DEF None
  <1>10. \A j \in i .. n : segs[j].after \in {"And", NoConnector}
    BY <1>7, <1>9, TrustJoins
  <1>11. JoinedFrom(simple, i)
    <2>1. ASSUME NEW j \in i .. n - 1 PROVE simple[j].after = "And"
      <3>1. j \in 1 .. n - 1 /\ j \in i .. n
        BY <1>7
      <3> QED BY <1>7, <1>10, <3>1 DEF PlainAfters, NoConnector
    <2> QED BY <2>1 DEF JoinedFrom
  <1>12. IsFirstTest(simple, i)
    <2>1. i \in 1 .. n /\ \A j \in 1 .. i - 1 : j \in 1 .. n
      BY <1>7
    <2> QED BY <1>7, <1>8, <2>1 DEF IsFirstTest
  <1>13. PICK k \in 1 .. n + 1 : RunAt(simple, k)
    BY <1>0, <1>6 DEF RunInv
  <1>14. k = n + 1
    <2>1. PlainSimple(simple)
      BY <1>0, <1>6, CommandIsPlain
    <2> QED BY <1>4, <1>13, <2>1, ComesNext
  <1>15. i \in 1 .. k - 1
    BY <1>7, <1>14
  <1> QED BY <1>5, <1>11, <1>12, <1>13, <1>15 DEF RunAt

\* "Never guess passed" (testrun.rs:12-14), for commands of any length, any
\* tests, any runners and any host: where the exit status decides, a run is
\* reported as passed only if its tests ran and none failed, but for what a
\* command may not run (MayNotRun).  trust_after, detect_test_command, bash_result
\* and outcome work together here: the status that is read is the shell's, the
\* segments are its simple commands, and one that is trusted can only be 0 if the
\* tests were reached and passed.
THEOREM NeverGuessPassed == Spec => []GreenByStatus
  <1>1. Init => TypeInv /\ TellInv /\ CommandInv /\ RunInv
    BY TypeInit, TellInit, CommandInit, RunInit
  <1>2. TypeInv /\ TellInv /\ CommandInv /\ RunInv /\ [Next]_vars => (TypeInv /\ TellInv /\ CommandInv /\ RunInv)'
    BY TypeStep, TellStep, CommandStep, RunStep
  <1>3. TypeInv /\ TellInv /\ CommandInv /\ RunInv => GreenByStatus
    BY GreenIsGreen
  <1> QED BY <1>1, <1>2, <1>3, PTL DEF Spec
-----------------------------------------------------------------------------
(* What is printed, and what is read of it: a text that has a number of      *)
(* failures on it is that of a run with failing tests.                       *)

\* The kinds that stand for failures, and a line with a number of them.
Bad == {"failed", "failing", "fail", "cancelled", "failures", "interrupted", "errors", "timed out", "Errors", "Failures"}
IsRed(line) == \/ line.form = "go test" /\ "FAIL" \in DOMAIN line.n
               \/ \E k \in Bad : k \in DOMAIN line.n /\ line.n[k] > 0

\* A line of numbers that shows a failure only if some test is failing, and a
\* text of such lines.  red is the set of what fails.
Tells(line, red) == (\A k \in DOMAIN line.n : line.n[k] \in Nat) /\ (IsRed(line) => red # {})
IsText(text, red) == \E S : text \in Seq(S) /\ \A line \in S : Tells(line, red)

LEMMA TextOf ==
  ASSUME NEW S, NEW text \in Seq(S), NEW red, \A line \in S : Tells(line, red)
  PROVE  IsText(text, red)
  <1> HIDE DEF Tells
  <1> QED BY DEF IsText

LEMMA TextEmpty ==
  ASSUME NEW red
  PROVE  IsText(<<>>, red)
  <1> DEFINE S == {}
  <1>1. <<>> \in Seq(S) /\ \A line \in S : Tells(line, red)
    OBVIOUS
  <1> HIDE DEF S
  <1> QED BY <1>1, TextOf

LEMMA TextOne ==
  ASSUME NEW line, NEW red, Tells(line, red)
  PROVE  IsText(<<line>>, red)
  <1> DEFINE S == {line}
  <1>1. <<line>> \in Seq(S) /\ \A l \in S : Tells(l, red)
    OBVIOUS
  <1> HIDE DEF S
  <1> QED BY <1>1, TextOf

LEMMA TextConcat ==
  ASSUME NEW s, NEW t, NEW red, IsText(s, red), IsText(t, red)
  PROVE  IsText(s \o t, red)
  <1>1. PICK S : s \in Seq(S) /\ \A line \in S : Tells(line, red)
    BY DEF IsText
  <1>2. PICK T : t \in Seq(T) /\ \A line \in T : Tells(line, red)
    BY DEF IsText
  <1> DEFINE U == S \cup T
  <1>3. s \in Seq(U) /\ t \in Seq(U) /\ \A line \in U : Tells(line, red)
    BY <1>1, <1>2, SeqMonotonic
  <1> HIDE DEF U
  <1>4. s \o t \in Seq(U)
    BY <1>3, ConcatProperties
  <1> QED BY <1>3, <1>4 DEF IsText

LEMMA TextTimes ==
  ASSUME NEW n \in Nat, NEW line, NEW red, n > 0 => Tells(line, red)
  PROVE  IsText(Times(n, line), red)
  <1>1. CASE n = 0
    <2>1. Times(n, line) = <<>>
      BY <1>1 DEF Times
    <2> QED BY <2>1, TextEmpty
  <1>2. CASE n > 0
    <2>1. Times(n, line) \in Seq({line})
      BY DEF Times
    <2>2. \A l \in {line} : Tells(l, red)
      BY <1>2
    <2> QED BY <2>1, <2>2, TextOf
  <1> QED BY <1>1, <1>2

LEMMA TextWeaker ==
  ASSUME NEW text, NEW red, NEW also, IsText(text, red), red # {} => also # {}
  PROVE  IsText(text, also)
  <1>1. PICK S : text \in Seq(S) /\ \A line \in S : Tells(line, red)
    BY DEF IsText
  <1>2. \A line \in S : Tells(line, also)
    BY <1>1 DEF Tells
  <1> QED BY <1>1, <1>2 DEF IsText

LEMMA TextLines ==
  ASSUME NEW text, NEW red, IsText(text, red)
  PROVE  /\ Len(text) \in Nat /\ DOMAIN text = 1 .. Len(text)
         /\ \A i \in DOMAIN text : Tells(text[i], red)
  BY DEF IsText

\* The lines from some line on.
LEMMA TextFrom ==
  ASSUME NEW text, NEW red, IsText(text, red), NEW i \in 1 .. Len(text)
  PROVE  IsText(From(text, i), red)
  <1>1. PICK S : text \in Seq(S) /\ \A line \in S : Tells(line, red)
    BY DEF IsText
  <1>2. PICK k \in 0 .. Len(text) : i = k + 1
    <2>1. i - 1 \in 0 .. Len(text) /\ i = (i - 1) + 1
      BY <1>1
    <2> QED BY <2>1
  <1>3. SubSeq(text, k + 1, Len(text)) \in Seq(S)
    BY <1>1, CutInTwo
  <1>4. From(text, i) \in Seq(S)
    BY <1>2, <1>3 DEF From
  <1> QED BY <1>1, <1>4 DEF IsText

LEMMA TextFlat ==
  ASSUME NEW n \in Nat, NEW texts, texts = [i \in 1 .. n |-> texts[i]], NEW red,
         \A i \in 1 .. n : IsText(texts[i], red)
  PROVE  IsText(FlattenSeq(texts), red)
  <1> DEFINE S == UNION {{texts[i][j] : j \in DOMAIN texts[i]} : i \in 1 .. n}
  <1>1. ASSUME NEW i \in 1 .. n PROVE texts[i] \in Seq(S)
    <2>1. PICK T : texts[i] \in Seq(T)
      BY DEF IsText
    <2> DEFINE L == {texts[i][j] : j \in DOMAIN texts[i]}
    <2>2. texts[i] \in Seq(L)
      BY <2>1
    <2>3. L \subseteq S
      OBVIOUS
    <2> HIDE DEF L, S
    <2> QED BY <2>2, <2>3, SeqMonotonic
  <1>2. \A line \in S : Tells(line, red)
    BY TextLines
  <1> HIDE DEF S
  <1>3. texts \in Seq(Seq(S))
    <2>1. texts \in [1 .. n -> Seq(S)]
      BY <1>1
    <2> QED BY <2>1, SeqDef
  <1>4. FlattenSeq(texts) \in Seq(S)
    BY <1>3, FlattenIn
  <1> QED BY <1>2, <1>4 DEF IsText

Counted == [passed : Nat, failed : Nat, broken : Nat, skipped : Nat]

\* A line tells by the numbers on it.
LEMMA LineTells ==
  ASSUME NEW form, form # "go test", NEW numbers, NEW red
  PROVE  Tells(Line(form, numbers), red) <=>
            \A k \in DOMAIN numbers : numbers[k] \in Nat /\ (k \in Bad /\ numbers[k] > 0 => red # {})
  <1> DEFINE line == Line(form, numbers)
             Known == \A k \in DOMAIN numbers : numbers[k] \in Nat /\ (k \in Bad /\ numbers[k] > 0 => red # {})
  <1>1. line.form = form /\ line.n = numbers
    BY DEF Line
  <1> HIDE DEF line
  <1>2. ASSUME Tells(line, red) PROVE Known
    <2>1. (\A k \in DOMAIN numbers : numbers[k] \in Nat) /\ (IsRed(line) => red # {})
      BY <1>1, <1>2, Zenon DEF Tells
    <2>2. ASSUME NEW k \in DOMAIN numbers, k \in Bad, numbers[k] > 0 PROVE red # {}
      <3>1. IsRed(line)
        BY <1>1, <2>2 DEF IsRed
      <3> QED BY <2>1, <3>1
    <2> QED BY <2>1, <2>2, Zenon
  <1>3. ASSUME Known PROVE Tells(line, red)
    <2>1. ASSUME IsRed(line) PROVE red # {}
      <3>1. PICK k \in Bad : k \in DOMAIN numbers /\ numbers[k] > 0
        BY <1>1, <2>1 DEF IsRed
      <3> QED BY <1>3, <3>1, Zenon
    <2>2. \A k \in DOMAIN line.n : line.n[k] \in Nat
      BY <1>1, <1>3
    <2> QED BY <2>1, <2>2 DEF Tells
  <1> QED BY <1>2, <1>3, Zenon DEF line

\* Leaving out kinds shows no more.
LEMMA SomeTells ==
  ASSUME NEW form, NEW numbers, NEW always, NEW red, Tells(Line(form, numbers), red), form # "go test"
  PROVE  Tells(Line(form, Some(numbers, always)), red)
  <1> DEFINE some == Some(numbers, always)
  <1>1. \A k \in DOMAIN some : k \in DOMAIN numbers /\ some[k] = numbers[k]
    BY DEF Some
  <1> HIDE DEF some
  <1>2. \A k \in DOMAIN numbers : numbers[k] \in Nat /\ (k \in Bad /\ numbers[k] > 0 => red # {})
    BY LineTells, Zenon
  <1>3. \A k \in DOMAIN some : some[k] \in Nat /\ (k \in Bad /\ some[k] > 0 => red # {})
    BY <1>1, <1>2, Zenon
  <1>4. Tells(Line(form, some), red)
    BY <1>3, LineTells, Zenon
  <1> QED BY <1>4 DEF some

\* Lines of numbers.
LEMMA TwoLines ==
  ASSUME NEW a, NEW b, NEW red, Tells(a, red), Tells(b, red)
  PROVE  IsText(<<a, b>>, red)
  <1> DEFINE S == {a, b}
  <1>1. <<a, b>> \in Seq(S) /\ \A l \in S : Tells(l, red)
    OBVIOUS
  <1> HIDE DEF S
  <1> QED BY <1>1, TextOf

LEMMA FourLines ==
  ASSUME NEW a, NEW b, NEW c, NEW d, NEW red, Tells(a, red), Tells(b, red), Tells(c, red), Tells(d, red)
  PROVE  IsText(<<a, b, c, d>>, red)
  <1> DEFINE S == {a, b, c, d}
  <1>1. <<a, b, c, d>> \in Seq(S) /\ \A l \in S : Tells(l, red)
    OBVIOUS
  <1> HIDE DEF S
  <1> QED BY <1>1, TextOf

\* A runner prints a number of failures only if a test failed or broke.
LEMMA BlockTells ==
  ASSUME NEW style, NEW c \in Counted
  PROVE  IsText(Block(style, c), 1 .. (c.failed + c.broken))
  <1> DEFINE red == 1 .. (c.failed + c.broken)
             bad == c.failed + c.broken
             total == c.passed + bad + c.skipped
             word == [passed |-> c.passed, failed |-> IF style \in Silent THEN c.failed ELSE bad, skipped |-> c.skipped]
             mochas == [passing |-> c.passed, failing |-> bad, pending |-> c.skipped]
             mocha == <<Line("mocha", Some(mochas, {"passing"}))>>
             players == [passed |-> c.passed, failed |-> c.failed, interrupted |-> c.broken, skipped |-> c.skipped]
             pythons == [passed |-> c.passed, failed |-> c.failed, errors |-> c.broken, skipped |-> c.skipped]
             nexts == [k \in {"passed", "failed", "timed out", "skipped"} |->
                         IF k = "passed" THEN c.passed ELSE IF k = "failed" THEN c.failed
                         ELSE IF k = "skipped" THEN c.skipped ELSE c.broken]
             tests == Times(c.failed, Line("go test", [FAIL |-> 1]))
             others == Times(c.passed, Line("go test", [PASS |-> 1])) \o Times(c.skipped, Line("go test", [SKIP |-> 1]))
             package == <<Line("go package", IF bad > 0 THEN [FAIL |-> 1] ELSE [ok |-> 1])>>
             examples == c.passed + c.failed + c.skipped
  <1>0. /\ c.passed \in Nat /\ c.failed \in Nat /\ c.broken \in Nat /\ c.skipped \in Nat /\ bad \in Nat
        /\ total \in Nat /\ examples \in Nat
    BY DEF Counted
  <1>a. /\ c.failed > 0 => red # {} /\ bad > 0
        /\ c.broken > 0 => red # {} /\ bad > 0
        /\ bad > 0 => red # {}
    BY <1>0
  <1>b. "passed" \notin Bad /\ "skipped" \notin Bad /\ "passing" \notin Bad /\ "pending" \notin Bad
    BY DEF Bad
  <1> HIDE DEF red
  <1>1. ASSUME NEW form, form # "go test"
        PROVE  /\ Tells(Line(form, word), red) /\ Tells(Line(form, mochas), red)
               /\ Tells(Line(form, players), red) /\ Tells(Line(form, pythons), red) /\ Tells(Line(form, nexts), red)
    <2>1. \A k \in DOMAIN word : word[k] \in Nat /\ (k \in Bad /\ word[k] > 0 => red # {})
      <3>1. \A k \in DOMAIN word : k = "passed" \/ k = "skipped" \/ k = "failed"
        OBVIOUS
      <3>2. word["passed"] = c.passed /\ word["skipped"] = c.skipped /\ word["failed"] \in {c.failed, bad}
        OBVIOUS
      <3> HIDE DEF word, bad
      <3> QED BY <1>0, <1>a, <1>b, <3>1, <3>2
    <2>2. \A k \in DOMAIN mochas : mochas[k] \in Nat /\ (k \in Bad /\ mochas[k] > 0 => red # {})
      <3>1. \A k \in DOMAIN mochas : k = "passing" \/ k = "pending" \/ k = "failing"
        OBVIOUS
      <3>2. mochas["passing"] = c.passed /\ mochas["pending"] = c.skipped /\ mochas["failing"] = bad
        OBVIOUS
      <3> HIDE DEF mochas, bad
      <3> QED BY <1>0, <1>a, <1>b, <3>1, <3>2
    <2>3. \A k \in DOMAIN players : players[k] \in Nat /\ (k \in Bad /\ players[k] > 0 => red # {})
      <3>1. \A k \in DOMAIN players : k = "passed" \/ k = "failed" \/ k = "interrupted" \/ k = "skipped"
        OBVIOUS
      <3>2. /\ players["passed"] = c.passed /\ players["failed"] = c.failed
            /\ players["interrupted"] = c.broken /\ players["skipped"] = c.skipped
        OBVIOUS
      <3> HIDE DEF players, bad
      <3> QED BY <1>0, <1>a, <1>b, <3>1, <3>2
    <2>4. \A k \in DOMAIN pythons : pythons[k] \in Nat /\ (k \in Bad /\ pythons[k] > 0 => red # {})
      <3>1. \A k \in DOMAIN pythons : k = "passed" \/ k = "failed" \/ k = "errors" \/ k = "skipped"
        OBVIOUS
      <3>2. /\ pythons["passed"] = c.passed /\ pythons["failed"] = c.failed
            /\ pythons["errors"] = c.broken /\ pythons["skipped"] = c.skipped
        OBVIOUS
      <3> HIDE DEF pythons, bad
      <3> QED BY <1>0, <1>a, <1>b, <3>1, <3>2
    <2>5. \A k \in DOMAIN nexts : nexts[k] \in Nat /\ (k \in Bad /\ nexts[k] > 0 => red # {})
      <3>1. \A k \in DOMAIN nexts : k = "passed" \/ k = "failed" \/ k = "timed out" \/ k = "skipped"
        OBVIOUS
      <3>2. /\ nexts["passed"] = c.passed /\ nexts["failed"] = c.failed
            /\ nexts["timed out"] = c.broken /\ nexts["skipped"] = c.skipped
        OBVIOUS
      <3> HIDE DEF nexts, bad
      <3> QED BY <1>0, <1>a, <1>b, <3>1, <3>2
    <2> HIDE DEF word, mochas, players, pythons, nexts, red
    <2> QED BY <1>1, <2>1, <2>2, <2>3, <2>4, <2>5, LineTells, Zenon
  <1>2. style # "go test" => IsText(<<Line(style, word)>>, red)
    BY <1>1, TextOne
  <1>3. style # "go test" => IsText(<<Line(style, Nonzero(word))>>, red) /\ IsText(<<Line(style, Nonzero(players))>>, red)
    BY <1>1, SomeTells, TextOne DEF Nonzero
  <1>4. style # "go test" =>
          IsText(<<Line(style, IF total = 0 THEN [k \in {"no tests ran"} |-> 0] ELSE Nonzero(pythons))>>, red)
    <2>1. style # "go test" => Tells(Line(style, [k \in {"no tests ran"} |-> 0]), red)
      BY DEF Tells, IsRed, Bad, Line
    <2>2. style # "go test" => Tells(Line(style, Nonzero(pythons)), red)
      BY <1>1, SomeTells DEF Nonzero
    <2> HIDE DEF pythons, total
    <2> QED BY <2>1, <2>2, TextOne
  <1>c. style # "go test" => IsText(<<Line(style, nexts)>>, red)
    BY <1>1, TextOne
  <1>5. IsText(mocha, red)
    BY <1>1, SomeTells, TextOne
  <1>6. IsText(<<Line("node", [pass |-> c.passed]), Line("node", [fail |-> c.failed]),
                 Line("node", [cancelled |-> c.broken]), Line("node", [skipped |-> c.skipped])>>, red)
    <2>1. Tells(Line("node", [pass |-> c.passed]), red) /\ Tells(Line("node", [skipped |-> c.skipped]), red)
      BY <1>0 DEF Tells, IsRed, Bad, Line
    <2>2. Tells(Line("node", [fail |-> c.failed]), red) /\ Tells(Line("node", [cancelled |-> c.broken]), red)
      BY <1>0, <1>a DEF Tells, IsRed, Bad, Line
    <2> QED BY <2>1, <2>2, FourLines
  <1>7. IsText(<<Line("cargo", [passed |-> c.passed, failed |-> c.failed, ignored |-> c.skipped])>>, red)
    <2>1. Tells(Line("cargo", [passed |-> c.passed, failed |-> c.failed, ignored |-> c.skipped]), red)
      BY <1>0, <1>a DEF Tells, IsRed, Bad, Line
    <2> QED BY <2>1, TextOne
  <1>8. IsText(tests, red) /\ IsText(others, red) /\ IsText(package, red)
    <2>1. bad > 0 => Tells(Line("go test", [FAIL |-> 1]), red) /\ Tells(Line("go package", [FAIL |-> 1]), red)
      <3> DEFINE test == Line("go test", [FAIL |-> 1])
                 built == Line("go package", [FAIL |-> 1])
      <3>1. (\A k \in DOMAIN test.n : test.n[k] \in Nat) /\ (\A k \in DOMAIN built.n : built.n[k] \in Nat)
        BY DEF Line
      <3> HIDE DEF test, built, bad
      <3>2. bad > 0 => Tells(test, red) /\ Tells(built, red)
        BY <1>a, <3>1 DEF Tells
      <3> QED BY <3>2 DEF test, built
    <2>2. Tells(Line("go test", [PASS |-> 1]), red) /\ Tells(Line("go test", [SKIP |-> 1]), red)
      BY DEF Tells, IsRed, Bad, Line
    <2>3. Tells(Line("go package", [ok |-> 1]), red)
      BY DEF Tells, IsRed, Bad, Line
    <2>4. IsText(package, red)
      <3> HIDE DEF bad
      <3> QED BY <2>1, <2>3, TextOne
    <2>5. IsText(tests, red)
      <3> HIDE DEF bad
      <3> QED BY <1>0, <1>a, <2>1, TextTimes
    <2>6. IsText(others, red)
      BY <1>0, <2>2, TextTimes, TextConcat
    <2> QED BY <2>4, <2>5, <2>6
  <1>9. IsText(tests \o package, red) /\ IsText(tests \o others \o package, red)
    <2> HIDE DEF tests, others, package
    <2> QED BY <1>8, TextConcat
  <1>10. IsText(<<Line("rspec", [examples |-> examples, failures |-> c.failed, pending |-> c.skipped])>>, red)
    <2>1. Tells(Line("rspec", [examples |-> examples, failures |-> c.failed, pending |-> c.skipped]), red)
      BY <1>0, <1>a DEF Tells, IsRed, Bad, Line
    <2> QED BY <2>1, TextOne
  <1>11. IsText(<<IF bad + c.skipped = 0 THEN Line("phpunit ok", [tests |-> total])
                  ELSE Line("phpunit", [tests |-> total, Errors |-> c.broken, Failures |-> c.failed,
                                        Skipped |-> c.skipped])>>, red)
    <2>1. Tells(Line("phpunit ok", [tests |-> total]), red)
      BY <1>0 DEF Tells, IsRed, Bad, Line
    <2>2. Tells(Line("phpunit", [tests |-> total, Errors |-> c.broken, Failures |-> c.failed, Skipped |-> c.skipped]), red)
      BY <1>0, <1>a DEF Tells, IsRed, Bad, Line
    <2> QED BY <2>1, <2>2, TextOne
  <1>12. IsText(<<Line("dotnet total", [total |-> total]), Line("dotnet old", Nonzero(word))>>, red)
    <2>1. Tells(Line("dotnet total", [total |-> total]), red)
      BY <1>0 DEF Tells, IsRed, Bad, Line
    <2>2. Tells(Line("dotnet old", Nonzero(word)), red)
      BY <1>1, SomeTells DEF Nonzero
    <2> QED BY <2>1, <2>2, TwoLines
  <1>13. IsText(<<Line("maven", [run |-> total, failures |-> c.failed, errors |-> c.broken, skipped |-> c.skipped])>>, red)
    <2>1. Tells(Line("maven", [run |-> total, failures |-> c.failed, errors |-> c.broken, skipped |-> c.skipped]), red)
      BY <1>0, <1>a DEF Tells, IsRed, Bad, Line
    <2> QED BY <2>1, TextOne
  <1>14. IsText(IF bad = 0 THEN <<>>
                ELSE <<Line("gradle", [completed |-> total, failed |-> bad, skipped |-> c.skipped])>>, red)
    <2>1. Tells(Line("gradle", [completed |-> total, failed |-> bad, skipped |-> c.skipped]), red)
      BY <1>0, <1>a DEF Tells, IsRed, Bad, Line
    <2> QED BY <2>1, TextOne, TextEmpty
  <1>15. IsText(mocha \o <<Line("cypress", mochas)>>, red)
    BY <1>1, <1>5, TextOne, TextConcat
  <1>16. IsText(<<>>, red)
    BY TextEmpty
  <1>17. style # "go test" => IsText(Block(style, c), red)
    BY <1>2, <1>3, <1>4, <1>c, <1>5, <1>6, <1>7, <1>9, <1>10, <1>11, <1>12, <1>13, <1>14, <1>15, <1>16, Zenon DEF Block
  <1>18. style = "go test" => IsText(Block(style, c), red)
    <2>1. style = "go test" => Block(style, c) = <<>>
      BY Zenon DEF Block
    <2> QED BY <1>16, <2>1
  <1> QED BY <1>17, <1>18 DEF red

\* The counts of all packages: the run fails if something of a package did.
LEMMA TotalType ==
  ASSUME NEW run \in Seq(Counted)
  PROVE  /\ Total(run) \in Counted
         /\ \A i \in DOMAIN run : run[i].failed + run[i].broken > 0 => Fails(run)
  <1>0. DOMAIN run = 1 .. Len(run) /\ Len(run) \in Nat /\ IsFiniteSet(DOMAIN run)
    BY FS_Interval
  <1>1. ASSUME NEW kind \in {"passed", "failed", "broken", "skipped"}
        PROVE  /\ SumOver(run, kind) \in Nat
               /\ \A i \in DOMAIN run : run[i][kind] \in Nat /\ (run[i][kind] > 0 => SumOver(run, kind) > 0)
    <2> DEFINE fun == [i \in DOMAIN run |-> run[i][kind]]
               D == DOMAIN run
    <2>1. fun \in [D -> Nat]
      <3>1. \A i \in D : run[i] \in Counted
        BY <1>0
      <3>2. \A i \in D : run[i][kind] \in Nat
        BY <3>1 DEF Counted
      <3> QED BY <3>2
    <2>2. SumOver(run, kind) = SumFunction(fun) /\ \A i \in D : fun[i] = run[i][kind]
      BY DEF SumOver
    <2> HIDE DEF fun
    <2>3. IsFiniteSet(D)
      BY <1>0
    <2> HIDE DEF D
    <2>4. SumFunction(fun) \in Nat /\ (SumFunction(fun) > 0 <=> \E i \in D : fun[i] > 0)
      BY <2>1, <2>3, SumPositive
    <2>5. \A i \in D : fun[i] \in Nat
      BY <2>1
    <2> QED BY <2>2, <2>4, <2>5 DEF D
  <1>2. /\ SumOver(run, "passed") \in Nat /\ SumOver(run, "failed") \in Nat
        /\ SumOver(run, "broken") \in Nat /\ SumOver(run, "skipped") \in Nat
        /\ \A i \in DOMAIN run : /\ run[i].failed \in Nat /\ run[i].broken \in Nat
                                 /\ run[i].failed > 0 => SumOver(run, "failed") > 0
                                 /\ run[i].broken > 0 => SumOver(run, "broken") > 0
    BY <1>1
  <1>3. /\ Total(run) \in Counted
        /\ Total(run).failed = SumOver(run, "failed") /\ Total(run).broken = SumOver(run, "broken")
    BY <1>2 DEF Total, Counted
  <1>4. ASSUME NEW i \in DOMAIN run, run[i].failed + run[i].broken > 0 PROVE Fails(run)
    <2>1. run[i].failed > 0 \/ run[i].broken > 0
      BY <1>2, <1>4
    <2>2. SumOver(run, "failed") + SumOver(run, "broken") > 0
      BY <1>2, <2>1
    <2> QED BY <1>3, <2>2 DEF Fails
  <1> QED BY <1>3, <1>4

LEMMA ShownTells ==
  ASSUME NEW style, NEW run \in Seq(Counted)
  PROVE  IsText(Shown(style, run), 1 .. (Total(run).failed + Total(run).broken))
  <1> DEFINE red == 1 .. (Total(run).failed + Total(run).broken)
             each == [i \in DOMAIN run |-> Block(style, run[i])]
  <1>0. DOMAIN run = 1 .. Len(run) /\ Len(run) \in Nat /\ Total(run).failed \in Nat /\ Total(run).broken \in Nat
    BY TotalType DEF Counted
  <1>1. IsText(Block(style, Total(run)), red)
    BY TotalType, BlockTells
  <1>2. ASSUME NEW i \in 1 .. Len(run) PROVE IsText(Block(style, run[i]), red)
    <2>1. run[i] \in Counted
      OBVIOUS
    <2>2. IsText(Block(style, run[i]), 1 .. (run[i].failed + run[i].broken))
      BY <2>1, BlockTells
    <2>3. 1 .. (run[i].failed + run[i].broken) # {} => red # {}
      <3>1. /\ run[i].failed \in Nat /\ run[i].broken \in Nat
            /\ run[i].failed + run[i].broken > 0 => Total(run).failed + Total(run).broken > 0
        BY <1>0, <2>1, TotalType DEF Counted, Fails
      <3> QED BY <1>0, <3>1
    <2> HIDE DEF red
    <2> QED BY <2>2, <2>3, TextWeaker
  <1>3. each = [i \in 1 .. Len(run) |-> each[i]] /\ \A i \in 1 .. Len(run) : each[i] = Block(style, run[i])
    BY <1>0
  <1> HIDE DEF red, each
  <1>4. IsText(FlattenSeq(each), red)
    BY <1>0, <1>2, <1>3, TextFlat
  <1>5. IsText(FlattenSeq(each) \o Block(style, Total(run)), red)
    BY <1>1, <1>4, TextConcat
  <1> QED BY <1>1, <1>4, <1>5, Zenon DEF Shown, red, each

\* Of a run that did not fail nothing is printed that shows a failure, however
\* much of it is printed.
LEMMA PrintedTells ==
  ASSUME dialect \in Dialect, NEW run \in dialect.runs, NEW style, NEW shown \in Printed(style, run)
  PROVE  \E fails : IsText(shown, fails) /\ (fails # {} => Fails(run) = TRUE)
  <1> DEFINE fails == 1 .. (Total(run).failed + Total(run).broken)
             all == Shown(style, run)
  <1>1. run \in Seq(Counted)
    BY DialectAssumption DEF Counted
  <1>2. IsText(all, fails)
    BY <1>1, ShownTells
  <1>3. fails # {} => Fails(run) = TRUE
    <2>1. Total(run).failed \in Nat /\ Total(run).broken \in Nat
      BY <1>1, TotalType DEF Counted
    <2> QED BY <2>1 DEF Fails
  <1>4. shown \in {all, <<>>, IF all = <<>> THEN <<>> ELSE <<Last(all)>>}
    BY DEF Printed
  <1> HIDE DEF all, fails
  <1>5. ASSUME all # <<>> PROVE IsText(<<Last(all)>>, fails)
    <2>1. PICK S : all \in Seq(S) /\ \A line \in S : Tells(line, fails)
      BY <1>2 DEF IsText
    <2>2. Last(all) \in S
      BY <1>5, <2>1 DEF Last
    <2> QED BY <2>1, <2>2, TextOne
  <1>6. IsText(shown, fails)
    BY <1>2, <1>4, <1>5, TextEmpty
  <1> QED BY <1>3, <1>6

\* What commands add to the output.
LEMMA OutputSteps ==
  ASSUME ShellShape, dialect \in Dialect, NEW red, IsText(shell.output, red)
  PROVE  /\ SkipCommand => /\ (shell').output = shell.output /\ (shell').tests = shell.tests
                           /\ (shell').otherRed = shell.otherRed
         /\ RunOther => \E more : /\ \E fails : IsText(more, fails) /\ (fails # {} => (shell').otherRed = TRUE)
                                  /\ shell.otherRed = TRUE => (shell').otherRed = TRUE
                                  /\ (shell').output = shell.output \o more /\ (shell').tests = shell.tests
         /\ RunTests => \E more, test : /\ \E fails : IsText(more, fails) /\ (fails # {} => test.failing)
                                        /\ (shell').output = shell.output \o more
                                        /\ (shell').tests = Append(shell.tests, test)
                                        /\ (shell').otherRed = shell.otherRed
  <1>1. ASSUME SkipCommand
        PROVE  /\ (shell').output = shell.output /\ (shell').tests = shell.tests
               /\ (shell').otherRed = shell.otherRed
    BY <1>1 DEF SkipCommand, Proceed, ShellShape, Fields
  <1>2. ASSUME RunOther
        PROVE  \E more : /\ \E fails : IsText(more, fails) /\ (fails # {} => (shell').otherRed = TRUE)
                         /\ shell.otherRed = TRUE => (shell').otherRed = TRUE
                         /\ (shell').output = shell.output \o more /\ (shell').tests = shell.tests
    <2>1. PICK status \in {0, 1} :
            \/ shell' = [Proceed EXCEPT !.ran = TRUE, !.status = StatusAfter(status)]
            \/ \E run \in dialect.runs, style \in dialect.styles : \E shown \in Printed(style, run) :
                 shell' = [Proceed EXCEPT !.ran = TRUE, !.status = StatusAfter(status), !.output = @ \o shown,
                                          !.doubtful = TRUE, !.otherRed = @ \/ (shown # <<>> /\ Fails(run))]
      BY <1>2, Zenon DEF RunOther
    <2>2. CASE shell' = [Proceed EXCEPT !.ran = TRUE, !.status = StatusAfter(status)]
      <3>1. /\ (shell').output = shell.output /\ (shell').tests = shell.tests
            /\ (shell').otherRed = shell.otherRed
        BY <2>2 DEF Proceed, ShellShape, Fields
      <3>2. IsText(<<>>, {})
        BY TextEmpty
      <3>3. shell.output \o <<>> = shell.output
        BY DEF IsText
      <3> QED BY <3>1, <3>2, <3>3
    <2>3. ASSUME NEW run \in dialect.runs, NEW style \in dialect.styles, NEW shown \in Printed(style, run),
                 shell' = [Proceed EXCEPT !.ran = TRUE, !.status = StatusAfter(status), !.output = @ \o shown,
                                          !.doubtful = TRUE, !.otherRed = @ \/ (shown # <<>> /\ Fails(run))]
          PROVE  \E more : /\ \E fails : IsText(more, fails) /\ (fails # {} => (shell').otherRed = TRUE)
                           /\ shell.otherRed = TRUE => (shell').otherRed = TRUE
                           /\ (shell').output = shell.output \o more /\ (shell').tests = shell.tests
      <3>1. /\ (shell').output = shell.output \o shown /\ (shell').tests = shell.tests
            /\ (shell').otherRed = (shell.otherRed \/ (shown # <<>> /\ Fails(run)))
        BY <2>3 DEF Proceed, ShellShape, Fields
      <3>2. PICK fails : IsText(shown, fails) /\ (fails # {} => Fails(run) = TRUE)
        BY PrintedTells
      <3>3. shell.otherRed = TRUE => (shell').otherRed = TRUE
        BY <3>1, Zenon
      <3>4. CASE shown = <<>>
        <4>1. IsText(shown, {})
          BY <3>4, TextEmpty
        <4> QED BY <3>1, <3>3, <4>1
      <3>5. CASE shown # <<>>
        <4>1. Fails(run) = TRUE => (shell').otherRed = TRUE
          BY <3>1, <3>5, Zenon
        <4> QED BY <3>1, <3>2, <3>3, <4>1
      <3> QED BY <3>4, <3>5
    <2> QED BY <2>1, <2>2, <2>3
  <1>3. ASSUME RunTests
        PROVE  \E more, test : /\ \E fails : IsText(more, fails) /\ (fails # {} => test.failing)
                               /\ (shell').output = shell.output \o more
                               /\ (shell').tests = Append(shell.tests, test)
                               /\ (shell').otherRed = shell.otherRed
    <2>1. PICK status \in {0, 1}, run \in dialect.runs, style \in StylesOf(Classify(StripWrappers(Now.words).rest)) :
            \E shown \in Printed(style, run) :
              /\ Fails(run) => status # 0
              /\ shell' = [Proceed EXCEPT !.ran = TRUE, !.status = StatusAfter(status),
                                !.tests = Append(@, [failing |-> Fails(run), counts |-> Stated(style, run)]),
                                !.output = @ \o shown,
                                !.doubtful = \/ @
                                             \/ shown \notin {Shown(style, run), <<>>}
                                             \/ Len(run) > 1 /\ style \notin AddingUp \cup Aggregating]
      BY <1>3, Zenon DEF RunTests
    <2> DEFINE test == [failing |-> Fails(run), counts |-> Stated(style, run)]
    <2>2. PICK shown \in Printed(style, run) :
                 shell' = [Proceed EXCEPT !.ran = TRUE, !.status = StatusAfter(status), !.tests = Append(@, test),
                                          !.output = @ \o shown,
                                          !.doubtful = \/ @
                                                       \/ shown \notin {Shown(style, run), <<>>}
                                                       \/ Len(run) > 1 /\ style \notin AddingUp \cup Aggregating]
      BY <2>1, Zenon
    <2>3. PICK fails : IsText(shown, fails) /\ (fails # {} => Fails(run) = TRUE)
      BY PrintedTells
    <2>4. test.failing = Fails(run)
      OBVIOUS
    <2> HIDE DEF test
    <2>5. /\ (shell').output = shell.output \o shown /\ (shell').tests = Append(shell.tests, test)
          /\ (shell').otherRed = shell.otherRed
      BY <2>2 DEF Proceed, ShellShape, Fields
    <2> QED BY <2>3, <2>4, <2>5
  <1> QED BY <1>1, <1>2, <1>3

\* What has failed: runs of the shell with a test that failed or broke, and the
\* runs whose logs are printed, as one (0).
Failing == {i \in DOMAIN shell.tests : shell.tests[i].failing} \cup {i \in {0} : shell.otherRed = TRUE}

\* What is printed, and what is read as printed, shows a failure only if
\* something did.
OutputInv ==
    /\ IsText(shell.output, Failing)
    /\ stage \in {"told", "read"} => BashResult(payload.told, payload.agent).output \in {shell.output, <<>>}

LEMMA OutputShapes ==
  ASSUME NEW p, NEW agent
  PROVE  LET result == BashResult(p, agent)
         IN /\ p.event = "PostToolUseFailure" => result.output = p.error.text
            /\ p.event # "PostToolUseFailure" /\ p.response.kind = "text" => result.output = p.response.text
            /\ p.event # "PostToolUseFailure" /\ p.response.kind = "object" => result.output = p.response.object.output
  <1>1. p.event = "PostToolUseFailure" => BashResult(p, agent) = FailureResult(p)
    BY Zenon DEF BashResult
  <1>2. FailureResult(p).output = p.error.text
    BY DEF FailureResult
  <1>3. p.event # "PostToolUseFailure" /\ p.response.kind = "text"
           => BashResult(p, agent) = [NoResult EXCEPT !.output = p.response.text]
    BY Zenon DEF BashResult
  <1>4. [NoResult EXCEPT !.output = p.response.text].output = p.response.text
    BY DEF NoResult
  <1>5. p.event # "PostToolUseFailure" /\ p.response.kind = "object"
           => \E exit, interrupted, background :
                BashResult(p, agent) = [exit |-> exit, interrupted |-> interrupted, background |-> background,
                                        output |-> p.response.object.output]
    BY Zenon DEF BashResult
  <1>6. p.event = "PostToolUseFailure" => BashResult(p, agent).output = p.error.text
    BY <1>1, <1>2
  <1>7. p.event # "PostToolUseFailure" /\ p.response.kind = "text" => BashResult(p, agent).output = p.response.text
    BY <1>3, <1>4
  <1>8. p.event # "PostToolUseFailure" /\ p.response.kind = "object"
           => BashResult(p, agent).output = p.response.object.output
    BY <1>5
  <1> QED BY <1>6, <1>7, <1>8, Zenon

\* What the host tells of the output is the output, or nothing.
LEMMA ToldAsPrinted ==
  ASSUME NEW agent, Tell(agent)
  PROVE  BashResult((payload').told, (payload').agent).output \in {shell.output, <<>>}
  <1> DEFINE Fine(p) == BashResult(p, agent).output \in {shell.output, <<>>}
  <1>1. ASSUME NEW event, NEW response, NEW code
        PROVE  LET p == Payload(event, response, code)
               IN p.event = event /\ p.response = response /\ p.error.text = shell.output
    BY DEF Payload
  <1>2. ASSUME NEW response, NEW code PROVE Fine(Payload("PostToolUseFailure", response, code))
    <2> DEFINE p == Payload("PostToolUseFailure", response, code)
    <2>1. p.event = "PostToolUseFailure" /\ p.error.text = shell.output
      BY <1>1
    <2> HIDE DEF p
    <2>2. BashResult(p, agent).output = shell.output
      BY <2>1, OutputShapes, Zenon
    <2>3. Fine(p)
      BY <2>2
    <2> QED BY <2>3 DEF p
  <1>3. Fine(Payload("PostToolUse", Text, {}))
    <2> DEFINE p == Payload("PostToolUse", Text, {})
    <2>1. p.event # "PostToolUseFailure" /\ p.response.kind = "text" /\ p.response.text = shell.output
      BY <1>1 DEF Text
    <2> HIDE DEF p
    <2>2. BashResult(p, agent).output = shell.output
      BY <2>1, OutputShapes, Zenon
    <2>3. Fine(p)
      BY <2>2
    <2> QED BY <2>3 DEF p
  <1>4. ASSUME NEW fields, fields.output \in {shell.output, <<>>}
        PROVE  Fine(Payload("PostToolUse", Object(fields), {}))
    <2> DEFINE p == Payload("PostToolUse", Object(fields), {})
    <2>1. p.event # "PostToolUseFailure" /\ p.response.kind = "object" /\ p.response.object = fields
      BY <1>1 DEF Object
    <2> HIDE DEF p
    <2>2. BashResult(p, agent).output = fields.output
      BY <2>1, OutputShapes, Zenon
    <2>3. Fine(p)
      BY <1>4, <2>2
    <2> QED BY <2>3 DEF p
  <1> HIDE DEF Fine
  <1>5. Fine(Background)
    <2> DEFINE fields == [stdout |-> TRUE, output |-> <<>>, backgroundTaskId |-> 1, interrupted |-> FALSE]
    <2>1. fields.output \in {shell.output, <<>>}
      OBVIOUS
    <2>2. Background = Payload("PostToolUse", Object(fields), {})
      BY DEF Background
    <2> HIDE DEF fields
    <2> QED BY <1>4, <2>1, <2>2
  <1>6. ASSUME NEW p \in ClaudeTells PROVE Fine(p)
    <2> DEFINE stopped == [stdout |-> TRUE, output |-> shell.output, interrupted |-> TRUE]
               over == [stdout |-> TRUE, output |-> shell.output, interrupted |-> FALSE]
    <2>1. \/ p = Payload("PostToolUse", Object(stopped), {}) \/ p = Payload("PostToolUse", Object(over), {})
          \/ \E code : p = Payload("PostToolUseFailure", Text, code)
      BY DEF ClaudeTells
    <2>2. stopped.output = shell.output /\ over.output = shell.output
      OBVIOUS
    <2> HIDE DEF stopped, over
    <2> QED BY <1>2, <1>4, <2>1, <2>2
  <1>7. ASSUME NEW p \in GrokTells PROVE Fine(p)
    <2> DEFINE fields == IF shell.interrupted THEN [output |-> shell.output, interrupted |-> TRUE]
                         ELSE [output |-> shell.output, interrupted |-> FALSE, exit_code |-> shell.status]
    <2>1. p \in {Payload("PostToolUse", Object(fields), {}), Payload("PostToolUse", Text, {})}
      BY DEF GrokTells
    <2>2. fields.output = shell.output
      OBVIOUS
    <2> HIDE DEF fields
    <2> QED BY <1>3, <1>4, <2>1, <2>2
  <1>8. \E p : payload' = [agent |-> agent, told |-> p] /\ Fine(p)
    <2>1. CASE stage = "ended"
      <3>1. PICK p \in IF agent = "claude" THEN ClaudeTells ELSE GrokTells : payload' = [agent |-> agent, told |-> p]
        BY <2>1 DEF Tell
      <3>2. Fine(p)
        BY <1>6, <1>7, <3>1
      <3> QED BY <3>1, <3>2
    <2>2. CASE stage # "ended"
      BY <1>5, <2>2 DEF Tell
    <2> QED BY <2>1, <2>2
  <1> QED BY <1>8 DEF Fine

LEMMA OutputInit == Init => OutputInv
  BY TextEmpty DEF Init, OutputInv

LEMMA OutputStep == TypeInv /\ RunInv /\ OutputInv /\ [Next]_vars => OutputInv'
  <1> SUFFICES ASSUME TypeInv, RunInv, OutputInv, [Next]_vars PROVE OutputInv'
    OBVIOUS
  <1>0. ShellShape /\ dialect \in Dialect /\ shell.tests \in Seq(Verdicts) /\ IsText(shell.output, Failing)
    BY DEF TypeInv, RunInv, OutputInv
  <1>1. ASSUME (shell').output = shell.output, (shell').tests = shell.tests, (shell').otherRed = shell.otherRed,
               stage' \notin {"told", "read"} \/ (stage \in {"told", "read"} /\ payload' = payload)
        PROVE  OutputInv'
    <2>1. Failing' = Failing
      BY <1>1 DEF Failing
    <2> QED BY <1>1, <2>1 DEF OutputInv
  <1>2. CASE TypePhrase \/ TypeLink
    BY <1>1, <1>2 DEF TypePhrase, TypeLink, Type
  <1>3. CASE Start
    <2>1. (shell').output = shell.output /\ (shell').tests = shell.tests /\ (shell').otherRed = shell.otherRed
      BY <1>0, <1>3 DEF Start, ShellShape, Fields
    <2> QED BY <1>1, <1>3, <2>1 DEF Start
  <1>4. CASE SkipCommand
    <2>1. (shell').output = shell.output /\ (shell').tests = shell.tests /\ (shell').otherRed = shell.otherRed
      BY <1>0, <1>4, OutputSteps
    <2> QED BY <1>1, <1>4, <2>1 DEF SkipCommand, Running
  <1>5. CASE RunOther
    <2>1. PICK more : /\ \E fails : IsText(more, fails) /\ (fails # {} => (shell').otherRed = TRUE)
                      /\ shell.otherRed = TRUE => (shell').otherRed = TRUE
                      /\ (shell').output = shell.output \o more /\ (shell').tests = shell.tests
      BY <1>0, <1>5, OutputSteps, Zenon
    <2>2. PICK fails : IsText(more, fails) /\ (fails # {} => (shell').otherRed = TRUE)
      BY <2>1
    <2>3. Failing \subseteq Failing' /\ ((shell').otherRed = TRUE => 0 \in Failing')
      BY <2>1 DEF Failing
    <2>4. (Failing # {} => Failing' # {}) /\ (fails # {} => Failing' # {})
      BY <2>2, <2>3
    <2>5. IsText(shell.output, Failing') /\ IsText(more, Failing')
      <3> HIDE DEF Failing
      <3> QED BY <1>0, <2>2, <2>4, TextWeaker
    <2>6. IsText((shell').output, Failing')
      BY <2>1, <2>5, TextConcat
    <2> QED BY <1>5, <2>6 DEF OutputInv, RunOther, Running
  <1>6. CASE RunTests
    <2>1. PICK more, test : /\ \E fails : IsText(more, fails) /\ (fails # {} => test.failing)
                            /\ (shell').output = shell.output \o more
                            /\ (shell').tests = Append(shell.tests, test)
                            /\ (shell').otherRed = shell.otherRed
      BY <1>0, <1>6, OutputSteps, Zenon
    <2>2. PICK fails : IsText(more, fails) /\ (fails # {} => test.failing)
      BY <2>1
    <2>3. /\ DOMAIN Append(shell.tests, test) = 1 .. Len(shell.tests) + 1
          /\ \A i \in 1 .. Len(shell.tests) : Append(shell.tests, test)[i] = shell.tests[i]
          /\ Append(shell.tests, test)[Len(shell.tests) + 1] = test
          /\ Len(shell.tests) \in Nat /\ DOMAIN shell.tests = 1 .. Len(shell.tests)
      BY <1>0
    <2>4. Failing \subseteq Failing' /\ (test.failing => Len(shell.tests) + 1 \in Failing')
      BY <2>1, <2>3 DEF Failing
    <2>5. IsText(shell.output, Failing') /\ IsText(more, Failing')
      <3>1. (Failing # {} => Failing' # {}) /\ (fails # {} => Failing' # {})
        BY <2>2, <2>4
      <3> QED BY <1>0, <2>2, <3>1, TextWeaker
    <2>6. IsText((shell').output, Failing')
      BY <2>1, <2>5, TextConcat
    <2> QED BY <1>6, <2>6 DEF OutputInv, RunTests, Running
  <1>7. CASE End
    BY <1>1, <1>7 DEF End
  <1>8. CASE Interrupt
    <2>1. (shell').output = shell.output /\ (shell').tests = shell.tests /\ (shell').otherRed = shell.otherRed
      BY <1>0, <1>8 DEF Interrupt, ShellShape, Fields
    <2> QED BY <1>1, <1>8, <2>1 DEF Interrupt
  <1>9. CASE \E agent \in Agent : Tell(agent)
    <2>1. PICK agent \in Agent : Tell(agent)
      BY <1>9
    <2>2. shell' = shell
      BY <2>1 DEF Tell
    <2>3. BashResult((payload').told, (payload').agent).output \in {shell.output, <<>>}
      BY <2>1, ToldAsPrinted
    <2>4. Failing' = Failing
      BY <2>2 DEF Failing
    <2> QED BY <1>0, <2>2, <2>3, <2>4 DEF OutputInv
  <1>10. CASE Read
    BY <1>1, <1>10 DEF Read
  <1>11. CASE UNCHANGED vars
    BY <1>1, <1>11 DEF vars
  <1> QED BY <1>2, <1>3, <1>4, <1>5, <1>6, <1>7, <1>8, <1>9, <1>10, <1>11 DEF Next

\* Counts that say a number failed only if something did.
Fine(c, red) == \A n \in c.failed : n > 0 => red # {}
Sure(counts, red) == \A c \in counts : Fine(c, red)

LEMMA CapFacts ==
  ASSUME NEW n \in Nat
  PROVE  Cap(n) \in Nat /\ (Cap(n) > 0 => n > 0)
  BY CountAssumption DEF Cap

LEMMA NumFacts ==
  ASSUME NEW line, NEW red, Tells(line, red), NEW kind
  PROVE  /\ Num(line, kind) \in Nat
         /\ Num(line, kind) > 0 => kind \in DOMAIN line.n /\ line.n[kind] > 0
  <1>1. CASE kind \in DOMAIN line.n
    <2>1. line.n[kind] \in Nat
      BY <1>1 DEF Tells
    <2> QED BY <1>1, <2>1, CapFacts DEF Num
  <1>2. CASE kind \notin DOMAIN line.n
    BY <1>2 DEF Num
  <1> QED BY <1>1, <1>2

LEMMA SumFacts ==
  ASSUME NEW line, NEW red, Tells(line, red), NEW kinds \in SUBSET Bad, IsFiniteSet(kinds)
  PROVE  SumOf(line, kinds) > 0 => red # {}
  <1> SUFFICES ASSUME SumOf(line, kinds) > 0 PROVE red # {}
    OBVIOUS
  <1> DEFINE fun == [k \in kinds |-> Num(line, k)]
  <1>1. fun \in [kinds -> Nat] /\ \A k \in kinds : fun[k] = Num(line, k)
    BY NumFacts
  <1>2. SumOf(line, kinds) = Cap(SumFunction(fun))
    BY DEF SumOf
  <1> HIDE DEF fun
  <1>3. SumFunction(fun) \in Nat /\ (SumFunction(fun) > 0 <=> \E k \in kinds : fun[k] > 0)
    BY <1>1, SumPositive
  <1>4. SumFunction(fun) > 0
    BY <1>2, <1>3, CapFacts
  <1>5. PICK k \in kinds : Num(line, k) > 0
    BY <1>1, <1>3, <1>4
  <1>6. k \in Bad /\ k \in DOMAIN line.n /\ line.n[k] > 0
    BY <1>5, NumFacts
  <1> QED BY <1>6 DEF Tells, IsRed

\* Few kinds are finitely many.
LEMMA FewKinds == \A a, b : IsFiniteSet({}) /\ IsFiniteSet({a}) /\ IsFiniteSet({a, b})
  <1> SUFFICES ASSUME NEW a, NEW b PROVE IsFiniteSet({}) /\ IsFiniteSet({a}) /\ IsFiniteSet({a, b})
    OBVIOUS
  <1>1. IsFiniteSet({}) /\ IsFiniteSet({a})
    BY FS_EmptySet, FS_Singleton
  <1>2. {a} \cup {b} = {a, b}
    OBVIOUS
  <1> QED BY <1>1, <1>2, FS_AddElement

\* Counts made of a line that tells.
LEMMA KindsSure ==
  ASSUME NEW line, NEW red, Tells(line, red), NEW failed \in SUBSET Bad, IsFiniteSet(failed)
  PROVE  \A passed, skipped, total :
            /\ Fine(Kinds(line, passed, failed, skipped), red)
            /\ Fine(OfTotal(line, total, failed, skipped), red)
  <1> SUFFICES ASSUME NEW passed, NEW skipped, NEW total
               PROVE  /\ Fine(Kinds(line, passed, failed, skipped), red)
                      /\ Fine(OfTotal(line, total, failed, skipped), red)
    OBVIOUS
  <1>1. SumOf(line, failed) > 0 => red # {}
    BY SumFacts
  <1>2. \A p, f, s : Counts(p, f, s).failed = {f}
    BY DEF Counts
  <1>3. Kinds(line, passed, failed, skipped).failed = {SumOf(line, failed)}
    BY <1>2, Zenon DEF Kinds
  <1>4. OfTotal(line, total, failed, skipped).failed = {SumOf(line, failed)}
    BY <1>2, Zenon DEF OfTotal
  <1>5. ASSUME NEW c, c.failed = {SumOf(line, failed)} PROVE Fine(c, red)
    BY <1>1, <1>5 DEF Fine
  <1> QED BY <1>3, <1>4, <1>5

LEMMA ElseSure ==
  ASSUME NEW S, NEW T, NEW red, Sure(S, red), Sure(T, red)
  PROVE  Sure(OrElse(S, T), red)
  BY DEF OrElse

LEMMA UptoFinite ==
  ASSUME NEW n \in Nat
  PROVE  \A T \in SUBSET (1 .. n) :
            /\ IsFiniteSet(T)
            /\ T # {} => Max(T) \in T
  <1>1. IsFiniteSet(1 .. n)
    BY FS_Interval
  <1>2. ASSUME NEW T \in SUBSET (1 .. n) PROVE IsFiniteSet(T)
    BY <1>1, FS_Subset
  <1>3. ASSUME NEW T \in SUBSET (1 .. n), T # {} PROVE Max(T) \in T
    <2>1. T \in SUBSET Nat /\ \A x \in T : x <= n
      OBVIOUS
    <2>2. PICK m \in T : \A x \in T : x <= m
      BY <1>3, <2>1, GreatestNumber
    <2> QED BY <2>1, <2>2, MaxIs
  <1> QED BY <1>2, <1>3

\* The line that stands for several tells what one of them does.
LEMMA LinesTell ==
  ASSUME NEW text, NEW red, IsText(text, red), NEW form, form # "go test"
  PROVE  \A line \in LastLine(text, form) \cup AddUp(text, form) \cup LastOfKind(text, form) : Tells(line, red)
  <1> DEFINE at == At(text, form)
             kinds == KindsAt(text, form)
  <1>1. Len(text) \in Nat /\ DOMAIN text = 1 .. Len(text) /\ \A i \in DOMAIN text : Tells(text[i], red)
    BY TextLines
  <1>2. at \subseteq DOMAIN text /\ \A i \in at : text[i].form = form /\ Tells(text[i], red)
    BY <1>1 DEF At
  <1>a. PICK n \in Nat : n = Len(text)
    BY <1>1
  <1>b. at \in SUBSET (1 .. n)
    BY <1>1, <1>2, <1>a
  <1>3. IsFiniteSet(at)
    <2> HIDE DEF at
    <2> QED BY <1>b, UptoFinite
  <1>4. ASSUME NEW T \in SUBSET at, T # {} PROVE Max(T) \in T
    <2> HIDE DEF at
    <2> QED BY <1>b, <1>4, UptoFinite
  <1>5. ASSUME NEW line \in LastLine(text, form) PROVE Tells(line, red)
    <2>1. at # {} /\ line = text[Max(at)]
      BY <1>5 DEF LastLine
    <2> QED BY <1>2, <1>4, <2>1
  <1>6. ASSUME NEW line \in AddUp(text, form) PROVE Tells(line, red)
    <2> DEFINE Sum(k) == SumFunction([i \in at |-> Num(text[i], k)])
               total == [k \in kinds |-> Cap(Sum(k))]
    <2>1. line = Line(form, total)
      BY <1>6 DEF AddUp, Line
    <2>2. ASSUME NEW k PROVE Sum(k) \in Nat /\ (Sum(k) > 0 => \E i \in at : Num(text[i], k) > 0)
      <3> DEFINE fun == [i \in at |-> Num(text[i], k)]
      <3>1. fun \in [at -> Nat] /\ \A i \in at : fun[i] = Num(text[i], k)
        BY <1>2, NumFacts
      <3> HIDE DEF fun, at
      <3>2. SumFunction(fun) \in Nat /\ (SumFunction(fun) > 0 <=> \E i \in at : fun[i] > 0)
        BY <1>3, <3>1, SumPositive
      <3> QED BY <3>1, <3>2 DEF fun
    <2> HIDE DEF Sum, at
    <2>3. ASSUME NEW k \in DOMAIN total PROVE total[k] \in Nat /\ (k \in Bad /\ total[k] > 0 => red # {})
      <3>1. total[k] = Cap(Sum(k))
        BY <2>3
      <3> HIDE DEF total
      <3>2. total[k] \in Nat /\ (total[k] > 0 => Sum(k) > 0)
        BY <2>2, <3>1, CapFacts
      <3>3. ASSUME k \in Bad, total[k] > 0 PROVE red # {}
        <4>1. PICK i \in at : Num(text[i], k) > 0
          BY <2>2, <3>2, <3>3
        <4>2. Tells(text[i], red) /\ k \in DOMAIN text[i].n /\ text[i].n[k] > 0
          BY <1>2, <4>1, NumFacts
        <4> QED BY <3>3, <4>2 DEF Tells, IsRed
      <3> QED BY <3>2, <3>3
    <2> HIDE DEF total
    <2>4. Tells(Line(form, total), red)
      BY <2>3, LineTells, Zenon
    <2> QED BY <2>1, <2>4
  <1>7. ASSUME NEW line \in LastOfKind(text, form) PROVE Tells(line, red)
    <2> DEFINE with(k) == {i \in at : k \in DOMAIN text[i].n}
               last == [k \in kinds |-> text[Max(with(k))].n[k]]
    <2>1. line = Line(form, last)
      BY <1>7 DEF LastOfKind, Line
    <2>2. ASSUME NEW k \in DOMAIN last PROVE last[k] \in Nat /\ (k \in Bad /\ last[k] > 0 => red # {})
      <3> DEFINE m == Max(with(k))
      <3>1. last[k] = text[m].n[k] /\ k \in kinds
        BY <2>2
      <3>2. with(k) # {} /\ with(k) \in SUBSET at
        BY <3>1 DEF KindsAt
      <3>3. m \in at /\ k \in DOMAIN text[m].n
        <4> DEFINE W == with(k)
        <4>1. \A i \in W : i \in at /\ k \in DOMAIN text[i].n
          OBVIOUS
        <4> HIDE DEF W
        <4>2. Max(W) \in W
          BY <1>4, <3>2 DEF W
        <4> QED BY <4>1, <4>2 DEF W
      <3> HIDE DEF last, m
      <3>4. Tells(text[m], red)
        BY <1>2, <3>3
      <3> QED BY <3>1, <3>3, <3>4 DEF Tells, IsRed
    <2> HIDE DEF last
    <2>3. Tells(Line(form, last), red)
      BY <2>2, LineTells, Zenon
    <2> QED BY <2>1, <2>3
  <1> QED BY <1>5, <1>6, <1>7

\* What is made of a line of one form.
LEMMA FormSure ==
  ASSUME NEW text, NEW red, IsText(text, red), NEW form, form # "go test",
         NEW line \in LastLine(text, form) \cup AddUp(text, form) \cup LastOfKind(text, form)
  PROVE  \A failed \in {{}, {"failed"}, {"failing"}, {"fail", "cancelled"}, {"failures"}, {"failed", "interrupted"},
                         {"failed", "errors"}, {"failed", "timed out"}, {"Errors", "Failures"}, {"failures", "errors"}} :
         \A passed, skipped, total :
            /\ Fine(Kinds(line, passed, failed, skipped), red)
            /\ Fine(OfTotal(line, total, failed, skipped), red)
  <1>1. ASSUME NEW failed \in {{}, {"failed"}, {"failing"}, {"fail", "cancelled"}, {"failures"}, {"failed", "interrupted"},
                         {"failed", "errors"}, {"failed", "timed out"}, {"Errors", "Failures"}, {"failures", "errors"}}
        PROVE  failed \in SUBSET Bad /\ IsFiniteSet(failed)
    <2>1. failed \in SUBSET Bad
      BY DEF Bad
    <2>2. IsFiniteSet(failed)
      BY FewKinds
    <2> QED BY <2>1, <2>2
  <1>2. Tells(line, red)
    BY LinesTell
  <1> QED BY <1>1, <1>2, KindsSure

\* Every parser makes counts of lines that tell.
LEMMA ParsersSure ==
  ASSUME NEW text, NEW red, IsText(text, red)
  PROVE  /\ Sure(ParseJest(text), red) /\ Sure(ParseVitest(text), red) /\ Sure(ParseMocha(text), red)
         /\ Sure(ParseNode(text), red) /\ Sure(ParseRspec(text), red) /\ Sure(ParsePlaywright(text), red)
         /\ Sure(ParseCypress(text), red) /\ Sure(ParsePytest(text), red) /\ Sure(ParseCargo(text), red)
         /\ Sure(ParsePhpunit(text), red) /\ Sure(ParseJvm(text), red)
  <1>1. Sure(ParseJest(text), red)
    <2> DEFINE lines == LastLine(text, "jest")
    <2>1. lines \subseteq LastLine(text, "jest") \cup AddUp(text, "jest") \cup LastOfKind(text, "jest")
      OBVIOUS
    <2> HIDE DEF lines
    <2>2. \A l \in lines : Fine(Kinds(l, {"passed"}, {"failed"}, {"skipped", "todo"}), red)
      BY <2>1, FormSure
    <2> QED BY <2>2 DEF Sure, ParseJest, lines
  <1>2. Sure(ParseVitest(text), red)
    <2> DEFINE lines == {l \in LastLine(text, "vitest") : DOMAIN l.n # {}}
    <2>1. lines \subseteq LastLine(text, "vitest") \cup AddUp(text, "vitest") \cup LastOfKind(text, "vitest")
      OBVIOUS
    <2> HIDE DEF lines
    <2>2. \A l \in lines : Fine(Kinds(l, {"passed"}, {"failed"}, {"skipped", "todo"}), red)
      BY <2>1, FormSure
    <2> QED BY <2>2 DEF Sure, ParseVitest, lines
  <1>3. Sure(ParseMocha(text), red)
    <2> DEFINE lines == {l \in LastOfKind(text, "mocha") : Says(l, {"passing"})}
    <2>1. lines \subseteq LastLine(text, "mocha") \cup AddUp(text, "mocha") \cup LastOfKind(text, "mocha")
      OBVIOUS
    <2> HIDE DEF lines
    <2>2. \A l \in lines : Fine(Kinds(l, {"passing"}, {"failing"}, {"pending"}), red)
      BY <2>1, FormSure
    <2> QED BY <2>2 DEF Sure, ParseMocha, lines
  <1>4. Sure(ParseNode(text), red)
    <2> DEFINE lines == {l \in LastOfKind(text, "node") : Says(l, {"pass", "fail"})}
    <2>1. lines \subseteq LastLine(text, "node") \cup AddUp(text, "node") \cup LastOfKind(text, "node")
      OBVIOUS
    <2> HIDE DEF lines
    <2>2. \A l \in lines : Fine(Kinds(l, {"pass"}, {"fail", "cancelled"}, {"skipped", "todo"}), red)
      BY <2>1, FormSure
    <2> QED BY <2>2 DEF Sure, ParseNode, lines
  <1>5. Sure(ParseRspec(text), red)
    <2> DEFINE lines == LastLine(text, "rspec")
    <2>1. lines \subseteq LastLine(text, "rspec") \cup AddUp(text, "rspec") \cup LastOfKind(text, "rspec")
      OBVIOUS
    <2> HIDE DEF lines
    <2>2. \A l \in lines : Fine(OfTotal(l, "examples", {"failures"}, {"pending"}), red)
      BY <2>1, FormSure
    <2> QED BY <2>2 DEF Sure, ParseRspec, lines
  <1>6. Sure(ParsePlaywright(text), red)
    <2> DEFINE lines == {l \in LastOfKind(text, "playwright") : Says(l, {"passed", "failed"})}
    <2>1. lines \subseteq LastLine(text, "playwright") \cup AddUp(text, "playwright") \cup LastOfKind(text, "playwright")
      OBVIOUS
    <2> HIDE DEF lines
    <2>2. \A l \in lines : Fine(Kinds(l, {"passed", "flaky"}, {"failed", "interrupted"}, {"skipped", "did not run"}), red)
      BY <2>1, FormSure
    <2> QED BY <2>2 DEF Sure, ParsePlaywright, lines
  <1>7. Sure(ParseCypress(text), red)
    <2> DEFINE lines == {l \in AddUp(text, "cypress") : Says(l, {"passing"}) /\ Says(l, {"failing"})}
    <2>1. lines \subseteq LastLine(text, "cypress") \cup AddUp(text, "cypress") \cup LastOfKind(text, "cypress")
      OBVIOUS
    <2> HIDE DEF lines
    <2>2. \A l \in lines : Fine(Kinds(l, {"passing"}, {"failing"}, {"pending", "skipped"}), red)
      BY <2>1, FormSure
    <2> QED BY <2>2 DEF Sure, ParseCypress, lines
  <1>8. Sure(ParseCargo(text), red)
    <2> DEFINE A == {Kinds(l, {"passed", "flaky"}, {"failed", "timed out"}, {"skipped"}) : l \in LastLine(text, "nextest")}
    <2> DEFINE B == {Kinds(l, {"passed"}, {"failed"}, {"ignored"}) : l \in AddUp(text, "cargo")}
    <2>1. Sure(A, red)
      <3> DEFINE lines == LastLine(text, "nextest")
      <3>1. lines \subseteq LastLine(text, "nextest") \cup AddUp(text, "nextest") \cup LastOfKind(text, "nextest")
        OBVIOUS
      <3> HIDE DEF lines
      <3>2. \A l \in lines : Fine(Kinds(l, {"passed", "flaky"}, {"failed", "timed out"}, {"skipped"}), red)
        BY <3>1, FormSure
      <3> QED BY <3>2 DEF Sure, lines
    <2>2. Sure(B, red)
      <3> DEFINE lines == AddUp(text, "cargo")
      <3>1. lines \subseteq LastLine(text, "cargo") \cup AddUp(text, "cargo") \cup LastOfKind(text, "cargo")
        OBVIOUS
      <3> HIDE DEF lines
      <3>2. \A l \in lines : Fine(Kinds(l, {"passed"}, {"failed"}, {"ignored"}), red)
        BY <3>1, FormSure
      <3> QED BY <3>2 DEF Sure, lines
    <2> HIDE DEF A, B
    <2>3. Sure(OrElse(A, B), red)
      BY <2>1, <2>2, ElseSure
    <2> QED BY <2>3 DEF ParseCargo, A, B
  <1>9. Sure(ParsePhpunit(text), red)
    <2> DEFINE A == {Kinds(l, {"passed"}, {"failed"}, {"skipped", "incomplete", "todo"}) : l \in LastLine(text, "pest")}
    <2> DEFINE B == {OfTotal(l, "tests", {"Errors", "Failures"}, {"Skipped", "Incomplete"}) : l \in LastLine(text, "phpunit")}
    <2> DEFINE C == {Kinds(l, {"tests"}, {}, {}) : l \in LastLine(text, "phpunit ok")}
    <2>1. Sure(A, red)
      <3> DEFINE lines == LastLine(text, "pest")
      <3>1. lines \subseteq LastLine(text, "pest") \cup AddUp(text, "pest") \cup LastOfKind(text, "pest")
        OBVIOUS
      <3> HIDE DEF lines
      <3>2. \A l \in lines : Fine(Kinds(l, {"passed"}, {"failed"}, {"skipped", "incomplete", "todo"}), red)
        BY <3>1, FormSure
      <3> QED BY <3>2 DEF Sure, lines
    <2>2. Sure(B, red)
      <3> DEFINE lines == LastLine(text, "phpunit")
      <3>1. lines \subseteq LastLine(text, "phpunit") \cup AddUp(text, "phpunit") \cup LastOfKind(text, "phpunit")
        OBVIOUS
      <3> HIDE DEF lines
      <3>2. \A l \in lines : Fine(OfTotal(l, "tests", {"Errors", "Failures"}, {"Skipped", "Incomplete"}), red)
        BY <3>1, FormSure
      <3> QED BY <3>2 DEF Sure, lines
    <2>3. Sure(C, red)
      <3> DEFINE lines == LastLine(text, "phpunit ok")
      <3>1. lines \subseteq LastLine(text, "phpunit ok") \cup AddUp(text, "phpunit ok") \cup LastOfKind(text, "phpunit ok")
        OBVIOUS
      <3> HIDE DEF lines
      <3>2. \A l \in lines : Fine(Kinds(l, {"tests"}, {}, {}), red)
        BY <3>1, FormSure
      <3> QED BY <3>2 DEF Sure, lines
    <2> HIDE DEF A, B, C
    <2>4. Sure(OrElse(A, OrElse(B, C)), red)
      BY <2>1, <2>2, <2>3, ElseSure
    <2> QED BY <2>4 DEF ParsePhpunit, A, B, C
  <1>10. Sure(ParseJvm(text), red)
    <2> DEFINE A == {OfTotal(l, "run", {"failures", "errors"}, {"skipped"}) : l \in LastLine(text, "maven")}
    <2> DEFINE B == {OfTotal(l, "completed", {"failed"}, {"skipped"}) : l \in LastLine(text, "gradle")}
    <2>1. Sure(A, red)
      <3> DEFINE lines == LastLine(text, "maven")
      <3>1. lines \subseteq LastLine(text, "maven") \cup AddUp(text, "maven") \cup LastOfKind(text, "maven")
        OBVIOUS
      <3> HIDE DEF lines
      <3>2. \A l \in lines : Fine(OfTotal(l, "run", {"failures", "errors"}, {"skipped"}), red)
        BY <3>1, FormSure
      <3> QED BY <3>2 DEF Sure, lines
    <2>2. Sure(B, red)
      <3> DEFINE lines == LastLine(text, "gradle")
      <3>1. lines \subseteq LastLine(text, "gradle") \cup AddUp(text, "gradle") \cup LastOfKind(text, "gradle")
        OBVIOUS
      <3> HIDE DEF lines
      <3>2. \A l \in lines : Fine(OfTotal(l, "completed", {"failed"}, {"skipped"}), red)
        BY <3>1, FormSure
      <3> QED BY <3>2 DEF Sure, lines
    <2> HIDE DEF A, B
    <2>3. Sure(OrElse(A, B), red)
      BY <2>1, <2>2, ElseSure
    <2> QED BY <2>3 DEF ParseJvm, A, B
  <1>11. Sure(ParsePytest(text), red)
    <2> DEFINE either == OrElse(LastLine(text, "pytest"), LastLine(text, "pytest -q"))
               lines == {l \in either : DOMAIN l.n # {}}
    <2>1. \A l \in LastLine(text, "pytest") \cup LastLine(text, "pytest -q") : Tells(l, red)
      BY LinesTell
    <2>2. \A l \in lines : Tells(l, red)
      BY <2>1 DEF OrElse
    <2> HIDE DEF lines
    <2>3. {"failed", "errors"} \in SUBSET Bad /\ IsFiniteSet({"failed", "errors"})
      BY FewKinds DEF Bad
    <2>4. \A l \in lines : Fine(Kinds(l, {"passed"}, {"failed", "errors"}, {"skipped"}), red)
      BY <2>2, <2>3, KindsSure
    <2> QED BY <2>4 DEF Sure, ParsePytest, lines
  <1> QED BY <1>1, <1>2, <1>3, <1>4, <1>5, <1>6, <1>7, <1>8, <1>9, <1>10, <1>11

LEMMA GoSure ==
  ASSUME NEW text, NEW red, IsText(text, red)
  PROVE  Sure(ParseGo(text), red)
  <1> DEFINE Tests(kind) == Cap(Cardinality({i \in At(text, "go test") : Says(text[i], {kind})}))
             failing == {i \in At(text, "go test") : Says(text[i], {"FAIL"})}
  <1>1. /\ Len(text) \in Nat /\ DOMAIN text = 1 .. Len(text) /\ \A i \in DOMAIN text : Tells(text[i], red)
    BY TextLines
  <1>a. PICK n \in Nat : n = Len(text)
    BY <1>1
  <1>2. failing \in SUBSET (1 .. n)
    BY <1>1, <1>a DEF At
  <1>3. \A i \in failing : Tells(text[i], red) /\ IsRed(text[i])
    BY <1>1 DEF At, Says, IsRed
  <1>4. Tests("FAIL") > 0 => red # {}
    <2>1. Tests("FAIL") = Cap(Cardinality(failing))
      OBVIOUS
    <2> HIDE DEF failing, Tests
    <2>2. IsFiniteSet(failing)
      BY <1>2, UptoFinite
    <2>3. Cardinality(failing) \in Nat /\ (Cardinality(failing) = 0 <=> failing = {})
      BY <2>2, FS_CardinalityType, FS_EmptySet
    <2>4. ASSUME failing # {} PROVE red # {}
      <3>1. PICK i \in failing : TRUE
        BY <2>4
      <3> QED BY <1>3, <3>1 DEF Tells
    <2>5. Tests("FAIL") > 0 => Cardinality(failing) > 0
      BY <2>1, <2>3, CapFacts
    <2> QED BY <2>3, <2>4, <2>5
  <1>5. ASSUME NEW c \in ParseGo(text) PROVE c.failed \in {{}, {Tests("FAIL")}}
    <2>1. \E passed, skipped : \/ c = [passed |-> passed, failed |-> {}, skipped |-> skipped]
                               \/ c = [passed |-> passed, failed |-> {Tests("FAIL")}, skipped |-> skipped]
      <3> HIDE DEF Tests
      <3> DEFINE packages == At(text, "go package")
                 unbuilt == Tests("FAIL") = 0 /\ \E i \in packages : Says(text[i], {"FAIL"})
                 verbose == Tests("PASS") > 0
      <3>1. ParseGo(text) = IF packages = {} /\ Tests("FAIL") = 0 /\ ~verbose THEN {}
                            ELSE {[passed |-> IF verbose THEN {Tests("PASS")} ELSE {},
                                   failed |-> IF unbuilt THEN {} ELSE {Tests("FAIL")},
                                   skipped |-> IF verbose THEN {Tests("SKIP")} ELSE {}]}
        BY Zenon DEF ParseGo, Tests
      <3> HIDE DEF unbuilt, verbose, packages
      <3>2. c = [passed |-> IF verbose THEN {Tests("PASS")} ELSE {},
                 failed |-> IF unbuilt THEN {} ELSE {Tests("FAIL")},
                 skipped |-> IF verbose THEN {Tests("SKIP")} ELSE {}]
        BY <1>5, <3>1
      <3> QED BY <3>2
    <2> HIDE DEF Tests
    <2> QED BY <2>1
  <1> HIDE DEF Tests
  <1>6. ASSUME NEW c \in ParseGo(text) PROVE Fine(c, red)
    BY <1>4, <1>5 DEF Fine
  <1> QED BY <1>6 DEF Sure

LEMMA NoFields == DOMAIN <<>> = {}
  <1> DEFINE e == <<>>
  <1>1. e \in Seq({}) /\ Len(e) = 0
    OBVIOUS
  <1> HIDE DEF e
  <1>2. DOMAIN e = 1 .. 0
    BY <1>1, LenProperties
  <1> QED BY <1>2 DEF e

LEMMA DotnetSure ==
  ASSUME NEW text, NEW red, IsText(text, red)
  PROVE  Sure(ParseDotnet(text), red)
  <1> DEFINE totals == At(text, "dotnet total")
             after == From(text, Max(totals))
             new == {Kinds(l, {"passed"}, {"failed"}, {"skipped"}) : l \in AddUp(text, "dotnet")}
             lines == OrElse(LastOfKind(after, "dotnet old"), {[form |-> "dotnet old", n |-> <<>>]})
             old == IF totals = {} THEN {}
                    ELSE {[Kinds(l, {"passed"}, {"failed"}, {"skipped"})
                             EXCEPT !.passed = IF Says(l, {"passed"}) THEN @ ELSE {}] : l \in lines}
  <1>1. /\ Len(text) \in Nat /\ DOMAIN text = 1 .. Len(text)
    BY TextLines
  <1>a. PICK n \in Nat : n = Len(text)
    BY <1>1
  <1>2. totals \in SUBSET (1 .. n)
    BY <1>1, <1>a DEF At
  <1>3. Sure(new, red)
    <2>1. \A l \in AddUp(text, "dotnet") : Fine(Kinds(l, {"passed"}, {"failed"}, {"skipped"}), red)
      BY FormSure
    <2> QED BY <2>1 DEF Sure
  <1>4. ASSUME totals # {} PROVE Sure(old, red)
    <2>1. Max(totals) \in 1 .. Len(text)
      <3> HIDE DEF totals
      <3> QED BY <1>a, <1>2, <1>4, UptoFinite
    <2>2. IsText(after, red)
      <3> HIDE DEF totals
      <3> QED BY <2>1, TextFrom
    <2>3. ASSUME NEW l \in lines PROVE Tells(l, red)
      <3>1. CASE l \in LastOfKind(after, "dotnet old")
        <4> HIDE DEF after
        <4> QED BY <2>2, <3>1, LinesTell
      <3>2. CASE l = [form |-> "dotnet old", n |-> <<>>]
        <4>1. l.form # "go test" /\ l.n = <<>>
          BY <3>2
        <4>2. DOMAIN l.n = {}
          BY <4>1, NoFields, Zenon
        <4> QED BY <4>1, <4>2 DEF Tells, IsRed
      <3> HIDE DEF after
      <3> QED BY <2>3, <3>1, <3>2 DEF OrElse
    <2> HIDE DEF lines
    <2>4. {"failed"} \in SUBSET Bad /\ IsFiniteSet({"failed"})
      BY FewKinds DEF Bad
    <2>5. ASSUME NEW l \in lines
          PROVE  Fine([Kinds(l, {"passed"}, {"failed"}, {"skipped"})
                         EXCEPT !.passed = IF Says(l, {"passed"}) THEN @ ELSE {}], red)
      <3> DEFINE c == Kinds(l, {"passed"}, {"failed"}, {"skipped"})
                 d == [c EXCEPT !.passed = IF Says(l, {"passed"}) THEN c.passed ELSE {}]
      <3>1. Fine(c, red)
        BY <2>3, <2>4, KindsSure
      <3>2. d.failed = c.failed
        BY DEF Kinds, Counts
      <3>3. Fine(d, red)
        <4> HIDE DEF c, d
        <4> QED BY <3>1, <3>2 DEF Fine
      <3> QED BY <3>3
    <2> HIDE DEF totals
    <2> QED BY <1>4, <2>5 DEF Sure
  <1>5. Sure({}, red)
    BY DEF Sure
  <1>6. Sure(old, red)
    <2>1. totals = {} => old = {}
      OBVIOUS
    <2> HIDE DEF old, totals
    <2> QED BY <1>4, <1>5, <2>1
  <1>7. ParseDotnet(text) = OrElse(new, old)
    BY Zenon DEF ParseDotnet
  <1> HIDE DEF new, old
  <1> QED BY <1>3, <1>6, <1>7, ElseSure

Known == {"cypress", "jest", "phpunit", "vitest", "mocha", "node", "pytest", "cargo", "go", "rspec", "dotnet", "jvm",
          "playwright"}

LEMMA ParseSure ==
  ASSUME NEW text, NEW red, IsText(text, red), NEW runner \in Known
  PROVE  Sure(Parse(runner, text), red)
  BY ParsersSure, GoSure, DotnetSure, Zenon DEF Parse, Known

\* A summary says that tests failed only if a line of the output does.
LEMMA SummarySure ==
  ASSUME NEW output, NEW red, IsText(output, red), NEW hint
  PROVE  Sure({s.counts : s \in ParseSummary(hint, output)}, red)
  <1> DEFINE text == Clean(output)
             fit == {i \in DOMAIN Parsers : Parse(Parsers[i], text) # {}}
             runner == IF \E i \in fit : Parsers[i] = hint THEN hint ELSE Parsers[Min(fit)]
             counts == CHOOSE c \in Parse(runner, text) : TRUE
  <1>1. IsText(text, red)
    <2>1. CASE Len(output) > MaxScan
      <3>1. Len(output) - MaxScan + 1 \in 1 .. Len(output)
        BY <2>1, CountAssumption, TextLines
      <3>2. IsText(From(output, Len(output) - MaxScan + 1), red)
        BY <3>1, TextFrom
      <3> QED BY <2>1, <3>2 DEF Clean
    <2>2. CASE ~(Len(output) > MaxScan)
      BY <2>2 DEF Clean
    <2> QED BY <2>1, <2>2
  <1> HIDE DEF text
  <1>2. ParseSummary(hint, output) = IF output = <<>> \/ fit = {} THEN {} ELSE {[runner |-> runner, counts |-> counts]}
    BY Zenon DEF ParseSummary, text
  <1>3. DOMAIN Parsers = 1 .. 13 /\ \A i \in 1 .. 13 : Parsers[i] \in Known
    BY DEF Parsers, Known
  <1>4. ASSUME fit # {} PROVE Fine(counts, red)
    <2>1. \E i \in fit : runner = Parsers[i]
      <3>1. fit \in SUBSET Nat
        BY <1>3
      <3> HIDE DEF fit
      <3>2. Min(fit) \in fit
        <4>1. PICK m \in fit : \A x \in fit : m <= x
          BY <1>4, <3>1, LeastNumber
        <4> QED BY <3>1, <4>1, LeastOf
      <3> QED BY <3>2
    <2> HIDE DEF runner
    <2>2. runner \in Known /\ Parse(runner, text) # {}
      BY <1>3, <2>1
    <2>3. counts \in Parse(runner, text)
      BY <2>2
    <2> HIDE DEF counts, fit
    <2>4. Sure(Parse(runner, text), red)
      BY <1>1, <2>2, ParseSure
    <2> QED BY <2>3, <2>4 DEF Sure
  <1> HIDE DEF counts, fit, runner
  <1>5. CASE output = <<>> \/ fit = {}
    BY <1>2, <1>5 DEF Sure
  <1>6. CASE ~(output = <<>> \/ fit = {})
    <2>1. \A s \in ParseSummary(hint, output) : s.counts = counts
      BY <1>2, <1>6
    <2> QED BY <1>4, <1>6, <2>1 DEF Sure
  <1> QED BY <1>5, <1>6

\* A run that is reported as failed had failures counted.
LEMMA FailedByCounts ==
  ASSUME NEW exit, NEW trust, NEW summary, NEW interrupted, Outcome(exit, trust, summary, interrupted) = "failed"
  PROVE  \E c \in summary : \E n \in c.failed : n > 0
  BY Zenon DEF Outcome, States

LEMMA RedIsRed == TellInv /\ OutputInv => NoFalseRed
  <1> SUFFICES ASSUME TellInv, OutputInv, NEW r \in report, r.outcome = "failed" PROVE Failing # {}
    BY Zenon DEF NoFalseRed, SomeTestFailed, Failing
  <1> DEFINE result == BashResult(payload.told, payload.agent)
             invocation == Detect(command)
             summary == ParseSummary(invocation.runner, result.output)
             counts == {s.counts : s \in summary}
  <1>1. stage = "read" /\ r \in TestRunOf(payload.told, payload.agent) /\ payload.told.input.command = command
    BY DEF TellInv
  <1>2. r.outcome = Outcome(result.exit, invocation.trust, counts, result.interrupted)
    <2>1. r \in RunFrom(result, command, invocation, summary)
      BY <1>1, Zenon DEF TestRunOf
    <2> HIDE DEF result, invocation, summary
    <2> QED BY <2>1 DEF RunFrom
  <1>3. IsText(result.output, Failing)
    <2>1. result.output \in {shell.output, <<>>}
      BY <1>1 DEF OutputInv
    <2>2. IsText(shell.output, Failing)
      BY DEF OutputInv
    <2> HIDE DEF result
    <2> QED BY <2>1, <2>2, TextEmpty
  <1> HIDE DEF result, invocation
  <1>4. Sure(counts, Failing)
    BY <1>3, SummarySure
  <1> HIDE DEF summary, counts
  <1>5. PICK c \in counts : \E n \in c.failed : n > 0
    BY <1>2, FailedByCounts
  <1> QED BY <1>4, <1>5 DEF Sure, Fine

\* No failure is invented, for commands of any length, any runs of tests, with
\* tests that fail and tests, suites or packages that break, whichever runners
\* print, whatever part of it is printed, and logs of whichever other runs: a
\* run is reported as failed only if a test of the command failed or broke, or
\* the log of a failed run was printed beside it.  No parser of testrun.rs
\* (536-903) takes a number for a number of failures that is not one, and outcome
\* (908-924) says "failed" on a number of failures only.
THEOREM NoFailureInvented == Spec => []NoFalseRed
  <1>1. Init => TypeInv /\ TellInv /\ RunInv /\ CommandInv /\ OutputInv
    BY TypeInit, TellInit, RunInit, CommandInit, OutputInit
  <1>2. TypeInv /\ TellInv /\ RunInv /\ CommandInv /\ OutputInv /\ [Next]_vars
           => (TypeInv /\ TellInv /\ RunInv /\ CommandInv /\ OutputInv)'
    BY TypeStep, TellStep, CommandStep, RunStep, OutputStep
  <1>3. TellInv /\ OutputInv => NoFalseRed
    BY RedIsRed
  <1> QED BY <1>1, <1>2, <1>3, PTL DEF Spec
=============================================================================
