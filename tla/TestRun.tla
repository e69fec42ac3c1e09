------------------------------ MODULE TestRun ------------------------------
(***************************************************************************)
(* Test runs (signal/testrun.rs): whether a Bash command runs tests, how   *)
(* far its exit status can be trusted, what the runner says it counted,    *)
(* and the outcome made of the three.  The rule of that file is never to   *)
(* guess "passed".                                                         *)
(*                                                                         *)
(* An output is a sequence of lines.  A line that a pattern of the file    *)
(* matches is a record [form, n]: which pattern, and the numbers it        *)
(* captures by the kind they are printed with.  What may be missing is a   *)
(* set with at most one element.                                           *)
(***************************************************************************)
EXTENDS Shell, FiniteSets, FiniteSetsExt

CONSTANTS
    MaxCount,      \* u32::MAX: counts saturate
    MaxScan        \* the lines of an output that are looked at, its last ones

ASSUME CountAssumption == MaxCount \in Nat /\ MaxScan \in Nat \ {0}

None == "none"

-----------------------------------------------------------------------------
\* classify_words: the runner a simple command starts, "unnamed" if only the
\* output can tell, None if it runs no tests.
\* Programs that are a runner whatever their arguments.
Always == "jest" :> "jest" @@ "mocha" :> "mocha" @@ "_mocha" :> "mocha" @@ "pytest" :> "pytest" @@ "py.test" :> "pytest"
          @@ "tox" :> "other" @@ "nox" :> "other" @@ "rspec" :> "rspec" @@ "phpunit" :> "phpunit" @@ "pest" :> "phpunit"
          @@ "paratest" :> "phpunit"

\* Programs that run tests when their first argument (flags aside) says so.
WhenFirst == "deno" :> ("test" :> "other") @@ "go" :> ("test" :> "go") @@ "rails" :> ("test" :> "other")
             @@ "dotnet" :> ("test" :> "dotnet") @@ "playwright" :> ("test" :> "playwright")
             @@ "cypress" :> ("run" :> "cypress") @@ "rake" :> ("spec" :> "rspec" @@ "test" :> "other")

\* Programs that run tests when one of their goals does.
WhenAny == "mvn" :> [goals |-> {"test", "verify", "install", ":app:test"}, runner |-> "jvm"]
           @@ "mvnw" :> [goals |-> {"test", "verify", "install", ":app:test"}, runner |-> "jvm"]
           @@ "gradle" :> [goals |-> {"test", "check", ":app:test"}, runner |-> "jvm"]
           @@ "gradlew" :> [goals |-> {"test", "check", ":app:test"}, runner |-> "jvm"]
           @@ "make" :> [goals |-> {"test", "check", "tests"}, runner |-> "unnamed"]

Packager == {"npm", "pnpm", "yarn", "bun"}
IsTestScript(program, script) ==
    script \in {"test", "test:unit", "test:e2e"} \/ (program = "npm" /\ script \in {"t", "tst"})

ClassifyPackager(program, args) ==
    LET run == Word(args, 1) \in {"run", "run-script"}
    IN IF program = "bun" /\ ~run /\ Word(args, 1) = "test" THEN "other"
       ELSE IF IsTestScript(program, Word(args, IF run THEN 2 ELSE 1)) THEN "unnamed"
       ELSE None

ClassifyPhp(args) ==
    LET first == Word(Positionals(args), 1)
    IN IF \/ first \in {"phpunit", "pest", "paratest"}
          \/ first = "artisan" /\ Word(Positionals(args), 2) = "test"
       THEN "phpunit" ELSE None

ClassifyCargo(args) ==
    IF Word(args, 1) = "test" \/ (Word(args, 1) = "nextest" /\ Word(args, 2) = "run") THEN "cargo" ELSE None

Classify(ws) ==
    LET program == Word(ws, 1)
        args == From(ws, 2)
        first == Word(Positionals(args), 1)
    IN CASE program \in Packager -> ClassifyPackager(program, args)
         [] program \in DOMAIN Always -> Always[program]
         [] program \in DOMAIN WhenFirst ->
              IF first \in DOMAIN WhenFirst[program] THEN WhenFirst[program][first] ELSE None
         [] program \in DOMAIN WhenAny ->
              IF ToSet(Positionals(args)) \cap WhenAny[program].goals # {} THEN WhenAny[program].runner ELSE None
         [] program = "vitest" -> IF first \in {"bench", "init", "list", "dev", "serve"} THEN None ELSE "vitest"
         [] program = "node" -> IF "--test" \in ToSet(args) THEN "node" ELSE None
         [] program = "cargo" -> ClassifyCargo(SelectSeq(args, LAMBDA a : a # "+nightly"))
         [] program = "php" -> ClassifyPhp(args)
         [] OTHER -> None

IsTest(ws) == Classify(StripWrappers(ws).rest) # None

-----------------------------------------------------------------------------
\* Mutant: only the connector right after the test command counts.
TrustAfterNext(segs) ==
    CASE segs[1].after = NoConnector -> "full" [] segs[1].after = "And" -> "zeroOnly" [] OTHER -> None

\* trust_after: the status is the test's own ("full"), its own if it is 0
\* ("zeroOnly"), or another command's (None).
TrustAfter(segs) ==
    LET after == {segs[i].after : i \in 1..Len(segs)} \ {NoConnector}
    IN CASE after = {} -> "full" [] after = {"And"} -> "zeroOnly" [] OTHER -> None

NotATest == [runner |-> None, trust |-> None]

\* detect_test_command: the first segment that runs tests.
Detect(command) ==
    LET segs == Segments(command)
        tests == {i \in 1..Len(segs) : IsTest(segs[i].words)}
    IN IF tests = {} THEN NotATest
       ELSE LET i == CHOOSE i \in tests : \A j \in tests : i <= j
            IN [runner |-> Classify(StripWrappers(segs[i].words).rest), trust |-> TrustAfter(From(segs, i))]

\* command_key: the command without the assignments before it.
CommandKey(command) == SkipWhile(command, LAMBDA w : w \in Assignment)

-----------------------------------------------------------------------------
\* clean: the end of the output.
Clean(output) == IF Len(output) > MaxScan THEN From(output, Len(output) - MaxScan + 1) ELSE output

Cap(n) == IF n > MaxCount THEN MaxCount ELSE n
Less(n, m) == IF n > m THEN n - m ELSE 0
Num(line, kind) == IF kind \in DOMAIN line.n THEN Cap(line.n[kind]) ELSE 0
SumOf(line, kinds) == Cap(SumFunction([k \in kinds |-> Num(line, k)]))

Counts(passed, failed, skipped) == [passed |-> {passed}, failed |-> {failed}, skipped |-> {skipped}]
Kinds(line, passed, failed, skipped) == Counts(SumOf(line, passed), SumOf(line, failed), SumOf(line, skipped))

\* What is left of a total is what passed.
OfTotal(line, total, failed, skipped) ==
    Counts(Less(Less(Num(line, total), SumOf(line, failed)), SumOf(line, skipped)),
           SumOf(line, failed), SumOf(line, skipped))

At(text, form) == {i \in DOMAIN text : text[i].form = form}

\* Three ways to read several lines of one form: the last line stands, the
\* lines add up, and of each kind the last number stands.
LastLine(text, form) == IF At(text, form) = {} THEN {} ELSE {text[Max(At(text, form))]}

KindsAt(text, form) == UNION {DOMAIN text[i].n : i \in At(text, form)}

\* Mutant: the last of several packages stands for all.
AddUpLast(text, form) == LastLine(text, form)

AddUp(text, form) ==
    LET total == [k \in KindsAt(text, form) |-> Cap(SumFunction([i \in At(text, form) |-> Num(text[i], k)]))]
    IN IF At(text, form) = {} THEN {} ELSE {[form |-> form, n |-> total]}

LastOfKind(text, form) ==
    LET last == [k \in KindsAt(text, form) |-> text[Max({i \in At(text, form) : k \in DOMAIN text[i].n})].n[k]]
    IN IF At(text, form) = {} THEN {} ELSE {[form |-> form, n |-> last]}

Says(line, kinds) == kinds \cap DOMAIN line.n # {}

-----------------------------------------------------------------------------
ParseJest(text) ==
    {Kinds(l, {"passed"}, {"failed"}, {"skipped", "todo"}) : l \in LastLine(text, "jest")}
ParseVitest(text) ==
    {Kinds(l, {"passed"}, {"failed"}, {"skipped", "todo"}) : l \in {l \in LastLine(text, "vitest") : DOMAIN l.n # {}}}
ParseMocha(text) ==
    {Kinds(l, {"passing"}, {"failing"}, {"pending"}) : l \in {l \in LastOfKind(text, "mocha") : Says(l, {"passing"})}}
ParseNode(text) ==
    {Kinds(l, {"pass"}, {"fail", "cancelled"}, {"skipped", "todo"}) :
        l \in {l \in LastOfKind(text, "node") : Says(l, {"pass", "fail"})}}
ParseRspec(text) == {OfTotal(l, "examples", {"failures"}, {"pending"}) : l \in LastLine(text, "rspec")}
ParsePlaywright(text) ==
    {Kinds(l, {"passed", "flaky"}, {"failed", "interrupted"}, {"skipped", "did not run"}) :
        l \in {l \in LastOfKind(text, "playwright") : Says(l, {"passed", "failed"})}}

\* One box per spec file: they add up.
ParseCypress(text) ==
    {Kinds(l, {"passing"}, {"failing"}, {"pending", "skipped"}) :
        l \in {l \in AddUp(text, "cypress") : Says(l, {"passing"}) /\ Says(l, {"failing"})}}

\* The second set where the first is empty.
OrElse(S, T) == IF S # {} THEN S ELSE T

\* The footer, or the bare form of -q.  A line with nothing known on it and no
\* "no tests ran" is none.
ParsePytest(text) ==
    {Kinds(l, {"passed"}, {"failed", "errors"}, {"skipped"}) :
        l \in {l \in OrElse(LastLine(text, "pytest"), LastLine(text, "pytest -q")) : DOMAIN l.n # {}}}

\* Packages, and the tests of a verbose run.  A package that failed without a
\* failing test did not build: how many failed is not known.
ParseGo(text) ==
    LET Tests(kind) == Cap(Cardinality({i \in At(text, "go test") : Says(text[i], {kind})}))
        packages == At(text, "go package")
        unbuilt == Tests("FAIL") = 0 /\ \E i \in packages : Says(text[i], {"FAIL"})
        verbose == Tests("PASS") > 0
    IN IF packages = {} /\ Tests("FAIL") = 0 /\ ~verbose THEN {}
       ELSE {[passed |-> IF verbose THEN {Tests("PASS")} ELSE {},
              failed |-> IF unbuilt THEN {} ELSE {Tests("FAIL")},
              skipped |-> IF verbose THEN {Tests("SKIP")} ELSE {}]}

\* The summary of nextest stands, the lines of cargo's test binaries add up.
ParseCargo(text) ==
    OrElse({Kinds(l, {"passed", "flaky"}, {"failed", "timed out"}, {"skipped"}) : l \in LastLine(text, "nextest")},
           {Kinds(l, {"passed"}, {"failed"}, {"ignored"}) : l \in AddUp(text, "cargo")})

\* Pest, then the line of a run with failures, then the line of one without.
ParsePhpunit(text) ==
    OrElse({Kinds(l, {"passed"}, {"failed"}, {"skipped", "incomplete", "todo"}) : l \in LastLine(text, "pest")},
    OrElse({OfTotal(l, "tests", {"Errors", "Failures"}, {"Skipped", "Incomplete"}) : l \in LastLine(text, "phpunit")},
           {Kinds(l, {"tests"}, {}, {}) : l \in LastLine(text, "phpunit ok")}))

\* One line per project adds up.  The older report is read from its last total
\* on, and may not state what passed.
ParseDotnet(text) ==
    LET totals == At(text, "dotnet total")
        after == From(text, Max(totals))
    IN OrElse({Kinds(l, {"passed"}, {"failed"}, {"skipped"}) : l \in AddUp(text, "dotnet")},
              IF totals = {} THEN {}
              ELSE {[Kinds(l, {"passed"}, {"failed"}, {"skipped"})
                        EXCEPT !.passed = IF Says(l, {"passed"}) THEN @ ELSE {}] :
                       l \in OrElse(LastOfKind(after, "dotnet old"), {[form |-> "dotnet old", n |-> <<>>]})})

\* Maven's last line is taken for the aggregate, else Gradle's.
ParseJvm(text) ==
    OrElse({OfTotal(l, "run", {"failures", "errors"}, {"skipped"}) : l \in LastLine(text, "maven")},
           {OfTotal(l, "completed", {"failed"}, {"skipped"}) : l \in LastLine(text, "gradle")})

Parse(runner, text) ==
    CASE runner = "pytest" -> ParsePytest(text)
      [] runner = "go" -> ParseGo(text)
      [] runner = "cargo" -> ParseCargo(text)
      [] runner = "phpunit" -> ParsePhpunit(text)
      [] runner = "dotnet" -> ParseDotnet(text)
      [] runner = "jvm" -> ParseJvm(text)
      [] runner = "jest" -> ParseJest(text)
      [] runner = "vitest" -> ParseVitest(text)
      [] runner = "mocha" -> ParseMocha(text)
      [] runner = "node" -> ParseNode(text)
      [] runner = "rspec" -> ParseRspec(text)
      [] runner = "cypress" -> ParseCypress(text)
      [] runner = "playwright" -> ParsePlaywright(text)

Parsers == <<"cypress", "jest", "phpunit", "vitest", "mocha", "node", "pytest",
             "cargo", "go", "rspec", "dotnet", "jvm", "playwright">>

\* parse_summary: the hinted parser, then the others in their order.
ParseSummary(hint, output) ==
    LET text == Clean(output)
        fit == {i \in DOMAIN Parsers : Parse(Parsers[i], text) # {}}
        runner == IF \E i \in fit : Parsers[i] = hint THEN hint ELSE Parsers[Min(fit)]
    IN IF output = <<>> \/ fit = {} THEN {}
       ELSE {[runner |-> runner, counts |-> CHOOSE c \in Parse(runner, text) : TRUE]}

-----------------------------------------------------------------------------
States(count, P(_)) == \E n \in count : P(n)

\* Mutants: a runner that fails has failing tests; a run of no tests is an
\* outcome of its own.
OutcomeFailsWithRunner(exit, trust, summary, interrupted) ==
    IF interrupted THEN "unknown"
    ELSE IF exit # {} /\ trust = "full" THEN (IF exit = {0} THEN "passed" ELSE "failed")
    ELSE "unknown"
OutcomeOfNothing(exit, trust, summary, interrupted) ==
    IF interrupted \/ trust = None THEN "unknown"
    ELSE IF \E c \in summary : c.passed = {0} THEN "skipped"
    ELSE IF exit = {0} THEN "passed" ELSE "error"

\* outcome.  exit is the set of the exit code that is known, summary the set of
\* the counts that were found.
Outcome(exit, trust, summary, interrupted) ==
    IF interrupted THEN "unknown"
    ELSE IF \E c \in summary : States(c.failed, LAMBDA n : n > 0) THEN "failed"
    ELSE IF 0 \in exit /\ trust \in {"full", "zeroOnly"} THEN "passed"
    ELSE IF exit # {} /\ trust = "full" THEN "error"
    ELSE IF \E c \in summary : 0 \in c.failed /\ States(c.passed, LAMBDA n : n > 0) THEN "passed"
    ELSE "unknown"
=============================================================================
