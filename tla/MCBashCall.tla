----------------------------- MODULE MCBashCall -----------------------------
(* Commands of tests and others joined in every way, every runner by itself, *)
(* logs of earlier runs, and here documents.                                  *)
EXTENDS BashCall

MCFlag == {"-m", "--", "-u", "--test"}
MCPathOf(word) == [root |-> FALSE, parts |-> <<word>>]
MCAssignment == {"CI=1"}

Run(p, f, b) == [passed |-> p, failed |-> f, broken |-> b, skipped |-> 0]

Joined == [phrases |-> {<<"CI=1", "npm", "test">>, <<"npx", "cargo", "test">>, <<"cd">>, <<"cat">>},
           links |-> {"&&", "||", ";", "|"}, parts |-> 5,
           runs |-> {<<Run(1, 0, 0)>>, <<Run(0, 1, 0), Run(1, 0, 0)>>},
           styles |-> {"jest"}]

\* An earlier run of one runner is shown beside a run of another.
Borrowed == [phrases |-> {<<"npm", "test">>, <<"cat">>}, links |-> {";"}, parts |-> 3,
             runs |-> {<<Run(1, 0, 0)>>, <<Run(0, 1, 0)>>},
             styles |-> {"jest", "mocha"}]

\* One suite of two does not load, and the output goes through a pipe.
Unloaded == [phrases |-> {<<"npx", "jest">>, <<"tail">>}, links |-> {"|"}, parts |-> 3,
             runs |-> {<<Run(1, 0, 1)>>, <<Run(2, 0, 0)>>}, styles |-> {}]

OneRunner == [phrases |-> {<<"npm", "run", "test:unit">>, <<"npx", "jest">>, <<"vitest", "run">>, <<"mocha">>,
                           <<"node", "--test">>, <<"poetry", "run", "pytest">>, <<"go", "test">>,
                           <<"cargo", "nextest", "run">>, <<"bundle", "exec", "rspec">>, <<"php", "artisan", "test">>,
                           <<"dotnet", "test">>, <<"mvn", "verify">>, <<"npx", "playwright", "test">>,
                           <<"cypress", "run">>, <<"deno", "test">>},
              links |-> {}, parts |-> 1,
              runs |-> LET one == {c \in [passed : 0..1, failed : 0..1, broken : 0..1, skipped : 0..1] :
                                     c.failed + c.broken <= 1}
                       IN {<<c>> : c \in one} \cup (one \X one),
              styles |-> {"jest", "vitest", "mocha", "node", "pytest", "pytest -q", "go", "go -v", "cargo", "nextest",
                          "rspec", "phpunit", "pest", "dotnet", "dotnet old", "maven", "gradle", "playwright", "cypress"}]

Document == [phrases |-> {<<"npm", "test">>, <<"cat", "<<EOF">>, <<"EOF">>},
             links |-> {"\n", "&"}, parts |-> 5, runs |-> {<<Run(1, 0, 0)>>}, styles |-> {"jest"}]

MCDialect == {Joined, Borrowed, Unloaded, OneRunner, Document}
=============================================================================
