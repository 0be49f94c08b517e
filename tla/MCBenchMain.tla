------------------------------ MODULE MCBenchMain ------------------------------
EXTENDS BenchMain

\* One value of each option, and those at the limits of some.
MCOption ==
  {<<"mode", "iterate">>, <<"mode", "confirm">>, <<"mode", "evidence">>,
   <<"processes", 2>>, <<"processes", 3>>, <<"rounds", 1>>, <<"rounds", 2>>,
   <<"margin", 2>>, <<"margin", 100>>, <<"workload-id", "w">>, <<"scope", "s">>,
   <<"best-of-passes", 2>>, <<"mean-of-passes", 1>>,
   <<"best-of-processes", 2>>, <<"mean-of-processes", 0>>,
   <<"format", "json">>, <<"save-baseline", "b">>, <<"baseline", "b">>,
   <<"max-regression", 5>>, <<"update-on-pass", Absent>>,
   <<"dry-run", Absent>>, <<"no-busy-gate", Absent>>, <<"unknown", Absent>>}

\* Up to three options, and one variable.
MCCommandLine == {{}} \cup {{a, b, c} : a, b, c \in MCOption}

MCSetting ==
  {<<"mode", "confirm">>, <<"processes", 4>>, <<"rounds", 3>>, <<"margin", 3>>,
   <<"workload-id", "v">>, <<"format", "bad">>}

MCEnvironment == {{}} \cup {{v} : v \in MCSetting}

DeclaredConfirmation == [Default EXCEPT !.mode = "confirm", !.workload = "u", !.margin = 4]

MCDeclared ==
  {Default, [Default EXCEPT !.rounds = 0],
   DeclaredConfirmation, [DeclaredConfirmation EXCEPT !.rounds = 2]}
=============================================================================
