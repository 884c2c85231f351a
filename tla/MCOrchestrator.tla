--------------------------- MODULE MCOrchestrator ---------------------------
(* Small instances of Orchestrator: three dialects, two queries, the ways  *)
(* an analysis can differ that the emitted code treats differently.        *)
EXTENDS Atomicity, TLC

MCRank == [d \in Dialect |-> CASE d = "mysql" -> 1 [] d = "postgresql" -> 2 [] OTHER -> 3]

GetUser(params, columns) ==
    [command |-> "one", params |-> params, columns |-> columns]
Touch(params, command) == [command |-> command, params |-> params, columns |-> <<>>]

Base == [q \in {"Get"} |-> GetUser(<<"id">>, <<"id", "name">>)]
(* The projection in another order.                                        *)
Swapped == [q \in {"Get"} |-> GetUser(<<"id">>, <<"name", "id">>)]
(* One more query, with neither params nor a row.                          *)
Extra == [q \in {"Get", "Touch"} |-> IF q = "Get" THEN Base["Get"] ELSE Touch(<<>>, "exec")]
(* The same query under another annotation.                                *)
Counted == [q \in {"Get", "Touch"} |->
                IF q = "Get" THEN Base["Get"] ELSE Touch(<<>>, "execrows")]
(* A parameter that is a list.                                             *)
Listed == [q \in {"Get"} |-> GetUser(<<"ids">>, <<"id", "name">>)]

MCQuery == {"Get", "Touch"}
MCField == {"id", "name", "ids"}
MCListField == {"ids"}
AllAnalyses == {Base, Swapped, Extra, Counted, Listed}
BaseAndExtra == {Base, Extra}
BaseAndSwapped == {Base, Swapped}
BaseAndListed == {Base, Listed}

Accept(analyses) == [verdict : {"accepted"}, analysis : analyses]
Rejected == {[verdict |-> "broken"], [verdict |-> "refused"]}
RunSymmetry == Permutations(Run)
AllInputs == Accept(Analysis) \cup Rejected
AcceptedInputs == Accept(Analysis)

ConfigOf(roster, prefix, pin) == [roster |-> roster, prefix |-> prefix, pin |-> pin]
Everything == {ConfigOf(Dialect, FALSE, "match")}
WideAndNarrow == Everything \cup {ConfigOf({"mysql", "sqlite"}, FALSE, "none")}
Pins == {ConfigOf(Dialect, FALSE, p) : p \in {"none", "match", "mismatch"}}
Rosters == {ConfigOf({"postgresql"}, TRUE, "none"), ConfigOf({"sqlite"}, FALSE, "none")}
Unpinned == {ConfigOf(Dialect, FALSE, "none")}
=============================================================================
