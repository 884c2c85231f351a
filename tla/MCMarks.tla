------------------------------- MODULE MCMarks -------------------------------
(***************************************************************************)
(* Statements of up to three items over three user tables, one of them no  *)
(* identifier, one table of another schema and one column, with and        *)
(* without a user's catalog.  A table may be written in another case.      *)
(***************************************************************************)
EXTENDS Statements

I(kind, word) == [kind |-> kind, word |-> word, column |-> word, table |-> word]
Q(kind, word, column) == [kind |-> kind, word |-> word, column |-> column, table |-> word]
T(kind, word, column, table) ==
    [kind |-> kind, word |-> word, column |-> column, table |-> table]

MCItem ==
    {I("table", "users"), I("table", "columns"), T("table", "Users", "id", "users"),
     I("column", "id"), I("column", "columns"), I("column", "roles"),
     Q("ofTable", "users", "id"), Q("ofTable", "roles", "users"),
     T("ofTable", "Users", "id", "users"),
     Q("ofTableWide", "users", "roles"),
     Q("ofSchema", "users", "public"), I("quotedTable", "roles"),
     T("oddTable", "user", "roles", "user-roles"), I("digitFirst", "users"),
     I("literal", "users"), I("escaped", "roles"), I("empty", "id"),
     I("string", "users"), I("apostrophe", "id")}

MCText == {TextOf(s)[Len(s)] : s \in Statement}

MCWord == {"users", "Users", "user", "roles", "columns", "id", "public"}
MCName == MCWord \cup {"user-roles"}

MCCatalogs ==
    {[user |-> {"users", "roles", "user-roles"}, system |-> {"columns"}],
     [user |-> {}, system |-> {"columns"}]}
=============================================================================
