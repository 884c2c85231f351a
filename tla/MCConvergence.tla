--------------------------- MODULE MCConvergence ---------------------------
(* Small instances of Convergence and Binding: the ways a statement may    *)
(* repeat, mix and order its arguments, and the ways analyzers may differ. *)
EXTENDS Binding

MCRank == [d \in Dialect |-> CASE d = "mysql" -> 1 [] d = "postgresql" -> 2 [] OTHER -> 3]
MCName == {"a", "b", "ids", "size", "limit"}

(* Spellings that types.go, its test and prd.md:348-350 say are one type.  *)
MCLower == [w \in {"TEXT", "VARCHAR", "BOOLEAN", "INTEGER", "BIGINT", "DATETIME", "BLOB"} |->
               CASE w = "TEXT" -> "text" [] w = "VARCHAR" -> "varchar"
                 [] w = "BOOLEAN" -> "boolean" [] w = "INTEGER" -> "integer"
                 [] w = "BIGINT" -> "bigint" [] w = "DATETIME" -> "datetime"
                 [] w = "BLOB" -> "blob"]
MCOneType ==
    {{<<"text">>, <<"varchar">>, <<"TEXT">>, <<"VARCHAR", "(n)">>,
      <<"character", "varying">>, <<"pg_catalog.", "text">>},
     {<<"timestamptz">>, <<"datetime">>, <<"DATETIME">>, <<"DATETIME", "(n)">>,
      <<"timestamp">>, <<"pg_catalog.", "timestamptz">>},
     {<<"bool">>, <<"boolean">>, <<"BOOLEAN">>, <<"tinyint">>, <<"tinyint", "(n)">>,
      <<"pg_catalog.", "bool">>},
     {<<"bigint">>, <<"integer">>, <<"INTEGER">>, <<"int8">>, <<"pg_catalog.", "int8">>,
      <<"smallint">>, <<"BIGINT", "(n)", "unsigned">>, <<"int", "unsigned">>},
     {<<"blob">>, <<"bytea">>, <<"BLOB">>}}
MCEngineType == UNION MCOneType \cup {<<"any">>}

Scalar(name) == [name |-> name, list |-> "no", bare |-> FALSE]
List(name)   == [name |-> name, list |-> "flat", bare |-> FALSE]
Limit(name)  == [name |-> name, list |-> "no", bare |-> TRUE]

(* Two scalars, a list, an argument that also stands in LIMIT, and the     *)
(* uses that have no converged spelling.                                   *)
BindingUses == {Scalar("a"), Scalar("size"), List("ids"), Limit("size")}
OddUses == BindingUses \cup {Scalar("NoName"), [List("b") EXCEPT !.list = "nested"]}
TypingUses == {Scalar("size"), Limit("size"), List("ids")}

Rename(reported, field) ==
    [d \in Dialect |-> IF d \in Positional THEN [n \in {reported} |-> field] ELSE <<>>]
NoRename == [d \in Dialect |-> <<>>]

(* LIMIT's argument left as it is, given the name the others use, or given *)
(* another argument's; a list under another name; a table named like one.  *)
With(renames, overrides, tables) ==
    [renames |-> renames, overrides |-> overrides, tables |-> tables]
BindingOptions ==
    {With(r, <<>>, {}) : r \in {NoRename, Rename("limit", "size"), Rename("limit", "a"),
                                Rename("ids", "b")}}
    \cup {With(NoRename, <<>>, {"ids"})}

Override(table, column, goType) == [table |-> table, column |-> column, goType |-> goType]
TypingOptions ==
    {With(Rename("limit", "size"), o, {}) :
        o \in {<<>>,
               <<Override("*", "size", "ID")>>,
               <<Override("*", "size", "ID"), Override("users", "size", "*ID")>>,
               <<Override("users", "ids", "ID")>>}}

OneReport == {[table |-> "", engine |-> <<"text">>, notNull |-> TRUE]}
(* Three types in two spellings each, and one the analyzer could not       *)
(* resolve; of a table or of none, NULL or not.                            *)
SomeReports ==
    {[table |-> r[1], engine |-> r[2], notNull |-> r[3]] :
        r \in {<<"", <<"pg_catalog.", "bool">>, TRUE>>, <<"", <<"tinyint", "(n)">>, TRUE>>,
               <<"", <<"pg_catalog.", "int8">>, FALSE>>,
               <<"", <<"BIGINT", "(n)", "unsigned">>, FALSE>>, <<"", <<"any">>, FALSE>>,
               <<"users", <<"pg_catalog.", "timestamptz">>, FALSE>>,
               <<"users", <<"DATETIME", "(n)">>, FALSE>>}}
=============================================================================
