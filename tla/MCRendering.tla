----------------------------- MODULE MCRendering -----------------------------
(***************************************************************************)
(* Packages whose names nearly collide, whose queries are named like       *)
(* keywords, constructors and methods, and whose parameters and columns    *)
(* mix every type; and calls of them with times around the limits of the   *)
(* layout, in three zones.                                                 *)
(***************************************************************************)
EXTENDS TimeText

MCUpper == [r \in {"d", "e", "i", "n", "p", "s", "t", "w", "y", "ae"} |->
               CASE r = "d" -> "D" [] r = "e" -> "E" [] r = "i" -> "I" [] r = "n" -> "N"
                 [] r = "p" -> "P" [] r = "s" -> "S" [] r = "t" -> "T" [] r = "w" -> "W"
                 [] r = "y" -> "Y" [] r = "ae" -> "AE"]
MCInitialisms == <<"i", "d">> :> <<"I", "D">> @@ <<"i", "d", "s">> :> <<"I", "D", "s">>
MCKeyword == {<<"t", "y", "p", "e">>}
MCNew == <<"n", "e", "w">>

MCStandard == {"context", "database/sql", "fmt", "strings", "time"}
MCPath == MCStandard \cup {"m/tenancy", "o/tenancy", "m/v2", "m/strings"}

MCLastElement ==
    [p \in MCPath |->
        CASE p = "database/sql" -> "sql" [] p \in {"m/tenancy", "o/tenancy"} -> "tenancy"
          [] p = "m/v2" -> "v2" [] p = "m/strings" -> "strings" [] OTHER -> p]
MCDeclares == [MCLastElement EXCEPT !["m/v2"] = "m"]

(* Names of fields.                                                        *)
Id == <<"i", "d">>
Ids == <<"i", "d", "s">>
Near == {Id, Ids, <<"i", "_", "d">>, <<"i", "D">>, <<"d", "2">>, <<"d", "_", "2">>,
         <<"2", "d">>, <<"ae">>, <<"d", "_", "ae">>, <<"d", "_", "AE">>, <<"_">>}

(* And of queries.                                                         *)
QueryNames ==
    {<<"I", "d", "s">>, <<"T", "y", "p", "e">>, <<"N", "e", "w">>, <<"i", "d", "s">>,
     <<"I", "d", "S">>, <<"I", "D", "S">>, <<"D">>, <<"d", "_", "D">>,
     <<"D", "_", "AE">>}
MCName == Near \cup QueryNames

T(kind, nullable, slice, override) ==
    [kind |-> kind, nullable |-> nullable, slice |-> slice, override |-> override]
Plain(kind) == T(kind, FALSE, FALSE, None)
Nullable(kind) == T(kind, TRUE, FALSE, None)
List(kind) == T(kind, FALSE, TRUE, None)
Over(kind, path) ==
    T(kind, FALSE, FALSE, [form |-> "qualified", stars |-> 1, path |-> path])
Odd(form) == T("string", FALSE, FALSE, [form |-> form, stars |-> 0])

ColumnTypes == {Nullable("time"), Over("string", "o/tenancy"), Nullable("bytes")}
ParamTypes ==
    {Plain("time"), Nullable("time"), List("time"), Nullable("string"), List("bytes"),
     Odd("builtin"), Odd("bare"), Odd("typeless"), Over("time", "m/tenancy"),
     Over("string", "o/tenancy"), Over("string", "m/v2"), Over("string", "m/strings"),
     Over("string", "database/sql")}

SecondTypes ==
    {Plain("time"), Nullable("time"), Nullable("string"), Over("time", "m/tenancy"),
     Over("string", "o/tenancy"), Over("string", "m/strings")}

F(name, type) == [name |-> name, type |-> type]
Texts(names) == [k \in DOMAIN names |-> F(names[k], Plain("string"))]

Q(name, command, params, columns) ==
    [name |-> name, command |-> command, params |-> params, columns |-> columns]
P(dialect, nullAs, prefix, queries) ==
    [dialect |-> dialect, nullAs |-> nullAs, prefix |-> prefix, queries |-> queries]

Get == <<"I", "d", "s">>

NearlyEqual == {<<m, n>> : m \in Near, n \in Near} \ {<<n, n>> : n \in Near}

ByFieldNames ==
    {P("sqlite", "pointer", FALSE, <<Q(Get, "one", Texts(m), Texts(<<n>>))>>) :
        m \in NearlyEqual, n \in Near}

ByQueryNames ==
    {P("mysql", "sql", TRUE, <<Q(m, "exec", <<>>, <<>>), Q(n, "execrows", <<>>, <<>>)>>) :
        m \in {<<"I", "d", "s">>, <<"T", "y", "p", "e">>, <<"N", "e", "w">>},
        n \in QueryNames \ {<<"T", "y", "p", "e">>, <<"N", "e", "w">>, <<"I", "d", "s">>}}

(* Without the letters a capital would break in half.                      *)
NarrowlyNamed ==
    {p \in ByQueryNames : \A k \in DOMAIN p.queries : Narrow(p.queries[k].name)}

ParamLists ==
    {<<>>} \cup {<<F(Id, t)>> : t \in ParamTypes}
           \cup {<<F(Id, t), F(Ids, u)>> : t \in ParamTypes, u \in SecondTypes}
Rows == {<<"exec", <<>>>>, <<"execresult", <<>>>>}
        \cup {<<"many", <<F(Id, t)>>>> : t \in ColumnTypes}

ByTypes ==
    {P(d, n, x, <<Q(Get, r[1], m, r[2])>>) :
        d \in Dialect, n \in {"pointer", "sql"}, x \in BOOLEAN, r \in Rows, m \in ParamLists}

MCPackages == UNION {ByFieldNames, ByQueryNames, ByTypes}

(* The last second of the layout's last year, and the first one after it,  *)
(* on the caller's clock and in UTC; two times of one second.              *)
M(second, fraction, zone) == [second |-> second, fraction |-> fraction, zone |-> zone]
MCMoments ==
    {M(0, FALSE, 3), M(4, FALSE, -3), M(4, TRUE, 0), M(39, FALSE, 3),
     M(40, FALSE, -3)}
=============================================================================
