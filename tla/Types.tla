-------------------------------- MODULE Types --------------------------------
(***************************************************************************)
(* How a database type becomes a kind of Go type: the table and the        *)
(* spellings it accepts, in internal/converge/types.go.                    *)
(*                                                                         *)
(* A type as an analyzer spells it is a sequence of words.  A catalog      *)
(* qualifier and a length in parentheses are words of their own, and white *)
(* space around them is left out.                                          *)
(***************************************************************************)
EXTENDS Naturals, Sequences, FiniteSets

CONSTANTS
    Lower,  \* the small spelling of each word that has capitals
    None    \* no kind

engineTypes ==
    [string  |-> {<<"text">>, <<"varchar">>, <<"char">>, <<"bpchar">>, <<"character">>,
                  <<"character", "varying">>, <<"nvarchar">>, <<"tinytext">>,
                  <<"mediumtext">>, <<"longtext">>, <<"clob">>, <<"uuid">>},
     time    |-> {<<"timestamptz">>, <<"timestamp">>, <<"datetime">>, <<"date">>, <<"time">>,
                  <<"timestamp", "with", "time", "zone">>,
                  <<"timestamp", "without", "time", "zone">>},
     bool    |-> {<<"bool">>, <<"boolean">>, <<"tinyint">>},
     int64   |-> {<<"bigint">>, <<"int8">>, <<"integer">>, <<"int">>, <<"int4">>,
                  <<"mediumint">>, <<"smallint">>, <<"int2">>, <<"serial">>,
                  <<"bigserial">>, <<"int", "unsigned">>},
     float64 |-> {<<"double">>, <<"double", "precision">>, <<"float">>, <<"float4">>,
                  <<"float8">>, <<"real">>},
     bytes   |-> {<<"blob">>, <<"bytea">>, <<"binary">>, <<"varbinary">>, <<"tinyblob">>,
                  <<"mediumblob">>, <<"longblob">>}]

Kind == DOMAIN engineTypes

ToLower(word) == IF word \in DOMAIN Lower THEN Lower[word] ELSE word

(* Lowercased, without the catalog, cut at its length, and unsigned or not.*)
normalizeTypeName(name) ==
    LET lower == [k \in DOMAIN name |-> ToLower(name[k])]
        plain == IF lower # <<>> /\ lower[1] = "pg_catalog." THEN Tail(lower) ELSE lower
        open  == {k \in DOMAIN plain : plain[k] = "(n)"}
        short == IF open = {} THEN plain
                 ELSE SubSeq(plain, 1, (CHOOSE k \in open : \A j \in open : k <= j) - 1)
    IN  IF Len(short) > 1 /\ short[Len(short)] = "unsigned"
        THEN SubSeq(short, 1, Len(short) - 1) ELSE short

KindsOf(name) == {k \in Kind : normalizeTypeName(name) \in engineTypes[k]}

KindOf(name) == IF KindsOf(name) = {} THEN None ELSE CHOOSE k \in KindsOf(name) : TRUE
=============================================================================
