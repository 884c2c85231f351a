----------------------------- MODULE Statements -----------------------------
(***************************************************************************)
(* What the author of a statement means by its words, which Marks does not *)
(* know.  A statement is a sequence of items, and an item is a name or a   *)
(* literal as SQL would read it.  An item that names a table may spell it  *)
(* otherwise than the catalog does: SQL folds case, and a table's name in  *)
(* quotes need not be an identifier at all.                                *)
(***************************************************************************)
EXTENDS Marks

CONSTANTS Item, MaxItems

Kind ==
    {"table", "column", "ofTable", "ofTableWide", "ofSchema", "quotedTable", "oddTable",
     "digitFirst", "literal", "escaped", "empty", "string", "apostrophe"}

ASSUME ItemAssumption ==
    /\ Item \subseteq [kind : Kind, word : Word, column : Word, table : Name]
    /\ MaxItems \in Nat

(* The lexemes of an item, and which of them name a table.                 *)
Spelling(item) ==
    LET w == item.word
    IN  CASE item.kind = "table"       -> <<w>>
          [] item.kind = "column"      -> <<w>>
          [] item.kind = "ofTable"     -> <<w, "dot", item.column>>
          [] item.kind = "ofTableWide" -> <<w, "space", "dot", "space", item.column>>
          [] item.kind = "ofSchema"    -> <<item.column, "dot", w>>
          [] item.kind = "quotedTable" -> <<"other", w, "other">>
          [] item.kind = "oddTable"    -> <<"other", w, "other", item.column, "other">>
          [] item.kind = "digitFirst"  -> <<"digits", w>>
          [] item.kind = "literal"     -> <<"quote", w, "quote">>
          [] item.kind = "escaped"     -> <<"quote", w, "quote", "quote", w, "quote">>
          [] item.kind = "empty"       -> <<"quote", "quote">>
          [] item.kind = "string"      -> <<"other", w, "other">>
          [] item.kind = "apostrophe"  -> <<"other", w, "quote", "other">>

TablesOf(item) ==
    CASE item.kind \in {"table", "ofTable", "ofTableWide", "oddTable"} -> {1}
      [] item.kind = "quotedTable" -> {2}
      [] item.kind = "ofSchema"    -> {3}
      [] OTHER                     -> {}

(* The text of a statement's first n items, each followed by a space.      *)
TextOf(statement) ==
    LET upTo[n \in 0..Len(statement)] ==
            IF n = 0 THEN <<>> ELSE upTo[n - 1] \o Spelling(statement[n]) \o <<"space">>
    IN  upTo

Statement == UNION {[1..n -> Item] : n \in 0..MaxItems}

VARIABLE statement

SInit ==
    /\ statement \in Statement
    /\ text = TextOf(statement)[Len(statement)]
    /\ Start

SSpec == SInit /\ [][Next /\ UNCHANGED statement]_<<vars, statement>>

-----------------------------------------------------------------------------
(* The consumer's tables.                                                  *)
Own == catalog[DefaultSchema]

(* The places where the author names a table, one of the consumer's, and   *)
(* one through its schema.                                                 *)
PlacesOf(n) == {Len(TextOf(statement)[n - 1]) + p : p \in TablesOf(statement[n])}
Tables      == UNION {PlacesOf(n) : n \in DOMAIN statement}
OwnTables   == UNION {PlacesOf(n) : n \in {m \in DOMAIN statement : statement[m].table \in Own}}
BySchema    == UNION {PlacesOf(n) : n \in {m \in DOMAIN statement :
                                           statement[m].kind = "ofSchema"}}

(* An item the scan reads as the author meant it: a table is spelled as in *)
(* the catalog, no column and no string is spelled like one, none is       *)
(* reached through its schema, and no quote stands outside a literal.      *)
Plain(item) ==
    /\ item.kind \in {"table", "ofTable", "ofTableWide", "quotedTable"} =>
         item.word = item.table
    /\ item.kind \in {"column", "string", "digitFirst"} => item.word \notin Own
    /\ item.kind \notin {"apostrophe", "ofSchema", "oddTable"}

(***************************************************************************)
(* In a statement of plain items the marks stand exactly where the author  *)
(* names one of the consumer's tables: the claim of the marker's comment   *)
(* (emit.go:140-142), for the statements of which it holds, which spell    *)
(* every table as the catalog does.  A table's name in a literal is data   *)
(* and stays as it is (prefix.go:61-65), however its quotes are escaped.   *)
(***************************************************************************)
TablesMarked ==
    pc = "done" /\ (\A n \in DOMAIN statement : Plain(statement[n])) => marks = OwnTables

(* Tables that get neither a marker nor a warning.                         *)
Lost == OwnTables \ (marks \cup warned)

(***************************************************************************)
(* In any statement, the tables that lose their prefix without a word are  *)
(* exactly those spelled otherwise than in the catalog, in another case or *)
(* with other characters in quotes, and, outside of what an apostrophe     *)
(* hides, those reached through their schema (prefix.go:92, 102).          *)
(***************************************************************************)
LostExactly ==
    pc = "done" =>
        Lost = {p \in OwnTables : text[p] \notin Own \/ (p \in BySchema /\ ~Quoted(p))}

(***************************************************************************)
(* What the generated package says of its marker, of every statement: it   *)
(* marks identifiers that are genuinely tables rather than words that look *)
(* like them.                                                              *)
(***************************************************************************)
MarksAreTables == marks \subseteq Tables
=============================================================================
