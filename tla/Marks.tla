-------------------------------- MODULE Marks --------------------------------
(***************************************************************************)
(* Where the prefix marker goes in a statement: markPrefixes and its       *)
(* helpers in internal/converge/prefix.go.                                 *)
(*                                                                         *)
(* A text is a sequence of lexemes as the scan sees them: a word is a      *)
(* maximal run of identifier characters that begins with a letter, and     *)
(* stands whole; digits are those no word contains; any other character is *)
(* a lexeme of its own, told apart where the scan does.  The scan reads    *)
(* the text twice, first for its single-quoted literals and then for its   *)
(* words, and records the places of the words it marks and of those it     *)
(* warns about.                                                            *)
(***************************************************************************)
EXTENDS Naturals, Sequences, FiniteSets

CONSTANTS
    Name,           \* names of tables, which need not be words
    Word,           \* the words a text may hold
    Text,           \* the texts considered
    Schema,         \* the schemas of a catalog
    DefaultSchema,  \* the consumer's
    Catalogs        \* the catalogs considered: the tables of each schema

Symbol == {"quote", "dot", "space", "digits", "other"}
Lexeme == Word \cup Symbol

ASSUME MarksAssumption ==
    /\ Word \subseteq Name /\ Name \cap Symbol = {}
    /\ Text \subseteq Seq(Lexeme)
    \* words are maximal
    /\ \A t \in Text : \A i \in 1..(Len(t) - 1) : t[i] \in Word => t[i + 1] \notin Word
    /\ DefaultSchema \in Schema
    /\ Catalogs \subseteq [Schema -> SUBSET Name]

VARIABLES
    catalog, \* the tables the analyzer reported, by schema
    text,    \* the statement
    pc,      \* which pass over it is under way
    i,       \* the place it has reached
    opened,  \* the place of the quote that opened a literal, or 0
    spans,   \* the literals, as pairs of first and last place
    marks,   \* the words given a marker
    warned   \* the words left alone with a warning

scanned == <<catalog, text>>
vars == <<scanned, pc, i, opened, spans, marks, warned>>

Place == DOMAIN text

TypeOK ==
    /\ catalog \in [Schema -> SUBSET Name] /\ text \in Seq(Lexeme)
    /\ pc \in {"literals", "words", "done"}
    /\ i \in Nat \ {0} /\ opened \in Nat
    /\ spans \subseteq Nat \X Nat
    /\ marks \subseteq Place /\ warned \subseteq Place

(* Mutant: the tables of every schema count.                               *)
AllTables == UNION {catalog[s] : s \in Schema}

(* Only those of the default schema are the consumer's.                    *)
UserTables == catalog[DefaultSchema]

(* Without tables the text is returned as it is.                           *)
Start ==
    /\ catalog \in Catalogs
    /\ pc = IF UserTables = {} THEN "done" ELSE "literals"
    /\ i = 1 /\ opened = 0
    /\ spans = {} /\ marks = {} /\ warned = {}

Init == text \in Text /\ Start

-----------------------------------------------------------------------------
(* stringLiteralSpans.                                                     *)

Reading == pc = "literals" /\ i <= Len(text)

Skip ==
    /\ Reading /\ text[i] # "quote"
    /\ i' = i + 1
    /\ UNCHANGED <<scanned, pc, opened, spans, marks, warned>>

Open ==
    /\ Reading /\ text[i] = "quote" /\ opened = 0
    /\ opened' = i /\ i' = i + 1
    /\ UNCHANGED <<scanned, pc, spans, marks, warned>>

Doubled == i < Len(text) /\ text[i + 1] = "quote"

(* An escaped quote does not end its literal.                              *)
Escape ==
    /\ Reading /\ text[i] = "quote" /\ opened # 0 /\ Doubled
    /\ i' = i + 2
    /\ UNCHANGED <<scanned, pc, opened, spans, marks, warned>>

Close ==
    /\ Reading /\ text[i] = "quote" /\ opened # 0 /\ ~Doubled
    /\ spans' = spans \cup {<<opened, i>>}
    /\ opened' = 0 /\ i' = i + 1
    /\ UNCHANGED <<scanned, pc, marks, warned>>

(* Mutant: a literal that is not closed is none.                           *)
EndLiteralsClosed ==
    /\ pc = "literals" /\ i > Len(text)
    /\ opened' = 0
    /\ pc' = "words" /\ i' = 1
    /\ UNCHANGED <<scanned, spans, marks, warned>>

(* Mutant: the second pass begins before the text.                         *)
EndLiteralsAtZero ==
    /\ pc = "literals" /\ i > Len(text)
    /\ spans' = IF opened # 0 THEN spans \cup {<<opened, Len(text)>>} ELSE spans
    /\ opened' = 0
    /\ pc' = "words" /\ i' = 0
    /\ UNCHANGED <<scanned, marks, warned>>

(* A literal that is not closed runs to the end.                           *)
EndLiterals ==
    /\ pc = "literals" /\ i > Len(text)
    /\ spans' = IF opened # 0 THEN spans \cup {<<opened, Len(text)>>} ELSE spans
    /\ opened' = 0
    /\ pc' = "words" /\ i' = 1
    /\ UNCHANGED <<scanned, marks, warned>>

-----------------------------------------------------------------------------
(* The loop of markPrefixes.                                               *)

InSpan(p) == \E s \in spans : s[1] <= p /\ p <= s[2]

(* Back over white space to a dot: the word is half of a qualified name.   *)
PrecededByDot(p) ==
    \E q \in 1..(p - 1) :
        text[q] = "dot" /\ \A r \in (q + 1)..(p - 1) : text[r] = "space"

Scanning == pc = "words" /\ i <= Len(text)

Copy ==
    /\ Scanning /\ text[i] \notin UserTables
    /\ i' = i + 1
    /\ UNCHANGED <<scanned, pc, opened, spans, marks, warned>>

(* Mutant: a word in a literal is left without a warning.                  *)
LeaveSilently ==
    /\ Scanning /\ text[i] \in UserTables /\ InSpan(i)
    /\ i' = i + 1
    /\ UNCHANGED <<scanned, pc, opened, spans, marks, warned>>

LeaveLiteral ==
    /\ Scanning /\ text[i] \in UserTables /\ InSpan(i)
    /\ warned' = warned \cup {i}
    /\ i' = i + 1
    /\ UNCHANGED <<scanned, pc, opened, spans, marks>>

MarkTable ==
    /\ Scanning /\ text[i] \in UserTables /\ ~InSpan(i)
    /\ marks' = IF PrecededByDot(i) THEN marks ELSE marks \cup {i}
    /\ i' = i + 1
    /\ UNCHANGED <<scanned, pc, opened, spans, warned>>

EndWords ==
    /\ pc = "words" /\ i > Len(text)
    /\ pc' = "done"
    /\ UNCHANGED <<scanned, i, opened, spans, marks, warned>>

-----------------------------------------------------------------------------
Next ==
    \/ Skip \/ Open \/ Escape \/ Close \/ EndLiterals
    \/ Copy \/ LeaveLiteral \/ MarkTable \/ EndWords

Spec == Init /\ [][Next]_vars

-----------------------------------------------------------------------------
(* What the two passes compute, said without them: a place is inside a     *)
(* literal when an odd number of quotes come before it.                    *)
QuotesBefore(p) == {q \in 1..(p - 1) : text[q] = "quote"}
Quoted(p) == Cardinality(QuotesBefore(p)) % 2 = 1

Named == {p \in Place : text[p] \in UserTables}

(***************************************************************************)
(* A word is marked exactly when it is spelled like a table, outside       *)
(* literals, and not after a dot; it is warned about exactly when it is    *)
(* spelled like one inside a literal: whatever quotes are doubled, left    *)
(* open or nested.  Two loops of prefix.go, and two spellings of one idea. *)
(***************************************************************************)
MarksExact ==
    pc = "done" =>
        /\ marks = {p \in Named : ~Quoted(p) /\ ~PrecededByDot(p)}
        /\ warned = {p \in Named : Quoted(p)}
=============================================================================
