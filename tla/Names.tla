-------------------------------- MODULE Names --------------------------------
(***************************************************************************)
(* How SQL names become Go identifiers: internal/emit/gogen/names.go.      *)
(*                                                                         *)
(* A name is a sequence of runes, and a rune is one of a few that stand    *)
(* for the classes the code tells apart.                                   *)
(***************************************************************************)
EXTENDS Naturals, Sequences, FiniteSets, SequencesExt

CONSTANTS
    Upper,       \* the capital of each small letter
    Wide,        \* the small letters of more than one byte
    Digit,
    Separator,   \* what splits words, the underscore among them
    Initialisms, \* the spelling of each initialism
    Keyword,     \* Go's, those in use here
    Name         \* the names considered

Small   == DOMAIN Upper
Capital == {Upper[r] : r \in Small}
Letter  == Small \cup Capital
Broken  == "broken"   \* half a rune
Rune    == Letter \cup Digit \cup Separator \cup {"_", Broken}

Lower(r) == IF r \in Capital THEN CHOOSE s \in Small : Upper[s] = r ELSE r
ToLower(word) == [k \in DOMAIN word |-> Lower(word[k])]

ASSUME NamesAssumption ==
    /\ Wide \subseteq Small /\ IsInjective(Upper) /\ Small \cap Capital = {}
    /\ "_" \in Separator /\ Broken \notin Letter \cup Digit \cup Separator
    /\ Letter \cap Digit = {} /\ (Letter \cup Digit) \cap Separator = {}
    /\ \A w \in DOMAIN Initialisms :
          /\ w \in Seq(Small \cup Digit) \ {<<>>}
          /\ Initialisms[w] \in Seq(Letter \cup Digit)
          /\ ToLower(Initialisms[w]) = w /\ Initialisms[w][1] \in Capital
    /\ Keyword \subseteq Seq(Small)
    /\ Name \subseteq Seq(Rune)

(* flush: the word under way is over, if there is one.                     *)
Flushed(s) == IF s.word = <<>> THEN s.words ELSE Append(s.words, s.word)

(* The loop of splitWords after each number of runes.                      *)
Scan(name) ==
    LET scan[p \in 0..Len(name)] ==
            IF p = 0 THEN [words |-> <<>>, word |-> <<>>]
            ELSE IF name[p] \in Separator
                 THEN [words |-> Flushed(scan[p - 1]), word |-> <<>>]
            ELSE IF p > 1 /\ name[p] \in Capital /\ name[p - 1] \notin Capital
                 THEN [words |-> Flushed(scan[p - 1]), word |-> <<name[p]>>]
            ELSE [scan[p - 1] EXCEPT !.word = Append(@, name[p])]
    IN  scan

splitWords(name) == Flushed(Scan(name)[Len(name)])

(* strings.ToUpper(lower[:1]) + lower[1:]: a byte, not a rune.             *)
Capitalized(lower) ==
    <<IF lower[1] \in Wide THEN Broken
      ELSE IF lower[1] \in Small THEN Upper[lower[1]] ELSE lower[1]>> \o Tail(lower)

Part(words, k, exported) ==
    LET lower == ToLower(words[k])
    IN  IF k = 1 /\ ~exported THEN lower
        ELSE IF lower \in DOMAIN Initialisms THEN Initialisms[lower]
        ELSE Capitalized(lower)

joinWords(words, exported) ==
    LET out == FlattenSeq([k \in DOMAIN words |-> Part(words, k, exported)])
    IN  IF out = <<>> THEN <<"_">>
        ELSE IF out[1] \notin Letter THEN <<"_">> \o out
        ELSE out

exportedName   == [name \in Name |-> joinWords(splitWords(name), TRUE)]
unexportedName == [name \in Name |-> joinWords(splitWords(name), FALSE)]

-----------------------------------------------------------------------------
(* The Go language's rules.                                                *)

Legal(ident) ==
    /\ \A k \in DOMAIN ident : ident[k] \in Letter \cup Digit \cup {"_"}
    /\ ident[1] \notin Digit
    /\ ident \notin Keyword

Blank(ident) == ident = <<"_">>
=============================================================================
