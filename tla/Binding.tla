------------------------------ MODULE Binding ------------------------------
(***************************************************************************)
(* What a generated method binds when it runs: internal/emit/gogen's       *)
(* bindArgs, expansionPrelude and slicePlaceholders, and the database that *)
(* numbers the placeholders of the statement it is given.                  *)
(*                                                                         *)
(* A call gives every list a length.  A value is its field's name with the *)
(* element's place in the list, or 0 for the field as a whole.             *)
(***************************************************************************)
EXTENDS Convergence, SequencesExt

CONSTANT MaxElements  \* bound: elements of a list

ASSUME BindingAssumption == MaxElements \in Nat

(* The lists a dialect's method expands, and the lengths a call gives them. *)
ExpandedNames(d) == {args[d][k].name : k \in {k \in DOMAIN args[d] : args[d][k].expand # None}}

Call(d) == [ExpandedNames(d) -> 0..MaxElements]

Whole(name) == <<name, 0>>
Elements(name, n) == [k \in 1..n |-> <<name, k>>]

(* The []any of the method: a list that expands is appended by element, an *)
(* array and a scalar as they are.                                         *)
BoundArgs(d, call) ==
    FlattenSeq([k \in DOMAIN args[d] |->
        IF args[d][k].expand = None THEN <<Whole(args[d][k].name)>>
        ELSE Elements(args[d][k].name, call[args[d][k].name])])

(* The length make is given: an element of a list is an argument.          *)
capacity(d, call) ==
    LET expanded == {k \in DOMAIN args[d] : args[d][k].expand # None}
    IN  Cardinality(DOMAIN args[d] \ expanded)
        + MapThenSumSet(LAMBDA k : call[args[d][k].name], expanded)

(* Mutant: an empty list still leaves its placeholder.                     *)
AtLeastOnePlaceholder(n) == [k \in 1..(IF n = 0 THEN 1 ELSE n) |-> Bare("?")]

(* One placeholder per element, or the literal NULL for none.              *)
slicePlaceholders(n) == [k \in 1..n |-> Bare("?")]

(* strings.Replace(query, marker, ..., 1): the first site of an argument   *)
(* that expands becomes its placeholders.  A site nobody replaces remains  *)
(* what it is to the database, a comment and one placeholder.              *)
Expands(d, i, k) ==
    /\ args[d][k].expand # None
    /\ i \in SitesOf(d, args[d][k])
    /\ \A j \in SitesOf(d, args[d][k]) : i <= j

Placeholders(d, i, call) ==
    IF Text(d)[i].kind # "site" THEN <<Text(d)[i]>>
    ELSE IF \E k \in DOMAIN args[d] : Expands(d, i, k)
         THEN LET k == CHOOSE k \in DOMAIN args[d] : Expands(d, i, k)
              IN  slicePlaceholders(call[args[d][k].name])
         ELSE <<Bare("?")>>

(* The statement as the database is given it.                              *)
Expanded(d, call) ==
    FlattenSeq([i \in DOMAIN statement |-> Placeholders(d, i, call)])

(* The parameter each placeholder stands for: its own number, or for a     *)
(* bare one the next after the highest so far.  With none but bare ones    *)
(* that is their position.                                                 *)
Numbering(d, placeholders) ==
    LET number[p \in DOMAIN placeholders] ==
            IF placeholders[p].kind = "numbered" THEN Number(d, placeholders[p].name)
            ELSE 1 + Max({0} \cup {number[q] : q \in 1..(p - 1)})
    IN  number

(* What the author means by the uses of the statement, by name.            *)
Meant(d, call) ==
    FlattenSeq([i \in DOMAIN statement |->
        IF ListOf(d, i) = "expandedList" THEN Elements(FieldName(d, i), call[FieldName(d, i)])
        ELSE <<Whole(FieldName(d, i))>>])

-----------------------------------------------------------------------------
(* Every accepted method calls by name: however long its lists are, an     *)
(* empty one included, every placeholder of the statement it sends gets    *)
(* the value the author named there, and the database is given as many     *)
(* values as it counts parameters, out of one allocation.                  *)
CalledByName ==
    \A d \in Dialect : pc[d] = "accepted" =>
        \A call \in Call(d) :
            LET numbers == Numbering(d, Expanded(d, call))
                bound   == BoundArgs(d, call)
            IN  /\ Len(bound) = capacity(d, call)
                /\ Range(numbers) = DOMAIN bound
                /\ [p \in DOMAIN numbers |-> bound[numbers[p]]] = Meant(d, call)
=============================================================================
