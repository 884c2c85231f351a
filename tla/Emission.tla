------------------------------ MODULE Emission ------------------------------
(***************************************************************************)
(* What one plugin run emits for one dialect, as internal/emit/gogen does, *)
(* and when the Go compiler accepts the package those files make up.       *)
(*                                                                         *)
(* Go source is abstracted to what the compiler tells apart: the types a   *)
(* file declares, the methods it declares or requires, and the symbols of  *)
(* other files it refers to.  A field stands for its name together with    *)
(* its rendered Go type, so two fields are equal exactly when a struct     *)
(* conversion would identify them.                                         *)
(***************************************************************************)
EXTENDS Naturals, Sequences, FiniteSets

CONSTANTS
    Dialect,    \* the engines sqlc can analyze
    Expanding,  \* those whose list parameters expand to one placeholder each
    Query,      \* query names
    Field,      \* name-and-type pairs
    ListField,  \* the fields whose type is a list
    Analysis    \* the shapes a dialect's analysis may converge to

Command == {"exec", "execrows", "execresult", "one", "many"}
ReturnsRows(command) == command \in {"one", "many"}

(***************************************************************************)
(* ir.Query: what every dialect must agree on for one query.  Columns are  *)
(* empty unless the command returns rows, and never empty when it does.    *)
(***************************************************************************)
QueryShape(q) ==
    /\ q.command \in Command
    /\ q.params \in Seq(Field)
    /\ q.columns \in Seq(Field)
    /\ ReturnsRows(q.command) <=> q.columns # <<>>

SharedFile == {"db", "types", "querier"}
File == SharedFile \cup Dialect   \* a dialect stands for its queries file

(* An analysis gives a shape to each of a dialect's queries, at least one. *)
ASSUME EmissionAssumption ==
    /\ Expanding \subseteq Dialect
    /\ Dialect \cap SharedFile = {}
    /\ \A a \in Analysis : /\ DOMAIN a \subseteq Query
                           /\ DOMAIN a # {}
                           /\ \A q \in DOMAIN a : QueryShape(a[q])

(* The plugin options every invocation of a run receives.                  *)
Options == [roster : (SUBSET Dialect) \ {{}}, prefix : BOOLEAN]

-----------------------------------------------------------------------------
(* The four files.                                                         *)

(* Whether any query of the package takes a list.                          *)
HasSliceParams(a) ==
    \E q \in DOMAIN a : \E i \in DOMAIN a[q].params : a[q].params[i] \in ListField

(* The method a query has, in the interface and in every dialect.  The     *)
(* result types are one to one with the command.                           *)
MethodSignature(a, q) ==
    [name |-> q, takesParams |-> a[q].params # <<>>, command |-> a[q].command]

Methods(a) == {MethodSignature(a, q) : q \in DOMAIN a}

(* The params and row structs, and the shape assertions that pin them.     *)
ParamsType(a, q) == [query |-> q, kind |-> "Params", fields |-> a[q].params]
RowType(a, q)    == [query |-> q, kind |-> "Row", fields |-> a[q].columns]

StructTypes(a) ==
    {ParamsType(a, q) : q \in {q \in DOMAIN a : a[q].params # <<>>}}
    \cup {RowType(a, q) : q \in {q \in DOMAIN a : ReturnsRows(a[q].command)}}

EmitDB(options, a) ==
    [roster |-> options.roster, prefix |-> options.prefix,
     slicePlaceholders |-> HasSliceParams(a)]

EmitTypes(a) == StructTypes(a)

EmitQuerier(a) == Methods(a)

(* Mutant: the shape assertions are left out.                              *)
EmitQueriesNoAsserts(d, options, a) ==
    [prefix |-> options.prefix, methods |-> Methods(a), asserts |-> {},
     expands |-> d \in Expanding /\ HasSliceParams(a)]

(* A dialect's own file: its constructor (with or without a prefix), its   *)
(* methods, its shape assertions, and whether it calls slicePlaceholders.  *)
EmitQueries(d, options, a) ==
    [prefix |-> options.prefix, methods |-> Methods(a), asserts |-> StructTypes(a),
     expands |-> d \in Expanding /\ HasSliceParams(a)]

(* The contents a file of the out directory may have.  Empty is a file     *)
(* opened for writing and not written; Garbled is one that two writers     *)
(* with different contents wrote over each other.                          *)
Absent  == [kind |-> "absent"]
Empty   == [kind |-> "empty"]
Garbled == [kind |-> "garbled"]
Go(body) == [kind |-> "go", body |-> body]

(* Mutant: a dialect that does not call the helper does not emit it.       *)
EmitHelperWhereCalled(d, options, a) ==
    [f \in SharedFile \cup {d} |->
        CASE f = "db"      -> Go([EmitDB(options, a) EXCEPT
                                     !.slicePlaceholders = @ /\ d \in Expanding])
          [] f = "types"   -> Go(EmitTypes(a))
          [] f = "querier" -> Go(EmitQuerier(a))
          [] OTHER         -> Go(EmitQueries(d, options, a))]

(* Every invocation emits the three shared files and its dialect's own.    *)
Emit(d, options, a) ==
    [f \in SharedFile \cup {d} |->
        CASE f = "db"      -> Go(EmitDB(options, a))
          [] f = "types"   -> Go(EmitTypes(a))
          [] f = "querier" -> Go(EmitQuerier(a))
          [] OTHER         -> Go(EmitQueries(d, options, a))]

(* What a file may hold: nothing, or what some invocation emits for it.    *)
Content ==
    [f \in File |->
        {Absent, Empty, Garbled}
        \cup UNION {{Emit(d, o, a)[f] : o \in Options, a \in Analysis} :
                      d \in IF f \in SharedFile THEN Dialect ELSE {f}}]

-----------------------------------------------------------------------------
(* The Go compiler, over every file of the directory.                      *)

Present(dir) == {d \in Dialect : dir[d] # Absent}

(* The constructor New returns a dialect's receiver as a Querier: the      *)
(* dialect's constructor must exist with New's parameters, and its methods *)
(* must cover the interface.                                               *)
Implements(queries, db, querier) ==
    /\ queries.prefix = db.prefix
    /\ querier \subseteq queries.methods

(* Every type a method of the interface names must be declared.            *)
Declared(method, types) ==
    /\ method.takesParams =>
         \E t \in types : t.query = method.name /\ t.kind = "Params"
    /\ ReturnsRows(method.command) =>
         \E t \in types : t.query = method.name /\ t.kind = "Row"

(* A queries file's references into the shared files: each asserted type   *)
(* with the same fields in the same order, slicePlaceholders when a method *)
(* expands a list, prefixMarker when the constructor takes a prefix.       *)
Resolves(queries, db, types) ==
    /\ queries.asserts \subseteq types
    /\ queries.expands => db.slicePlaceholders
    /\ queries.prefix => db.prefix

Compiles(dir) ==
    /\ \A f \in SharedFile : dir[f].kind = "go"
    /\ \A d \in Present(dir) : dir[d].kind = "go"
    /\ LET db      == dir["db"].body
           types   == dir["types"].body
           querier == dir["querier"].body
       IN  /\ \A d \in db.roster : d \in Present(dir) /\ Implements(dir[d].body, db, querier)
           /\ \A m \in querier : Declared(m, types)
           /\ \A d \in Present(dir) : Resolves(dir[d].body, db, types)

-----------------------------------------------------------------------------
(* Agreement between dialects.                                             *)

(* Two analyses agree when they render the same shared files.              *)
Agree(a, b) == Methods(a) = Methods(b) /\ StructTypes(a) = StructTypes(b)

(* What compilation can see of a dialect's analysis a when the shared      *)
(* files are written from b: the same structs, and at least the methods    *)
(* of the interface.  A method of a that b lacks is seen only if it has a  *)
(* params or a row struct.                                                 *)
Visible(a, b) == StructTypes(a) = StructTypes(b) /\ Methods(b) \subseteq Methods(a)
=============================================================================
