------------------------------ MODULE Rendering ------------------------------
(***************************************************************************)
(* One plugin run rendering its package as Go: internal/emit/gogen's Emit, *)
(* file by file, with the types, names, imports and time helpers it        *)
(* spells, and what the Go compiler makes of the result.                   *)
(*                                                                         *)
(* Emission models what one file owes to the others; this module models    *)
(* what a file owes to itself.  A Go type is a record of its spelling; a   *)
(* file is the paths it imports and the types and packages it spells.      *)
(***************************************************************************)
EXTENDS Names

CONSTANTS
    Dialect,
    Expanding,   \* those that expand a list to a placeholder per element
    TextTime,    \* those with a time layout, which have no timestamp type
    Path,        \* import paths
    LastElement, \* what follows the last slash of each
    Declares,    \* the name its package declares
    Standard,    \* the paths generated code imports of itself
    New,         \* the rest of a constructor's name
    PackageSet   \* the packages converge may hand over

None == [form |-> "none"]
Kind == {"string", "time", "bytes"}   \* a string stands for every plain kind

(* A type_override as renderOverride reads it: a builtin; a dotted name    *)
(* with no path and a path with no type, both refused; or a path and type. *)
Override ==
    {None} \cup [form : {"builtin", "bare", "typeless"}, stars : Nat]
           \cup [form : {"qualified"}, stars : Nat, path : Path]

Type == [kind : Kind, nullable : BOOLEAN, slice : BOOLEAN, override : Override]
Field == [name : Name, type : Type]
Query ==
    [name : Name, params : Seq(Field), columns : Seq(Field),
     command : {"exec", "execrows", "execresult", "one", "many"}]
Package ==
    [dialect : Dialect, nullAs : {"pointer", "sql"}, prefix : BOOLEAN, queries : Seq(Query)]

ReturnsRows(q) == q.command \in {"one", "many"}

ASSUME RenderingAssumption ==
    /\ Standard = {"context", "database/sql", "fmt", "strings", "time"}
    /\ Standard \subseteq Path
    /\ LastElement \in [Path -> STRING] /\ Declares \in [Path -> STRING \ {""}]
    /\ \A p \in Standard :
          /\ LastElement[p] = IF p = "database/sql" THEN "sql" ELSE p
          /\ Declares[p] = LastElement[p]
    /\ New \in Seq(Small)
    /\ \A p \in PackageSet :
          /\ p \in Package /\ p.queries # <<>>
          /\ \A i \in DOMAIN p.queries :
                LET q == p.queries[i]
                IN  /\ ReturnsRows(q) <=> q.columns # <<>>
                    \* what convergeQuery refuses
                    /\ \A f \in Range(q.params) : f.type.slice => ~f.type.nullable
                    /\ \A f \in Range(q.columns) : ~f.type.slice
                    /\ IsInjective([k \in DOMAIN q.params |-> q.params[k].name])
                    /\ IsInjective([k \in DOMAIN q.columns |-> q.columns[k].name])

SourceFile == {"db", "types", "querier", "queries"}

VARIABLES
    pkg,      \* the ir.Package
    pc,       \* which file, or which part of the last one, is next
    written,  \* the queries whose methods are written
    imports,  \* the paths each file imports
    spelled,  \* the packages each file refers to
    helpers,  \* the time helpers it declares
    calls     \* what is bound: the helper, if any, and the type it is given

vars == <<pkg, pc, written, imports, spelled, helpers, calls>>

Init ==
    /\ pkg \in PackageSet
    /\ pc = "db" /\ written = 0
    /\ imports = [f \in SourceFile |-> {}]
    /\ spelled = [f \in SourceFile |-> {}]
    /\ helpers = {} /\ calls = {}

Queries == Range(pkg.queries)
ParamsOf(q) == Range(q.params)
ColumnsOf(q) == Range(q.columns)
AllFields == UNION {ParamsOf(q) \cup ColumnsOf(q) : q \in Queries}

-----------------------------------------------------------------------------
(* types.go: what a type is spelled like and which path it records.        *)

Spell(package, type) == [list |-> FALSE, stars |-> 0, package |-> package, type |-> type]
Pointer(t) == [t EXCEPT !.stars = @ + 1]

Refused(t) == t.override.form \in {"bare", "typeless"}

renderOverride(o) ==
    IF o.form = "qualified"
    THEN [Spell(LastElement[o.path], "T") EXCEPT !.stars = o.stars]
    ELSE [Spell("", "override") EXCEPT !.stars = o.stars]

plainType(kind) == IF kind = "time" THEN Spell("time", "Time") ELSE Spell("", kind)
sqlNullType(kind) == Spell("sql", kind)

(* A byte slice is nil-able as it is.                                      *)
scalarType(t, nullAs) ==
    IF t.override # None THEN renderOverride(t.override)
    ELSE IF t.kind = "bytes" \/ ~t.nullable THEN plainType(t.kind)
    ELSE IF nullAs = "sql" THEN sqlNullType(t.kind)
    ELSE Pointer(plainType(t.kind))

goType(t, nullAs) == [scalarType(t, nullAs) EXCEPT !.list = t.slice]

Imported(t, nullAs) ==
    IF t.override # None
    THEN IF t.override.form = "qualified" THEN {t.override.path} ELSE {}
    ELSE IF t.kind # "bytes" /\ t.nullable /\ nullAs = "sql" THEN {"database/sql"}
    ELSE IF t.kind = "time" THEN {"time"} ELSE {}

ImportedBy(fields) == UNION {Imported(f.type, pkg.nullAs) : f \in fields}
SpelledBy(fields) == {goType(f.type, pkg.nullAs).package : f \in fields} \ {""}

-----------------------------------------------------------------------------
(* Emit.  go/format parses each file and refuses what is not Go.           *)

Write(file, paths, packages) ==
    /\ imports' = [imports EXCEPT ![file] = @ \cup paths]
    /\ spelled' = [spelled EXCEPT ![file] = @ \cup packages]

Stop(why) == pc' = why /\ UNCHANGED <<pkg, written, imports, spelled, helpers, calls>>

hasSliceParams == \E q \in Queries : \E f \in ParamsOf(q) : f.type.slice

EmitDB ==
    /\ pc = "db"
    /\ LET strings == IF hasSliceParams THEN {"strings"} ELSE {}
       IN  Write("db", {"context", "database/sql", "fmt"} \cup strings,
                       {"context", "sql", "fmt"} \cup strings)
    /\ pc' = "types"
    /\ UNCHANGED <<pkg, written, helpers, calls>>

RefuseOverride ==
    /\ pc = "types"
    /\ \E f \in AllFields : Refused(f.type)
    /\ Stop("refused")

CannotParseTypes ==
    /\ pc = "types"
    /\ \A f \in AllFields : ~Refused(f.type)
    /\ \E f \in AllFields : ~Legal(exportedName[f.name])
    /\ Stop("unparsable")

EmitTypes ==
    /\ pc = "types"
    /\ \A f \in AllFields : ~Refused(f.type) /\ Legal(exportedName[f.name])
    /\ Write("types", ImportedBy(AllFields), SpelledBy(AllFields))
    /\ pc' = "querier"
    /\ UNCHANGED <<pkg, written, helpers, calls>>

(* methodSignature: every method takes a context, one returns sql.Result.  *)
Signature(q) ==
    IF q.command = "execresult"
    THEN [paths |-> {"context", "database/sql"}, packages |-> {"context", "sql"}]
    ELSE [paths |-> {"context"}, packages |-> {"context"}]

EmitQuerier ==
    /\ pc = "querier"
    /\ Write("querier", UNION {Signature(q).paths : q \in Queries},
                        UNION {Signature(q).packages : q \in Queries})
    /\ pc' = "constructor"
    /\ UNCHANGED <<pkg, written, helpers, calls>>

(* The statement constants, the receiver's fields and the constructor.     *)
WriteConstructor ==
    /\ pc = "constructor"
    /\ LET strings == IF pkg.prefix THEN {"strings"} ELSE {}
       IN  Write("queries", {"context"} \cup strings, strings)
    /\ pc' = "helpers"
    /\ UNCHANGED <<pkg, written, helpers, calls>>
-----------------------------------------------------------------------------
(* times.go: the helper a parameter is wrapped in, whole or by element.    *)

binder(f) ==
    IF pkg.dialect \notin TextTime \/ f.type.override # None \/ f.type.kind # "time"
    THEN [value |-> "", element |-> ""]
    ELSE IF f.type.slice THEN [value |-> "", element |-> "timeText"]
    ELSE IF ~f.type.nullable THEN [value |-> "timeText", element |-> ""]
    ELSE [value   |-> IF pkg.nullAs = "sql" THEN "timeTextNull" ELSE "timeTextPtr",
          element |-> ""]

(* Mutant: a parameter that is bound as it is counts as a form.            *)
FormsOfAll ==
    UNION {{binder(f).value, binder(f).element} : f \in UNION {ParamsOf(q) : q \in Queries}}

Forms ==
    (UNION {{binder(f).value, binder(f).element} : f \in UNION {ParamsOf(q) : q \in Queries}})
        \ {""}

(* Mutant: the nullable forms do not pull in the form they call.           *)
WriteFormsOnly ==
    /\ pc = "helpers"
    /\ helpers' = Forms
    /\ LET sql == "timeTextNull" \in Forms
       IN  IF Forms = {} THEN UNCHANGED <<imports, spelled>>
           ELSE Write("queries", {"time"} \cup IF sql THEN {"database/sql"} ELSE {},
                                 {"time"} \cup IF sql THEN {"sql"} ELSE {})
    /\ pc' = "methods"
    /\ UNCHANGED <<pkg, written, calls>>

(* The nullable forms are written in terms of the value form.              *)
WriteTimeHelpers ==
    /\ pc = "helpers"
    /\ helpers' = IF Forms = {} THEN {} ELSE Forms \cup {"timeText"}
    /\ LET sql == "timeTextNull" \in Forms
       IN  IF Forms = {} THEN UNCHANGED <<imports, spelled>>
           ELSE Write("queries", {"time"} \cup IF sql THEN {"database/sql"} ELSE {},
                                 {"time"} \cup IF sql THEN {"sql"} ELSE {})
    /\ pc' = "methods"
    /\ UNCHANGED <<pkg, written, calls>>

-----------------------------------------------------------------------------
(* writeMethod: what it binds, and the packages its body refers to.        *)

Expanded(f) == f.type.slice /\ pkg.dialect \in Expanding

Bound(f) ==
    LET type == goType(f.type, pkg.nullAs)
    IN  IF Expanded(f) THEN [helper |-> binder(f).element, given |-> [type EXCEPT !.list = FALSE]]
        ELSE [helper |-> binder(f).value, given |-> type]

WriteMethod ==
    /\ pc = "methods" /\ written < Len(pkg.queries)
    /\ LET q == pkg.queries[written + 1]
           strings == IF \E f \in ParamsOf(q) : Expanded(f) THEN {"strings"} ELSE {}
       IN  /\ Write("queries", Signature(q).paths \cup strings,
                               Signature(q).packages \cup strings)
           /\ calls' = calls \cup {Bound(f) : f \in ParamsOf(q)}
    /\ written' = written + 1
    /\ UNCHANGED <<pkg, pc, helpers>>

(* The types of the assertions are those of the types file.                *)
WriteShapeAssertions ==
    /\ pc = "methods" /\ written = Len(pkg.queries)
    /\ Write("queries", ImportedBy(AllFields), SpelledBy(AllFields))
    /\ pc' = "format"
    /\ UNCHANGED <<pkg, written, helpers, calls>>

(* A query's name is that of a field of the receiver, uncapitalized.       *)
CannotParseQueries ==
    /\ pc = "format"
    /\ \E q \in Queries : ~Legal(unexportedName[q.name])
    /\ Stop("unparsable")

Done ==
    /\ pc = "format"
    /\ \A q \in Queries : Legal(unexportedName[q.name])
    /\ Stop("done")

Next ==
    \/ EmitDB \/ RefuseOverride \/ CannotParseTypes \/ EmitTypes \/ EmitQuerier
    \/ WriteConstructor \/ WriteTimeHelpers \/ WriteMethod \/ WriteShapeAssertions
    \/ CannotParseQueries \/ Done

Spec == Init /\ [][Next]_vars

-----------------------------------------------------------------------------
(* The Go compiler.                                                        *)

(* Every import is used, every package referred to is imported, and no two *)
(* imports of a file have one name.                                        *)
ImportsFit(f) ==
    /\ IsInjective([p \in imports[f] |-> Declares[p]])
    /\ {Declares[p] : p \in imports[f]} = spelled[f]

(* The fields of a struct are distinct, and those referred to not blank.   *)
FieldsFit(fields) ==
    LET names == [k \in DOMAIN fields |-> exportedName[fields[k].name]]
    IN  IsInjective(names) /\ \A k \in DOMAIN names : ~Blank(names[k])

(* The constants are named for their query and the dialect, and so is the  *)
(* constructor, for new; a receiver's fields are not its methods.          *)
QueriesFit ==
    LET stems == [k \in DOMAIN pkg.queries |-> unexportedName[pkg.queries[k].name]]
    IN  /\ IsInjective(stems)
        /\ \A k \in DOMAIN stems :
              /\ stems[k] # New /\ ~Blank(stems[k])
              /\ \A q \in Queries : stems[k] # q.name

(* A helper that is called, by a method or another helper, is declared and *)
(* takes what it is given.                                                 *)
Takes == [timeText     |-> Spell("time", "Time"),
          timeTextPtr  |-> Pointer(Spell("time", "Time")),
          timeTextNull |-> Spell("sql", "time")]

HelpersFit ==
    /\ \A c \in calls : c.helper # "" => c.helper \in helpers /\ Takes[c.helper] = c.given
    /\ helpers # {} => "timeText" \in helpers

Compiles ==
    /\ \A f \in SourceFile : ImportsFit(f)
    /\ \A q \in Queries : FieldsFit(q.params) /\ FieldsFit(q.columns)
    /\ QueriesFit /\ HelpersFit

-----------------------------------------------------------------------------
(* Properties.                                                             *)

Expression == [list : BOOLEAN, stars : Nat, package : {""} \cup Range(LastElement) \cup {"sql"},
               type : Kind \cup {"Time", "T", "override"}]

TypeOK ==
    /\ pkg \in Package
    /\ pc \in {"db", "types", "querier", "constructor", "helpers", "methods", "format",
              "done", "refused", "unparsable"}
    /\ written \in 0..Len(pkg.queries)
    /\ imports \in [SourceFile -> SUBSET Path]
    /\ spelled \in [SourceFile -> SUBSET (Range(LastElement) \cup {"sql"})]
    /\ helpers \subseteq DOMAIN Takes
    /\ \A c \in calls : c.helper \in DOMAIN Takes \cup {""} /\ c.given \in Expression

(* A SQL name's letters and digits, whatever separates or capitalizes them. *)
Bare(name) ==
    FlattenSeq([k \in DOMAIN name |->
                   IF name[k] \in Separator THEN <<>> ELSE <<Lower(name[k])>>])

(* A name's runes are letters and digits, between separators, and none is  *)
(* of more than one byte when it is small.                                 *)
Narrow(name) ==
    /\ name # <<>> /\ name[1] \in Letter
    /\ \A k \in DOMAIN name :
          name[k] \in Letter \cup Digit \cup Separator /\ Lower(name[k]) \notin Wide

(* What an author can see to: names in narrow letters that begin with one  *)
(* and differ in more than separators and case; queries capitalized, not   *)
(* named for a keyword or New; override packages that are named for the    *)
(* last element of their path, and each for another.                       *)
WellNamed ==
    /\ \A q \in Queries :
          /\ IsInjective([k \in DOMAIN q.params |-> Bare(q.params[k].name)])
          /\ IsInjective([k \in DOMAIN q.columns |-> Bare(q.columns[k].name)])
          /\ Narrow(q.name) /\ q.name[1] \in Capital
          /\ Bare(q.name) \notin Keyword \cup {New}
    /\ IsInjective([k \in DOMAIN pkg.queries |-> Bare(pkg.queries[k].name)])
    /\ \A f \in AllFields : Narrow(f.name)
    /\ \A p, r \in {f.type.override.path : f \in {f \in AllFields :
                                                 f.type.override.form = "qualified"}} :
          /\ Declares[p] = LastElement[p]
          /\ Declares[p] = Declares[r] => p = r
          /\ p \in Standard \/ \A std \in Standard : Declares[p] # Declares[std]

(***************************************************************************)
(* What a well named package may count on: it is not refused, but for an   *)
(* override that has no import path or no type; and the files compile      *)
(* together, with the imports and the time helpers they need and none they *)
(* do not, on every dialect, under every option and in any mixture of      *)
(* kinds, nullability, lists and overrides.  A generator that emits code   *)
(* that cannot be parsed has a bug, says emit.go:55.                       *)
(***************************************************************************)
WellNamedCompiles ==
    WellNamed =>
        /\ pc # "unparsable"
        /\ pc = "refused" => \E f \in AllFields : Refused(f.type)
        /\ pc = "done" => Compiles

(***************************************************************************)
(* What emit.go:55-57 says of every package: the source a generator emits  *)
(* can be parsed.                                                          *)
(***************************************************************************)
AlwaysParses == pc # "unparsable"
=============================================================================
