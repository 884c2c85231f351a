---------------------------- MODULE Convergence ----------------------------
(***************************************************************************)
(* How one query becomes unison's IR on each dialect: internal/converge.   *)
(*                                                                         *)
(* The author writes a statement as a sequence of uses of arguments.  Each *)
(* dialect's analyzer reports them to the plugin as parameters in the      *)
(* order of their placeholders: one parameter per use where placeholders   *)
(* are positional, one per argument elsewhere.  The plugin walks them once *)
(* and builds the shared fields and the dialect's argument list together.  *)
(*                                                                         *)
(* What the analyzer says of a parameter's or a column's type is chosen    *)
(* when the plugin reads it.  Invocations share nothing, so they run one   *)
(* after the other here, and each whatever became of the one before.       *)
(***************************************************************************)
EXTENDS Types

CONSTANTS
    Dialect,
    Rank,        \* the order of the invocations
    Positional,  \* dialects whose every placeholder is a parameter (MySQL)
    Expanding,   \* dialects that expand a list to a placeholder per element
    Name,        \* names of arguments and columns
    NoName,      \* a parameter or a column the analyzer has no name for
    BareName,    \* what a positional dialect calls the argument of LIMIT
    Table,       \* tables, and what an expression has for one
    AnyTable,    \* the table of a wildcard override
    EngineType,  \* the types analyzers report, as they spell them
    OneType,     \* those that are one type to the author of a schema
    GoType,      \* the types an override may name
    OptionsSet,  \* the options considered
    UseSet,      \* the uses a statement may consist of
    ReportSet,   \* what an analyzer may say of a type
    Commands,    \* the annotations considered
    MaxUses,     \* bound: uses in a statement
    MaxColumns,  \* bound: columns in a projection
    MaxSize      \* bound: uses and columns together

(* None is no kind, no override, and no expansion site.                    *)

(* A Go type of the IR.  An override carries neither kind nor nullability. *)
Type == [kind : Kind \cup {None}, override : GoType \cup {None},
         nullable : BOOLEAN, slice : BOOLEAN]
Field == [name : Name, type : Type]
Arg   == [name : Name, expand : Name \cup {None}]

(* One use of an argument: whether it is a list and of how many dimensions *)
(* its array would be, and whether it stands where a positional dialect    *)
(* takes nothing but a bare placeholder.                                   *)
Use    == [name : Name \cup {NoName}, list : {"no", "flat", "nested"}, bare : BOOLEAN]
Report == [table : Table, engine : EngineType, notNull : BOOLEAN]
Parameter == [use : Nat, report : ReportSet]

Shape == INSTANCE Emission WITH
             Query <- {}, ListField <- {f \in Field : f.type.slice}, Analysis <- {}

ASSUME ConvergenceAssumption ==
    /\ Rank \in [Dialect -> Nat]
    /\ Positional \subseteq Expanding /\ Expanding \subseteq Dialect
    /\ NoName \notin Name \cup {None} /\ None \notin Name \cup Kind \cup GoType
    /\ BareName \in Name
    /\ EngineType \subseteq Seq(STRING) /\ OneType \subseteq SUBSET EngineType
    /\ \A o \in OptionsSet :
          /\ \A d \in Dialect : \A n \in DOMAIN o.renames[d] : o.renames[d][n] \in Name
          /\ o.tables \subseteq Name
          /\ o.overrides \in Seq([table : Table \cup {AnyTable}, column : Name,
                                  goType : GoType])
    /\ UseSet \subseteq Use /\ ReportSet \subseteq Report
    \* an argument is a list at every use or at none, and LIMIT takes no list
    /\ \A u, v \in UseSet : u.name = v.name => u.list = v.list
    /\ \A u \in UseSet : u.bare => u.list = "no"
    /\ MaxUses \in Nat /\ MaxColumns \in Nat /\ MaxSize \in Nat

(* What the table and the normalization in Types are for.                  *)
ASSUME SpellingAssumption ==
    \A spellings \in OneType : \A s, t \in spellings : KindOf(s) = KindOf(t)

VARIABLES
    options,    \* renames, overrides, and the tables the prefix marker rewrites
    command,    \* the query's annotation
    statement,  \* the uses of its arguments, in the order of the text
    projection, \* the names of its columns
    pc,         \* where each dialect's convergeQuery is
    request,    \* the parameters read so far: their use and their report
    params,     \* the shared fields
    args,       \* the names its placeholders bind
    columns,    \* the shared row
    row         \* what was reported of each of its columns

query   == <<options, command, statement, projection>>
vars    == <<query, pc, request, params, args, columns, row>>

Final == {"accepted", "refused"}
Goto(d, to) == pc' = [pc EXCEPT ![d] = to]
Turn(d) == \A e \in Dialect : Rank[e] < Rank[d] => pc[e] \in Final

-----------------------------------------------------------------------------
(* The analyzers.                                                          *)

ReportedName(d, i) ==
    IF statement[i].bare /\ d \in Positional THEN BareName ELSE statement[i].name

(* The uses that reach the plugin as parameters.                           *)
Parameters(d) ==
    {i \in DOMAIN statement :
        d \in Positional \/ \A j \in 1..(i - 1) : ReportedName(d, j) # ReportedName(d, i)}

LastRead(d) == IF request[d] = <<>> THEN 0 ELSE request[d][Len(request[d])].use

(* Mutant: sorted by Number, which is 1 for a bare placeholder.            *)
NextByNumber(d, i) ==
    LET Unread == Parameters(d) \ {request[d][k].use : k \in DOMAIN request[d]}
        Key(j) == IF statement[j].bare /\ d \in Positional THEN 0 ELSE j
    IN  i \in Unread /\ \A j \in Unread : Key(i) <= Key(j)

(* GetParams in list order, which is the order of the placeholders.        *)
NextParam(d, i) ==
    /\ i \in Parameters(d) /\ LastRead(d) < i
    /\ \A j \in Parameters(d) : LastRead(d) < j => i <= j

(* The placeholders in the text of the analyzed statement, one per use.  A *)
(* list leaves an expansion site spelled from the name the analyzer        *)
(* reported; a numbered placeholder is that of the parameter of its name.  *)
Site(name, marked) == [kind |-> "site", name |-> name, marked |-> marked]
Bare(name)     == [kind |-> "bare", name |-> name]
Numbered(name) == [kind |-> "numbered", name |-> name]

Text(d) ==
    [i \in DOMAIN statement |->
        CASE statement[i].list # "no" /\ d \in Expanding -> Site(ReportedName(d, i), FALSE)
          [] statement[i].list = "no" /\ d \in Positional -> Bare(ReportedName(d, i))
          [] OTHER -> Numbered(ReportedName(d, i))]

Number(d, name) ==
    CHOOSE k \in DOMAIN request[d] : ReportedName(d, request[d][k].use) = name

-----------------------------------------------------------------------------
(* Names, lists and types.                                                 *)

(* The name of the shared field: the reported one, unless it is renamed.   *)
FieldName(d, i) ==
    LET reported == ReportedName(d, i)
        renames  == options.renames[d]
    IN  IF reported \in DOMAIN renames THEN renames[reported] ELSE reported

ListOf(d, i) ==
    IF statement[i].list = "no" THEN "notAList"
    ELSE IF d \in Expanding THEN "expandedList"
    ELSE IF statement[i].list = "flat" THEN "boundList"
    ELSE "nested"

(* The overrides that match, by their places in the sorted list: the first *)
(* exact one decides, and the last wildcard if there is none.              *)
Matches(o, table, column) ==
    {i \in DOMAIN o.overrides : o.overrides[i].table = table /\ o.overrides[i].column = column}

OverrideFor(o, table, column) ==
    LET exact    == Matches(o, table, column)
        wildcard == Matches(o, AnyTable, column)
        i == IF exact # {} THEN CHOOSE i \in exact : \A j \in exact : i <= j
             ELSE CHOOSE i \in wildcard : \A j \in wildcard : j <= i
    IN  IF exact \cup wildcard = {} THEN None ELSE o.overrides[i].goType

Mapped(report, name) ==
    OverrideFor(options, report.table, name) # None \/ KindOf(report.engine) # None

(* An override wins outright, over the analyzer's nullability too.         *)
MapType(report, name, slice) ==
    LET goType == OverrideFor(options, report.table, name)
    IN  [kind     |-> IF goType = None THEN KindOf(report.engine) ELSE None,
         override |-> goType,
         nullable |-> goType = None /\ ~report.notNull,
         slice    |-> slice]

(* Mutant: the override is looked up under the name the analyzer reported. *)
FieldOfReported(d, i, report) ==
    [name |-> FieldName(d, i),
     type |-> MapType(report, ReportedName(d, i), ListOf(d, i) # "notAList")]

(* Mutant: a list bound as an array is no slice.                           *)
FieldOfExpanded(d, i, report) ==
    [name |-> FieldName(d, i),
     type |-> MapType(report, FieldName(d, i), ListOf(d, i) = "expandedList")]

FieldOf(d, i, report) ==
    [name |-> FieldName(d, i),
     type |-> MapType(report, FieldName(d, i), ListOf(d, i) # "notAList")]

-----------------------------------------------------------------------------
Init ==
    /\ options \in OptionsSet
    /\ command \in Commands
    /\ \E n \in 0..MaxUses : statement \in [1..n -> UseSet]
    /\ \E n \in 0..MaxColumns : projection \in [1..n -> Name \cup {NoName}]
    /\ Len(statement) + Len(projection) <= MaxSize
    /\ pc = [d \in Dialect |-> "command"]
    /\ request = [d \in Dialect |-> <<>>]
    /\ params = [d \in Dialect |-> <<>>]
    /\ args = [d \in Dialect |-> <<>>]
    /\ columns = [d \in Dialect |-> <<>>]
    /\ row = [d \in Dialect |-> <<>>]

ParseCommand(d) ==
    /\ pc[d] = "command" /\ Turn(d)
    /\ Goto(d, IF command \in Shape!Command THEN "params" ELSE "refused")
    /\ UNCHANGED <<query, request, params, args, columns, row>>

-----------------------------------------------------------------------------
(* convergeParams, one parameter at a time.                                *)

(* Mutant: only the kinds of the two types are compared.                   *)
ClashesInKind(d, field) ==
    \E k \in DOMAIN params[d] :
        /\ params[d][k].name = field.name
        /\ params[d][k].type.kind # field.type.kind \/ field.type.slice

(* The same argument bound twice must mean the same both times, and a list *)
(* must not be bound twice.                                                *)
Clashes(d, field) ==
    \E k \in DOMAIN params[d] :
        /\ params[d][k].name = field.name
        /\ params[d][k].type # field.type \/ field.type.slice

(* Mutant: a parameter without a name goes through.                        *)
ParamRefusedIfNamed(d, i, report) ==
    \/ ListOf(d, i) = "nested"
    \/ ~Mapped(report, FieldName(d, i))
    \/ LET field == FieldOf(d, i, report)
       IN  (field.type.slice /\ field.type.nullable) \/ Clashes(d, field)

(* The reasons for which a parameter has no converged spelling.            *)
ParamRefused(d, i, report) ==
    \/ ReportedName(d, i) = NoName
    \/ ListOf(d, i) = "nested"
    \/ ~Mapped(report, FieldName(d, i))
    \/ LET field == FieldOf(d, i, report)
       IN  (field.type.slice /\ field.type.nullable) \/ Clashes(d, field)

RefuseParam(d) ==
    /\ pc[d] = "params"
    /\ \E i \in DOMAIN statement : \E report \in ReportSet :
          NextParam(d, i) /\ ParamRefused(d, i, report)
    /\ Goto(d, "refused")
    /\ UNCHANGED <<query, request, params, args, columns, row>>

(* Mutant: every parameter is a field.                                     *)
AddFieldAlways(fields, field) == Append(fields, field)

(* A new name is a new field; every parameter is one more argument.        *)
AddField(fields, field) ==
    IF \E k \in DOMAIN fields : fields[k].name = field.name THEN fields
    ELSE Append(fields, field)

ArgOf(d, i) ==
    [name   |-> FieldName(d, i),
     expand |-> IF ListOf(d, i) = "expandedList" THEN ReportedName(d, i) ELSE None]

ConvergeParam(d) ==
    /\ pc[d] = "params"
    /\ \E i \in DOMAIN statement : \E report \in ReportSet :
          /\ NextParam(d, i) /\ ~ParamRefused(d, i, report)
          /\ request' = [request EXCEPT ![d] = Append(@, [use |-> i, report |-> report])]
          /\ params' = [params EXCEPT ![d] = AddField(@, FieldOf(d, i, report))]
          /\ args' = [args EXCEPT ![d] = Append(@, ArgOf(d, i))]
    /\ UNCHANGED <<query, pc, columns, row>>

(* Mutant: a command that returns rows may have no columns.                *)
EndParamsNoColumns(d) ==
    /\ pc[d] = "params"
    /\ \A i \in Parameters(d) : i <= LastRead(d)
    /\ Goto(d, IF Shape!ReturnsRows(command) THEN "columns" ELSE "expansions")
    /\ UNCHANGED <<query, request, params, args, columns, row>>

EndParams(d) ==
    /\ pc[d] = "params"
    /\ \A i \in Parameters(d) : i <= LastRead(d)
    /\ Goto(d, IF ~Shape!ReturnsRows(command) THEN "expansions"
               ELSE IF projection = <<>> THEN "refused"
               ELSE "columns")
    /\ UNCHANGED <<query, request, params, args, columns, row>>

-----------------------------------------------------------------------------
(* convergeColumns, one column at a time.                                  *)

ColumnRefused(d, name, report) ==
    \/ name = NoName
    \/ \E k \in DOMAIN columns[d] : columns[d][k].name = name
    \/ ~Mapped(report, name)

ConvergeColumn(d) ==
    /\ pc[d] = "columns"
    /\ Len(columns[d]) < Len(projection)
    /\ LET name == projection[Len(columns[d]) + 1]
       IN  \E report \in ReportSet :
             IF ColumnRefused(d, name, report)
             THEN Goto(d, "refused") /\ UNCHANGED <<columns, row>>
             ELSE /\ columns' = [columns EXCEPT ![d] =
                        Append(@, [name |-> name, type |-> MapType(report, name, FALSE)])]
                  /\ row' = [row EXCEPT ![d] = Append(@, report)]
                  /\ UNCHANGED pc
    /\ UNCHANGED <<query, request, params, args>>

EndColumns(d) ==
    /\ pc[d] = "columns"
    /\ Len(columns[d]) = Len(projection)
    /\ Goto(d, "expansions")
    /\ UNCHANGED <<query, request, params, args, columns, row>>

-----------------------------------------------------------------------------
(* checkExpansions, against the text whose table names are marked.         *)

(* markPrefixes takes a site spelled like a table for that table.          *)
MarkedText(d) ==
    [i \in DOMAIN statement |->
        IF Text(d)[i].kind = "site"
        THEN Site(Text(d)[i].name, Text(d)[i].name \in options.tables)
        ELSE Text(d)[i]]

SitesOf(d, arg) == {i \in DOMAIN statement : MarkedText(d)[i] = Site(arg.expand, FALSE)}

(* Mutant: a list may bind any placeholder.                                *)
ExpansionAnywhere(d, k) ==
    args[d][k].expand # None => Cardinality(SitesOf(d, args[d][k])) = 1

(* A list has left one expansion site, and it binds the last placeholder.  *)
ExpansionSound(d, k) ==
    args[d][k].expand # None =>
        /\ Cardinality(SitesOf(d, args[d][k])) = 1
        /\ k = Len(args[d])

CheckExpansions(d) ==
    /\ pc[d] = "expansions"
    /\ Goto(d, IF \A k \in DOMAIN args[d] : ExpansionSound(d, k)
               THEN "accepted" ELSE "refused")
    /\ UNCHANGED <<query, request, params, args, columns, row>>

-----------------------------------------------------------------------------
Step(d) ==
    \/ ParseCommand(d) \/ RefuseParam(d) \/ ConvergeParam(d) \/ EndParams(d)
    \/ ConvergeColumn(d) \/ EndColumns(d) \/ CheckExpansions(d)

Next == \E d \in Dialect : Step(d)

Spec == Init /\ [][Next]_vars
-----------------------------------------------------------------------------
(* Properties.                                                             *)

(* Types.  A parameter without a name, or of a type unison does not map,   *)
(* never becomes a field or an argument.                                   *)
TypeOK ==
    /\ options \in OptionsSet
    /\ statement \in Seq(UseSet)
    /\ projection \in Seq(Name \cup {NoName})
    /\ pc \in [Dialect -> {"command", "params", "columns", "expansions"} \cup Final]
    /\ request \in [Dialect -> Seq(Parameter)]
    /\ params \in [Dialect -> Seq(Field)]
    /\ args \in [Dialect -> Seq(Arg)]
    /\ columns \in [Dialect -> Seq(Field)]
    /\ row \in [Dialect -> Seq(ReportSet)]

(* The parameters are read in the order of the text, none is left out, and *)
(* each is one argument.                                                   *)
ReadInOrder(d) ==
    /\ Len(args[d]) = Len(request[d])
    /\ \A k \in DOMAIN request[d] :
          /\ request[d][k].use \in Parameters(d)
          /\ args[d][k] = ArgOf(d, request[d][k].use)
          /\ d \in Positional => request[d][k].use = k
    /\ \A k, l \in DOMAIN request[d] : k < l => request[d][k].use < request[d][l].use
    /\ \A i \in Parameters(d) : i <= LastRead(d) => \E k \in DOMAIN request[d] : request[d][k].use = i

(* The fields are the distinct names of the arguments, in the order of     *)
(* their first appearance: argument k introduced field j.                  *)
Introduces(d, k, j) ==
    /\ args[d][k].name = params[d][j].name
    /\ \A l \in 1..(k - 1) : \E m \in 1..(j - 1) : args[d][l].name = params[d][m].name

FieldsInOrder(d) ==
    /\ \A j, k \in DOMAIN params[d] : params[d][j].name = params[d][k].name => j = k
    /\ \A j \in DOMAIN params[d] : \E k \in DOMAIN args[d] : Introduces(d, k, j)

(* Every parameter that binds a field was reported with that field's type, *)
(* so a name means one thing wherever a statement uses it.                 *)
OneMeaning(d) ==
    \A k \in DOMAIN request[d] : \E j \in DOMAIN params[d] :
        params[d][j] = FieldOf(d, request[d][k].use, request[d][k].report)

(* A list is bound by one parameter, and never nullable.                   *)
ListOnce(d) ==
    /\ \A k, l \in DOMAIN args[d] :
          k # l /\ args[d][k].name = args[d][l].name =>
              ListOf(d, request[d][k].use) = "notAList"
    /\ \A j \in DOMAIN params[d] : params[d][j].type.slice => ~params[d][j].type.nullable

(* The row has the columns of the projection so far, each name once and of *)
(* the type it was reported with.                                          *)
RowInOrder(d) ==
    /\ Len(columns[d]) <= Len(projection)
    /\ Len(row[d]) = Len(columns[d])
    /\ \A k \in DOMAIN columns[d] :
          /\ columns[d][k].name = projection[k]
          /\ columns[d][k].type = MapType(row[d][k], projection[k], FALSE)
    /\ \A j, k \in DOMAIN columns[d] : columns[d][j].name = columns[d][k].name => j = k

(* What convergeQuery has done by the time it is where it is.              *)
PhaseInv(d) ==
    /\ pc[d] \notin {"command", "refused"} => command \in Shape!Command
    /\ pc[d] \in {"command", "params"} => columns[d] = <<>>
    /\ pc[d] \in {"columns", "expansions", "accepted"} => \A i \in Parameters(d) : i <= LastRead(d)
    /\ pc[d] = "columns" => Shape!ReturnsRows(command) /\ projection # <<>>
    /\ pc[d] \in {"expansions", "accepted"} => (Shape!ReturnsRows(command) <=> columns[d] # <<>>)
    /\ pc[d] \in {"expansions", "accepted"} /\ columns[d] # <<>> => Len(columns[d]) = Len(projection)
    /\ pc[d] = "accepted" => \A k \in DOMAIN args[d] : ExpansionSound(d, k)

(* What convergeQuery keeps true of every dialect at every step.           *)
ConvergenceInv ==
    \A d \in Dialect :
        /\ ReadInOrder(d) /\ FieldsInOrder(d) /\ OneMeaning(d) /\ ListOnce(d)
        /\ RowInOrder(d) /\ PhaseInv(d)

(* The argument a use's placeholder stands for: by position, or by number. *)
ArgAt(d, i) == IF d \in Positional THEN i ELSE Number(d, ReportedName(d, i))

(* In an accepted query every placeholder of the text, however often the   *)
(* argument repeats and wherever LIMIT stands, stands for the argument of  *)
(* its own name: nothing is transposed and nothing is bound twice.         *)
PlaceholdersBindTheirNames ==
    \A d \in Dialect : pc[d] = "accepted" =>
        \A i \in DOMAIN statement :
            /\ ArgAt(d, i) \in DOMAIN args[d]
            /\ args[d][ArgAt(d, i)] = ArgOf(d, i)
            /\ \E j \in DOMAIN params[d] : params[d][j].name = FieldName(d, i)

(* An accepted query has a shape the emitter can render: a known command,  *)
(* distinct fields, and a row exactly when the command returns rows.       *)
QueryOf(d) == [command |-> command, params |-> params[d], columns |-> columns[d]]

AcceptedShapes ==
    \A d \in Dialect : pc[d] = "accepted" =>
        /\ Shape!QueryShape(QueryOf(d))
        /\ \A j, k \in DOMAIN params[d] : params[d][j].name = params[d][k].name => j = k
        /\ \A j, k \in DOMAIN columns[d] : columns[d][j].name = columns[d][k].name => j = k

Names(fields) == [k \in DOMAIN fields |-> fields[k].name]

(* Dialects on which every use has the same field name give a statement    *)
(* the same fields in the same order and the same columns, although one    *)
(* repeats its parameters and the other does not.                          *)
SameFieldOrder ==
    \A d, e \in Dialect :
        /\ pc[d] = "accepted" /\ pc[e] = "accepted"
        /\ \A i \in DOMAIN statement : FieldName(d, i) = FieldName(e, i)
        => Names(params[d]) = Names(params[e]) /\ Names(columns[d]) = Names(columns[e])

(* Two dialects are given one statement and one schema when every use has  *)
(* the same field name on both, and what is bound to a name, or selected   *)
(* under it, is reported of the same table, with the same nullability and  *)
(* of one type, however it is spelled.                                     *)
SameReport(r, q) ==
    /\ r.table = q.table /\ r.notNull = q.notNull
    /\ \E spellings \in OneType : r.engine \in spellings /\ q.engine \in spellings

Agree(d, e) ==
    /\ \A i \in DOMAIN statement : FieldName(d, i) = FieldName(e, i)
    /\ \A k \in DOMAIN request[d], l \in DOMAIN request[e] :
          args[d][k].name = args[e][l].name =>
              SameReport(request[d][k].report, request[e][l].report)
    /\ \A k \in DOMAIN row[d] \cap DOMAIN row[e] : SameReport(row[d][k], row[e][k])

(* What the shared files rest on: dialects that are given one statement    *)
(* and one schema, and accept it, converge it to one shape, although one   *)
(* repeats its parameters, expands its lists or spells its types in its    *)
(* own way (prd.md:348-350, types.go:10-23).                               *)
OneShape ==
    \A d, e \in Dialect :
        pc[d] = "accepted" /\ pc[e] = "accepted" /\ Agree(d, e) => QueryOf(d) = QueryOf(e)

(* Where an expanding dialect accepts a list, the list is the last field   *)
(* on every dialect that accepts the statement under the same names.       *)
ListIsLastField ==
    \A d, e \in Dialect : \A i \in DOMAIN statement :
        /\ pc[d] = "accepted" /\ pc[e] = "accepted"
        /\ ListOf(d, i) = "expandedList"
        /\ \A j \in DOMAIN statement : FieldName(d, j) = FieldName(e, j)
        => params[e][Len(params[e])].name = FieldName(d, i)

(* A wildcard override that no table contradicts settles a type: whatever  *)
(* the engines report of its kind, its nullability and its table, and      *)
(* whatever name they report, a field has one type on every dialect.       *)
WildcardSettles ==
    \A d, e \in Dialect : \A k \in DOMAIN params[d], l \in DOMAIN params[e] :
        LET f == params[d][k]
            g == params[e][l]
        IN  /\ f.name = g.name /\ f.type.slice = g.type.slice
            /\ Matches(options, AnyTable, f.name) # {}
            /\ \A t \in Table : Matches(options, t, f.name) = {}
            => f.type = g.type
=============================================================================
