------------------------- MODULE ConvergenceProofs -------------------------
(***************************************************************************)
(* Proofs about Convergence, for any statement, any analyzers' reports and *)
(* any options: what each dialect converges to, and that two dialects      *)
(* converge a statement to the same fields in the same order.              *)
(***************************************************************************)
EXTENDS Convergence, SequenceLemmas

(* What the options may be, and what an override may say.                  *)
LEMMA OverrideType ==
    ASSUME NEW o \in OptionsSet, NEW t, NEW c
    PROVE  OverrideFor(o, t, c) \in GoType \cup {None}
<1> DEFINE exact == Matches(o, t, c)
           wildcard == Matches(o, AnyTable, c)
           n == Len(o.overrides)
<1> DEFINE Override == [table : Table \cup {AnyTable}, column : Name, goType : GoType]
<1>0. o.overrides \in Seq(Override)
  BY ConvergenceAssumption
<1>1. n \in Nat /\ DOMAIN o.overrides = 1..n /\ \A i \in 1..n : o.overrides[i] \in Override
  <2> HIDE DEF Override
  <2> QED BY <1>0
<1>2. exact \in SUBSET (1..n) /\ wildcard \in SUBSET (1..n)
  BY <1>1 DEF Matches
<1>3. \A i \in 1..n : o.overrides[i].goType \in GoType
  BY <1>1
<1>4. CASE exact # {}
  <2>1. \E i \in exact : \A j \in exact : i <= j
    BY <1>2, <1>4, LeastOf
  <2> DEFINE i == CHOOSE i \in exact : \A j \in exact : i <= j
  <2>2. i \in exact
    BY <2>1
  <2> QED BY <1>2, <1>3, <1>4, <2>2 DEF OverrideFor
<1>5. CASE exact = {} /\ wildcard # {}
  <2>1. \E i \in wildcard : \A j \in wildcard : j <= i
    BY <1>1, <1>2, <1>5, GreatestOf
  <2> DEFINE i == CHOOSE i \in wildcard : \A j \in wildcard : j <= i
  <2>2. i \in wildcard
    BY <2>1
  <2> QED BY <1>2, <1>3, <1>5, <2>2 DEF OverrideFor
<1>6. CASE exact = {} /\ wildcard = {}
  BY <1>6 DEF OverrideFor
<1> QED BY <1>4, <1>5, <1>6

(* A wildcard that matches decides, unless an exact override does.         *)
LEMMA WildcardChosen ==
    ASSUME NEW o \in OptionsSet, NEW t, NEW c,
           Matches(o, t, c) = {}, Matches(o, AnyTable, c) # {}
    PROVE  OverrideFor(o, t, c) # None
<1> DEFINE wildcard == Matches(o, AnyTable, c)
           n == Len(o.overrides)
           Override == [table : Table \cup {AnyTable}, column : Name, goType : GoType]
<1>0. o.overrides \in Seq(Override)
  BY ConvergenceAssumption
<1>1. n \in Nat /\ DOMAIN o.overrides = 1..n /\ \A i \in 1..n : o.overrides[i] \in Override
  <2> HIDE DEF Override
  <2> QED BY <1>0
<1>2. \A i \in 1..n : o.overrides[i].goType \in GoType
  BY <1>1
<1>3. wildcard \in SUBSET (1..n)
  BY <1>1 DEF Matches
<1>4. \E i \in wildcard : \A j \in wildcard : j <= i
  BY <1>1, <1>3, GreatestOf
<1> DEFINE i == CHOOSE i \in wildcard : \A j \in wildcard : j <= i
<1>5. i \in wildcard
  BY <1>4
<1>6. OverrideFor(o, t, c) = o.overrides[i].goType
  BY DEF OverrideFor
<1> QED BY <1>2, <1>3, <1>5, <1>6, ConvergenceAssumption

LEMMA MappedType ==
    ASSUME options \in OptionsSet, NEW report \in Report, NEW name, NEW slice \in BOOLEAN
    PROVE  MapType(report, name, slice) \in Type
<1>1. OverrideFor(options, report.table, name) \in GoType \cup {None}
  BY OverrideType
<1>2. KindOf(report.engine) \in Kind \cup {None}
  BY DEF KindOf, KindsOf
<1> QED BY <1>1, <1>2 DEF MapType, Type, Report

(* A parameter that is not refused has a name, and so has its field.       *)
LEMMA Named ==
    ASSUME options \in OptionsSet, statement \in Seq(UseSet), NEW d \in Dialect,
           NEW i \in DOMAIN statement, ReportedName(d, i) # NoName
    PROVE  ReportedName(d, i) \in Name /\ FieldName(d, i) \in Name
<1>1. statement[i] \in Use
  BY ConvergenceAssumption
<1>2. ReportedName(d, i) \in Name
  BY <1>1, ConvergenceAssumption DEF ReportedName, Use
<1> QED BY <1>2, ConvergenceAssumption DEF FieldName

LEMMA FieldAndArgTypes ==
    ASSUME options \in OptionsSet, statement \in Seq(UseSet), NEW d \in Dialect,
           NEW i \in DOMAIN statement, NEW report \in ReportSet,
           ReportedName(d, i) # NoName
    PROVE  FieldOf(d, i, report) \in Field /\ ArgOf(d, i) \in Arg
<1>1. ReportedName(d, i) \in Name /\ FieldName(d, i) \in Name
  BY Named
<1>2. report \in Report
  BY ConvergenceAssumption
<1>3. MapType(report, FieldName(d, i), ListOf(d, i) # "notAList") \in Type
  BY <1>2, MappedType
<1> QED BY <1>1, <1>3 DEF FieldOf, Field, ArgOf, Arg

-----------------------------------------------------------------------------
(* What a dialect's own state does not depend on: the others, and where    *)
(* its convergeQuery is.                                                   *)
LEMMA SameNames ==
    ASSUME UNCHANGED query, NEW d \in Dialect
    PROVE  /\ \A i : ReportedName(d, i)' = ReportedName(d, i)
           /\ \A i : FieldName(d, i)' = FieldName(d, i)
           /\ \A i : ListOf(d, i)' = ListOf(d, i)
           /\ \A i : ArgOf(d, i)' = ArgOf(d, i)
           /\ \A i, r : FieldOf(d, i, r)' = FieldOf(d, i, r)
           /\ Parameters(d)' = Parameters(d)
           /\ Text(d)' = Text(d)
           /\ \A r, n, b : MapType(r, n, b)' = MapType(r, n, b)
<1>1. options' = options /\ statement' = statement
  BY DEF query
<1>2. \A i : ReportedName(d, i)' = ReportedName(d, i)
  BY <1>1 DEF ReportedName
<1>3. \A i : FieldName(d, i)' = FieldName(d, i) /\ ListOf(d, i)' = ListOf(d, i)
  BY <1>1, <1>2 DEF FieldName, ListOf
<1>4. \A i : ArgOf(d, i)' = ArgOf(d, i)
  BY <1>2, <1>3 DEF ArgOf
<1>5. \A r, n, b : MapType(r, n, b)' = MapType(r, n, b)
  BY <1>1 DEF MapType
<1>6. \A i, r : FieldOf(d, i, r)' = FieldOf(d, i, r)
  BY <1>3, <1>5 DEF FieldOf
<1>7. Parameters(d)' = Parameters(d) /\ Text(d)' = Text(d)
  BY <1>1, <1>2 DEF Parameters, Text, Site, Bare, Numbered
<1> QED BY <1>2, <1>3, <1>4, <1>5, <1>6, <1>7

ParamsInv(d) == ReadInOrder(d) /\ FieldsInOrder(d) /\ OneMeaning(d) /\ ListOnce(d)

LEMMA ParamsFrame ==
    ASSUME UNCHANGED query, NEW d \in Dialect, ParamsInv(d),
           request'[d] = request[d], params'[d] = params[d], args'[d] = args[d]
    PROVE  ParamsInv(d)'
<1>1. ReadInOrder(d)'
  BY SameNames DEF ParamsInv, ReadInOrder, LastRead
<1>2. FieldsInOrder(d)'
  BY DEF ParamsInv, FieldsInOrder, Introduces
<1>3. OneMeaning(d)'
  BY SameNames DEF ParamsInv, OneMeaning
<1>4. ListOnce(d)'
  BY SameNames DEF ParamsInv, ListOnce
<1> QED BY <1>1, <1>2, <1>3, <1>4 DEF ParamsInv

LEMMA RowFrame ==
    ASSUME UNCHANGED query, NEW d \in Dialect, RowInOrder(d), columns'[d] = columns[d],
           row'[d] = row[d]
    PROVE  RowInOrder(d)'
<1>1. projection' = projection
  BY DEF query
<1>2. \A r, n, b : MapType(r, n, b)' = MapType(r, n, b)
  BY SameNames
<1>3. \A k : MapType(row[d][k], projection[k], FALSE)' = MapType(row[d][k], projection[k], FALSE)
  BY <1>1, <1>2
<1> QED BY <1>1, <1>3 DEF RowInOrder

LEMMA ExpansionFrame ==
    ASSUME UNCHANGED query, NEW d \in Dialect, args'[d] = args[d]
    PROVE  \A k : ExpansionSound(d, k)' = ExpansionSound(d, k)
<1>1. options' = options /\ statement' = statement
  BY DEF query
<1>2. MarkedText(d)' = MarkedText(d)
  BY <1>1, SameNames DEF MarkedText, Site
<1>3. \A arg : SitesOf(d, arg)' = SitesOf(d, arg)
  BY <1>1, <1>2 DEF SitesOf, Site
<1> QED BY <1>3 DEF ExpansionSound

LEMMA PhaseFrame ==
    ASSUME UNCHANGED query, NEW d \in Dialect, PhaseInv(d), pc'[d] = pc[d],
           request'[d] = request[d], args'[d] = args[d], columns'[d] = columns[d]
    PROVE  PhaseInv(d)'
<1>1. command' = command /\ projection' = projection
  BY DEF query
<1> QED BY <1>1, SameNames, ExpansionFrame DEF PhaseInv, LastRead

-----------------------------------------------------------------------------
(* One parameter more.                                                     *)
LEMMA ConvergeParamKeeps ==
    ASSUME TypeOK, NEW d \in Dialect, ParamsInv(d), ConvergeParam(d)
    PROVE  ParamsInv(d)'
<1>p. PICK i \in DOMAIN statement, report \in ReportSet :
          /\ NextParam(d, i) /\ ~ParamRefused(d, i, report)
          /\ request' = [request EXCEPT ![d] = Append(@, [use |-> i, report |-> report])]
          /\ params' = [params EXCEPT ![d] = AddField(@, FieldOf(d, i, report))]
          /\ args' = [args EXCEPT ![d] = Append(@, ArgOf(d, i))]
  BY DEF ConvergeParam
<1> DEFINE n     == Len(request[d])
           m     == Len(params[d])
           field == FieldOf(d, i, report)
           new   == [use |-> i, report |-> report]
<1>0. UNCHANGED query
  BY DEF ConvergeParam
<1>1. /\ request[d] \in Seq(Parameter) /\ args[d] \in Seq(Arg) /\ params[d] \in Seq(Field)
      /\ Len(args[d]) = n /\ n \in Nat /\ m \in Nat
      /\ DOMAIN request[d] = 1..n /\ DOMAIN args[d] = 1..n /\ DOMAIN params[d] = 1..m
  BY DEF TypeOK, ParamsInv, ReadInOrder
<1>2. /\ i \in Nat \ {0} /\ DOMAIN statement = 1..Len(statement) /\ Len(statement) \in Nat
      /\ options \in OptionsSet /\ statement \in Seq(UseSet)
  BY DEF TypeOK
<1>3. /\ field \in Field /\ ArgOf(d, i) \in Arg /\ new \in Parameter
      /\ field.name = FieldName(d, i) /\ ArgOf(d, i).name = FieldName(d, i)
      /\ field.type.slice = (ListOf(d, i) # "notAList")
      /\ field.type.slice => ~field.type.nullable
      /\ \A k \in DOMAIN params[d] : params[d][k].name = field.name =>
            params[d][k].type = field.type /\ ~field.type.slice
  <2>1. field \in Field /\ ArgOf(d, i) \in Arg /\ new \in Parameter
    BY <1>2, <1>p, FieldAndArgTypes DEF ParamRefused, Parameter
  <2>2. /\ field.name = FieldName(d, i) /\ ArgOf(d, i).name = FieldName(d, i)
        /\ field.type.slice = (ListOf(d, i) # "notAList")
    BY DEF FieldOf, ArgOf, MapType
  <2>3. /\ field.type.slice => ~field.type.nullable
        /\ ~Clashes(d, field)
    BY <1>p DEF ParamRefused
  <2> HIDE DEF field
  <2> QED BY <2>1, <2>2, <2>3 DEF Clashes
<1>4. /\ DOMAIN request'[d] = 1..(n + 1) /\ Len(request'[d]) = n + 1
      /\ \A k \in 1..n : request'[d][k] = request[d][k]
      /\ request'[d][n + 1] = new
  <2>1. request'[d] = Append(request[d], new)
    BY <1>p DEF TypeOK
  <2> HIDE DEF new
  <2> QED BY <1>1, <1>3, <2>1
<1>5. /\ DOMAIN args'[d] = 1..(n + 1) /\ Len(args'[d]) = n + 1
      /\ \A k \in 1..n : args'[d][k] = args[d][k]
      /\ args'[d][n + 1] = ArgOf(d, i)
  <2>1. args'[d] = Append(args[d], ArgOf(d, i))
    BY <1>p DEF TypeOK
  <2> QED BY <1>1, <1>3, <2>1
<1>6. /\ new.use = i /\ new.report = report
      /\ params'[d] = AddField(params[d], field)
      /\ FieldOf(d, i, report) = field
  BY <1>p DEF TypeOK
<1>7. /\ LastRead(d) \in Nat /\ LastRead(d) < i /\ LastRead(d)' = i
      /\ LastRead(d) = IF n = 0 THEN 0 ELSE request[d][n].use
      /\ \A k \in 1..n : request[d][k].use \in Nat /\ request[d][k].use <= LastRead(d)
  <2>1. \A k \in 1..n : request[d][k] \in Parameter
    BY <1>1
  <2>2. \A k \in 1..n : request[d][k].use \in Nat
    BY <2>1 DEF Parameter
  <2>3. LastRead(d) = IF n = 0 THEN 0 ELSE request[d][n].use
    BY <1>1 DEF LastRead
  <2>4. LastRead(d) \in Nat
    BY <1>1, <2>2, <2>3
  <2>5. LastRead(d)' = i
    <3>1. request'[d] # <<>>
      BY <1>1, <1>4
    <3> HIDE DEF new
    <3> QED BY <1>4, <1>6, <3>1 DEF LastRead
  <2>6. \A k \in 1..n : k < n => request[d][k].use < request[d][n].use
    BY <1>1 DEF ParamsInv, ReadInOrder
  <2>7. ASSUME NEW k \in 1..n PROVE request[d][k].use <= LastRead(d)
    <3>1. n # 0 /\ (k < n \/ k = n)
      BY <1>1
    <3> HIDE DEF n
    <3> QED BY <1>1, <2>2, <2>3, <2>6, <3>1
  <2>8. LastRead(d) < i
    BY <1>p DEF NextParam
  <2> QED BY <2>2, <2>3, <2>4, <2>5, <2>7, <2>8
<1> HIDE DEF n, m, field, new
<1>8. ReadInOrder(d)'
  <2>1. Len(args'[d]) = Len(request'[d])
    BY <1>4, <1>5
  <2>2. i \in Parameters(d)
    BY <1>p DEF NextParam
  <2>3. ASSUME d \in Positional PROVE i = n + 1
    <3>1. Parameters(d) = DOMAIN statement
      BY <2>3 DEF Parameters
    <3>2. LastRead(d) = n
      BY <1>1, <1>7, <2>3 DEF ParamsInv, ReadInOrder
    <3>3. n + 1 \in Parameters(d) /\ LastRead(d) < n + 1
      BY <1>1, <1>2, <1>7, <2>2, <3>1, <3>2
    <3>4. i <= n + 1
      BY <1>p, <3>3 DEF NextParam
    <3> QED BY <1>1, <1>2, <1>7, <3>2, <3>4
  <2>4. \A k \in DOMAIN request'[d] :
            /\ request'[d][k].use \in Parameters(d)
            /\ args'[d][k] = ArgOf(d, request'[d][k].use)
            /\ d \in Positional => request'[d][k].use = k
    BY <1>1, <1>4, <1>5, <1>6, <2>2, <2>3 DEF ParamsInv, ReadInOrder
  <2>5. \A k, l \in DOMAIN request'[d] : k < l => request'[d][k].use < request'[d][l].use
    <3>1. ASSUME NEW k \in 1..(n + 1), NEW l \in 1..(n + 1), k < l
          PROVE  request'[d][k].use < request'[d][l].use
      <4>1. CASE l \in 1..n
        <5>1. k \in 1..n
          BY <1>1, <3>1, <4>1
        <5>2. request[d][k].use < request[d][l].use
          BY <1>1, <3>1, <4>1, <5>1 DEF ParamsInv, ReadInOrder
        <5> QED BY <1>4, <4>1, <5>1, <5>2
      <4>2. CASE l = n + 1
        <5>1. k \in 1..n
          BY <1>1, <3>1, <4>2
        <5>2. request[d][k].use \in Nat /\ request[d][k].use <= LastRead(d)
          BY <1>7, <5>1
        <5>3. request[d][k].use < i
          BY <1>2, <1>7, <5>2
        <5> QED BY <1>4, <1>6, <4>2, <5>1, <5>3
      <4> QED BY <1>1, <4>1, <4>2
    <3> QED BY <1>4, <3>1
  <2>6. ASSUME NEW j \in Parameters(d), j <= i
        PROVE  \E k \in DOMAIN request'[d] : request'[d][k].use = j
    <3>1. j \in Nat
      BY <1>2 DEF Parameters
    <3>2. CASE j <= LastRead(d)
      <4>1. PICK k \in DOMAIN request[d] : request[d][k].use = j
        BY <3>2 DEF ParamsInv, ReadInOrder
      <4>2. k \in 1..(n + 1) /\ request'[d][k] = request[d][k]
        BY <1>1, <1>4
      <4> QED BY <1>4, <4>1, <4>2
    <3>3. CASE ~(j <= LastRead(d))
      <4>1. j = i
        BY <1>2, <1>7, <1>p, <2>6, <3>1, <3>3 DEF NextParam
      <4> QED BY <1>1, <1>4, <1>6, <4>1
    <3> QED BY <3>2, <3>3
  <2> QED BY <1>0, <1>7, <2>1, <2>4, <2>5, <2>6, SameNames DEF ReadInOrder
<1>9. \A l \in 1..n : \E j \in 1..m : params[d][j].name = args[d][l].name
  <2>1. ASSUME NEW l \in 1..n PROVE \E j \in 1..m : params[d][j].name = args[d][l].name
    <3>1. PICK j \in 1..m : params[d][j] = FieldOf(d, request[d][l].use, request[d][l].report)
      BY <1>1 DEF ParamsInv, OneMeaning
    <3>2. args[d][l] = ArgOf(d, request[d][l].use)
      BY <1>1 DEF ParamsInv, ReadInOrder
    <3> QED BY <3>1, <3>2 DEF FieldOf, ArgOf
  <2> QED BY <2>1
<1>10. CASE \E k \in DOMAIN params[d] : params[d][k].name = field.name
  <2>1. params'[d] = params[d]
    BY <1>6, <1>10 DEF AddField
  <2>2. PICK j \in DOMAIN params[d] : params[d][j].name = field.name
    BY <1>10
  <2>3. params[d][j].type = field.type /\ ~field.type.slice
    BY <1>3, <2>2
  <2>4. params[d][j] = field
    <3>1. params[d][j] \in Field
      BY <1>1
    <3> QED BY <1>3, <2>2, <2>3, <3>1 DEF Field
  <2>5. FieldsInOrder(d)'
    <3>1. ASSUME NEW q \in DOMAIN params[d]
          PROVE  \E k \in DOMAIN args'[d] : Introduces(d, k, q)'
      <4>1. PICK k \in DOMAIN args[d] : Introduces(d, k, q)
        BY DEF ParamsInv, FieldsInOrder
      <4>2. /\ k \in DOMAIN args'[d] /\ args'[d][k] = args[d][k]
            /\ \A l \in 1..(k - 1) : args'[d][l] = args[d][l]
        <5>1. /\ k \in 1..n /\ n \in Nat
          BY <1>1
        <5>2. k \in 1..(n + 1) /\ \A l \in 1..(k - 1) : l \in 1..n
          BY ONLY <5>1
        <5> QED BY ONLY <1>5, <5>1, <5>2
      <4>3. Introduces(d, k, q)'
        BY <2>1, <4>1, <4>2 DEF Introduces
      <4> QED BY <4>2, <4>3
    <3>2. \A q, r \in DOMAIN params[d] : params[d][q].name = params[d][r].name => q = r
      BY DEF ParamsInv, FieldsInOrder
    <3> QED BY <2>1, <3>1, <3>2 DEF FieldsInOrder
  <2>6. OneMeaning(d)'
    <3>1. \A k \in 1..(n + 1) : \E q \in DOMAIN params[d] :
              params[d][q] = FieldOf(d, request'[d][k].use, request'[d][k].report)
      <4>1. \A k \in 1..n : \E q \in DOMAIN params[d] :
                params[d][q] = FieldOf(d, request'[d][k].use, request'[d][k].report)
        BY <1>1, <1>4 DEF ParamsInv, OneMeaning
      <4>2. params[d][j] = FieldOf(d, request'[d][n + 1].use, request'[d][n + 1].report)
        BY <1>4, <1>6, <2>4
      <4> QED BY <1>1, <4>1, <4>2
    <3> QED BY <1>0, <1>4, <2>1, <3>1, SameNames DEF OneMeaning
  <2>7. \A l \in 1..n : args[d][l].name = field.name =>
            ListOf(d, request[d][l].use) = "notAList" /\ ListOf(d, i) = "notAList"
    <3>1. SUFFICES ASSUME NEW l \in 1..n, args[d][l].name = field.name
                   PROVE  ListOf(d, request[d][l].use) = "notAList" /\ ListOf(d, i) = "notAList"
      OBVIOUS
    <3>2. PICK q \in DOMAIN params[d] :
              params[d][q] = FieldOf(d, request[d][l].use, request[d][l].report)
      BY <1>1 DEF ParamsInv, OneMeaning
    <3>3. args[d][l] = ArgOf(d, request[d][l].use)
      BY <1>1 DEF ParamsInv, ReadInOrder
    <3>4. params[d][q].name = field.name
      BY <3>1, <3>2, <3>3 DEF FieldOf, ArgOf
    <3>5. ~params[d][q].type.slice /\ ~field.type.slice
      BY <1>3, <3>4
    <3>6. params[d][q].type.slice = (ListOf(d, request[d][l].use) # "notAList")
      BY <3>2 DEF FieldOf, MapType
    <3> QED BY <1>3, <3>5, <3>6
  <2>8. ListOnce(d)'
    <3>1. \A k, l \in 1..(n + 1) : k # l /\ args'[d][k].name = args'[d][l].name =>
              ListOf(d, request'[d][k].use) = "notAList"
      <4>1. ASSUME NEW k \in 1..(n + 1), NEW l \in 1..(n + 1), k # l,
                   args'[d][k].name = args'[d][l].name
            PROVE  ListOf(d, request'[d][k].use) = "notAList"
        <5>1. CASE k \in 1..n /\ l \in 1..n
          BY <1>1, <1>4, <1>5, <4>1, <5>1 DEF ParamsInv, ListOnce
        <5>2. CASE k \in 1..n /\ l = n + 1
          BY <1>3, <1>4, <1>5, <2>7, <4>1, <5>2
        <5>3. CASE k = n + 1 /\ l \in 1..n
          BY <1>3, <1>4, <1>5, <1>6, <2>7, <4>1, <5>3
        <5> QED BY <1>1, <4>1, <5>1, <5>2, <5>3
      <4> QED BY <4>1
    <3>2. \A q \in DOMAIN params[d] : params[d][q].type.slice => ~params[d][q].type.nullable
      BY DEF ParamsInv, ListOnce
    <3>3. \A k \in 1..(n + 1) :
              ListOf(d, request[d][k].use)' = ListOf(d, request'[d][k].use)
      BY <1>0, SameNames
    <3> QED BY <1>5, <2>1, <3>1, <3>2, <3>3 DEF ListOnce
  <2> QED BY <1>8, <2>5, <2>6, <2>8 DEF ParamsInv
<1>11. CASE \A k \in DOMAIN params[d] : params[d][k].name # field.name
  <2>1. /\ DOMAIN params[d] = 1..m /\ DOMAIN params'[d] = 1..(m + 1)
        /\ \A k \in 1..m : params'[d][k] = params[d][k]
        /\ params'[d][m + 1] = field
    <3>1. params'[d] = Append(params[d], field)
      BY <1>6, <1>11 DEF AddField
    <3> QED BY <1>1, <1>3, <3>1 DEF m
  <2>2. ArgOf(d, i).name = field.name
    BY <1>3
  <2>3. FieldsInOrder(d)'
    <3>1. \A j, k \in 1..(m + 1) : params'[d][j].name = params'[d][k].name => j = k
      <4>1. \A j, k \in 1..m : params'[d][j].name = params'[d][k].name => j = k
        BY <1>1, <2>1 DEF ParamsInv, FieldsInOrder
      <4>2. \A j \in 1..m : params'[d][j].name # params'[d][m + 1].name
        BY <1>1, <1>11, <2>1
      <4> QED BY <1>1, <4>1, <4>2
    <3>2. ASSUME NEW q \in 1..m
          PROVE  \E k \in 1..(n + 1) : Introduces(d, k, q)'
      <4>1. PICK k \in 1..n : Introduces(d, k, q)
        BY <1>1 DEF ParamsInv, FieldsInOrder
      <4>2. /\ k \in 1..(n + 1) /\ args'[d][k] = args[d][k]
            /\ \A l \in 1..(k - 1) : args'[d][l] = args[d][l]
        <5>1. n \in Nat /\ k \in Nat /\ k <= n
          BY <1>1
        <5>2. \A l \in 1..(k - 1) : l \in 1..n
          BY <5>1
        <5>3. k \in 1..(n + 1)
          BY <5>1
        <5> QED BY <1>5, <5>2, <5>3
      <4>3. /\ params'[d][q] = params[d][q]
            /\ \A r \in 1..(q - 1) : params'[d][r] = params[d][r]
        BY <1>1, <2>1
      <4>4. Introduces(d, k, q)'
        BY <4>1, <4>2, <4>3 DEF Introduces
      <4> QED BY <4>2, <4>4
    <3>3. \A l \in 1..n : \E r \in 1..m : args'[d][l].name = params'[d][r].name
      BY <1>5, <1>9, <2>1
    <3>4. ASSUME NEW q \in 1..(m + 1)
          PROVE  \E k \in 1..(n + 1) : Introduces(d, k, q)'
      <4>1. q \in 1..m \/ q = m + 1
        BY <1>1
      <4>2. CASE q \in 1..m
        BY <1>1, <3>2, <4>2
      <4>3. CASE q = m + 1
        <5>1. PICK k \in 1..(n + 1) : k = n + 1
          BY <1>1
        <5>2. k - 1 = n /\ q - 1 = m
          BY <1>1, <4>3, <5>1
        <5>3. args'[d][k].name = params'[d][q].name
          BY <1>5, <2>1, <2>2, <4>3, <5>1
        <5>4. \A l \in 1..(k - 1) : \E r \in 1..(q - 1) : args'[d][l].name = params'[d][r].name
          BY <3>3, <5>2
        <5>5. Introduces(d, k, q)'
          BY <5>3, <5>4 DEF Introduces
        <5> QED BY <5>5
      <4> QED BY <4>1, <4>2, <4>3
    <3> QED BY <1>5, <2>1, <3>1, <3>4 DEF FieldsInOrder
  <2>4. OneMeaning(d)'
    <3>1. ASSUME NEW k \in 1..(n + 1)
          PROVE  \E q \in 1..(m + 1) :
                    params'[d][q] = FieldOf(d, request'[d][k].use, request'[d][k].report)
      <4>1. CASE k = n + 1
        <5>1. params'[d][m + 1] = FieldOf(d, request'[d][k].use, request'[d][k].report)
          BY <1>4, <1>6, <2>1, <4>1
        <5>2. m + 1 \in 1..(m + 1)
          BY <1>1
        <5> QED BY <5>1, <5>2
      <4>2. CASE k \in 1..n
        <5>1. PICK q \in 1..m :
                  params[d][q] = FieldOf(d, request[d][k].use, request[d][k].report)
          BY <1>1, <4>2 DEF ParamsInv, OneMeaning
        <5>2. q \in 1..(m + 1)
          BY <1>1
        <5> QED BY <1>4, <2>1, <4>2, <5>1, <5>2
      <4>3. k = n + 1 \/ k \in 1..n
        BY <1>1
      <4> QED BY <4>1, <4>2, <4>3
    <3> QED BY <1>0, <1>4, <2>1, <3>1, SameNames DEF OneMeaning
  <2>5. ListOnce(d)'
    <3>1. \A l \in 1..n : args[d][l].name # field.name
      BY <1>9, <1>11, <2>1
    <3>2. \A k, l \in 1..(n + 1) : k # l /\ args'[d][k].name = args'[d][l].name =>
              ListOf(d, request'[d][k].use) = "notAList"
      <4>1. ASSUME NEW k \in 1..(n + 1), NEW l \in 1..(n + 1), k # l,
                   args'[d][k].name = args'[d][l].name
            PROVE  k \in 1..n /\ l \in 1..n
        <5>1. CASE k = n + 1 /\ l \in 1..n
          BY <1>5, <2>2, <3>1, <4>1, <5>1
        <5>2. CASE l = n + 1 /\ k \in 1..n
          BY <1>5, <2>2, <3>1, <4>1, <5>2
        <5> QED BY <1>1, <4>1, <5>1, <5>2
      <4>2. \A k, l \in 1..n : k # l /\ args[d][k].name = args[d][l].name =>
                ListOf(d, request[d][k].use) = "notAList"
        BY <1>1 DEF ParamsInv, ListOnce
      <4> QED BY <1>4, <1>5, <4>1, <4>2
    <3>3. \A q \in 1..(m + 1) : params'[d][q].type.slice => ~params'[d][q].type.nullable
      <4>1. \A q \in 1..m : params'[d][q].type.slice => ~params'[d][q].type.nullable
        BY <2>1 DEF ParamsInv, ListOnce
      <4>2. params'[d][m + 1].type.slice => ~params'[d][m + 1].type.nullable
        BY <1>3, <2>1
      <4>3. \A q \in 1..(m + 1) : q \in 1..m \/ q = m + 1
        BY <1>1
      <4> QED BY <4>1, <4>2, <4>3
    <3>4. \A k \in 1..(n + 1) :
              ListOf(d, request[d][k].use)' = ListOf(d, request'[d][k].use)
      BY <1>0, SameNames
    <3> QED BY <1>5, <2>1, <3>2, <3>3, <3>4 DEF ListOnce
  <2> QED BY <1>8, <2>3, <2>4, <2>5 DEF ParamsInv
<1> QED BY <1>10, <1>11
-----------------------------------------------------------------------------
(* Types.                                                                  *)
LEMMA TypeInit == Init => TypeOK
<1> SUFFICES ASSUME Init PROVE TypeOK
  OBVIOUS
<1>1. statement \in Seq(UseSet) /\ projection \in Seq(Name \cup {NoName})
  BY DEF Init
<1> QED BY <1>1 DEF Init, TypeOK

LEMMA TypeStep == TypeOK /\ [Next]_vars => TypeOK'
<1> SUFFICES ASSUME TypeOK, [Next]_vars PROVE TypeOK'
  OBVIOUS
<1>1. CASE UNCHANGED vars
  BY <1>1 DEF TypeOK, vars, query
<1>2. ASSUME NEW d \in Dialect, ParseCommand(d) PROVE TypeOK'
  BY <1>2 DEF ParseCommand, Goto, TypeOK, query, Final
<1>3. ASSUME NEW d \in Dialect, RefuseParam(d) PROVE TypeOK'
  BY <1>3 DEF RefuseParam, Goto, TypeOK, query, Final
<1>4. ASSUME NEW d \in Dialect, ConvergeParam(d) PROVE TypeOK'
  <2>1. PICK i \in DOMAIN statement, report \in ReportSet :
          /\ NextParam(d, i) /\ ~ParamRefused(d, i, report)
          /\ request' = [request EXCEPT ![d] = Append(@, [use |-> i, report |-> report])]
          /\ params' = [params EXCEPT ![d] = AddField(@, FieldOf(d, i, report))]
          /\ args' = [args EXCEPT ![d] = Append(@, ArgOf(d, i))]
    BY <1>4 DEF ConvergeParam
  <2>2. /\ FieldOf(d, i, report) \in Field /\ ArgOf(d, i) \in Arg
        /\ [use |-> i, report |-> report] \in Parameter
    BY <2>1, FieldAndArgTypes DEF ParamRefused, Parameter, TypeOK
  <2>3. /\ Append(request[d], [use |-> i, report |-> report]) \in Seq(Parameter)
        /\ Append(args[d], ArgOf(d, i)) \in Seq(Arg)
    BY <2>2 DEF TypeOK
  <2>4. AddField(params[d], FieldOf(d, i, report)) \in Seq(Field)
    BY <2>2 DEF TypeOK, AddField
  <2> QED BY <1>4, <2>1, <2>3, <2>4 DEF ConvergeParam, TypeOK, query
<1>5. ASSUME NEW d \in Dialect, EndParams(d) PROVE TypeOK'
  BY <1>5 DEF EndParams, Goto, TypeOK, query, Final
<1>6. ASSUME NEW d \in Dialect, ConvergeColumn(d) PROVE TypeOK'
  <2>1. PICK report \in ReportSet :
            LET name == projection[Len(columns[d]) + 1]
            IN  IF ColumnRefused(d, name, report)
                THEN Goto(d, "refused") /\ UNCHANGED <<columns, row>>
                ELSE /\ columns' = [columns EXCEPT ![d] =
                           Append(@, [name |-> name, type |-> MapType(report, name, FALSE)])]
                     /\ row' = [row EXCEPT ![d] = Append(@, report)]
                     /\ UNCHANGED pc
    BY <1>6 DEF ConvergeColumn
  <2> DEFINE name == projection[Len(columns[d]) + 1]
             field == [name |-> name, type |-> MapType(report, name, FALSE)]
  <2>2. CASE ColumnRefused(d, name, report)
    BY <1>6, <2>1, <2>2 DEF ConvergeColumn, Goto, TypeOK, query, Final
  <2>3. CASE ~ColumnRefused(d, name, report)
    <3>1. name \in Name
      <4>1. Len(columns[d]) \in Nat /\ Len(projection) \in Nat
        BY DEF TypeOK
      <4>2. Len(columns[d]) + 1 \in DOMAIN projection
        BY <1>6, <4>1 DEF ConvergeColumn, TypeOK
      <4> QED BY <2>3, <4>2 DEF ColumnRefused, TypeOK
    <3>2. MapType(report, name, FALSE) \in Type
      BY MappedType, ConvergenceAssumption DEF TypeOK
    <3>3. Append(columns[d], field) \in Seq(Field)
      <4>1. field \in Field
        BY <3>1, <3>2 DEF Field
      <4> HIDE DEF field
      <4> QED BY <4>1 DEF TypeOK
    <3>4. Append(row[d], report) \in Seq(ReportSet)
      BY DEF TypeOK
    <3> QED BY <1>6, <2>1, <2>3, <3>3, <3>4 DEF ConvergeColumn, TypeOK, query
  <2> QED BY <2>2, <2>3
<1>7. ASSUME NEW d \in Dialect, EndColumns(d) PROVE TypeOK'
  BY <1>7 DEF EndColumns, Goto, TypeOK, query, Final
<1>8. ASSUME NEW d \in Dialect, CheckExpansions(d) PROVE TypeOK'
  BY <1>8 DEF CheckExpansions, Goto, TypeOK, query, Final
<1> QED BY <1>1, <1>2, <1>3, <1>4, <1>5, <1>6, <1>7, <1>8 DEF Next, Step

(* Every state is well typed, however long the statement, whatever the     *)
(* analyzers report: a nameless or unmappable parameter or column never    *)
(* gets past convergeQuery's refusals into the IR.                         *)
THEOREM TypeCorrect == Spec => []TypeOK
<1>1. Init => TypeOK
  BY TypeInit
<1>2. TypeOK /\ [Next]_vars => TypeOK'
  BY TypeStep
<1> QED BY <1>1, <1>2, PTL DEF Spec
-----------------------------------------------------------------------------
(* One column more, or none.                                               *)
LEMMA ConvergeColumnKeeps ==
    ASSUME TypeOK, NEW d \in Dialect, RowInOrder(d), ConvergeColumn(d)
    PROVE  RowInOrder(d)'
<1> DEFINE n    == Len(columns[d])
           name == projection[n + 1]
<1>1. PICK report \in ReportSet :
          IF ColumnRefused(d, name, report)
          THEN Goto(d, "refused") /\ UNCHANGED <<columns, row>>
          ELSE /\ columns' = [columns EXCEPT ![d] =
                     Append(@, [name |-> name, type |-> MapType(report, name, FALSE)])]
               /\ row' = [row EXCEPT ![d] = Append(@, report)]
               /\ UNCHANGED pc
  BY DEF ConvergeColumn
<1>2. UNCHANGED query /\ n < Len(projection) /\ n \in Nat /\ Len(projection) \in Nat
  BY DEF ConvergeColumn, TypeOK
<1>3. CASE ColumnRefused(d, name, report)
  BY <1>1, <1>2, <1>3, RowFrame
<1>4. CASE ~ColumnRefused(d, name, report)
  <2> DEFINE field == [name |-> name, type |-> MapType(report, name, FALSE)]
  <2>1. columns'[d] = Append(columns[d], field)
    BY <1>1, <1>4 DEF TypeOK
  <2>2. field.name = name /\ \A k \in DOMAIN columns[d] : columns[d][k].name # name
    BY <1>4 DEF ColumnRefused
  <2>3. PICK q : q = n + 1
    OBVIOUS
  <2>4. /\ Len(columns'[d]) = q /\ DOMAIN columns'[d] = 1..q /\ DOMAIN columns[d] = 1..n
        /\ \A k \in 1..n : columns'[d][k] = columns[d][k]
        /\ columns'[d][q] = field
    <3> HIDE DEF field
    <3> QED BY <2>1, <2>3 DEF TypeOK
  <2>5. projection' = projection
    BY <1>2 DEF query
  <2>12. /\ row'[d] = Append(row[d], report) /\ Len(row[d]) = n
         /\ DOMAIN row[d] = 1..n /\ row[d] \in Seq(ReportSet)
    BY <1>1, <1>4 DEF TypeOK, RowInOrder
  <2>13. /\ Len(row'[d]) = q /\ row'[d][q] = report
         /\ \A k \in 1..n : row'[d][k] = row[d][k]
    BY <2>3, <2>12
  <2>14. field.type = MapType(report, projection[q], FALSE)
    BY <2>3
  <2>15. \A r, c, b : MapType(r, c, b)' = MapType(r, c, b)
    BY <1>2, SameNames
  <2> HIDE DEF n, name, field
  <2>6. name = projection[q]
    BY <2>3 DEF name
  <2>7. q \in Nat /\ q <= Len(projection) /\ \A k \in 1..q : k \in 1..n \/ k = q
    BY <1>2, <2>3
  <2>8. \A k \in 1..n : columns[d][k].name = projection[k]
    BY <2>4 DEF RowInOrder
  <2>9. \A k \in 1..q : columns'[d][k].name = projection[k]
    BY <2>2, <2>4, <2>6, <2>7, <2>8
  <2>10. \A j, k \in 1..n : columns[d][j].name = columns[d][k].name => j = k
    BY <2>4 DEF RowInOrder
  <2>11. \A j, k \in 1..q : columns'[d][j].name = columns'[d][k].name => j = k
    BY <2>2, <2>4, <2>7, <2>10
  <2>16. \A k \in 1..q : columns'[d][k].type = MapType(row'[d][k], projection[k], FALSE)
    <3>1. \A k \in 1..n : columns[d][k].type = MapType(row[d][k], projection[k], FALSE)
      BY <2>4 DEF RowInOrder
    <3> QED BY <2>4, <2>7, <2>13, <2>14, <3>1
  <2>17. \A k \in 1..q : columns'[d][k].type = MapType(row[d][k], projection[k], FALSE)'
    BY <2>5, <2>15, <2>16
  <2> QED BY <2>4, <2>5, <2>7, <2>9, <2>11, <2>13, <2>17 DEF RowInOrder
<1> QED BY <1>3, <1>4

-----------------------------------------------------------------------------
(* What convergeQuery keeps of one dialect, and of the others.             *)
DialectInv(d) == ParamsInv(d) /\ RowInOrder(d) /\ PhaseInv(d)

LEMMA InvOfDialects == ConvergenceInv <=> \A d \in Dialect : DialectInv(d)
BY DEF ConvergenceInv, DialectInv, ParamsInv

LEMMA OthersKeep ==
    ASSUME TypeOK, NEW d \in Dialect, Step(d), NEW e \in Dialect, e # d
    PROVE  /\ UNCHANGED query
           /\ pc'[e] = pc[e] /\ request'[e] = request[e] /\ params'[e] = params[e]
           /\ args'[e] = args[e] /\ columns'[e] = columns[e] /\ row'[e] = row[e]
<1>1. CASE ParseCommand(d) \/ RefuseParam(d) \/ EndParams(d) \/ EndColumns(d) \/ CheckExpansions(d)
  BY <1>1 DEF ParseCommand, RefuseParam, EndParams, EndColumns, CheckExpansions, Goto, TypeOK
<1>2. CASE ConvergeParam(d)
  BY <1>2 DEF ConvergeParam, TypeOK
<1>3. CASE ConvergeColumn(d)
  BY <1>3 DEF ConvergeColumn, Goto, TypeOK
<1> QED BY <1>1, <1>2, <1>3 DEF Step

LEMMA DialectInit == Init => ConvergenceInv
<1> SUFFICES ASSUME Init, NEW d \in Dialect PROVE DialectInv(d)
  BY InvOfDialects
<1>1. /\ request[d] = <<>> /\ params[d] = <<>> /\ args[d] = <<>> /\ columns[d] = <<>>
      /\ row[d] = <<>>
      /\ pc[d] = "command" /\ statement \in Seq(UseSet) /\ projection \in Seq(Name \cup {NoName})
  BY DEF Init
<1>2. \A i \in Parameters(d) : i \in Nat /\ ~(i <= 0)
  BY <1>1 DEF Parameters
<1>3. ParamsInv(d)
  BY <1>1, <1>2 DEF ParamsInv, ReadInOrder, LastRead, FieldsInOrder, OneMeaning, ListOnce
<1>4. RowInOrder(d)
  BY <1>1 DEF RowInOrder
<1>5. PhaseInv(d)
  BY <1>1 DEF PhaseInv
<1> QED BY <1>3, <1>4, <1>5 DEF DialectInv

(* A step that only moves convergeQuery on.                                *)
LEMMA MovesKeep ==
    ASSUME TypeOK, NEW d \in Dialect, DialectInv(d),
           UNCHANGED <<query, request, params, args, columns, row>>
    PROVE  ParamsInv(d)' /\ RowInOrder(d)' /\ command' = command /\ projection' = projection
BY ParamsFrame, RowFrame DEF DialectInv, query

LEMMA OwnStep ==
    ASSUME TypeOK, NEW d \in Dialect, DialectInv(d), Step(d)
    PROVE  DialectInv(d)'
<1> USE DEF Final
<1>0. /\ Len(columns[d]) \in Nat /\ Len(projection) \in Nat
      /\ (columns[d] = <<>> <=> Len(columns[d]) = 0)
      /\ (projection = <<>> <=> Len(projection) = 0)
  BY DEF TypeOK
<1>1. CASE ParseCommand(d)
  <2>1. /\ pc'[d] = IF command \in Shape!Command THEN "params" ELSE "refused"
        /\ columns[d] = <<>> /\ columns' = columns
    BY <1>1 DEF ParseCommand, Goto, TypeOK, DialectInv, PhaseInv
  <2>2. ParamsInv(d)' /\ RowInOrder(d)' /\ command' = command
    BY <1>1, MovesKeep DEF ParseCommand
  <2> QED BY <2>1, <2>2 DEF DialectInv, PhaseInv
<1>2. CASE RefuseParam(d)
  <2>1. pc'[d] = "refused"
    BY <1>2 DEF RefuseParam, Goto, TypeOK
  <2>2. ParamsInv(d)' /\ RowInOrder(d)'
    BY <1>2, MovesKeep DEF RefuseParam
  <2> QED BY <2>1, <2>2 DEF DialectInv, PhaseInv
<1>3. CASE ConvergeParam(d)
  <2>1. /\ UNCHANGED query /\ pc' = pc /\ pc[d] = "params"
        /\ columns' = columns /\ row' = row
    BY <1>3 DEF ConvergeParam
  <2>2. ParamsInv(d)'
    BY <1>3, ConvergeParamKeeps DEF DialectInv
  <2>3. RowInOrder(d)'
    BY <2>1, RowFrame DEF DialectInv
  <2> QED BY <2>1, <2>2, <2>3 DEF DialectInv, PhaseInv, query
<1>4. CASE EndParams(d)
  <2>1. pc'[d] = IF ~Shape!ReturnsRows(command) THEN "expansions"
                 ELSE IF projection = <<>> THEN "refused" ELSE "columns"
    BY <1>4 DEF EndParams, Goto, TypeOK
  <2>2. ParamsInv(d)' /\ RowInOrder(d)' /\ command' = command /\ projection' = projection
    BY <1>4, MovesKeep DEF EndParams
  <2>3. /\ UNCHANGED <<query, request, columns>> /\ command \in Shape!Command /\ columns[d] = <<>>
        /\ \A i \in Parameters(d) : i <= LastRead(d)
    BY <1>4 DEF EndParams, DialectInv, PhaseInv
  <2>4. Parameters(d)' = Parameters(d) /\ LastRead(d)' = LastRead(d)
    BY <2>3, SameNames DEF LastRead
  <2> QED BY <2>1, <2>2, <2>3, <2>4 DEF DialectInv, PhaseInv
<1>5. CASE ConvergeColumn(d)
  <2>1. RowInOrder(d)'
    BY <1>5, ConvergeColumnKeeps DEF DialectInv
  <2>2. /\ UNCHANGED <<query, request, params, args>> /\ pc[d] = "columns"
        /\ pc'[d] \in {"columns", "refused"}
    BY <1>5 DEF ConvergeColumn, Goto, TypeOK
  <2>3. ParamsInv(d)'
    BY <2>2, ParamsFrame DEF DialectInv
  <2>4. Parameters(d)' = Parameters(d) /\ LastRead(d)' = LastRead(d)
    BY <2>2, SameNames DEF LastRead
  <2>5. PhaseInv(d)'
    BY <2>2, <2>4 DEF DialectInv, PhaseInv, query
  <2> QED BY <2>1, <2>3, <2>5 DEF DialectInv
<1>6. CASE EndColumns(d)
  <2>1. /\ UNCHANGED <<query, request, columns>> /\ pc[d] = "columns" /\ pc'[d] = "expansions"
        /\ Len(columns[d]) = Len(projection)
    BY <1>6 DEF EndColumns, Goto, TypeOK
  <2>2. ParamsInv(d)' /\ RowInOrder(d)' /\ command' = command /\ projection' = projection
    BY <1>6, MovesKeep DEF EndColumns
  <2>3. Parameters(d)' = Parameters(d) /\ LastRead(d)' = LastRead(d)
    BY <2>1, SameNames DEF LastRead
  <2>4. columns[d] # <<>> /\ Shape!ReturnsRows(command)
    BY <1>0, <2>1 DEF DialectInv, PhaseInv
  <2>5. PhaseInv(d)'
    BY <2>1, <2>2, <2>3, <2>4 DEF DialectInv, PhaseInv
  <2> QED BY <2>2, <2>5 DEF DialectInv
<1>7. CASE CheckExpansions(d)
  <2>1. /\ UNCHANGED <<query, request, args, columns>> /\ pc[d] = "expansions"
        /\ pc'[d] = IF \A k \in DOMAIN args[d] : ExpansionSound(d, k) THEN "accepted" ELSE "refused"
    BY <1>7 DEF CheckExpansions, Goto, TypeOK
  <2>2. ParamsInv(d)' /\ RowInOrder(d)' /\ command' = command /\ projection' = projection
    BY <1>7, MovesKeep DEF CheckExpansions
  <2>3. Parameters(d)' = Parameters(d) /\ LastRead(d)' = LastRead(d)
    BY <2>1, SameNames DEF LastRead
  <2>4. \A k : ExpansionSound(d, k)' = ExpansionSound(d, k)
    BY <2>1, ExpansionFrame
  <2>5. PhaseInv(d)'
    BY <2>1, <2>2, <2>3, <2>4 DEF DialectInv, PhaseInv
  <2> QED BY <2>2, <2>5 DEF DialectInv
<1> QED BY <1>1, <1>2, <1>3, <1>4, <1>5, <1>6, <1>7 DEF Step

LEMMA InvStep == TypeOK /\ ConvergenceInv /\ [Next]_vars => ConvergenceInv'
<1> SUFFICES ASSUME TypeOK, ConvergenceInv, [Next]_vars, NEW e \in Dialect PROVE DialectInv(e)'
  BY DEF ConvergenceInv, DialectInv, ParamsInv
<1>1. DialectInv(e)
  BY InvOfDialects
<1>2. ASSUME UNCHANGED query, pc'[e] = pc[e], request'[e] = request[e], params'[e] = params[e],
             args'[e] = args[e], columns'[e] = columns[e], row'[e] = row[e]
      PROVE  DialectInv(e)'
  <2>1. ParamsInv(e) /\ RowInOrder(e) /\ PhaseInv(e)
    BY <1>1 DEF DialectInv
  <2> QED BY <1>2, <2>1, ParamsFrame, RowFrame, PhaseFrame DEF DialectInv
<1>3. CASE UNCHANGED vars
  BY <1>2, <1>3 DEF vars
<1>4. ASSUME NEW d \in Dialect, Step(d) PROVE DialectInv(e)'
  <2>1. CASE e = d
    BY <1>1, <1>4, <2>1, OwnStep
  <2>2. CASE e # d
    BY <1>2, <1>4, <2>2, OthersKeep
  <2> QED BY <2>1, <2>2
<1> QED BY <1>3, <1>4 DEF Next

(* What convergeQuery promises at every step, on every dialect: parameters *)
(* are read in placeholder order and none is missed, fields are distinct   *)
(* and in the order their names first appear, one name has one type, a     *)
(* list is bound once and never nullable, the row is the projection.       *)
THEOREM ConvergenceHolds == Spec => []ConvergenceInv
<1>1. Init => TypeOK /\ ConvergenceInv
  BY TypeInit, DialectInit
<1>2. TypeOK /\ ConvergenceInv /\ [Next]_vars => (TypeOK /\ ConvergenceInv)'
  BY TypeStep, InvStep
<1> QED BY <1>1, <1>2, PTL DEF Spec
-----------------------------------------------------------------------------
(* What follows for the queries convergeQuery accepts.                     *)

(* Every accepted query is one the emitter can render: a known command,    *)
(* distinct fields, and a row exactly when the command returns rows.       *)
THEOREM ShapesAreRenderable == Spec => []AcceptedShapes
<1>1. TypeOK /\ ConvergenceInv => AcceptedShapes
  <2> SUFFICES ASSUME TypeOK, ConvergenceInv, NEW d \in Dialect, pc[d] = "accepted"
               PROVE  /\ Shape!QueryShape(QueryOf(d))
                      /\ \A j, k \in DOMAIN params[d] :
                            params[d][j].name = params[d][k].name => j = k
                      /\ \A j, k \in DOMAIN columns[d] :
                            columns[d][j].name = columns[d][k].name => j = k
    BY DEF AcceptedShapes
  <2>1. /\ command \in Shape!Command
        /\ Shape!ReturnsRows(command) <=> columns[d] # <<>>
    BY DEF ConvergenceInv, PhaseInv
  <2>2. Shape!QueryShape(QueryOf(d))
    BY <2>1 DEF Shape!QueryShape, QueryOf, TypeOK
  <2> QED BY <2>2 DEF ConvergenceInv, FieldsInOrder, RowInOrder
<1> QED BY <1>1, TypeCorrect, ConvergenceHolds, PTL

(* Where placeholders are numbered, uses of one name are one argument.     *)
LEMMA OneArgument ==
    ASSUME TypeOK, NEW d \in Dialect, d \notin Positional, NEW i \in DOMAIN statement,
           NEW j \in DOMAIN statement, ReportedName(d, i) = ReportedName(d, j)
    PROVE  ArgOf(d, i) = ArgOf(d, j)
<1>1. statement[i].name = statement[j].name /\ statement[i] \in UseSet /\ statement[j] \in UseSet
  BY DEF ReportedName, TypeOK
<1>2. statement[i].list = statement[j].list
  BY <1>1, ConvergenceAssumption
<1> QED BY <1>2 DEF ArgOf, FieldName, ListOf

(* A use whose placeholder stands for a parameter read at another use.     *)
LEMMA FirstUseRead ==
    ASSUME TypeOK, NEW d \in Dialect, d \notin Positional, ReadInOrder(d),
           \A i \in Parameters(d) : i <= LastRead(d), NEW i \in DOMAIN statement
    PROVE  \E k \in DOMAIN request[d] : ReportedName(d, request[d][k].use) = ReportedName(d, i)
<1> DEFINE S == {j \in DOMAIN statement : ReportedName(d, j) = ReportedName(d, i)}
<1>0. DOMAIN statement = 1..Len(statement) /\ Len(statement) \in Nat
  BY DEF TypeOK
<1>1. S \in SUBSET Nat /\ i \in S
  BY <1>0
<1>2. PICK j \in S : \A l \in S : j <= l
  BY <1>1, LeastOf
<1>3. j \in Parameters(d)
  <2>1. ASSUME NEW l \in 1..(j - 1) PROVE ReportedName(d, l) # ReportedName(d, j)
    <3>1. l \in DOMAIN statement /\ ~(j <= l)
      BY <1>0, <1>2
    <3> QED BY <1>2, <3>1
  <2> QED BY <1>2, <2>1 DEF Parameters
<1>4. PICK k \in DOMAIN request[d] : request[d][k].use = j
  BY <1>3 DEF ReadInOrder
<1> QED BY <1>2, <1>4

(* In an accepted query every placeholder, by its position or its number,  *)
(* stands for the argument of the name the author wrote there, whichever   *)
(* engine it is for and however often and in whatever order names recur.   *)
THEOREM NothingIsTransposed == Spec => []PlaceholdersBindTheirNames
<1>1. TypeOK /\ ConvergenceInv => PlaceholdersBindTheirNames
  <2> SUFFICES ASSUME TypeOK, ConvergenceInv, NEW d \in Dialect, pc[d] = "accepted",
                      NEW i \in DOMAIN statement
               PROVE  /\ ArgAt(d, i) \in DOMAIN args[d]
                      /\ args[d][ArgAt(d, i)] = ArgOf(d, i)
                      /\ \E j \in DOMAIN params[d] : params[d][j].name = FieldName(d, i)
    BY DEF PlaceholdersBindTheirNames
  <2>1. /\ ReadInOrder(d) /\ OneMeaning(d)
        /\ \A j \in Parameters(d) : j <= LastRead(d)
    BY DEF ConvergenceInv, PhaseInv
  <2>2. DOMAIN args[d] = DOMAIN request[d]
    BY <2>1 DEF ReadInOrder, TypeOK
  <2>3. \A k \in DOMAIN request[d] :
            /\ request[d][k].use \in DOMAIN statement
            /\ args[d][k] = ArgOf(d, request[d][k].use)
    BY <2>1 DEF ReadInOrder, Parameters
  <2>4. /\ ArgAt(d, i) \in DOMAIN request[d]
        /\ ArgOf(d, request[d][ArgAt(d, i)].use) = ArgOf(d, i)
    <3>1. CASE d \in Positional
      <4>1. i \in Parameters(d)
        BY <3>1 DEF Parameters
      <4>2. PICK k \in DOMAIN request[d] : request[d][k].use = i
        BY <2>1, <4>1 DEF ReadInOrder
      <4>3. k = i
        BY <2>1, <3>1, <4>2 DEF ReadInOrder
      <4> QED BY <3>1, <4>2, <4>3 DEF ArgAt
    <3>2. CASE d \notin Positional
      <4> DEFINE k == Number(d, ReportedName(d, i))
      <4>1. k \in DOMAIN request[d] /\ ReportedName(d, request[d][k].use) = ReportedName(d, i)
        BY <2>1, <3>2, FirstUseRead DEF Number
      <4>2. ArgOf(d, request[d][k].use) = ArgOf(d, i)
        BY <2>3, <3>2, <4>1, OneArgument
      <4> QED BY <3>2, <4>1, <4>2 DEF ArgAt
    <3> QED BY <3>1, <3>2
  <2>5. PICK k : k = ArgAt(d, i)
    OBVIOUS
  <2>6. PICK j \in DOMAIN params[d] :
            params[d][j] = FieldOf(d, request[d][k].use, request[d][k].report)
    BY <2>1, <2>4, <2>5 DEF OneMeaning
  <2>7. params[d][j].name = FieldName(d, i)
    BY <2>4, <2>5, <2>6 DEF FieldOf, ArgOf
  <2> QED BY <2>2, <2>3, <2>4, <2>7
<1> QED BY <1>1, TypeCorrect, ConvergenceHolds, PTL

(* A field's type is the one some parameter of its name was reported with. *)
LEMMA FieldReported ==
    ASSUME TypeOK, NEW d \in Dialect, ReadInOrder(d), FieldsInOrder(d), OneMeaning(d),
           NEW j \in DOMAIN params[d]
    PROVE  \E r \in Report, b \in BOOLEAN :
              params[d][j].type = MapType(r, params[d][j].name, b)
<1>1. DOMAIN args[d] = DOMAIN request[d]
  BY DEF ReadInOrder, TypeOK
<1>2. PICK k \in DOMAIN args[d] : args[d][k].name = params[d][j].name
  BY DEF FieldsInOrder, Introduces
<1>3. args[d][k].name = FieldName(d, request[d][k].use)
  <2>1. args[d][k] = ArgOf(d, request[d][k].use)
    BY <1>1 DEF ReadInOrder
  <2> QED BY <2>1 DEF ArgOf
<1>4. PICK l \in DOMAIN params[d] :
          params[d][l] = FieldOf(d, request[d][k].use, request[d][k].report)
  BY <1>1 DEF OneMeaning
<1>5. params[d][l].name = FieldName(d, request[d][k].use)
  BY <1>4 DEF FieldOf
<1>6. l = j
  BY <1>2, <1>3, <1>5 DEF FieldsInOrder
<1>7. request[d][k].report \in Report
  <2>1. request[d][k] \in Parameter
    BY <1>1 DEF TypeOK
  <2> QED BY <2>1, ConvergenceAssumption DEF Parameter
<1>8. params[d][j].type = MapType(request[d][k].report, params[d][j].name,
                                 ListOf(d, request[d][k].use) # "notAList")
  BY <1>2, <1>3, <1>4, <1>6 DEF FieldOf
<1> QED BY <1>7, <1>8

(* A wildcard override no table contradicts gives a field one type on      *)
(* every dialect, whatever each analyzer reports of kind, nullability,     *)
(* table, and even of its name.                                            *)
THEOREM WildcardIsFinal == Spec => []WildcardSettles
<1>1. ASSUME TypeOK, ConvergenceInv, NEW d \in Dialect, NEW e \in Dialect,
             NEW k \in DOMAIN params[d], NEW l \in DOMAIN params[e],
             params[d][k].name = params[e][l].name,
             params[d][k].type.slice = params[e][l].type.slice,
             Matches(options, AnyTable, params[d][k].name) # {},
             \A t \in Table : Matches(options, t, params[d][k].name) = {}
      PROVE  params[d][k].type = params[e][l].type
  <2>1. PICK r \in Report, b \in BOOLEAN :
            params[d][k].type = MapType(r, params[d][k].name, b)
    BY <1>1, FieldReported DEF ConvergenceInv
  <2>2. PICK q \in Report, c \in BOOLEAN :
            params[e][l].type = MapType(q, params[d][k].name, c)
    BY <1>1, FieldReported DEF ConvergenceInv
  <2>3. \A t \in Table : OverrideFor(options, t, params[d][k].name)
                            = OverrideFor(options, r.table, params[d][k].name)
    BY <1>1 DEF OverrideFor, Report
  <2>4. OverrideFor(options, r.table, params[d][k].name) # None
    <3>1. Matches(options, r.table, params[d][k].name) = {}
      BY <1>1 DEF Report
    <3> QED BY <1>1, <3>1, WildcardChosen DEF TypeOK
  <2>5. b = c
    BY <1>1, <2>1, <2>2 DEF MapType
  <2> QED BY <2>1, <2>2, <2>3, <2>4, <2>5 DEF MapType, Report
<1>2. ASSUME TypeOK, ConvergenceInv PROVE WildcardSettles
  <2>1. ASSUME NEW d \in Dialect, NEW e \in Dialect,
               NEW k \in DOMAIN params[d], NEW l \in DOMAIN params[e]
        PROVE  LET f == params[d][k]
                   g == params[e][l]
               IN  /\ f.name = g.name /\ f.type.slice = g.type.slice
                   /\ Matches(options, AnyTable, f.name) # {}
                   /\ \A t \in Table : Matches(options, t, f.name) = {}
                   => f.type = g.type
    BY ONLY <1>1, <1>2, <2>1
  <2> QED BY ONLY <2>1 DEF WildcardSettles
<1> QED BY <1>2, TypeCorrect, ConvergenceHolds, PTL

-----------------------------------------------------------------------------
(* Two dialects: the order of their fields, and where a list is in it.     *)

(* A sequence P lists what F gives for 1..N in order of first appearance:  *)
(* nothing is missing or repeated, and what appears before an element does *)
(* precedes it.                                                            *)
Lists(P, F, N) ==
    /\ P \in Seq(Name)
    /\ \A j, k \in DOMAIN P : P[j] = P[k] => j = k
    /\ \A i \in 1..N : \E j \in DOMAIN P : P[j] = F[i]
    /\ \A j \in DOMAIN P : \E i \in 1..N :
          /\ P[j] = F[i]
          /\ \A h \in 1..(i - 1) : \E k \in 1..(j - 1) : P[k] = F[h]

(* An element at a place one list has and up to which they agree is at the *)
(* same place in the other.                                                *)
LEMMA NextListed ==
    ASSUME NEW N \in Nat, NEW F, NEW P, NEW Q, Lists(P, F, N), Lists(Q, F, N),
           NEW j \in DOMAIN P, \A k \in 1..(j - 1) : k \in DOMAIN Q /\ P[k] = Q[k]
    PROVE  j \in DOMAIN Q /\ P[j] = Q[j]
<1>0. /\ DOMAIN P = 1..Len(P) /\ Len(P) \in Nat
      /\ DOMAIN Q = 1..Len(Q) /\ Len(Q) \in Nat
  <2>1. P \in Seq(Name) /\ Q \in Seq(Name)
    BY DEF Lists
  <2> QED BY <2>1
<1>1. PICK i \in 1..N :
          /\ P[j] = F[i]
          /\ \A h \in 1..(i - 1) : \E k \in 1..(j - 1) : P[k] = F[h]
  BY DEF Lists
<1>2. PICK l \in DOMAIN Q : Q[l] = F[i]
  BY DEF Lists
<1>3. l \notin 1..(j - 1)
  <2> SUFFICES ASSUME l \in 1..(j - 1) PROVE FALSE
    OBVIOUS
  <2>1. P[l] = P[j] /\ l \in DOMAIN P
    BY <1>0, <1>1, <1>2
  <2> QED BY <1>0, <2>1 DEF Lists
<1>4. j \in DOMAIN Q
  BY <1>0, <1>2, <1>3
<1>5. PICK m \in 1..N :
          /\ Q[j] = F[m]
          /\ \A h \in 1..(m - 1) : \E k \in 1..(j - 1) : Q[k] = F[h]
  BY <1>4 DEF Lists
<1>6. ~(m < i)
  <2> SUFFICES ASSUME m < i PROVE FALSE
    OBVIOUS
  <2>1. PICK k \in 1..(j - 1) : P[k] = F[m]
    BY <1>1
  <2>2. k \in DOMAIN Q /\ Q[k] = Q[j]
    BY <1>5, <2>1
  <2>3. k = j
    BY <1>4, <2>2 DEF Lists
  <2> QED BY <1>0, <2>3
<1>7. ~(i < m)
  <2> SUFFICES ASSUME i < m PROVE FALSE
    OBVIOUS
  <2>1. PICK k \in 1..(j - 1) : Q[k] = F[i]
    BY <1>5
  <2>2. k \in DOMAIN P /\ P[k] = P[j]
    BY <1>0, <1>1, <2>1
  <2>3. k = j
    BY <2>2 DEF Lists
  <2> QED BY <1>0, <2>3
<1> QED BY <1>1, <1>4, <1>5, <1>6, <1>7

(* The order of first appearance is one order.                             *)
LEMMA OneOrder ==
    ASSUME NEW N \in Nat, NEW F, NEW P, NEW Q, Lists(P, F, N), Lists(Q, F, N)
    PROVE  P = Q
<1>0. /\ DOMAIN P = 1..Len(P) /\ Len(P) \in Nat
      /\ DOMAIN Q = 1..Len(Q) /\ Len(Q) \in Nat
  <2>1. P \in Seq(Name) /\ Q \in Seq(Name)
    BY DEF Lists
  <2> QED BY <2>1
<1> DEFINE Same(j) == j \in DOMAIN P /\ j \in DOMAIN Q /\ P[j] = Q[j]
           S == {j \in DOMAIN P \cup DOMAIN Q : ~Same(j)}
<1>1. S = {}
  <2> SUFFICES ASSUME S # {} PROVE FALSE
    OBVIOUS
  <2>1. S \in SUBSET Nat
    BY <1>0
  <2>2. PICK j \in S : \A k \in S : j <= k
    BY <2>1, LeastOf
  <2>3. \A k \in 1..(j - 1) : Same(k)
    BY <1>0, <2>2
  <2>4. CASE j \in DOMAIN P
    <3>1. Same(j)
      BY <2>3, <2>4, NextListed
    <3> QED BY <2>2, <3>1
  <2>5. CASE j \in DOMAIN Q
    <3>1. Same(j)
      BY <2>3, <2>5, NextListed
    <3> QED BY <2>2, <3>1
  <2> QED BY <2>2, <2>4, <2>5
<1>2. \A j \in DOMAIN P \cup DOMAIN Q : Same(j)
  BY <1>1
<1>3. Len(P) = Len(Q)
  <2>1. ~(Len(P) < Len(Q))
    <3>1. Len(P) < Len(Q) => Len(P) + 1 \in DOMAIN Q /\ Len(P) + 1 \notin DOMAIN P
      BY <1>0
    <3> QED BY <1>2, <3>1
  <2>2. ~(Len(Q) < Len(P))
    <3>1. Len(Q) < Len(P) => Len(Q) + 1 \in DOMAIN P /\ Len(Q) + 1 \notin DOMAIN Q
      BY <1>0
    <3> QED BY <1>2, <3>1
  <2>3. \A m, n \in Nat : ~(m < n) /\ ~(n < m) => m = n
    OBVIOUS
  <2> QED BY ONLY <1>0, <2>1, <2>2, <2>3
<1>4. P \in Seq(Name) /\ Q \in Seq(Name)
  BY DEF Lists
<1> QED BY <1>0, <1>2, <1>3, <1>4
-----------------------------------------------------------------------------
(* Every use has a first one of its name, which is a parameter everywhere. *)
LEMMA FirstUse ==
    ASSUME TypeOK, NEW d \in Dialect, NEW i \in DOMAIN statement
    PROVE  \E f \in Parameters(d) : f <= i /\ FieldName(d, f) = FieldName(d, i)
<1> DEFINE S == {j \in DOMAIN statement : ReportedName(d, j) = ReportedName(d, i)}
<1>0. DOMAIN statement = 1..Len(statement) /\ Len(statement) \in Nat
  BY DEF TypeOK
<1>1. S \in SUBSET Nat /\ i \in S
  BY <1>0
<1>2. PICK f \in S : \A j \in S : f <= j
  BY <1>1, LeastOf
<1>3. ASSUME NEW j \in 1..(f - 1) PROVE ReportedName(d, j) # ReportedName(d, f)
  <2>1. j \in DOMAIN statement /\ ~(f <= j)
    BY <1>0, <1>2
  <2> QED BY <1>2, <2>1
<1>4. f \in Parameters(d)
  BY <1>2, <1>3 DEF Parameters
<1>5. FieldName(d, f) = FieldName(d, i)
  BY <1>2 DEF FieldName
<1> QED BY <1>1, <1>2, <1>4, <1>5

(* An accepted query lists the names of its uses, whether or not every use *)
(* is a parameter.                                                         *)
UsedNames(d) == [i \in DOMAIN statement |-> FieldName(d, i)]

LEMMA FieldsList ==
    ASSUME TypeOK, ConvergenceInv, PlaceholdersBindTheirNames,
           NEW d \in Dialect, pc[d] = "accepted"
    PROVE  Lists(Names(params[d]), UsedNames(d), Len(statement))
<1> DEFINE P == Names(params[d])
           N == Len(statement)
<1>0. /\ DOMAIN statement = 1..N /\ N \in Nat
      /\ params[d] \in Seq(Field) /\ DOMAIN params[d] = 1..Len(params[d]) /\ Len(params[d]) \in Nat
      /\ DOMAIN args[d] = 1..Len(args[d]) /\ Len(args[d]) \in Nat
      /\ DOMAIN request[d] = 1..Len(request[d])
  BY DEF TypeOK
<1>1. /\ ReadInOrder(d) /\ FieldsInOrder(d)
      /\ \A i \in Parameters(d) : i <= LastRead(d)
  BY DEF ConvergenceInv, PhaseInv
<1>2. DOMAIN P = 1..Len(params[d]) /\ \A j \in DOMAIN P : P[j] = params[d][j].name
  BY <1>0 DEF Names
<1>3. P \in Seq(Name)
  <2>1. \A j \in DOMAIN params[d] : params[d][j] \in Field
    BY <1>0
  <2>2. \A j \in DOMAIN params[d] : params[d][j].name \in Name
    BY <2>1 DEF Field
  <2> QED BY <1>0, <2>2 DEF Names
<1>4. \A j, k \in DOMAIN P : P[j] = P[k] => j = k
  BY <1>0, <1>1, <1>2 DEF FieldsInOrder
<1>5. \A i \in 1..N : \E j \in DOMAIN P : P[j] = UsedNames(d)[i]
  BY <1>0, <1>2 DEF PlaceholdersBindTheirNames, UsedNames
<1>6. ASSUME NEW j \in DOMAIN P
      PROVE  \E i \in 1..N :
                /\ P[j] = UsedNames(d)[i]
                /\ \A h \in 1..(i - 1) : \E m \in 1..(j - 1) : P[m] = UsedNames(d)[h]
  <2>1. PICK k \in DOMAIN args[d] : Introduces(d, k, j)
    BY <1>0, <1>1, <1>2 DEF FieldsInOrder
  <2>2. PICK i : i = request[d][k].use
    OBVIOUS
  <2>0. DOMAIN args[d] = DOMAIN request[d]
    BY <1>0, <1>1 DEF ReadInOrder
  <2>3. /\ i \in Parameters(d) /\ i \in 1..N
        /\ \A l \in DOMAIN request[d] : args[d][l].name = FieldName(d, request[d][l].use)
    <3>1. i \in Parameters(d)
      BY <1>1, <2>0, <2>2 DEF ReadInOrder
    <3>2. \A l \in DOMAIN request[d] : args[d][l] = ArgOf(d, request[d][l].use)
      BY <1>1 DEF ReadInOrder
    <3>3. i \in 1..N
      BY <1>0, <3>1 DEF Parameters
    <3>4. \A f : ArgOf(d, f).name = FieldName(d, f)
      BY DEF ArgOf
    <3> QED BY <3>1, <3>2, <3>3, <3>4
  <2>4. P[j] = UsedNames(d)[i]
    BY <1>0, <1>1, <1>2, <2>1, <2>2, <2>3 DEF Introduces, UsedNames, ReadInOrder
  <2>5. ASSUME NEW h \in 1..(i - 1) PROVE \E m \in 1..(j - 1) : P[m] = UsedNames(d)[h]
    <3>0. h \in 1..N /\ h < i
      BY <1>0, <2>3
    <3>1. PICK f \in Parameters(d) : f <= h /\ FieldName(d, f) = FieldName(d, h)
      BY <1>0, <3>0, FirstUse
    <3>2. PICK l \in DOMAIN request[d] : request[d][l].use = f
      BY <1>1, <3>1 DEF ReadInOrder
    <3>3. l \in 1..(k - 1)
      <4>1. f \in Nat /\ i \in Nat /\ f < i
        BY <1>0, <2>3, <3>0, <3>1 DEF Parameters
      <4>2. k \in DOMAIN request[d] /\ l \in Nat /\ k \in Nat /\ 1 <= l
        BY <1>0, <2>0, <2>1, <3>2
      <4>3. \A m, n \in DOMAIN request[d] : m < n => request[d][m].use < request[d][n].use
        BY <1>1 DEF ReadInOrder
      <4>4. ~(k < l) /\ k # l
        BY <2>2, <3>2, <4>1, <4>2, <4>3
      <4> QED BY <4>2, <4>4
    <3>4. PICK m \in 1..(j - 1) : args[d][l].name = params[d][m].name
      BY <2>1, <3>3 DEF Introduces
    <3>5. P[m] = args[d][l].name
      BY <1>0, <1>2, <3>4
    <3>6. args[d][l].name = UsedNames(d)[h]
      BY <1>0, <2>3, <3>0, <3>1, <3>2 DEF UsedNames
    <3> QED BY <3>5, <3>6
  <2> QED BY <2>3, <2>4, <2>5
<1> QED BY <1>3, <1>4, <1>5, <1>6 DEF Lists

(* Dialects on which every use has the same field name converge a          *)
(* statement of any length to the same fields in the same order, whether   *)
(* they repeat a parameter or number it, and to the same columns.          *)
THEOREM FieldsInOneOrder == Spec => []SameFieldOrder
<1>1. TypeOK /\ ConvergenceInv /\ PlaceholdersBindTheirNames => SameFieldOrder
  <2> SUFFICES ASSUME TypeOK, ConvergenceInv, PlaceholdersBindTheirNames,
                      NEW d \in Dialect, NEW e \in Dialect, pc[d] = "accepted", pc[e] = "accepted",
                      \A i \in DOMAIN statement : FieldName(d, i) = FieldName(e, i)
               PROVE  Names(params[d]) = Names(params[e]) /\ Names(columns[d]) = Names(columns[e])
    BY DEF SameFieldOrder
  <2>1. Len(statement) \in Nat
    BY DEF TypeOK
  <2>2. UsedNames(d) = UsedNames(e)
    BY DEF UsedNames
  <2>3. Names(params[d]) = Names(params[e])
    BY <2>1, <2>2, FieldsList, OneOrder
  <2>4. ASSUME NEW c \in {d, e}, columns[c] # <<>>
        PROVE  Names(columns[c]) = projection
    <3>1. /\ RowInOrder(c) /\ Len(columns[c]) = Len(projection)
          /\ columns[c] \in Seq(Field) /\ projection \in Seq(Name \cup {NoName})
      BY <2>4 DEF ConvergenceInv, PhaseInv, TypeOK
    <3>2. DOMAIN columns[c] = 1..Len(projection) /\ DOMAIN projection = 1..Len(projection)
      BY <3>1
    <3>3. \A k \in DOMAIN columns[c] : columns[c][k].name = projection[k]
      BY <3>1 DEF RowInOrder
    <3> QED BY <3>1, <3>2, <3>3 DEF Names
  <2>5. columns[d] = <<>> <=> columns[e] = <<>>
    BY DEF ConvergenceInv, PhaseInv
  <2> QED BY <2>3, <2>4, <2>5
<1> QED BY <1>1, TypeCorrect, ConvergenceHolds, NothingIsTransposed, PTL
-----------------------------------------------------------------------------
(* The argument a list binds is the last one, and no other binds its name. *)
LEMMA ListIsLastArgument ==
    ASSUME TypeOK, ConvergenceInv, PlaceholdersBindTheirNames,
           NEW d \in Dialect, pc[d] = "accepted",
           NEW i \in DOMAIN statement, ListOf(d, i) = "expandedList"
    PROVE  /\ Len(args[d]) \in DOMAIN args[d]
           /\ \A k \in DOMAIN args[d] :
                 args[d][k].name = FieldName(d, i) <=> k = Len(args[d])
<1>0. /\ DOMAIN args[d] = 1..Len(args[d]) /\ Len(args[d]) \in Nat
      /\ DOMAIN request[d] = 1..Len(request[d])
      /\ ReadInOrder(d) /\ ListOnce(d)
      /\ \A k \in DOMAIN args[d] : ExpansionSound(d, k)
  BY DEF TypeOK, ConvergenceInv, PhaseInv
<1>1. DOMAIN args[d] = DOMAIN request[d]
  BY <1>0 DEF ReadInOrder
<1>2. PICK k : k = ArgAt(d, i)
  OBVIOUS
<1>3. k \in DOMAIN args[d] /\ args[d][k] = ArgOf(d, i)
  BY <1>2 DEF PlaceholdersBindTheirNames
<1>4. args[d][k].name = FieldName(d, i) /\ args[d][k].expand = ReportedName(d, i)
  BY <1>3 DEF ArgOf
<1>5. ReportedName(d, i) # None
  <2>1. statement[i] \in Use
    BY ConvergenceAssumption DEF TypeOK
  <2>2. ReportedName(d, i) \in Name \cup {NoName}
    BY <2>1, ConvergenceAssumption DEF ReportedName, Use
  <2> QED BY <2>2, ConvergenceAssumption
<1>6. k = Len(args[d])
  BY <1>0, <1>3, <1>4, <1>5 DEF ExpansionSound
<1>7. ASSUME NEW l \in DOMAIN args[d], args[d][l].name = FieldName(d, i), l # k
      PROVE  FALSE
  <2>1. ListOf(d, request[d][k].use) = "notAList"
    BY <1>0, <1>3, <1>4, <1>7 DEF ListOnce
  <2>2. args[d][k] = ArgOf(d, request[d][k].use)
    BY <1>0, <1>1, <1>3 DEF ReadInOrder
  <2>3. args[d][k].expand = None
    BY <2>1, <2>2 DEF ArgOf
  <2> QED BY <1>4, <1>5, <2>3
<1> QED BY <1>3, <1>4, <1>6, <1>7

(* Where a dialect expands lists, an accepted list is the last field, and  *)
(* so it is on every dialect that converges the statement under the same   *)
(* names, numbered or not.                                                 *)
THEOREM ListsComeLast == Spec => []ListIsLastField
<1>1. TypeOK /\ ConvergenceInv /\ PlaceholdersBindTheirNames /\ SameFieldOrder => ListIsLastField
  <2> SUFFICES ASSUME TypeOK, ConvergenceInv, PlaceholdersBindTheirNames, SameFieldOrder,
                      NEW d \in Dialect, NEW e \in Dialect, NEW i \in DOMAIN statement,
                      pc[d] = "accepted", pc[e] = "accepted", ListOf(d, i) = "expandedList",
                      \A j \in DOMAIN statement : FieldName(d, j) = FieldName(e, j)
               PROVE  params[e][Len(params[e])].name = FieldName(d, i)
    BY DEF ListIsLastField
  <2>0. /\ params[d] \in Seq(Field) /\ DOMAIN params[d] = 1..Len(params[d]) /\ Len(params[d]) \in Nat
        /\ params[e] \in Seq(Field) /\ DOMAIN params[e] = 1..Len(params[e]) /\ Len(params[e]) \in Nat
        /\ DOMAIN args[d] = 1..Len(args[d]) /\ Len(args[d]) \in Nat
        /\ FieldsInOrder(d)
    BY DEF TypeOK, ConvergenceInv
  <2>1. PICK last : last = Len(args[d])
    OBVIOUS
  <2>2. PICK j \in DOMAIN params[d] : params[d][j].name = FieldName(d, i)
    BY DEF PlaceholdersBindTheirNames
  <2>3. \A k \in DOMAIN args[d] : args[d][k].name = FieldName(d, i) => k = last
    BY <2>1, ListIsLastArgument
  <2>4. PICK k \in DOMAIN args[d] : Introduces(d, k, j)
    BY <2>0 DEF FieldsInOrder
  <2>5. k = last
    BY <2>2, <2>3, <2>4 DEF Introduces
  <2>6. ASSUME NEW m \in DOMAIN params[d], j < m PROVE FALSE
    <3>1. PICK l \in DOMAIN args[d] : Introduces(d, l, m)
      BY <2>0 DEF FieldsInOrder
    <3>2. l # last
      <4>1. m # j
        BY <2>0, <2>6
      <4> QED BY <2>0, <2>2, <2>4, <2>5, <3>1, <4>1 DEF Introduces, FieldsInOrder
    <3>3. l \in 1..(last - 1)
      BY <2>0, <2>1, <3>2
    <3>4. PICK n \in 1..(j - 1) : args[d][l].name = params[d][n].name
      BY <2>4, <2>5, <3>3 DEF Introduces
    <3>5. n \in DOMAIN params[d] /\ n # m /\ params[d][n].name = params[d][m].name
      BY <2>0, <2>6, <3>1, <3>4 DEF Introduces
    <3> QED BY <2>0, <3>5 DEF FieldsInOrder
  <2>7. j = Len(params[d])
    <3>1. Len(params[d]) \in DOMAIN params[d] /\ ~(j < Len(params[d]))
      BY <2>0, <2>2, <2>6
    <3>2. j \in Nat /\ j <= Len(params[d])
      BY <2>0, <2>2
    <3> QED BY <2>0, <3>1, <3>2
  <2>8. Names(params[d]) = Names(params[e])
    BY DEF SameFieldOrder
  <2>9. DOMAIN Names(params[d]) = DOMAIN params[d] /\ DOMAIN Names(params[e]) = DOMAIN params[e]
    BY DEF Names
  <2>10. Len(params[d]) = Len(params[e])
    <3>1. \A m, n \in Nat : 1..m = 1..n => m = n
      <4> SUFFICES ASSUME NEW m \in Nat, NEW n \in Nat, 1..m = 1..n PROVE m = n
        OBVIOUS
      <4>1. ~(m < n) /\ ~(n < m)
        <5>1. m < n => n \in 1..n /\ n \notin 1..m
          OBVIOUS
        <5>2. n < m => m \in 1..m /\ m \notin 1..n
          OBVIOUS
        <5> QED BY <5>1, <5>2
      <4> QED BY <4>1
    <3> QED BY <2>0, <2>8, <2>9, <3>1
  <2>11. Names(params[e])[j] = params[e][j].name /\ Names(params[d])[j] = params[d][j].name
    BY <2>0, <2>7, <2>10, <2>2 DEF Names
  <2> QED BY <2>2, <2>7, <2>8, <2>10, <2>11
<1> QED BY <1>1, TypeCorrect, ConvergenceHolds, NothingIsTransposed, FieldsInOneOrder, PTL
-----------------------------------------------------------------------------
LEMMA SameReportSameType ==
    ASSUME NEW r, NEW q, SameReport(r, q)
    PROVE  \A name, slice : MapType(r, name, slice) = MapType(q, name, slice)
<1>1. r.table = q.table /\ r.notNull = q.notNull /\ KindOf(r.engine) = KindOf(q.engine)
  BY SpellingAssumption DEF SameReport
<1> QED BY <1>1 DEF MapType

(* Every use is read, as itself or as the first one of its argument.       *)
LEMMA UseRead ==
    ASSUME TypeOK, NEW d \in Dialect, ReadInOrder(d),
           \A i \in Parameters(d) : i <= LastRead(d), NEW i \in DOMAIN statement
    PROVE  \E k \in DOMAIN request[d] :
              /\ FieldName(d, request[d][k].use) = FieldName(d, i)
              /\ statement[request[d][k].use].list = statement[i].list
<1>1. CASE d \in Positional
  <2>1. i \in Parameters(d)
    BY <1>1 DEF Parameters
  <2> QED BY <2>1 DEF ReadInOrder
<1>2. CASE d \notin Positional
  <2>1. PICK k \in DOMAIN request[d] : ReportedName(d, request[d][k].use) = ReportedName(d, i)
    BY <1>2, FirstUseRead
  <2>2. request[d][k].use \in DOMAIN statement
    BY DEF ReadInOrder, Parameters
  <2>3. /\ statement[request[d][k].use].name = statement[i].name
        /\ statement[request[d][k].use] \in UseSet /\ statement[i] \in UseSet
    BY <1>2, <2>1, <2>2 DEF ReportedName, TypeOK
  <2>4. statement[request[d][k].use].list = statement[i].list
    BY <2>3, ConvergenceAssumption
  <2>5. FieldName(d, request[d][k].use) = FieldName(d, i)
    BY <2>1 DEF FieldName
  <2> QED BY <2>4, <2>5
<1> QED BY <1>1, <1>2

(* Agreeing dialects give a field one type: that of some use of its name,  *)
(* which the other dialect has read too.                                   *)
LEMMA SameFieldTypes ==
    ASSUME TypeOK, ConvergenceInv, NEW d \in Dialect, NEW e \in Dialect,
           pc[d] = "accepted", pc[e] = "accepted", Agree(d, e),
           NEW j \in DOMAIN params[d], j \in DOMAIN params[e],
           params[d][j].name = params[e][j].name
    PROVE  params[d][j].type = params[e][j].type
<1>0. /\ ReadInOrder(d) /\ FieldsInOrder(d) /\ OneMeaning(d)
      /\ ReadInOrder(e) /\ FieldsInOrder(e) /\ OneMeaning(e)
      /\ \A i \in Parameters(e) : i <= LastRead(e)
  BY DEF ConvergenceInv, PhaseInv
<1>1. DOMAIN args[d] = DOMAIN request[d] /\ DOMAIN args[e] = DOMAIN request[e]
  BY <1>0 DEF ReadInOrder, TypeOK
<1>2. PICK k \in DOMAIN request[d] : args[d][k].name = params[d][j].name
  BY <1>0, <1>1 DEF FieldsInOrder, Introduces
<1>3. PICK i : i = request[d][k].use
  OBVIOUS
<1>4. i \in DOMAIN statement /\ args[d][k].name = FieldName(d, i)
  <2>1. i \in Parameters(d) /\ args[d][k] = ArgOf(d, i)
    BY <1>0, <1>3 DEF ReadInOrder
  <2> QED BY <2>1 DEF Parameters, ArgOf
<1>5. PICK l \in DOMAIN request[e] :
          /\ FieldName(e, request[e][l].use) = FieldName(e, i)
          /\ statement[request[e][l].use].list = statement[i].list
  BY <1>0, <1>4, UseRead
<1>6. PICK h : h = request[e][l].use
  OBVIOUS
<1>7. args[e][l].name = FieldName(e, h) /\ FieldName(e, h) = FieldName(d, i)
  <2>1. args[e][l] = ArgOf(e, h)
    BY <1>0, <1>6 DEF ReadInOrder
  <2> QED BY <1>4, <1>5, <1>6, <2>1 DEF ArgOf, Agree
<1>8. SameReport(request[d][k].report, request[e][l].report)
  BY <1>4, <1>7 DEF Agree
<1>9. params[d][j] = FieldOf(d, i, request[d][k].report)
  <2>1. PICK m \in DOMAIN params[d] : params[d][m] = FieldOf(d, i, request[d][k].report)
    BY <1>0, <1>3 DEF OneMeaning
  <2>2. params[d][m].name = params[d][j].name
    BY <1>2, <1>4, <2>1 DEF FieldOf
  <2> QED BY <1>0, <2>1, <2>2 DEF FieldsInOrder
<1>10. params[e][j] = FieldOf(e, h, request[e][l].report)
  <2>1. PICK m \in DOMAIN params[e] : params[e][m] = FieldOf(e, h, request[e][l].report)
    BY <1>0, <1>6 DEF OneMeaning
  <2>2. params[e][m].name = params[e][j].name
    BY <1>2, <1>4, <1>7, <2>1 DEF FieldOf
  <2> QED BY <1>0, <2>1, <2>2 DEF FieldsInOrder
<1>11. (ListOf(d, i) # "notAList") = (ListOf(e, h) # "notAList")
  BY <1>5, <1>6 DEF ListOf
<1>12. /\ params[d][j].type = MapType(request[d][k].report, FieldName(d, i), ListOf(d, i) # "notAList")
       /\ params[e][j].type = MapType(request[e][l].report, FieldName(d, i), ListOf(e, h) # "notAList")
  BY <1>7, <1>9, <1>10 DEF FieldOf
<1> QED BY <1>8, <1>11, <1>12, SameReportSameType

LEMMA SameColumns ==
    ASSUME TypeOK, ConvergenceInv, NEW d \in Dialect, NEW e \in Dialect,
           pc[d] = "accepted", pc[e] = "accepted", Agree(d, e)
    PROVE  columns[d] = columns[e]
<1>1. columns[d] = <<>> <=> columns[e] = <<>>
  BY DEF ConvergenceInv, PhaseInv
<1>2. CASE columns[d] # <<>>
  <2>1. ASSUME NEW c \in {d, e}
        PROVE  /\ columns[c] \in Seq(Field) /\ Len(columns[c]) = Len(projection)
               /\ DOMAIN columns[c] = 1..Len(projection) /\ DOMAIN row[c] = 1..Len(projection)
               /\ \A k \in DOMAIN columns[c] :
                     /\ columns[c][k].name = projection[k]
                     /\ columns[c][k].type = MapType(row[c][k], projection[k], FALSE)
    <3>1. /\ columns[c] \in Seq(Field) /\ row[c] \in Seq(ReportSet)
          /\ Len(columns[c]) = Len(projection)
      BY <1>1, <1>2 DEF TypeOK, ConvergenceInv, PhaseInv
    <3>2. RowInOrder(c)
      BY DEF ConvergenceInv
    <3>3. Len(row[c]) = Len(projection)
      BY <3>1, <3>2 DEF RowInOrder
    <3>4. DOMAIN columns[c] = 1..Len(projection) /\ DOMAIN row[c] = 1..Len(projection)
      BY <3>1, <3>3
    <3>5. \A k \in DOMAIN columns[c] :
              /\ columns[c][k].name = projection[k]
              /\ columns[c][k].type = MapType(row[c][k], projection[k], FALSE)
      BY <3>2 DEF RowInOrder
    <3> QED BY <3>1, <3>4, <3>5
  <2>2. ASSUME NEW k \in 1..Len(projection) PROVE columns[d][k] = columns[e][k]
    <3>1. SameReport(row[d][k], row[e][k])
      BY <2>1, <2>2 DEF Agree
    <3>2. columns[d][k].name = columns[e][k].name /\ columns[d][k].type = columns[e][k].type
      <4>1. ASSUME NEW c \in {d, e}
            PROVE  /\ columns[c][k].name = projection[k]
                   /\ columns[c][k].type = MapType(row[c][k], projection[k], FALSE)
        BY ONLY <2>1, <2>2, <4>1
      <4>2. MapType(row[d][k], projection[k], FALSE) = MapType(row[e][k], projection[k], FALSE)
        <5>1. PICK r, q : r = row[d][k] /\ q = row[e][k]
          OBVIOUS
        <5>2. SameReport(r, q)
          BY <3>1, <5>1
        <5>3. \A name, slice : MapType(r, name, slice) = MapType(q, name, slice)
          BY <5>2, SameReportSameType
        <5> QED BY <5>1, <5>3
      <4> QED BY <4>1, <4>2
    <3>3. columns[d][k] \in Field /\ columns[e][k] \in Field
      BY <2>1, <2>2
    <3> QED BY <3>2, <3>3 DEF Field
  <2> QED BY <2>1, <2>2
<1> QED BY <1>1, <1>2

(* Dialects that are given one statement and one schema and accept it      *)
(* converge it to one shape, whatever each repeats, expands or spells its  *)
(* own way, if the table gives the spellings of a type one kind.           *)
THEOREM ShapesConverge == Spec => []OneShape
<1>1. TypeOK /\ ConvergenceInv /\ SameFieldOrder => OneShape
  <2> SUFFICES ASSUME TypeOK, ConvergenceInv, SameFieldOrder, NEW d \in Dialect, NEW e \in Dialect,
                      pc[d] = "accepted", pc[e] = "accepted", Agree(d, e)
               PROVE  QueryOf(d) = QueryOf(e)
    BY DEF OneShape
  <2>1. Names(params[d]) = Names(params[e])
    BY DEF SameFieldOrder, Agree
  <2>2. /\ params[d] \in Seq(Field) /\ params[e] \in Seq(Field)
        /\ DOMAIN params[d] = DOMAIN params[e]
        /\ \A j \in DOMAIN params[d] : params[d][j].name = params[e][j].name
    <3>1. params[d] \in Seq(Field) /\ params[e] \in Seq(Field)
      BY DEF TypeOK
    <3>2. DOMAIN Names(params[d]) = DOMAIN params[d] /\ DOMAIN Names(params[e]) = DOMAIN params[e]
      BY DEF Names
    <3>3. /\ \A j \in DOMAIN params[d] : Names(params[d])[j] = params[d][j].name
          /\ \A j \in DOMAIN params[e] : Names(params[e])[j] = params[e][j].name
      BY DEF Names
    <3> QED BY <2>1, <3>1, <3>2, <3>3
  <2>3. ASSUME NEW j \in DOMAIN params[d] PROVE params[d][j] = params[e][j]
    <3>1. params[d][j].type = params[e][j].type
      BY <2>2, <2>3, SameFieldTypes
    <3>2. params[d][j] \in Field /\ params[e][j] \in Field
      BY <2>2
    <3> QED BY <2>2, <3>1, <3>2 DEF Field
  <2>4. params[d] = params[e]
    <3>1. Len(params[d]) = Len(params[e])
      BY <2>2
    <3> QED BY <2>2, <2>3, <3>1
  <2>5. columns[d] = columns[e]
    BY SameColumns
  <2> QED BY <2>4, <2>5 DEF QueryOf
<1> QED BY <1>1, TypeCorrect, ConvergenceHolds, FieldsInOneOrder, PTL
=============================================================================
