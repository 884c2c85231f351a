--------------------------- MODULE BindingProofs ---------------------------
(***************************************************************************)
(* A generated method binds by name.  The argument a list binds is the     *)
(* last, and every other argument is first used before it: so the numbers  *)
(* a list's placeholders take are those of its elements in the []any, and  *)
(* whatever comes after the list repeats an argument that has its number.  *)
(***************************************************************************)
EXTENDS Binding, ConvergenceProofs, FiniteSetTheorems

-----------------------------------------------------------------------------
(* What the operators compute.                                             *)

(* The greatest of a set of numbers.                                      *)
LEMMA MaxIs ==
    ASSUME NEW S \in SUBSET Nat, NEW m \in S, \A x \in S : x <= m
    PROVE  Max(S) = m
<1>1. m \in S /\ \A y \in S : m >= y
  OBVIOUS
<1>2. \A x \in S : (\A y \in S : x >= y) => x = m
  OBVIOUS
<1> QED BY <1>1, <1>2 DEF Max

(* The number of a bare placeholder: one more than any before it.          *)
NextNumber(numbers, p) == 1 + Max({0} \cup {numbers[q] : q \in 1..(p - 1)})

LEMMA NextIs ==
    ASSUME NEW n \in Nat, NEW numbers \in [1..n -> Nat], NEW p \in 1..n, NEW m \in Nat,
           \A q \in 1..(p - 1) : numbers[q] <= m,
           m = 0 \/ \E q \in 1..(p - 1) : numbers[q] = m
    PROVE  NextNumber(numbers, p) = 1 + m
<1> DEFINE S == {0} \cup {numbers[q] : q \in 1..(p - 1)}
<1>1. \A q \in 1..(p - 1) : q \in 1..n
  OBVIOUS
<1>2. S \in SUBSET Nat /\ m \in S /\ \A x \in S : x <= m
  BY <1>1
<1> HIDE DEF S
<1>3. Max(S) = m
  BY <1>2, MaxIs
<1> QED BY <1>3 DEF S, NextNumber

(* Any numbers that each placeholder agrees with are its numbering.        *)
NumberAt(d, placeholders, numbers, p) ==
    IF placeholders[p].kind = "numbered" THEN Number(d, placeholders[p].name)
    ELSE NextNumber(numbers, p)

LEMMA NumberingIs ==
    ASSUME NEW d, NEW n \in Nat, NEW placeholders, DOMAIN placeholders = 1..n,
           NEW numbers \in [1..n -> Nat],
           \A p \in 1..n : numbers[p] = NumberAt(d, placeholders, numbers, p)
    PROVE  Numbering(d, placeholders) = numbers
<1> DEFINE Is(f) == f = [p \in DOMAIN placeholders |->
                            IF placeholders[p].kind = "numbered"
                            THEN Number(d, placeholders[p].name)
                            ELSE 1 + Max({0} \cup {f[q] : q \in 1..(p - 1)})]
<1>1. Is(numbers)
  BY DEF NumberAt, NextNumber
<1>2. ASSUME NEW f, Is(f) PROVE f = numbers
  <2> DEFINE bad == {p \in 1..n : f[p] # numbers[p]}
  <2>1. SUFFICES ASSUME bad # {} PROVE FALSE
    <3>1. DOMAIN f = 1..n
      BY <1>2
    <3>2. \A p \in 1..n : f[p] = numbers[p]
      BY <2>1
    <3>3. f = [p \in 1..n |-> f[p]]
      BY <1>2
    <3> QED BY <3>2, <3>3
  <2>2. PICK p \in bad : \A q \in bad : p <= q
    <3>1. bad \in SUBSET Nat
      OBVIOUS
    <3> HIDE DEF bad
    <3> QED BY <2>1, <3>1, LeastOf
  <2>3. \A q \in 1..(p - 1) : f[q] = numbers[q]
    <3>1. \A q \in 1..(p - 1) : q \in 1..n /\ ~(p <= q)
      OBVIOUS
    <3> QED BY <2>2, <3>1
  <2>4. {f[q] : q \in 1..(p - 1)} = {numbers[q] : q \in 1..(p - 1)}
    BY <2>3
  <2>5. f[p] = NumberAt(d, placeholders, numbers, p)
    BY <1>2, <2>2, <2>4 DEF NumberAt, NextNumber
  <2> QED BY <2>2, <2>5
<1>3. Numbering(d, placeholders) = CHOOSE f : Is(f)
  BY DEF Numbering
<1> HIDE DEF Is
<1> QED BY <1>1, <1>2, <1>3

(* Flattening one value in each place, or a list in one of them.           *)
LEMMA AsSeq ==
    ASSUME NEW n \in Nat, NEW S, NEW f \in [1..n -> S]
    PROVE  f \in Seq(S) /\ Len(f) = n
OBVIOUS

LEMMA SinglesAre ==
    ASSUME NEW S, NEW n \in Nat, NEW g \in [1..n -> S]
    PROVE  FlattenSeq([i \in 1..n |-> <<g[i]>>]) = g
<1> DEFINE seqs == [i \in 1..n |-> <<g[i]>>]
<1>1. \A i \in 1..n : seqs[i] \in Seq(S) /\ Len(seqs[i]) = 1 /\ seqs[i][1] = g[i]
  <2> SUFFICES ASSUME NEW i \in 1..n
               PROVE  seqs[i] \in Seq(S) /\ Len(seqs[i]) = 1 /\ seqs[i][1] = g[i]
    OBVIOUS
  <2>1. g[i] \in S /\ seqs[i] = <<g[i]>>
    OBVIOUS
  <2> HIDE DEF seqs
  <2> QED BY <2>1
<1>2. seqs \in [1..n -> Seq(S)]
  BY <1>1
<1> HIDE DEF seqs
<1>3. seqs \in Seq(Seq(S)) /\ Len(seqs) = n
  BY <1>2, AsSeq
<1>4. /\ FlattenSeq(seqs) \in Seq(S) /\ Len(FlattenSeq(seqs)) = n
      /\ \A p \in 1..n : FlattenSeq(seqs)[p] = seqs[p][1]
  BY <1>1, <1>3, FlattenSingles
<1>5. FlattenSeq(seqs) = g
  BY <1>1, <1>4
<1> QED BY <1>5 DEF seqs

(* A list among values: e in the k-th place, and one value in each other.  *)
ListIn(S, n, g, k, l, e, seqs) ==
    /\ n \in Nat /\ g \in [1..n -> S] /\ k \in 1..n /\ l \in Nat /\ e \in [1..l -> S]
    /\ seqs = [i \in 1..n |-> seqs[i]] /\ seqs[k] = e
    /\ \A i \in 1..n : i # k => seqs[i] = <<g[i]>>

LEMMA ListAmong ==
    ASSUME NEW S, NEW n, NEW g, NEW k, NEW l, NEW e, NEW seqs, ListIn(S, n, g, k, l, e, seqs)
    PROVE  /\ FlattenSeq(seqs) \in Seq(S) /\ Len(FlattenSeq(seqs)) = (n - 1) + l
           /\ \A p \in 1..(k - 1) : FlattenSeq(seqs)[p] = g[p]
           /\ \A p \in 1..l : FlattenSeq(seqs)[(k - 1) + p] = e[p]
           /\ \A p \in (k + 1)..n : FlattenSeq(seqs)[(p - 1) + l] = g[p]
<1>0. /\ n \in Nat /\ g \in [1..n -> S] /\ k \in 1..n /\ l \in Nat /\ e \in [1..l -> S]
      /\ seqs = [i \in 1..n |-> seqs[i]] /\ seqs[k] = e
      /\ \A i \in 1..n : i # k => seqs[i] = <<g[i]>>
  BY DEF ListIn
<1>1. \A i \in 1..n : i # k => seqs[i] \in Seq(S) /\ Len(seqs[i]) = 1 /\ seqs[i][1] = g[i]
  <2> SUFFICES ASSUME NEW i \in 1..n, i # k
               PROVE  seqs[i] \in Seq(S) /\ Len(seqs[i]) = 1 /\ seqs[i][1] = g[i]
    OBVIOUS
  <2>1. PICK x \in S : x = g[i]
    BY <1>0
  <2>2. <<x>> \in Seq(S) /\ Len(<<x>>) = 1 /\ <<x>>[1] = x
    OBVIOUS
  <2>3. seqs[i] = <<x>>
    BY <1>0, <2>1
  <2> QED BY <2>1, <2>2, <2>3
<1>2. seqs[k] = e /\ e \in Seq(S) /\ Len(e) = l
  BY <1>0, AsSeq
<1>3. seqs \in [1..n -> Seq(S)]
  <2>1. \A i \in 1..n : seqs[i] \in Seq(S)
    BY <1>1, <1>2
  <2>2. seqs = [i \in 1..n |-> seqs[i]]
    BY <1>0
  <2> QED BY <2>1, <2>2
<1>5. seqs \in Seq(Seq(S)) /\ Len(seqs) = n
  BY <1>0, <1>3, AsSeq
<1>6. k \in 1..Len(seqs) /\ \A i \in 1..Len(seqs) : i # k => Len(seqs[i]) = 1
  BY <1>0, <1>1, <1>5
<1>7. /\ FlattenSeq(seqs) \in Seq(S)
      /\ Len(FlattenSeq(seqs)) = (Len(seqs) - 1) + Len(seqs[k])
      /\ \A p \in 1..(k - 1) : FlattenSeq(seqs)[p] = seqs[p][1]
      /\ \A p \in 1..Len(seqs[k]) : FlattenSeq(seqs)[(k - 1) + p] = seqs[k][p]
      /\ \A p \in (k + 1)..Len(seqs) : FlattenSeq(seqs)[(p - 1) + Len(seqs[k])] = seqs[p][1]
  BY <1>5, <1>6, FlattenPlaces
<1>8. \A p \in 1..(k - 1) : p \in 1..n /\ p # k
  BY <1>0
<1>9. \A p \in (k + 1)..n : p \in 1..n /\ p # k
  BY <1>0
<1> QED BY <1>1, <1>2, <1>5, <1>7, <1>8, <1>9

(* A sum over nothing, and over one.                                       *)
SumOver(list, call, S) == MapThenSumSet(LAMBDA k : call[list[k].name], S)

LEMMA SumOfNone ==
    ASSUME NEW list, NEW call PROVE SumOver(list, call, {}) = 0
<1> DEFINE Is(f) == f = [s \in SUBSET {} |->
                            IF s = {} THEN 0
                            ELSE LET x == CHOOSE x \in s : TRUE
                                 IN  call[list[x].name] + f[s \ {x}]]
<1>1. Is([s \in SUBSET {} |-> 0])
  OBVIOUS
<1>2. \A f : Is(f) => f[{}] = 0
  OBVIOUS
<1>3. SumOver(list, call, {}) = (CHOOSE f : Is(f))[{}]
  BY DEF SumOver, MapThenSumSet, MapThenFoldSet
<1> HIDE DEF Is
<1> QED BY <1>1, <1>2, <1>3

LEMMA SumOfOne ==
    ASSUME NEW list, NEW call, NEW m, call[list[m].name] \in Nat
    PROVE  SumOver(list, call, {m}) = call[list[m].name]
<1> DEFINE Is(f) == f = [s \in SUBSET {m} |->
                            IF s = {} THEN 0
                            ELSE LET x == CHOOSE x \in s : TRUE
                                 IN  call[list[x].name] + f[s \ {x}]]
           g == [s \in SUBSET {m} |-> IF s = {} THEN 0 ELSE call[list[m].name]]
<1>0. \A s \in SUBSET {m} : s = {} \/ (s # {} /\ s = {m})
  OBVIOUS
<1>1. (CHOOSE x \in {m} : TRUE) = m /\ {m} \ {m} = {} /\ {} \in SUBSET {m} /\ {m} \in SUBSET {m}
  OBVIOUS
<1>2. Is(g)
  <2>1. g[{}] = 0
    OBVIOUS
  <2> HIDE DEF g
  <2>2. call[list[m].name] + g[{}] = call[list[m].name]
    BY <2>1
  <2>3. ASSUME NEW s \in SUBSET {m}, s # {}
        PROVE  (LET x == CHOOSE x \in s : TRUE IN call[list[x].name] + g[s \ {x}])
               = call[list[m].name]
    <3>1. s = {m}
      BY <1>0, <2>3
    <3> QED BY <1>1, <2>2, <3>1
  <2> QED BY <2>3 DEF g
<1>3. ASSUME NEW f, Is(f) PROVE f[{m}] = call[list[m].name]
  <2>1. f[{}] = 0
    BY <1>1, <1>3
  <2>2. f[{m}] = call[list[m].name] + f[{}]
    BY <1>1, <1>3
  <2> QED BY <2>1, <2>2
<1>4. SumOver(list, call, {m}) = (CHOOSE f : Is(f))[{m}]
  BY DEF SumOver, MapThenSumSet, MapThenFoldSet
<1> HIDE DEF Is
<1> QED BY <1>2, <1>3, <1>4

(* The capacity, by the arguments that expand.                             *)
LEMMA CapacityIs ==
    ASSUME NEW d, NEW call, NEW S, S = {k \in DOMAIN args[d] : args[d][k].expand # None}
    PROVE  capacity(d, call) = Cardinality(DOMAIN args[d] \ S) + SumOver(args[d], call, S)
BY DEF capacity, SumOver

-----------------------------------------------------------------------------
(* What the plugin has made of an accepted query.                          *)

Accepted(d) == TypeOK /\ ConvergenceInv /\ PlaceholdersBindTheirNames /\ pc[d] = "accepted"

(* Its arguments are read at uses in the order of the text, and a use's    *)
(* placeholder stands for the argument read there.                         *)
LEMMA ArgumentsAndUses ==
    ASSUME NEW d \in Dialect, Accepted(d)
    PROVE  /\ Len(statement) \in Nat /\ DOMAIN statement = 1..Len(statement)
           /\ Len(args[d]) \in Nat /\ DOMAIN args[d] = 1..Len(args[d])
           /\ \A k \in DOMAIN args[d] : args[d][k].name \in Name
           /\ \A i \in DOMAIN statement :
                 /\ ArgAt(d, i) \in DOMAIN args[d]
                 /\ args[d][ArgAt(d, i)] = ArgOf(d, i)
           /\ \E use \in [DOMAIN args[d] -> DOMAIN statement] :
                 /\ \A k \in DOMAIN args[d] : ArgAt(d, use[k]) = k
                 /\ \A k, l \in DOMAIN args[d] : k < l => use[k] < use[l]
                 /\ d \in Positional => \A k \in DOMAIN args[d] : use[k] = k
<1>1. /\ Len(statement) \in Nat /\ DOMAIN statement = 1..Len(statement)
      /\ Len(args[d]) \in Nat /\ DOMAIN args[d] = 1..Len(args[d])
      /\ DOMAIN request[d] = 1..Len(request[d])
      /\ \A k \in DOMAIN args[d] : args[d][k] \in Arg
  BY DEF Accepted, TypeOK
<1>2. \A k \in DOMAIN args[d] : args[d][k].name \in Name
  BY <1>1 DEF Arg
<1>3. ReadInOrder(d)
  BY DEF Accepted, ConvergenceInv
<1>4. DOMAIN args[d] = DOMAIN request[d]
  BY <1>1, <1>3 DEF ReadInOrder
<1>5. \A i \in DOMAIN statement : ArgAt(d, i) \in DOMAIN args[d] /\ args[d][ArgAt(d, i)] = ArgOf(d, i)
  BY DEF Accepted, PlaceholdersBindTheirNames
<1> DEFINE use == [k \in DOMAIN args[d] |-> request[d][k].use]
<1>6. \A k \in DOMAIN args[d] :
         /\ request[d][k].use \in Parameters(d)
         /\ d \in Positional => request[d][k].use = k
  BY <1>3, <1>4 DEF ReadInOrder
<1>7. use \in [DOMAIN args[d] -> DOMAIN statement] /\ \A k \in DOMAIN args[d] : use[k] \in Parameters(d)
  BY <1>6 DEF Parameters
<1>8. \A k, l \in DOMAIN args[d] : k < l => use[k] < use[l]
  BY <1>3, <1>4 DEF ReadInOrder
<1>9. d \in Positional => \A k \in DOMAIN args[d] : use[k] = k
  BY <1>6
<1> HIDE DEF use
<1>10. ASSUME NEW k \in DOMAIN args[d] PROVE ArgAt(d, use[k]) = k
  <2>1. CASE d \in Positional
    BY <1>9, <2>1 DEF ArgAt
  <2>2. CASE d \notin Positional
    <3> DEFINE l == Number(d, ReportedName(d, use[k]))
    <3>0. \A j \in DOMAIN args[d] : request[d][j].use = use[j]
      BY DEF use
    <3>1. ReportedName(d, request[d][k].use) = ReportedName(d, use[k])
      BY <3>0
    <3>2. l \in DOMAIN request[d] /\ ReportedName(d, request[d][l].use) = ReportedName(d, use[k])
      BY <1>4, <3>1 DEF Number
    <3> HIDE DEF l
    <3>3. ReportedName(d, use[l]) = ReportedName(d, use[k]) /\ l \in DOMAIN args[d]
      BY <1>4, <3>0, <3>2
    <3>4. \A j \in 1..(use[l] - 1) : ReportedName(d, j) # ReportedName(d, use[l])
      BY <1>7, <2>2, <3>3 DEF Parameters
    <3>5. \A j \in 1..(use[k] - 1) : ReportedName(d, j) # ReportedName(d, use[k])
      BY <1>7, <2>2 DEF Parameters
    <3>6. use[k] \in 1..Len(statement) /\ use[l] \in 1..Len(statement)
      BY <1>1, <1>7, <3>3
    <3>7. ~(use[k] < use[l]) /\ ~(use[l] < use[k])
      BY <1>1, <3>3, <3>4, <3>5, <3>6
    <3>8. ~(k < l) /\ ~(l < k)
      BY <1>8, <3>3, <3>7
    <3>9. k = l
      BY <1>1, <3>3, <3>8
    <3> QED BY <2>2, <3>9 DEF l, ArgAt
  <2> QED BY <2>1, <2>2
<1> QED BY <1>1, <1>2, <1>5, <1>7, <1>8, <1>9, <1>10

(* What that argument is called, and whether it expands.                   *)
LEMMA ArgumentExpands ==
    ASSUME NEW d \in Dialect, Accepted(d)
    PROVE  \A i \in DOMAIN statement :
              /\ args[d][ArgAt(d, i)].name = FieldName(d, i)
              /\ args[d][ArgAt(d, i)].expand
                 = IF ListOf(d, i) = "expandedList" THEN ReportedName(d, i) ELSE None
<1>1. \A i : /\ ArgOf(d, i).name = FieldName(d, i)
             /\ ArgOf(d, i).expand
                = IF ListOf(d, i) = "expandedList" THEN ReportedName(d, i) ELSE None
  BY DEF ArgOf
<1>2. \A i \in DOMAIN statement : args[d][ArgAt(d, i)] = ArgOf(d, i)
  BY ArgumentsAndUses
<1> QED BY <1>1, <1>2

(* A list is expanded where the argument a use's placeholder stands for    *)
(* is; that is the last argument and has one use.                          *)
LEMMA WhereListsExpand ==
    ASSUME NEW d \in Dialect, Accepted(d)
    PROVE  /\ \A i \in DOMAIN statement :
                 ListOf(d, i) = "expandedList" <=> args[d][ArgAt(d, i)].expand # None
           /\ \A k \in DOMAIN args[d] : args[d][k].expand # None =>
                 /\ k = Len(args[d])
                 /\ \E s \in DOMAIN statement :
                       /\ SitesOf(d, args[d][k]) = {s} /\ ArgAt(d, s) = k
                       /\ \A i \in DOMAIN statement : ListOf(d, i) = "expandedList" <=> i = s
<1>1. ASSUME NEW i \in DOMAIN statement PROVE ReportedName(d, i) # None
  <2>1. statement[i] \in Use
    BY ConvergenceAssumption DEF Accepted, TypeOK
  <2>2. ReportedName(d, i) \in Name \cup {NoName}
    BY <2>1, ConvergenceAssumption DEF ReportedName, Use
  <2> QED BY <2>2, ConvergenceAssumption
<1>0. \A i \in DOMAIN statement :
         args[d][ArgAt(d, i)].expand
         = IF ListOf(d, i) = "expandedList" THEN ReportedName(d, i) ELSE None
  BY ArgumentExpands
<1>2. \A i \in DOMAIN statement : ListOf(d, i) = "expandedList" <=> args[d][ArgAt(d, i)].expand # None
  BY <1>0, <1>1
<1>3. \A i \in DOMAIN statement : ListOf(d, i) = "expandedList" =>
         args[d][ArgAt(d, i)].expand = ReportedName(d, i)
  BY <1>0
<1>4. ASSUME NEW k \in DOMAIN args[d], args[d][k].expand # None
      PROVE  /\ k = Len(args[d])
             /\ \E s \in DOMAIN statement :
                   /\ SitesOf(d, args[d][k]) = {s} /\ ArgAt(d, s) = k
                   /\ \A i \in DOMAIN statement : ListOf(d, i) = "expandedList" <=> i = s
  <2>1. \A l \in DOMAIN args[d] : args[d][l].expand # None =>
           Cardinality(SitesOf(d, args[d][l])) = 1 /\ l = Len(args[d])
    BY DEF Accepted, ConvergenceInv, PhaseInv, ExpansionSound
  <2>2. IsFiniteSet(SitesOf(d, args[d][k]))
    <3>1. IsFiniteSet(DOMAIN statement)
      BY ArgumentsAndUses, FS_Interval
    <3> QED BY <3>1, FS_Subset DEF SitesOf
  <2>3. PICK s : SitesOf(d, args[d][k]) = {s}
    BY <1>4, <2>1, <2>2, FS_Singleton
  <2>4. s \in DOMAIN statement /\ MarkedText(d)[s] = Site(args[d][k].expand, FALSE)
    BY <2>3 DEF SitesOf
  <2>5. ASSUME NEW i \in DOMAIN statement
        PROVE  Text(d)[i].kind = "site" <=> ListOf(d, i) = "expandedList"
    BY DEF Text, Site, Bare, Numbered, ListOf
  <2>6. ListOf(d, s) = "expandedList" /\ ReportedName(d, s) = args[d][k].expand
        /\ ReportedName(d, s) \notin options.tables
    <3>1. Text(d)[s].kind = "site"
      BY <2>4 DEF MarkedText, Site
    <3>2. Text(d)[s] = Site(ReportedName(d, s), FALSE)
      BY <2>4, <3>1 DEF Text, Site, Bare, Numbered
    <3>3. MarkedText(d)[s] = Site(ReportedName(d, s), ReportedName(d, s) \in options.tables)
      BY <2>4, <3>1, <3>2 DEF MarkedText, Site
    <3>4. Site(ReportedName(d, s), ReportedName(d, s) \in options.tables)
          = Site(args[d][k].expand, FALSE)
      BY <2>4, <3>3
    <3>5. /\ ReportedName(d, s) = args[d][k].expand
          /\ (ReportedName(d, s) \in options.tables) = FALSE
      BY <3>4, ZenonT(30) DEF Site
    <3> QED BY <2>4, <2>5, <3>1, <3>5
  <2>7. ASSUME NEW i \in DOMAIN statement, ListOf(d, i) = "expandedList"
        PROVE  i = s /\ ArgAt(d, i) = k
    <3>1. ArgAt(d, i) = k
      BY <1>2, <1>4, <2>1, <2>7, ArgumentsAndUses
    <3>2. ReportedName(d, i) = args[d][k].expand
      BY <1>3, <2>7, <3>1
    <3>3. Text(d)[i] = Site(ReportedName(d, i), FALSE)
      BY <2>5, <2>7 DEF Text, Site, Bare, Numbered
    <3>4. MarkedText(d)[i] = Site(args[d][k].expand, FALSE)
      <4>1. /\ Text(d)[i].kind = "site" /\ Text(d)[i].name = ReportedName(d, i)
            /\ (ReportedName(d, i) \in options.tables) = FALSE
        BY <2>6, <3>2, <3>3 DEF Site
      <4>2. MarkedText(d)[i] = Site(Text(d)[i].name, Text(d)[i].name \in options.tables)
        BY <4>1 DEF MarkedText
      <4> QED BY <3>2, <4>1, <4>2
    <3> QED BY <2>3, <3>1, <3>4 DEF SitesOf
  <2> QED BY <1>4, <2>1, <2>3, <2>4, <2>6, <2>7
<1> QED BY <1>2, <1>4
(* What the text has at a use.                                             *)
LEMMA TextAt ==
    ASSUME NEW d \in Dialect, NEW i \in DOMAIN statement
    PROVE  /\ Text(d)[i].kind = "site" <=> ListOf(d, i) = "expandedList"
           /\ Text(d)[i].kind = "numbered" => Number(d, Text(d)[i].name) = ArgAt(d, i)
           /\ Text(d)[i].kind # "site" => (Text(d)[i].kind = "numbered" <=> d \notin Positional)
<1>1. Positional \subseteq Expanding
  BY ConvergenceAssumption
<1>2. Text(d)[i] = CASE statement[i].list # "no" /\ d \in Expanding -> Site(ReportedName(d, i), FALSE)
                     [] statement[i].list = "no" /\ d \in Positional -> Bare(ReportedName(d, i))
                     [] OTHER -> Numbered(ReportedName(d, i))
  BY DEF Text
<1>3. CASE statement[i].list # "no" /\ d \in Expanding
  <2>1. Text(d)[i].kind = "site"
    BY <1>2, <1>3 DEF Site
  <2> QED BY <1>3, <2>1 DEF ListOf
<1>4. CASE statement[i].list = "no" /\ d \in Positional
  <2>1. Text(d)[i].kind = "bare"
    BY <1>2, <1>4 DEF Bare
  <2> QED BY <1>4, <2>1 DEF ListOf
<1>5. CASE /\ ~(statement[i].list # "no" /\ d \in Expanding)
           /\ ~(statement[i].list = "no" /\ d \in Positional)
  <2>0. Text(d)[i] = Numbered(ReportedName(d, i))
    BY <1>2, <1>5
  <2>1. Text(d)[i].kind = "numbered" /\ Text(d)[i].name = ReportedName(d, i)
    BY <2>0 DEF Numbered
  <2>2. d \notin Positional
    BY <1>1, <1>5
  <2> QED BY <1>5, <2>1, <2>2 DEF ListOf, ArgAt
<1> QED BY <1>3, <1>4, <1>5

-----------------------------------------------------------------------------
(* A call, with CalledByName's LETs expanded.                              *)
ByName(d, call) ==
    /\ Len(BoundArgs(d, call)) = capacity(d, call)
    /\ Range(Numbering(d, Expanded(d, call))) = DOMAIN BoundArgs(d, call)
    /\ [p \in DOMAIN Numbering(d, Expanded(d, call)) |->
            BoundArgs(d, call)[Numbering(d, Expanded(d, call))[p]]] = Meant(d, call)

(* With no list to expand the statement is sent as it is.                  *)
LEMMA PlainCall ==
    ASSUME NEW d \in Dialect, Accepted(d), NEW call \in Call(d),
           \A k \in DOMAIN args[d] : args[d][k].expand = None
    PROVE  ByName(d, call)
<1> DEFINE n == Len(statement)
           m == Len(args[d])
           At(i) == ArgAt(d, i)
           values == Name \X Nat
           text == {Text(d)[i] : i \in 1..n}
<1>1. /\ n \in Nat /\ DOMAIN statement = 1..n
      /\ m \in Nat /\ DOMAIN args[d] = 1..m
      /\ \A k \in 1..m : args[d][k].name \in Name
      /\ \A i \in 1..n : At(i) \in 1..m /\ args[d][At(i)] = ArgOf(d, i)
  BY ArgumentsAndUses
<1>2. PICK use \in [1..m -> 1..n] : /\ \A k \in 1..m : At(use[k]) = k
                                    /\ d \in Positional => \A k \in 1..m : use[k] = k
  BY <1>1, ArgumentsAndUses
<1>3. \A i \in 1..n : ListOf(d, i) # "expandedList" /\ FieldName(d, i) = args[d][At(i)].name
  <2>1. \A i \in 1..n : args[d][At(i)].expand = None
    BY <1>1
  <2>2. \A i \in 1..n : ListOf(d, i) = "expandedList" <=> args[d][At(i)].expand # None
    BY <1>1, WhereListsExpand
  <2> QED BY <1>1, <2>1, <2>2, ArgumentExpands
<1>4. /\ Len(Expanded(d, call)) = n /\ DOMAIN Expanded(d, call) = 1..n
      /\ \A p \in 1..n : Expanded(d, call)[p] = Text(d)[p]
  <2> DEFINE g == [i \in 1..n |-> Text(d)[i]]
  <2>1. \A i \in 1..n : Placeholders(d, i, call) = <<g[i]>>
    BY <1>1, <1>3, TextAt DEF Placeholders
  <2>2. g \in [1..n -> text]
    OBVIOUS
  <2>3. Expanded(d, call) = FlattenSeq([i \in 1..n |-> <<g[i]>>])
    BY <1>1, <2>1, Zenon DEF Expanded
  <2> HIDE DEF text
  <2>4. Expanded(d, call) = g
    <3> HIDE DEF g, n
    <3> QED BY <1>1, <2>2, <2>3, SinglesAre
  <2> QED BY <1>1, <2>4
<1>5. /\ Len(BoundArgs(d, call)) = m /\ DOMAIN BoundArgs(d, call) = 1..m
      /\ \A k \in 1..m : BoundArgs(d, call)[k] = Whole(args[d][k].name)
  <2> DEFINE g == [k \in 1..m |-> Whole(args[d][k].name)]
  <2>1. g \in [1..m -> values]
    BY <1>1 DEF Whole
  <2>2. BoundArgs(d, call) = FlattenSeq([k \in 1..m |-> <<g[k]>>])
    BY <1>1 DEF BoundArgs
  <2> HIDE DEF values
  <2>3. BoundArgs(d, call) = g
    <3> HIDE DEF g, m
    <3> QED BY <1>1, <2>1, <2>2, SinglesAre
  <2> QED BY <1>1, <2>3
<1>6. Meant(d, call) = [p \in 1..n |-> Whole(FieldName(d, p))]
  <2> DEFINE g == [p \in 1..n |-> Whole(FieldName(d, p))]
  <2>1. g \in [1..n -> values]
    BY <1>1, <1>3 DEF Whole
  <2>2. Meant(d, call) = FlattenSeq([p \in 1..n |-> <<g[p]>>])
    BY <1>1, <1>3 DEF Meant
  <2> HIDE DEF values
  <2> HIDE DEF g, n
  <2> QED BY <1>1, <2>1, <2>2, SinglesAre DEF g
<1>7. capacity(d, call) = m
  <2>1. {k \in DOMAIN args[d] : args[d][k].expand # None} = {}
    OBVIOUS
  <2>2. Cardinality(DOMAIN args[d] \ {}) = m
    BY <1>1, FS_Interval
  <2>3. SumOver(args[d], call, {}) = 0
    BY SumOfNone
  <2>4. capacity(d, call) = Cardinality(DOMAIN args[d] \ {}) + SumOver(args[d], call, {})
    BY <2>1, CapacityIs
  <2> QED BY <1>1, <2>2, <2>3, <2>4
<1> DEFINE numbers == [p \in 1..n |-> At(p)]
<1> HIDE DEF n, m, At, values, text
<1>8. numbers \in [1..n -> Nat] /\ \A p \in 1..n : numbers[p] = At(p)
  BY <1>1
<1> HIDE DEF numbers
<1>9. Numbering(d, Expanded(d, call)) = numbers
  <2>1. ASSUME NEW p \in 1..n PROVE numbers[p] = NumberAt(d, Expanded(d, call), numbers, p)
    <3>1. Text(d)[p].kind # "site"
      BY <1>1, <1>3, TextAt
    <3>2. CASE d \notin Positional
      BY <1>1, <1>4, <1>8, <3>1, <3>2, TextAt DEF NumberAt, At
    <3>3. CASE d \in Positional
      <4>1. \A q \in 1..n : numbers[q] = q
        BY <1>8, <3>3 DEF At, ArgAt
      <4>2. NextNumber(numbers, p) = 1 + (p - 1)
        <5>1. p - 1 \in Nat /\ \A q \in 1..(p - 1) : q \in 1..n /\ q <= p - 1
          BY <1>1
        <5>2. p - 1 = 0 \/ p - 1 \in 1..(p - 1)
          BY <1>1
        <5>3. /\ \A q \in 1..(p - 1) : numbers[q] <= p - 1
              /\ p - 1 = 0 \/ \E q \in 1..(p - 1) : numbers[q] = p - 1
          BY <4>1, <5>1, <5>2
        <5> QED BY <1>1, <1>8, <5>1, <5>3, NextIs
      <4>3. Expanded(d, call)[p].kind # "numbered"
        BY <1>1, <1>4, <3>1, <3>3, TextAt
      <4>4. 1 + (p - 1) = p
        BY <1>1
      <4> QED BY <4>1, <4>2, <4>3, <4>4 DEF NumberAt
    <3> QED BY <3>2, <3>3
  <2>2. DOMAIN Expanded(d, call) = 1..n
    BY <1>4
  <2> QED BY <1>1, <1>8, <2>1, <2>2, NumberingIs
<1>10. Range(numbers) = 1..m
  <2>1. DOMAIN numbers = 1..n
    BY <1>8
  <2>2. \A k \in 1..m : use[k] \in 1..n /\ numbers[use[k]] = k
    BY <1>2, <1>8
  <2>3. {numbers[p] : p \in 1..n} = 1..m
    BY <1>1, <1>8, <2>2
  <2> QED BY <2>1, <2>3 DEF Range
<1>11. [p \in DOMAIN numbers |-> BoundArgs(d, call)[numbers[p]]] = Meant(d, call)
  <2>1. DOMAIN numbers = 1..n
    BY <1>8
  <2>2. \A p \in 1..n : BoundArgs(d, call)[numbers[p]] = Whole(FieldName(d, p))
    BY <1>1, <1>3, <1>5, <1>8
  <2> QED BY <1>6, <2>1, <2>2
<1>12. DOMAIN BoundArgs(d, call) = 1..m
  BY <1>5
<1> QED BY <1>5, <1>7, <1>9, <1>10, <1>11, <1>12 DEF ByName
(* Where the list's elements, or its placeholders, are among the others.   *)
LEMMA Split ==
    ASSUME NEW n \in Nat, NEW s \in 1..n, NEW l \in Nat, NEW p \in 1..((n - 1) + l)
    PROVE  \/ p \in 1..(s - 1)
           \/ \E j \in 1..l : p = (s - 1) + j
           \/ \E i \in (s + 1)..n : p = (i - 1) + l
<1>1. CASE p < s
  BY <1>1
<1>2. CASE s <= p /\ p <= (s - 1) + l
  <2>1. p - (s - 1) \in 1..l /\ p = (s - 1) + (p - (s - 1))
    BY <1>2
  <2> QED BY <2>1
<1>3. CASE (s - 1) + l < p
  <2>1. (p + 1) - l \in (s + 1)..n /\ p = (((p + 1) - l) - 1) + l
    BY <1>3
  <2> QED BY <2>1
<1> QED BY <1>1, <1>2, <1>3

(* With one, its elements take its place in the statement and in the       *)
(* arguments.                                                              *)
LEMMA ExpandedCall ==
    ASSUME NEW d \in Dialect, Accepted(d), NEW call \in Call(d),
           NEW m \in DOMAIN args[d], args[d][m].expand # None
    PROVE  ByName(d, call)
<1> DEFINE n == Len(statement)
           At(i) == ArgAt(d, i)
           list == args[d][m].name
           l == call[list]
           values == Name \X Nat
           text == {Text(d)[i] : i \in 1..n} \cup {Bare("?")}
<1>1. /\ n \in Nat /\ DOMAIN statement = 1..n
      /\ m \in Nat /\ m >= 1 /\ m = Len(args[d]) /\ DOMAIN args[d] = 1..m
      /\ \A k \in 1..m : args[d][k].name \in Name
      /\ \A i \in 1..n : At(i) \in 1..m /\ args[d][At(i)] = ArgOf(d, i)
  BY ArgumentsAndUses, WhereListsExpand
<1>2. PICK use \in [1..m -> 1..n] :
         /\ \A k \in 1..m : At(use[k]) = k
         /\ \A j, k \in 1..m : j < k => use[j] < use[k]
         /\ d \in Positional => \A k \in 1..m : use[k] = k
  BY <1>1, ArgumentsAndUses
<1>3. PICK s \in 1..n :
         /\ SitesOf(d, args[d][m]) = {s} /\ At(s) = m
         /\ \A i \in 1..n : ListOf(d, i) = "expandedList" <=> i = s
  <2>1. PICK s \in DOMAIN statement :
           /\ SitesOf(d, args[d][m]) = {s} /\ ArgAt(d, s) = m
           /\ \A i \in DOMAIN statement : ListOf(d, i) = "expandedList" <=> i = s
    BY WhereListsExpand
  <2>2. /\ s \in 1..n /\ SitesOf(d, args[d][m]) = {s} /\ At(s) = m
        /\ \A i \in 1..n : ListOf(d, i) = "expandedList" <=> i = s
    BY <1>1, <2>1
  <2> QED BY <2>2
<1>4. \A k \in 1..m : args[d][k].expand # None <=> k = m
  BY <1>1, WhereListsExpand
<1>5. \A i \in 1..n : At(i) = m <=> i = s
  BY <1>1, <1>3, <1>4, WhereListsExpand
<1>6. use[m] = s
  BY <1>1, <1>2, <1>5
<1>7. \A i \in 1..n : FieldName(d, i) = args[d][At(i)].name
  BY <1>1, ArgumentExpands
<1>8. l \in Nat
  <2>1. list \in ExpandedNames(d)
    BY DEF ExpandedNames
  <2>2. call \in [ExpandedNames(d) -> 0..MaxElements]
    BY DEF Call
  <2> QED BY <2>1, <2>2, BindingAssumption
<1>9. /\ Len(Expanded(d, call)) = (n - 1) + l /\ DOMAIN Expanded(d, call) = 1..((n - 1) + l)
      /\ \A p \in 1..(s - 1) : Expanded(d, call)[p] = Text(d)[p]
      /\ \A p \in 1..l : Expanded(d, call)[(s - 1) + p] = Bare("?")
      /\ \A p \in (s + 1)..n : Expanded(d, call)[(p - 1) + l] = Text(d)[p]
  <2> DEFINE g == [i \in 1..n |-> Text(d)[i]]
             e == [p \in 1..l |-> Bare("?")]
             seqs == [i \in DOMAIN statement |-> Placeholders(d, i, call)]
  <2>1. \A i \in 1..n : i # s => Placeholders(d, i, call) = <<g[i]>>
    BY <1>1, <1>3, TextAt DEF Placeholders
  <2>2. Placeholders(d, s, call) = e
    <3>1. Expands(d, s, m) /\ \A k \in DOMAIN args[d] : Expands(d, s, k) => k = m
      BY <1>1, <1>3, <1>4 DEF Expands
    <3>2. (CHOOSE k \in DOMAIN args[d] : Expands(d, s, k)) = m
      BY <3>1
    <3>3. Text(d)[s].kind = "site"
      BY <1>1, <1>3, TextAt
    <3> QED BY <1>1, <3>1, <3>2, <3>3 DEF Placeholders, slicePlaceholders
  <2>3. g \in [1..n -> text] /\ e \in [1..l -> text]
    OBVIOUS
  <2>4. /\ Expanded(d, call) = FlattenSeq(seqs) /\ seqs = [i \in 1..n |-> seqs[i]]
        /\ seqs[s] = e /\ \A i \in 1..n : i # s => seqs[i] = <<g[i]>>
    BY <1>1, <2>1, <2>2 DEF Expanded
  <2>5. /\ \A p \in 1..n : g[p] = Text(d)[p]
        /\ \A p \in 1..l : e[p] = Bare("?")
    OBVIOUS
  <2> HIDE DEF text, l, n, g, e, seqs
  <2>6. /\ Expanded(d, call) \in Seq(text) /\ Len(Expanded(d, call)) = (n - 1) + l
        /\ \A p \in 1..(s - 1) : Expanded(d, call)[p] = g[p]
        /\ \A p \in 1..l : Expanded(d, call)[(s - 1) + p] = e[p]
        /\ \A p \in (s + 1)..n : Expanded(d, call)[(p - 1) + l] = g[p]
    <3>1. ListIn(text, n, g, s, l, e, seqs)
      BY <1>1, <1>8, <2>3, <2>4 DEF ListIn
    <3>2. Expanded(d, call) = FlattenSeq(seqs)
      BY <2>4
    <3> QED BY <3>1, <3>2, ListAmong
  <2>7. /\ \A p \in 1..(s - 1) : p \in 1..n
        /\ \A p \in (s + 1)..n : p \in 1..n
    BY <1>1
  <2> QED BY <2>5, <2>6, <2>7
<1>10. /\ Len(BoundArgs(d, call)) = (m - 1) + l /\ DOMAIN BoundArgs(d, call) = 1..((m - 1) + l)
       /\ \A k \in 1..(m - 1) : BoundArgs(d, call)[k] = Whole(args[d][k].name)
       /\ \A j \in 1..l : BoundArgs(d, call)[(m - 1) + j] = <<list, j>>
  <2> DEFINE g == [k \in 1..m |-> Whole(args[d][k].name)]
             e == [j \in 1..l |-> <<list, j>>]
             seqs == [k \in DOMAIN args[d] |->
                        IF args[d][k].expand = None THEN <<Whole(args[d][k].name)>>
                        ELSE Elements(args[d][k].name, call[args[d][k].name])]
  <2>0. list \in Name /\ \A k \in 1..m : args[d][k].name \in Name
    BY <1>1
  <2>1. g \in [1..m -> values] /\ e \in [1..l -> values]
    <3> HIDE DEF list, l
    <3> QED BY <2>0 DEF Whole
  <2>2. /\ BoundArgs(d, call) = FlattenSeq(seqs) /\ seqs = [k \in 1..m |-> seqs[k]]
        /\ seqs[m] = e /\ \A k \in 1..m : k # m => seqs[k] = <<g[k]>>
    BY <1>1, <1>4 DEF BoundArgs, Elements
  <2>3. /\ \A k \in 1..m : g[k] = Whole(args[d][k].name)
        /\ \A j \in 1..l : e[j] = <<list, j>>
    OBVIOUS
  <2>4. m \in 1..m
    BY <1>1
  <2> HIDE DEF values, l, list, g, e, seqs
  <2>5. /\ BoundArgs(d, call) \in Seq(values) /\ Len(BoundArgs(d, call)) = (m - 1) + l
        /\ \A k \in 1..(m - 1) : BoundArgs(d, call)[k] = g[k]
        /\ \A j \in 1..l : BoundArgs(d, call)[(m - 1) + j] = e[j]
    <3>1. ListIn(values, m, g, m, l, e, seqs)
      BY <1>1, <1>8, <2>1, <2>2, <2>4 DEF ListIn
    <3>2. \A k \in 1..(m - 1) : FlattenSeq(seqs)[k] = g[k]
      BY <3>1, ListAmong
    <3>3. BoundArgs(d, call) = FlattenSeq(seqs)
      BY <2>2
    <3> QED BY <3>1, <3>2, <3>3, ListAmong
  <2>6. \A k \in 1..(m - 1) : k \in 1..m
    BY <1>1
  <2> QED BY <2>3, <2>5, <2>6
<1>11. /\ Meant(d, call) = [p \in 1..((n - 1) + l) |-> Meant(d, call)[p]]
       /\ \A p \in 1..(s - 1) : Meant(d, call)[p] = Whole(FieldName(d, p))
       /\ \A p \in 1..l : Meant(d, call)[(s - 1) + p] = <<list, p>>
       /\ \A p \in (s + 1)..n : Meant(d, call)[(p - 1) + l] = Whole(FieldName(d, p))
  <2> DEFINE g == [i \in 1..n |-> Whole(FieldName(d, i))]
             e == [j \in 1..l |-> <<list, j>>]
             seqs == [i \in DOMAIN statement |->
                        IF ListOf(d, i) = "expandedList"
                        THEN Elements(FieldName(d, i), call[FieldName(d, i)])
                        ELSE <<Whole(FieldName(d, i))>>]
  <2>0. \A i \in 1..n : FieldName(d, i) \in Name
    BY <1>1, <1>7
  <2>1. g \in [1..n -> values] /\ e \in [1..l -> values]
    BY <1>1, <2>0 DEF Whole
  <2>2. /\ Meant(d, call) = FlattenSeq(seqs) /\ seqs = [i \in 1..n |-> seqs[i]]
        /\ seqs[s] = e /\ \A i \in 1..n : i # s => seqs[i] = <<g[i]>>
    BY <1>1, <1>3, <1>7 DEF Meant, Elements
  <2>3. /\ \A i \in 1..n : g[i] = Whole(FieldName(d, i))
        /\ \A j \in 1..l : e[j] = <<list, j>>
    OBVIOUS
  <2> HIDE DEF values, l, list, n, g, e, seqs
  <2>5. /\ Meant(d, call) \in Seq(values) /\ Len(Meant(d, call)) = (n - 1) + l
        /\ \A p \in 1..(s - 1) : Meant(d, call)[p] = g[p]
        /\ \A p \in 1..l : Meant(d, call)[(s - 1) + p] = e[p]
        /\ \A p \in (s + 1)..n : Meant(d, call)[(p - 1) + l] = g[p]
    <3>1. ListIn(values, n, g, s, l, e, seqs)
      BY <1>1, <1>8, <2>1, <2>2 DEF ListIn
    <3>2. Meant(d, call) = FlattenSeq(seqs)
      BY <2>2
    <3> QED BY <3>1, <3>2, ListAmong
  <2>6. /\ \A p \in 1..(s - 1) : p \in 1..n
        /\ \A p \in (s + 1)..n : p \in 1..n
    BY <1>1
  <2>7. Meant(d, call) = [p \in 1..((n - 1) + l) |-> Meant(d, call)[p]]
    BY <2>5
  <2> QED BY <2>3, <2>5, <2>6, <2>7
<1>12. capacity(d, call) = (m - 1) + l
  <2>1. {k \in DOMAIN args[d] : args[d][k].expand # None} = {m}
    BY <1>1, <1>4
  <2>2. Cardinality(DOMAIN args[d] \ {m}) = m - 1
    <3>1. DOMAIN args[d] \ {m} = 1..(m - 1)
      BY <1>1
    <3>0. m \in Nat /\ m >= 1
      BY <1>1
    <3>5. m - 1 \in Nat
      BY <3>0
    <3>2. PICK w \in Nat : w = m - 1
      BY <3>5
    <3>3. Cardinality(1..w) = w
      <4> HIDE <3>2
      <4> QED BY FS_Interval
    <3>4. Cardinality(1..(m - 1)) = m - 1
      BY <3>2, <3>3
    <3> QED BY <3>1, <3>4
  <2>3. SumOver(args[d], call, {m}) = call[args[d][m].name]
    BY <1>8, SumOfOne
  <2>4. capacity(d, call) = Cardinality(DOMAIN args[d] \ {m}) + SumOver(args[d], call, {m})
    BY <2>1, CapacityIs
  <2> QED BY <2>2, <2>3, <2>4
<1> DEFINE size == (n - 1) + l
           numbers == [q \in 1..size |->
                         IF q < s THEN At(q)
                         ELSE IF q <= (s - 1) + l THEN (m - 1) + (q - (s - 1))
                         ELSE At((q + 1) - l)]
           sent == Expanded(d, call)
           bound == BoundArgs(d, call)
<1> HIDE DEF n, At, l, list, values, text, sent, bound
<1>13. /\ n \in Nat /\ l \in Nat /\ m \in Nat /\ m >= 1 /\ s \in 1..n
       /\ \A i \in 1..n : At(i) \in 1..m /\ (i # s => At(i) \in 1..(m - 1))
  <2>1. \A k \in 1..m : k # m => k \in 1..(m - 1)
    BY <1>1
  <2> QED BY <1>1, <1>5, <1>8, <2>1
<1>14. /\ numbers \in [1..size -> Nat]
       /\ \A p \in 1..(s - 1) : p \in 1..size /\ numbers[p] = At(p)
       /\ \A j \in 1..l : (s - 1) + j \in 1..size /\ numbers[(s - 1) + j] = (m - 1) + j
       /\ \A i \in (s + 1)..n : (i - 1) + l \in 1..size /\ numbers[(i - 1) + l] = At(i)
  <2>1. ASSUME NEW p \in 1..(s - 1) PROVE p \in 1..size /\ p \in 1..n /\ numbers[p] = At(p)
    <3>1. p \in 1..size /\ p < s /\ p \in 1..n
      BY <1>13
    <3> QED BY <3>1
  <2>2. ASSUME NEW j \in 1..l PROVE (s - 1) + j \in 1..size /\ numbers[(s - 1) + j] = (m - 1) + j
    <3>1. /\ (s - 1) + j \in 1..size /\ ~((s - 1) + j < s) /\ (s - 1) + j <= (s - 1) + l
          /\ ((s - 1) + j) - (s - 1) = j
      BY <1>13
    <3> HIDE DEF size
    <3> QED BY <3>1
  <2>3. ASSUME NEW i \in (s + 1)..n
        PROVE  (i - 1) + l \in 1..size /\ numbers[(i - 1) + l] = At(i)
    <3>1. /\ (i - 1) + l \in 1..size /\ ~((i - 1) + l < s) /\ ~((i - 1) + l <= (s - 1) + l)
          /\ (((i - 1) + l) + 1) - l = i
      BY <1>13
    <3> HIDE DEF size
    <3> QED BY <3>1
  <2>4. ASSUME NEW q \in 1..size
        PROVE  (IF q < s THEN At(q)
                ELSE IF q <= (s - 1) + l THEN (m - 1) + (q - (s - 1))
                ELSE At((q + 1) - l)) \in Nat
    <3>1. q < s => q \in 1..n
      BY <1>13
    <3>2. ~(q < s) => (m - 1) + (q - (s - 1)) \in Nat
      BY <1>13
    <3>3. ~(q <= (s - 1) + l) => (q + 1) - l \in 1..n
      BY <1>13
    <3>4. \A i \in 1..n : At(i) \in Nat
      BY <1>13
    <3> QED BY <3>1, <3>2, <3>3, <3>4
  <2> QED BY <2>1, <2>2, <2>3, <2>4
<1> HIDE DEF numbers
<1>15. \A p \in 1..size : \/ p \in 1..(s - 1)
                          \/ \E j \in 1..l : p = (s - 1) + j
                          \/ \E i \in (s + 1)..n : p = (i - 1) + l
  BY <1>13, Split
<1>16. size \in Nat
  BY <1>13
<1> HIDE DEF size
<1>17. d \in Positional => s = m /\ \A i \in 1..n : At(i) = i /\ i <= s
  <2>1. d \in Positional => s = m
    BY <1>2, <1>6, <1>13
  <2>2. d \in Positional => \A i \in 1..n : At(i) = i
    BY DEF At, ArgAt
  <2> QED BY <1>13, <2>1, <2>2
<1>18. Numbering(d, sent) = numbers
  <2>1. ASSUME NEW p \in 1..(s - 1) PROVE numbers[p] = NumberAt(d, sent, numbers, p)
    <3>0. p \in 1..n /\ p # s
      BY <1>13
    <3>1. Text(d)[p].kind # "site" /\ sent[p] = Text(d)[p]
      BY <1>1, <1>3, <1>9, <3>0, TextAt DEF sent
    <3>2. CASE d \notin Positional
      BY <1>1, <1>14, <3>0, <3>1, <3>2, TextAt DEF NumberAt, At
    <3>3. CASE d \in Positional
      <4>1. \A q \in 1..(s - 1) : numbers[q] = q
        <5>1. \A q \in 1..(s - 1) : q \in 1..n
          BY <1>13
        <5> QED BY <1>14, <1>17, <3>3, <5>1
      <4>2. NextNumber(numbers, p) = 1 + (p - 1)
        <5>1. p - 1 \in Nat /\ \A q \in 1..(p - 1) : q \in 1..(s - 1) /\ q <= p - 1
          BY <1>13
        <5>2. p - 1 = 0 \/ p - 1 \in 1..(p - 1)
          BY <1>13
        <5>3. /\ \A q \in 1..(p - 1) : numbers[q] <= p - 1
              /\ p - 1 = 0 \/ \E q \in 1..(p - 1) : numbers[q] = p - 1
          BY <4>1, <5>1, <5>2
        <5>4. p \in 1..size
          BY <1>14
        <5> QED BY <1>14, <1>16, <5>1, <5>3, <5>4, NextIs
      <4>3. sent[p].kind # "numbered"
        BY <1>1, <3>0, <3>1, <3>3, TextAt
      <4>4. 1 + (p - 1) = p
        BY <1>13
      <4> QED BY <4>1, <4>2, <4>3, <4>4 DEF NumberAt
    <3> QED BY <3>2, <3>3
  <2>2. ASSUME NEW j \in 1..l
        PROVE  numbers[(s - 1) + j] = NumberAt(d, sent, numbers, (s - 1) + j)
    <3>1. PICK p : p = (s - 1) + j
      OBVIOUS
    <3>2. PICK before : before = (m - 1) + (j - 1)
      OBVIOUS
    <3>3. p \in 1..size /\ before \in Nat /\ 1 + before = (m - 1) + j
      BY <1>13, <1>14, <3>1, <3>2
    <3>4. ASSUME NEW q \in 1..(p - 1) PROVE numbers[q] <= before
      <4>1. CASE q \in 1..(s - 1)
        <5>1. q \in 1..n /\ q # s /\ numbers[q] = At(q)
          BY <1>13, <1>14, <4>1
        <5>2. At(q) \in 1..(m - 1)
          BY <1>13, <5>1
        <5>3. m - 1 <= before /\ before \in Nat /\ m \in Nat
          BY <1>13, <3>2, <3>3
        <5> QED BY <5>1, <5>2, <5>3
      <4>2. CASE q \notin 1..(s - 1)
        <5>1. PICK i \in 1..(j - 1) : q = (s - 1) + i
          <6>1. q - (s - 1) \in 1..(j - 1) /\ q = (s - 1) + (q - (s - 1))
            BY <1>13, <3>1, <4>2
          <6> QED BY <6>1
        <5>2. i \in 1..l /\ (m - 1) + i <= before
          BY <1>13, <3>2
        <5> QED BY <1>14, <5>1, <5>2
      <4> QED BY <4>1, <4>2
    <3>5. before = 0 \/ \E q \in 1..(p - 1) : numbers[q] = before
      <4>1. CASE j = 1 /\ m = 1
        BY <3>2, <4>1
      <4>2. CASE j = 1 /\ m # 1
        <5>1. m - 1 \in 1..m /\ m \in 1..m /\ m - 1 < m
          BY <1>13, <4>2
        <5>2. use[m - 1] < s /\ use[m - 1] \in 1..n /\ At(use[m - 1]) = m - 1
          BY <1>2, <1>6, <5>1
        <5>3. use[m - 1] \in 1..(s - 1) /\ use[m - 1] \in 1..(p - 1) /\ before = m - 1
          BY <1>13, <3>1, <3>2, <4>2, <5>2
        <5> QED BY <1>14, <5>2, <5>3
      <4>3. CASE j # 1
        <5>1. j - 1 \in 1..l /\ (s - 1) + (j - 1) \in 1..(p - 1)
          BY <1>13, <3>1, <4>3
        <5> QED BY <1>14, <3>2, <5>1
      <4> QED BY <4>1, <4>2, <4>3
    <3>6. NextNumber(numbers, p) = 1 + before
      BY <1>14, <1>16, <3>3, <3>4, <3>5, NextIs
    <3>7. sent[p].kind # "numbered"
      BY <1>9, <3>1 DEF sent, Bare
    <3> QED BY <1>14, <3>1, <3>3, <3>6, <3>7 DEF NumberAt
  <2>3. ASSUME NEW i \in (s + 1)..n
        PROVE  numbers[(i - 1) + l] = NumberAt(d, sent, numbers, (i - 1) + l)
    <3>1. i \in 1..n /\ i # s /\ ~(i <= s)
      BY <1>13
    <3>2. d \notin Positional
      BY <1>17, <3>1
    <3>3. Text(d)[i].kind = "numbered" /\ Number(d, Text(d)[i].name) = At(i)
      BY <1>1, <1>3, <3>1, <3>2, TextAt DEF At
    <3>4. sent[(i - 1) + l] = Text(d)[i]
      BY <1>9 DEF sent
    <3> QED BY <1>14, <3>3, <3>4 DEF NumberAt
  <2>4. \A p \in 1..size : numbers[p] = NumberAt(d, sent, numbers, p)
    BY <1>15, <2>1, <2>2, <2>3
  <2>5. DOMAIN sent = 1..size
    BY <1>9 DEF sent, size
  <2> QED BY <1>14, <1>16, <2>4, <2>5, NumberingIs
<1>19. Range(numbers) = 1..((m - 1) + l)
  <2>1. ASSUME NEW p \in 1..size PROVE numbers[p] \in 1..((m - 1) + l)
    <3>1. CASE p \in 1..(s - 1)
      <4>1. p \in 1..n /\ p # s
        BY <1>13, <3>1
      <4>2. numbers[p] \in 1..(m - 1)
        BY <1>13, <1>14, <3>1, <4>1
      <4> QED BY <1>13, <4>2
    <3>2. ASSUME NEW j \in 1..l, p = (s - 1) + j PROVE numbers[p] \in 1..((m - 1) + l)
      <4>1. (m - 1) + j \in 1..((m - 1) + l)
        BY <1>13
      <4> QED BY <1>14, <3>2, <4>1
    <3>3. ASSUME NEW i \in (s + 1)..n, p = (i - 1) + l PROVE numbers[p] \in 1..((m - 1) + l)
      <4>1. i \in 1..n /\ i # s
        BY <1>13
      <4>2. numbers[p] \in 1..(m - 1)
        BY <1>13, <1>14, <3>3, <4>1
      <4> QED BY <1>13, <4>2
    <3> QED BY <1>15, <3>1, <3>2, <3>3
  <2>2. ASSUME NEW k \in 1..((m - 1) + l) PROVE \E p \in 1..size : numbers[p] = k
    <3>1. CASE k < m
      <4>1. k \in 1..m /\ m \in 1..m
        BY <1>13, <3>1
      <4>2. use[k] < s /\ use[k] \in 1..n /\ At(use[k]) = k
        BY <1>2, <1>6, <3>1, <4>1
      <4>3. use[k] \in 1..(s - 1)
        BY <1>13, <4>2
      <4> QED BY <1>14, <4>2, <4>3
    <3>2. CASE ~(k < m)
      <4>1. k - (m - 1) \in 1..l /\ (m - 1) + (k - (m - 1)) = k
        BY <1>13, <3>2
      <4> QED BY <1>14, <4>1
    <3> QED BY <3>1, <3>2
  <2>3. DOMAIN numbers = 1..size /\ {numbers[p] : p \in 1..size} = 1..((m - 1) + l)
    BY <1>14, <2>1, <2>2
  <2> QED BY <2>3 DEF Range
<1>20. [p \in DOMAIN numbers |-> bound[numbers[p]]] = Meant(d, call)
  <2>1. ASSUME NEW i \in 1..n, i # s PROVE bound[At(i)] = Whole(FieldName(d, i))
    <3>1. At(i) \in 1..(m - 1)
      BY <1>13, <2>1
    <3> QED BY <1>7, <1>10, <3>1 DEF bound
  <2>2. ASSUME NEW p \in 1..size PROVE bound[numbers[p]] = Meant(d, call)[p]
    <3>1. CASE p \in 1..(s - 1)
      <4>1. p \in 1..n /\ p # s
        BY <1>13, <3>1
      <4> QED BY <1>11, <1>14, <2>1, <3>1, <4>1
    <3>2. ASSUME NEW j \in 1..l, p = (s - 1) + j PROVE bound[numbers[p]] = Meant(d, call)[p]
      BY <1>10, <1>11, <1>14, <3>2 DEF bound
    <3>3. ASSUME NEW i \in (s + 1)..n, p = (i - 1) + l
          PROVE  bound[numbers[p]] = Meant(d, call)[p]
      <4>1. i \in 1..n /\ i # s
        BY <1>13
      <4> QED BY <1>11, <1>14, <2>1, <3>3, <4>1
    <3> QED BY <1>15, <3>1, <3>2, <3>3
  <2>3. DOMAIN numbers = 1..size /\ Meant(d, call) = [p \in 1..size |-> Meant(d, call)[p]]
    BY <1>11, <1>14 DEF size
  <2> QED BY <2>2, <2>3
<1> QED BY <1>10, <1>12, <1>18, <1>19, <1>20 DEF ByName, sent, bound

-----------------------------------------------------------------------------
(* Every accepted method calls by name, however long the lists it is       *)
(* called with: no placeholder is sent a value of another argument, and    *)
(* none is left without one, whether an engine counts or numbers them.     *)
THEOREM AcceptedMethodsCallByName == Spec => []CalledByName
<1>1. TypeOK /\ ConvergenceInv /\ PlaceholdersBindTheirNames => CalledByName
  <2> SUFFICES ASSUME TypeOK, ConvergenceInv, PlaceholdersBindTheirNames
               PROVE  CalledByName
    OBVIOUS
  <2>1. ASSUME NEW d \in Dialect, pc[d] = "accepted", NEW call \in Call(d)
        PROVE  ByName(d, call)
    <3>1. Accepted(d)
      BY <2>1 DEF Accepted
    <3> QED BY <3>1, PlainCall, ExpandedCall
  <2> QED BY <2>1 DEF CalledByName, ByName
<1> QED BY <1>1, TypeCorrect, ConvergenceHolds, NothingIsTransposed, PTL
=============================================================================
