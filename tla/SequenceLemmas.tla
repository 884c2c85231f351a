--------------------------- MODULE SequenceLemmas ---------------------------
(***************************************************************************)
(* What the proofs need of naturals and sequences: least elements, in the  *)
(* place of induction, and what FlattenSeq concatenates.                   *)
(***************************************************************************)
EXTENDS SequencesExt, SequenceTheorems, WellFoundedInduction, TLAPS

(* A nonempty set of naturals has a least element.                         *)
LEMMA LeastOf ==
    ASSUME NEW S \in SUBSET Nat, S # {}
    PROVE  \E i \in S : \A j \in S : i <= j
<1>1. PICK i \in S : \A j \in S : ~(<<j, i>> \in OpToRel(<, Nat))
  BY NatLessThanWellFounded, WFMin
<1>2. \A j \in S : ~(j < i)
  BY <1>1 DEF OpToRel
<1> QED BY <1>2

(* And a greatest one, if it is bounded.                                   *)
LEMMA GreatestOf ==
    ASSUME NEW n \in Nat, NEW S \in SUBSET (1..n), S # {}
    PROVE  \E i \in S : \A j \in S : j <= i
<1> DEFINE T == {n - j : j \in S}
<1>1. T \in SUBSET Nat /\ T # {}
  <2>1. \A j \in S : n - j \in Nat
    OBVIOUS
  <2> QED BY <2>1
<1>2. PICK t \in T : \A u \in T : t <= u
  BY <1>1, LeastOf
<1>3. PICK i \in S : t = n - i
  BY <1>2
<1>4. \A j \in S : j <= i
  BY <1>2, <1>3
<1> QED BY <1>4

(* A recursive function on 0..n exists, for any first value and any step.  *)
Recursions(W, n, init, step) ==
    {f \in [0..n -> W] : f[0] = init /\ \A p \in 1..n : f[p] = step[p][f[p - 1]]}

LEMMA RecursionExists ==
    ASSUME NEW W, NEW n \in Nat, NEW init \in W, NEW step \in [1..n -> [W -> W]]
    PROVE  Recursions(W, n, init, step) # {}
<1> DEFINE Upto(m, f) == f[0] = init /\ \A p \in 1..m : f[p] = step[p][f[p - 1]]
           Built(m) == \E f \in [0..m -> W] : Upto(m, f)
           bad == {m \in 0..n : ~Built(m)}
<1>1. SUFFICES ASSUME bad # {} PROVE FALSE
  <2>1. Built(n)
    <3> HIDE DEF Built
    <3> QED BY <1>1
  <2>2. PICK f \in [0..n -> W] : Upto(n, f)
    BY <2>1
  <2>3. f \in Recursions(W, n, init, step)
    BY <2>2 DEF Recursions
  <2> QED BY <2>3
<1>2. PICK m \in bad : \A k \in bad : m <= k
  <2> HIDE DEF Built
  <2>1. bad \in SUBSET Nat
    OBVIOUS
  <2> QED BY <1>1, <2>1, LeastOf
<1>3. m # 0
  <2> SUFFICES ASSUME m = 0 PROVE FALSE
    OBVIOUS
  <2>1. [p \in 0..0 |-> init] \in [0..0 -> W] /\ Upto(0, [p \in 0..0 |-> init])
    OBVIOUS
  <2> QED BY <2>1
<1>4. PICK f \in [0..(m - 1) -> W] : Upto(m - 1, f)
  <2>1. m - 1 \in 0..n /\ ~(m <= m - 1)
    BY <1>3
  <2> QED BY <1>2, <2>1
<1> DEFINE g == [p \in 0..m |-> IF p = m THEN step[m][f[m - 1]] ELSE f[p]]
<1>5. m \in 1..n /\ m - 1 \in 0..(m - 1) /\ g \in [0..m -> W]
  BY <1>3
<1>6. Upto(m, g)
  <2>1. g[0] = init
    BY <1>3, <1>4, <1>5
  <2>2. ASSUME NEW p \in 1..m PROVE g[p] = step[p][g[p - 1]]
    <3>1. p - 1 \in 0..m /\ p - 1 # m /\ g[p - 1] = f[p - 1]
      BY <1>5
    <3>2. CASE p = m
      BY <3>1, <3>2
    <3>3. CASE p # m
      <4>1. p \in 1..(m - 1) /\ g[p] = f[p]
        BY <3>3, <1>5
      <4> QED BY <4>1, <3>1, <1>4
    <3> QED BY <3>2, <3>3
  <2> HIDE DEF g
  <2> QED BY <2>1, <2>2
<1> QED BY <1>5, <1>6

(* There is one only, and so there is one on all of Nat.                   *)
LEMMA RecursionUnique ==
    ASSUME NEW W, NEW n \in Nat, NEW init, NEW step, NEW m \in n..(n + 1),
           NEW f \in Recursions(W, n, init, step), NEW g \in Recursions(W, m, init, step)
    PROVE  f[n] = g[n]
<1> DEFINE bad == {k \in 0..n : f[k] # g[k]}
<1>1. SUFFICES ASSUME bad # {} PROVE FALSE
  <2>1. n \in 0..n
    OBVIOUS
  <2> QED BY <1>1, <2>1
<1>2. PICK k \in bad : \A j \in bad : k <= j
  <2>1. bad \in SUBSET Nat
    OBVIOUS
  <2> HIDE DEF bad
  <2> QED BY <1>1, <2>1, LeastOf
<1>3. /\ f[0] = init /\ \A p \in 1..n : f[p] = step[p][f[p - 1]]
      /\ g[0] = init /\ \A p \in 1..m : g[p] = step[p][g[p - 1]]
  BY DEF Recursions
<1>4. k # 0 /\ k \in 0..n
  BY <1>2, <1>3
<1>5. k \in 1..n /\ k \in 1..m /\ k - 1 \in 0..n /\ ~(k <= k - 1)
  BY <1>4
<1>6. f[k - 1] = g[k - 1]
  BY <1>2, <1>5
<1>7. f[k] = g[k]
  BY <1>3, <1>5, <1>6
<1> QED BY <1>2, <1>7

RecursionsOnNat(W, init, step) ==
    {f \in [Nat -> W] : f[0] = init /\ \A p \in Nat : f[p + 1] = step[p + 1][f[p]]}

LEMMA RecursionOnNatExists ==
    ASSUME NEW W, NEW init \in W, NEW step \in [Nat -> [W -> W]]
    PROVE  RecursionsOnNat(W, init, step) # {}
<1> DEFINE all(n) == Recursions(W, n, init, step)
           one == [n \in Nat |-> CHOOSE f : f \in all(n)]
           f == [n \in Nat |-> one[n][n]]
<1>1. ASSUME NEW n \in Nat PROVE one[n] \in all(n)
  <2> DEFINE steps == [p \in 1..n |-> step[p]]
  <2>1. steps \in [1..n -> [W -> W]]
    OBVIOUS
  <2>2. \A p \in 1..n : steps[p] = step[p]
    OBVIOUS
  <2> HIDE DEF steps
  <2>3. Recursions(W, n, init, steps) # {}
    BY <2>1, RecursionExists
  <2>4. all(n) # {}
    BY <2>2, <2>3 DEF Recursions
  <2>5. \E g : g \in all(n)
    BY <2>4
  <2> QED BY <2>5
<1> HIDE DEF one
<1>2. ASSUME NEW n \in Nat
      PROVE  f[n] \in W /\ f[n + 1] = step[n + 1][f[n]] /\ f[0] = init
  <2>1. /\ n \in n..(n + 1) /\ n + 1 \in n..(n + 1) /\ n + 1 \in Nat /\ n + 1 \in 1..(n + 1)
        /\ (n + 1) - 1 = n /\ n \in 0..n /\ 0 \in 0..n
    OBVIOUS
  <2>2. one[n] \in all(n) /\ one[n + 1] \in all(n + 1) /\ one[0] \in all(0)
    BY <1>1, <2>1
  <2>3. one[n][n] = one[n + 1][n]
    <3> HIDE DEF all
    <3>1. \A a, b : a \in all(n) /\ b \in all(n + 1) => a[n] = b[n]
      BY <2>1, RecursionUnique DEF all
    <3> QED BY <2>2, <3>1
  <2>4. one[n + 1][n + 1] = step[n + 1][one[n + 1][n]]
    BY <2>1, <2>2 DEF Recursions
  <2>5. one[n][n] \in W /\ one[0][0] = init
    BY <2>1, <2>2 DEF Recursions
  <2> QED BY <2>1, <2>3, <2>4, <2>5
<1>3. f \in [Nat -> W]
  BY <1>2
<1>4. 0 \in Nat
  OBVIOUS
<1> HIDE DEF f
<1> QED BY <1>2, <1>3, <1>4 DEF RecursionsOnNat

(* What FlattenSeq concatenates up to each of its arguments.               *)
Flattens(f, seqs) ==
    f = [i \in 1..Len(seqs) |-> IF i = 1 THEN seqs[i] ELSE f[i - 1] \o seqs[i]]

LEMMA FlattenBuilt ==
    ASSUME NEW S, NEW seqs \in Seq(Seq(S)), seqs # <<>>, NEW f, Flattens(f, seqs)
    PROVE  FlattenSeq(seqs) = f[Len(seqs)]
<1> DEFINE g == CHOOSE h : Flattens(h, seqs)
           n == Len(seqs)
<1>1. n \in Nat \ {0}
  OBVIOUS
<1>2. Flattens(g, seqs)
  OBVIOUS
<1>3. FlattenSeq(seqs) = g[n]
  BY <1>1 DEF FlattenSeq, Flattens
<1> HIDE DEF g
<1>4. \A i \in 1..n : f[i] = g[i]
  <2> SUFFICES ASSUME {i \in 1..n : f[i] # g[i]} # {} PROVE FALSE
    OBVIOUS
  <2>1. PICK i \in 1..n : f[i] # g[i] /\ \A j \in 1..n : f[j] # g[j] => i <= j
    <3>1. {i \in 1..n : f[i] # g[i]} \in SUBSET Nat
      OBVIOUS
    <3> QED BY <3>1, LeastOf
  <2>2. /\ f[i] = IF i = 1 THEN seqs[i] ELSE f[i - 1] \o seqs[i]
        /\ g[i] = IF i = 1 THEN seqs[i] ELSE g[i - 1] \o seqs[i]
    BY <1>2 DEF Flattens
  <2>3. i # 1 => f[i - 1] = g[i - 1]
    <3>1. i # 1 => i - 1 \in 1..n /\ ~(i <= i - 1)
      BY <1>1
    <3> QED BY <2>1, <3>1
  <2> QED BY <2>1, <2>2, <2>3
<1> QED BY <1>1, <1>3, <1>4

(* For every sequence of sequences there is such a function.               *)
LEMMA FlattenExists ==
    ASSUME NEW S, NEW seqs \in Seq(Seq(S))
    PROVE  \E f \in [1..Len(seqs) -> Seq(S)] : Flattens(f, seqs)
<1> DEFINE n == Len(seqs)
           step == [p \in 1..n |-> [x \in Seq(S) |-> x \o seqs[p]]]
<1>1. n \in Nat /\ \A i \in 1..n : seqs[i] \in Seq(S)
  OBVIOUS
<1>2. <<>> \in Seq(S) /\ step \in [1..n -> [Seq(S) -> Seq(S)]]
  BY <1>1, EmptySeq
<1> HIDE DEF step, n
<1>3. PICK f \in [0..n -> Seq(S)] : f[0] = <<>> /\ \A p \in 1..n : f[p] = step[p][f[p - 1]]
  <2>1. Recursions(Seq(S), n, <<>>, step) # {}
    BY <1>1, <1>2, RecursionExists
  <2> QED BY <2>1 DEF Recursions
<1> DEFINE g == [p \in 1..n |-> f[p]]
<1>4. ASSUME NEW p \in 1..n PROVE f[p] = f[p - 1] \o seqs[p]
  <2>1. p - 1 \in 0..n
    BY <1>1
  <2>2. f[p - 1] \in Seq(S)
    BY <2>1
  <2> QED BY <1>3, <2>2 DEF step
<1>5. 1 \in 1..n => f[1] = seqs[1]
  <2> SUFFICES ASSUME 1 \in 1..n PROVE f[1] = seqs[1]
    OBVIOUS
  <2>1. f[1] = f[1 - 1] \o seqs[1]
    BY <1>4
  <2>2. 1 - 1 = 0 /\ seqs[1] \in Seq(S)
    BY <1>1
  <2>3. <<>> \o seqs[1] = seqs[1]
    BY <2>2, ConcatEmptySeq
  <2> HIDE DEF g
  <2> QED BY <1>3, <2>1, <2>2, <2>3
<1>6. \A p \in 1..n : g[p] = IF p = 1 THEN seqs[p] ELSE g[p - 1] \o seqs[p]
  <2>1. \A p \in 1..n : p # 1 => p - 1 \in 1..n
    BY <1>1
  <2> QED BY <1>4, <1>5, <2>1
<1> HIDE DEF g
<1>7. g \in [1..n -> Seq(S)]
  BY DEF g
<1> QED BY <1>6, <1>7 DEF Flattens, n

(* Its last value is the whole, and a sequence.                            *)
LEMMA FlattenType ==
    ASSUME NEW S, NEW seqs \in Seq(Seq(S))
    PROVE  FlattenSeq(seqs) \in Seq(S)
<1>1. CASE seqs = <<>>
  BY <1>1 DEF FlattenSeq
<1>2. CASE seqs # <<>>
  <2>1. PICK f \in [1..Len(seqs) -> Seq(S)] : Flattens(f, seqs)
    BY FlattenExists
  <2>2. FlattenSeq(seqs) = f[Len(seqs)]
    BY <1>2, <2>1, FlattenBuilt
  <2>3. Len(seqs) \in 1..Len(seqs)
    BY <1>2
  <2> QED BY <2>1, <2>2, <2>3
<1> QED BY <1>1, <1>2

LEMMA FlattenEmpty == FlattenSeq(<<>>) = <<>>
BY DEF FlattenSeq

(* One sequence more adds its elements at the end.                         *)
LEMMA FlattenAppend ==
    ASSUME NEW S, NEW seqs \in Seq(Seq(S)), NEW e \in Seq(S)
    PROVE  FlattenSeq(Append(seqs, e)) = FlattenSeq(seqs) \o e
<1> DEFINE more == Append(seqs, e)
           n == Len(seqs)
<1>1. /\ n \in Nat /\ Len(more) = n + 1 /\ more \in Seq(Seq(S)) /\ more # <<>>
      /\ more[n + 1] = e /\ \A i \in 1..n : more[i] = seqs[i]
  BY AppendProperties
<1> HIDE DEF more
<1>2. PICK f \in [1..n -> Seq(S)] : Flattens(f, seqs)
  BY FlattenExists
<1> DEFINE g == [i \in 1..(n + 1) |-> IF i <= n THEN f[i] ELSE FlattenSeq(seqs) \o e]
<1>3. n # 0 => FlattenSeq(seqs) = f[n]
  BY <1>1, <1>2, FlattenBuilt
<1>4. n = 0 => FlattenSeq(seqs) \o e = e
  <2>1. n = 0 => seqs = <<>>
    OBVIOUS
  <2> QED BY <2>1, FlattenEmpty
<1>5. Flattens(g, more)
  <2>1. \A i \in 1..(n + 1) : g[i] = IF i = 1 THEN more[i] ELSE g[i - 1] \o more[i]
    <3> SUFFICES ASSUME NEW i \in 1..(n + 1)
                 PROVE  g[i] = IF i = 1 THEN more[i] ELSE g[i - 1] \o more[i]
      OBVIOUS
    <3>1. CASE i <= n
      <4>1. i \in 1..n /\ (i # 1 => i - 1 \in 1..n)
        BY <1>1, <3>1
      <4>2. f[i] = IF i = 1 THEN seqs[i] ELSE f[i - 1] \o seqs[i]
        BY <4>1, <1>2 DEF Flattens
      <4>3. g[i] = f[i] /\ (i # 1 => g[i - 1] = f[i - 1])
        <5>1. i # 1 => i - 1 \in 1..(n + 1) /\ i - 1 <= n
          BY <1>1, <4>1
        <5> QED BY <3>1, <5>1
      <4>4. more[i] = seqs[i]
        BY <1>1, <4>1
      <4> HIDE DEF g
      <4> QED BY <4>2, <4>3, <4>4
    <3>2. CASE i = n + 1 /\ n # 0
      <4>1. i - 1 = n /\ n \in 1..(n + 1) /\ n <= n /\ ~(i <= n) /\ i # 1
        BY <1>1, <3>2
      <4>2. g[i] = FlattenSeq(seqs) \o e /\ g[i - 1] = f[n]
        BY <4>1
      <4>3. FlattenSeq(seqs) = f[n] /\ more[i] = e
        BY <1>1, <1>3, <3>2
      <4> HIDE DEF g
      <4> QED BY <4>1, <4>2, <4>3
    <3>3. CASE i = n + 1 /\ n = 0
      BY <1>1, <1>4, <3>3
    <3> QED BY <1>1, <3>1, <3>2, <3>3
  <2> HIDE DEF g
  <2>2. g = [i \in 1..(n + 1) |-> g[i]]
    BY DEF g
  <2> QED BY <1>1, <2>1, <2>2 DEF Flattens
<1>6. g[n + 1] = FlattenSeq(seqs) \o e
  BY <1>1
<1> HIDE DEF g
<1>7. FlattenSeq(more) = g[Len(more)]
  BY <1>1, <1>5, FlattenBuilt
<1> QED BY <1>1, <1>6, <1>7 DEF more

(* The first element of all is the first of the first.                     *)
LEMMA ConcatFirst ==
    ASSUME NEW S, NEW s \in Seq(S), NEW t \in Seq(S), s # <<>>
    PROVE  s \o t # <<>> /\ (s \o t)[1] = s[1]
<1>1. Len(s) \in Nat \ {0} /\ Len(t) \in Nat
  OBVIOUS
<1>2. 1 \in 1..(Len(s) + Len(t)) /\ 1 <= Len(s) /\ Len(s) + Len(t) # 0
  BY <1>1
<1>3. (s \o t)[1] = s[1] /\ Len(s \o t) = Len(s) + Len(t)
  BY <1>2, ConcatProperties
<1> QED BY <1>2, <1>3

LEMMA FlattenFirst ==
    ASSUME NEW S, NEW seqs \in Seq(Seq(S)), seqs # <<>>, seqs[1] # <<>>
    PROVE  FlattenSeq(seqs) # <<>> /\ FlattenSeq(seqs)[1] = seqs[1][1]
<1> DEFINE n == Len(seqs)
<1>1. n \in Nat \ {0} /\ \A i \in 1..n : seqs[i] \in Seq(S)
  OBVIOUS
<1>2. PICK f \in [1..n -> Seq(S)] : Flattens(f, seqs)
  BY FlattenExists
<1> DEFINE Good(i) == f[i] # <<>> /\ f[i][1] = seqs[1][1]
           bad == {i \in 1..n : ~Good(i)}
<1>3. SUFFICES bad = {}
  <2>1. FlattenSeq(seqs) = f[n] /\ n \in 1..n
    BY <1>1, <1>2, FlattenBuilt
  <2> QED BY <1>3, <2>1
<1>4. SUFFICES ASSUME bad # {} PROVE FALSE
  OBVIOUS
<1>5. PICK i \in bad : \A j \in bad : i <= j
  <2> HIDE DEF Good
  <2>1. bad \in SUBSET Nat
    OBVIOUS
  <2> QED BY <1>4, <2>1, LeastOf
<1>6. f[i] = IF i = 1 THEN seqs[i] ELSE f[i - 1] \o seqs[i]
  BY <1>2 DEF Flattens
<1>7. i # 1
  BY <1>6
<1>8. i - 1 \in 1..n /\ Good(i - 1)
  <2>1. i - 1 \in 1..n /\ ~(i <= i - 1)
    BY <1>1, <1>7
  <2> QED BY <1>5, <2>1
<1>9. f[i] = f[i - 1] \o seqs[i] /\ f[i - 1] \in Seq(S) /\ seqs[i] \in Seq(S)
  BY <1>1, <1>2, <1>6, <1>7, <1>8
<1>10. f[i] # <<>> /\ f[i][1] = f[i - 1][1]
  <2> DEFINE u == f[i - 1]
             v == seqs[i]
  <2>1. u \in Seq(S) /\ v \in Seq(S) /\ u # <<>> /\ f[i] = u \o v
    BY <1>8, <1>9
  <2> HIDE DEF u, v
  <2>2. u \o v # <<>> /\ (u \o v)[1] = u[1]
    BY <2>1, ConcatFirst
  <2> QED BY <2>1, <2>2 DEF u
<1> QED BY <1>8, <1>10

(* A prefix grows by one element, up to the whole.                         *)
LEMMA PrefixStep ==
    ASSUME NEW S, NEW s \in Seq(S), NEW m \in 1..Len(s)
    PROVE  SubSeq(s, 1, m) = Append(SubSeq(s, 1, m - 1), s[m])
<1>1. /\ SubSeq(s, 1, m) \in Seq(S) /\ Len(SubSeq(s, 1, m)) = m
      /\ \A i \in 1..m : SubSeq(s, 1, m)[i] = s[i]
  BY SubSeqProperties
<1>2. /\ SubSeq(s, 1, m - 1) \in Seq(S) /\ Len(SubSeq(s, 1, m - 1)) = m - 1
      /\ \A i \in 1..(m - 1) : SubSeq(s, 1, m - 1)[i] = s[i]
  BY SubSeqProperties
<1> DEFINE t == Append(SubSeq(s, 1, m - 1), s[m])
<1>3. /\ t \in Seq(S) /\ Len(t) = m /\ t[m] = s[m]
      /\ \A i \in 1..(m - 1) : t[i] = s[i]
  BY <1>2, AppendProperties
<1> HIDE DEF t
<1>4. \A i \in 1..m : SubSeq(s, 1, m)[i] = t[i]
  BY <1>1, <1>3
<1> QED BY <1>1, <1>3, <1>4, SeqEqual DEF t

LEMMA PrefixEnds ==
    ASSUME NEW S, NEW s \in Seq(S)
    PROVE  SubSeq(s, 1, 0) = <<>> /\ SubSeq(s, 1, Len(s)) = s
<1>1. SubSeq(s, 1, Len(s)) \in Seq(S) /\ Len(SubSeq(s, 1, Len(s))) = Len(s)
      /\ \A i \in 1..Len(s) : SubSeq(s, 1, Len(s))[i] = s[i]
  BY SubSeqProperties
<1>2. SubSeq(s, 1, 0) \in Seq(S) /\ Len(SubSeq(s, 1, 0)) = 0
  BY SubSeqProperties
<1> QED BY <1>1, <1>2, SeqEqual

LEMMA ConcatPlaces ==
    ASSUME NEW S, NEW s \in Seq(S), NEW t \in Seq(S)
    PROVE  /\ s \o t \in Seq(S) /\ Len(s \o t) = Len(s) + Len(t)
           /\ \A p \in 1..Len(s) : (s \o t)[p] = s[p]
           /\ \A p \in 1..Len(t) : (s \o t)[Len(s) + p] = t[p]
<1>1. Len(s) \in Nat /\ Len(t) \in Nat
  OBVIOUS
<1>2. /\ s \o t \in Seq(S) /\ Len(s \o t) = Len(s) + Len(t)
      /\ \A i \in 1..(Len(s) + Len(t)) :
            (s \o t)[i] = IF i <= Len(s) THEN s[i] ELSE t[i - Len(s)]
  BY ConcatProperties
<1>3. \A p \in 1..Len(s) : p \in 1..(Len(s) + Len(t)) /\ p <= Len(s)
  BY <1>1
<1>4. \A p \in 1..Len(t) : /\ Len(s) + p \in 1..(Len(s) + Len(t)) /\ ~(Len(s) + p <= Len(s))
                           /\ (Len(s) + p) - Len(s) = p
  BY <1>1
<1> QED BY <1>2, <1>3, <1>4

(* The same from nothing on, one sequence more at each number.             *)
LEMMA FlattenUpto ==
    ASSUME NEW S, NEW seqs \in Seq(Seq(S))
    PROVE  \E h \in [0..Len(seqs) -> Seq(S)] :
              /\ h[0] = <<>> /\ h[Len(seqs)] = FlattenSeq(seqs)
              /\ \A i \in 1..Len(seqs) : h[i] = h[i - 1] \o seqs[i]
<1> DEFINE n == Len(seqs)
<1>1. n \in Nat /\ \A i \in 1..n : seqs[i] \in Seq(S)
  OBVIOUS
<1>2. PICK f \in [1..n -> Seq(S)] : Flattens(f, seqs)
  BY FlattenExists
<1> DEFINE h == [i \in 0..n |-> IF i = 0 THEN <<>> ELSE f[i]]
<1>3. <<>> \in Seq(S)
  BY EmptySeq
<1>4. h \in [0..n -> Seq(S)]
  <2>1. \A i \in 0..n : i # 0 => i \in 1..n
    BY <1>1
  <2> QED BY <1>2, <1>3, <2>1
<1>5. h[0] = <<>> /\ \A i \in 1..n : h[i] = f[i]
  BY <1>1
<1>6. h[n] = FlattenSeq(seqs)
  <2>1. CASE n = 0
    <3>1. seqs = <<>>
      BY <2>1
    <3> QED BY <1>5, <2>1, <3>1, FlattenEmpty
  <2>2. CASE n # 0
    <3>1. seqs # <<>> /\ n \in 1..n
      BY <1>1, <2>2
    <3> HIDE DEF h
    <3> QED BY <1>2, <1>5, <3>1, FlattenBuilt
  <2> QED BY <2>1, <2>2
<1> HIDE DEF h
<1>7. ASSUME NEW i \in 1..n PROVE h[i] = h[i - 1] \o seqs[i]
  <2>1. f[i] = IF i = 1 THEN seqs[i] ELSE f[i - 1] \o seqs[i]
    BY <1>2 DEF Flattens
  <2>2. CASE i = 1
    <3>1. i - 1 = 0 /\ seqs[i] \in Seq(S)
      BY <1>1, <2>2
    <3>2. <<>> \o seqs[i] = seqs[i]
      BY <3>1, ConcatEmptySeq
    <3> QED BY <1>5, <2>1, <2>2, <3>1, <3>2
  <2>3. CASE i # 1
    <3>1. i - 1 \in 1..n
      BY <1>1, <2>3
    <3> QED BY <1>5, <2>1, <2>3, <3>1
  <2> QED BY <2>2, <2>3
<1> QED BY <1>4, <1>5, <1>6, <1>7

(* Where all but the k-th have one element.                                *)
LEMMA FlattenPlaces ==
    ASSUME NEW S, NEW seqs \in Seq(Seq(S)), NEW k \in 1..Len(seqs),
           \A i \in 1..Len(seqs) : i # k => Len(seqs[i]) = 1
    PROVE  /\ FlattenSeq(seqs) \in Seq(S)
           /\ Len(FlattenSeq(seqs)) = (Len(seqs) - 1) + Len(seqs[k])
           /\ \A p \in 1..(k - 1) : FlattenSeq(seqs)[p] = seqs[p][1]
           /\ \A p \in 1..Len(seqs[k]) : FlattenSeq(seqs)[(k - 1) + p] = seqs[k][p]
           /\ \A p \in (k + 1)..Len(seqs) :
                 FlattenSeq(seqs)[(p - 1) + Len(seqs[k])] = seqs[p][1]
<1> DEFINE n == Len(seqs)
           l == Len(seqs[k])
<1>1. n \in Nat /\ l \in Nat /\ \A i \in 1..n : seqs[i] \in Seq(S)
  OBVIOUS
<1>2. PICK h \in [0..n -> Seq(S)] :
         /\ h[0] = <<>> /\ h[n] = FlattenSeq(seqs)
         /\ \A i \in 1..n : h[i] = h[i - 1] \o seqs[i]
  BY FlattenUpto
<1> DEFINE Good(i) == /\ Len(h[i]) = IF i < k THEN i ELSE (i - 1) + l
                      /\ \A p \in 1..i : p < k => h[i][p] = seqs[p][1]
                      /\ k <= i => \A p \in 1..l : h[i][(k - 1) + p] = seqs[k][p]
                      /\ \A p \in 1..i : k < p => h[i][(p - 1) + l] = seqs[p][1]
           bad == {i \in 0..n : ~Good(i)}
<1> HIDE DEF l
<1>3. SUFFICES bad = {}
  <2>1. n \in 0..n
    BY <1>1
  <2> HIDE DEF Good
  <2>5. Good(n)
    BY <1>3, <2>1
  <2> USE DEF Good
  <2>2. k <= n /\ ~(n < k) /\ \A p \in 1..(k - 1) : p \in 1..n /\ p < k
    BY <1>1
  <2>3. \A p \in (k + 1)..n : p \in 1..n /\ k < p
    BY <1>1
  <2>4. FlattenSeq(seqs) \in Seq(S)
    BY <1>2, <2>1
  <2> QED BY <1>2, <2>2, <2>3, <2>4, <2>5 DEF l
<1>4. SUFFICES ASSUME bad # {} PROVE FALSE
  OBVIOUS
<1>5. PICK i \in bad : \A j \in bad : i <= j
  <2>1. bad \in SUBSET Nat
    BY <1>1
  <2> HIDE DEF bad
  <2> QED BY <1>4, <2>1, LeastOf
<1>6. i \in 0..n /\ ~Good(i)
  BY <1>5
<1>7. i # 0
  <2>1. Len(h[0]) = 0
    BY <1>2
  <2>2. Good(0)
    BY <2>1
  <2> QED BY <1>6, <2>2
<1>8. /\ i \in 1..n /\ i - 1 \in 0..n /\ ~(i <= i - 1)
      /\ i \in Nat /\ k \in Nat /\ 1 <= i /\ 1 <= k /\ k <= n /\ l \in Nat
  BY <1>1, <1>6, <1>7 DEF l
<1>9. Good(i - 1)
  <2> HIDE DEF Good
  <2> QED BY <1>5, <1>8
<1> DEFINE u == h[i - 1]
           v == seqs[i]
           w == h[i]
<1>10. u \in Seq(S) /\ v \in Seq(S) /\ w = u \o v
  BY <1>1, <1>2, <1>8
<1>11. /\ Len(w) = Len(u) + Len(v)
       /\ \A p \in 1..Len(u) : w[p] = u[p]
       /\ \A p \in 1..Len(v) : w[Len(u) + p] = v[p]
  <2> HIDE DEF u, v, w
  <2> QED BY <1>10, ConcatPlaces
<1>12. /\ Len(u) = IF i - 1 < k THEN i - 1 ELSE ((i - 1) - 1) + l
       /\ \A p \in 1..(i - 1) : p < k => u[p] = seqs[p][1]
       /\ k <= i - 1 => \A p \in 1..l : u[(k - 1) + p] = seqs[k][p]
       /\ \A p \in 1..(i - 1) : k < p => u[(p - 1) + l] = seqs[p][1]
  BY <1>9
<1>13. i # k => Len(v) = 1 /\ v[1] = seqs[i][1]
  BY <1>8
<1>14. i = k => Len(v) = l /\ v = seqs[k]
  BY DEF l
<1>21. Len(u) \in Nat /\ Len(v) \in Nat
  BY <1>10
<1> HIDE DEF u, v, w, bad, n
<1>15. CASE i < k
  <2>6. Len(u) = i - 1 /\ Len(v) = 1
    BY <1>8, <1>12, <1>13, <1>15
  <2>7. 1 \in 1..Len(v) /\ (i - 1) + 1 = i
    BY <1>8, <2>6
  <2>1. Len(u) = i - 1 /\ Len(v) = 1 /\ Len(w) = i /\ w[(i - 1) + 1] = v[1]
    BY <1>11, <2>6, <2>7
  <2>2. (i - 1) + 1 = i /\ w[i] = seqs[i][1]
    BY <1>8, <1>13, <1>15, <2>1
  <2>3. ASSUME NEW p \in 1..i PROVE w[p] = seqs[p][1]
    <3>1. CASE p = i
      BY <2>2, <3>1
    <3>2. CASE p # i
      <4>1. p \in 1..(i - 1) /\ p < k
        BY <1>8, <1>15, <3>2
      <4> QED BY <1>11, <1>12, <2>1, <4>1
    <3> QED BY <3>1, <3>2
  <2>4. ~(k <= i) /\ \A p \in 1..i : ~(k < p)
    BY <1>8, <1>15
  <2>5. Good(i)
    BY <1>15, <2>1, <2>3, <2>4 DEF w
  <2> QED BY <1>6, <2>5
<1>16. CASE i = k
  <2>6. Len(u) = k - 1 /\ Len(v) = l /\ v = seqs[k] /\ i - 1 = k - 1
    BY <1>8, <1>12, <1>14, <1>16
  <2>1. Len(u) = k - 1 /\ Len(v) = l /\ Len(w) = (i - 1) + l /\ v = seqs[k]
    BY <1>11, <2>6
  <2>2. \A p \in 1..i : p < k => w[p] = seqs[p][1]
    <3>1. \A p \in 1..i : p < k => p \in 1..(i - 1) /\ p \in 1..Len(u)
      BY <1>8, <1>16, <2>1
    <3> QED BY <1>11, <1>12, <3>1
  <2>3. \A p \in 1..l : w[(k - 1) + p] = seqs[k][p]
    BY <1>11, <2>1
  <2>4. \A p \in 1..i : ~(k < p)
    BY <1>8, <1>16
  <2>5. Good(i)
    BY <1>16, <2>1, <2>2, <2>3, <2>4 DEF w
  <2> QED BY <1>6, <2>5
<1>17. CASE k < i
  <2>7. Len(u) = ((i - 1) - 1) + l /\ Len(v) = 1
    BY <1>8, <1>12, <1>13, <1>17
  <2>8. Len(u) + 1 = (i - 1) + l
    BY <1>8, <2>7
  <2>1. /\ Len(u) = ((i - 1) - 1) + l /\ Len(v) = 1 /\ Len(w) = (i - 1) + l
        /\ Len(u) + 1 = (i - 1) + l
    BY <1>11, <2>7, <2>8
  <2>2. w[(i - 1) + l] = seqs[i][1]
    <3>1. 1 \in 1..Len(v)
      BY <2>1
    <3> QED BY <1>11, <1>13, <1>17, <2>1, <3>1
  <2>3. ASSUME NEW p \in 1..i, p < k PROVE w[p] = seqs[p][1]
    <3>1. p \in 1..(i - 1) /\ p \in 1..Len(u)
      BY <1>8, <1>17, <2>7, <2>3
    <3> QED BY <1>11, <1>12, <2>3, <3>1
  <2>4. ASSUME NEW p \in 1..l PROVE w[(k - 1) + p] = seqs[k][p]
    <3>1. (k - 1) + p \in 1..Len(u) /\ k <= i - 1
      BY <1>8, <1>17, <2>7
    <3> QED BY <1>11, <1>12, <3>1
  <2>5. ASSUME NEW p \in 1..i, k < p PROVE w[(p - 1) + l] = seqs[p][1]
    <3>1. CASE p = i
      BY <2>2, <3>1
    <3>2. CASE p # i
      <4>1. p \in 1..(i - 1) /\ (p - 1) + l \in 1..Len(u)
        BY <1>8, <1>17, <2>7, <2>5, <3>2
      <4> QED BY <1>11, <1>12, <2>5, <4>1
    <3> QED BY <3>1, <3>2
  <2>6. Good(i)
    BY <1>8, <1>17, <2>1, <2>3, <2>4, <2>5 DEF w
  <2> QED BY <1>6, <2>6
<1> QED BY <1>8, <1>15, <1>16, <1>17

LEMMA FlattenSingles ==
    ASSUME NEW S, NEW seqs \in Seq(Seq(S)), \A i \in 1..Len(seqs) : Len(seqs[i]) = 1
    PROVE  /\ FlattenSeq(seqs) \in Seq(S) /\ Len(FlattenSeq(seqs)) = Len(seqs)
           /\ \A p \in 1..Len(seqs) : FlattenSeq(seqs)[p] = seqs[p][1]
<1> DEFINE n == Len(seqs)
<1>1. n \in Nat
  OBVIOUS
<1>2. CASE n = 0
  <2>1. seqs = <<>> /\ FlattenSeq(seqs) = <<>>
    BY <1>2, FlattenEmpty
  <2>2. <<>> \in Seq(S) /\ Len(<<>>) = 0 /\ \A p \in 1..Len(seqs) : FALSE
    BY <1>2, EmptySeq
  <2> QED BY <1>2, <2>1, <2>2
<1>3. CASE n # 0
  <2>1. n \in 1..n /\ (n - 1) + 1 = n /\ Len(seqs[n]) = 1
    BY <1>1, <1>3
  <2>2. /\ FlattenSeq(seqs) \in Seq(S) /\ Len(FlattenSeq(seqs)) = (n - 1) + Len(seqs[n])
        /\ \A p \in 1..(n - 1) : FlattenSeq(seqs)[p] = seqs[p][1]
        /\ \A p \in 1..Len(seqs[n]) : FlattenSeq(seqs)[(n - 1) + p] = seqs[n][p]
    BY <2>1, FlattenPlaces
  <2>3. \A p \in 1..n : p = n \/ p \in 1..(n - 1)
    BY <1>1
  <2>4. 1 \in 1..Len(seqs[n])
    BY <2>1
  <2>5. FlattenSeq(seqs)[n] = seqs[n][1]
    BY <2>1, <2>2, <2>4
  <2> QED BY <2>1, <2>2, <2>3, <2>5
<1> QED BY <1>2, <1>3
=============================================================================
