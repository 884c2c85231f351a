-------------------------- MODULE RenderingProofs --------------------------
(***************************************************************************)
(* For any alphabet, any names and any packages: what becomes of a name,   *)
(* that a well named package compiles, and that the texts of times are     *)
(* ordered as the times are.                                               *)
(***************************************************************************)
EXTENDS TimeText, SequenceLemmas

(* The runes of a narrow name, but for its separators.                     *)
Plain == {r \in Letter \cup Digit : Lower(r) \notin Wide}
Word == Seq(Plain) \ {<<>>}

LowerAll(words) == [k \in DOMAIN words |-> ToLower(words[k])]
LowerText(words) == FlattenSeq(LowerAll(words))

LEMMA LowerRune ==
    /\ \A r \in Capital : Lower(r) \in Small /\ Upper[Lower(r)] = r
    /\ \A r \in Small : Lower(r) = r /\ Upper[r] \in Capital /\ Lower(Upper[r]) = r
    /\ \A r : r \notin Capital => Lower(r) = r
<1>1. \A r \in Small : r \notin Capital /\ Upper[r] \in Capital
  BY NamesAssumption DEF Capital
<1>2. ASSUME NEW r \in Capital PROVE Lower(r) \in Small /\ Upper[Lower(r)] = r
  <2>1. \E s \in Small : Upper[s] = r
    BY DEF Capital
  <2> QED BY <2>1 DEF Lower
<1>3. \A r, s \in Small : Upper[r] = Upper[s] => r = s
  BY NamesAssumption DEF IsInjective, Small
<1>4. \A r \in Small : Lower(Upper[r]) = r
  BY <1>1, <1>2, <1>3
<1> QED BY <1>1, <1>2, <1>4 DEF Lower

LEMMA RuneType ==
    /\ Plain \subseteq Rune /\ Broken \notin Plain /\ Plain \cap Separator = {}
    /\ \A r \in Rune : Lower(r) \in Rune /\ Lower(Lower(r)) = Lower(r)
    /\ \A r \in Plain : Lower(r) \in (Small \cup Digit) \ Wide
<1>1. \A r \in Rune : Lower(r) \in Rune /\ Lower(Lower(r)) = Lower(r)
  BY LowerRune, NamesAssumption DEF Rune, Letter
<1>2. \A r \in Plain : Lower(r) \in (Small \cup Digit) \ Wide
  BY LowerRune DEF Plain, Letter
<1> QED BY <1>1, <1>2, NamesAssumption DEF Plain, Rune

LEMMA ToLowerType ==
    ASSUME NEW w \in Seq(Rune)
    PROVE  /\ ToLower(w) \in Seq(Rune) /\ Len(ToLower(w)) = Len(w)
           /\ \A k \in 1..Len(w) : ToLower(w)[k] = Lower(w[k])
<1>1. Len(w) \in Nat /\ DOMAIN w = 1..Len(w) /\ \A k \in 1..Len(w) : w[k] \in Rune
  OBVIOUS
<1>2. ToLower(w) = [k \in 1..Len(w) |-> Lower(w[k])]
  BY <1>1 DEF ToLower
<1>3. ToLower(w) \in [1..Len(w) -> Rune]
  BY <1>1, <1>2, RuneType
<1> HIDE DEF ToLower
<1> QED BY <1>1, <1>2, <1>3

LEMMA ToLowerAppend ==
    ASSUME NEW w \in Seq(Rune), NEW r \in Rune
    PROVE  ToLower(Append(w, r)) = Append(ToLower(w), Lower(r))
<1> DEFINE s == Append(w, r)
           t == Append(ToLower(w), Lower(r))
<1>1. Lower(r) \in Rune
  BY RuneType
<1>2. /\ s \in Seq(Rune) /\ Len(s) = Len(w) + 1 /\ s[Len(w) + 1] = r
      /\ \A k \in 1..Len(w) : s[k] = w[k]
  BY AppendProperties
<1>3. /\ t \in Seq(Rune) /\ Len(t) = Len(w) + 1 /\ t[Len(w) + 1] = Lower(r)
      /\ \A k \in 1..Len(w) : t[k] = Lower(w[k])
  BY <1>1, ToLowerType, AppendProperties
<1> HIDE DEF s, t
<1>4. Len(w) \in Nat
  OBVIOUS
<1>5. \A k \in 1..(Len(w) + 1) : ToLower(s)[k] = t[k]
  BY <1>2, <1>3, <1>4, ToLowerType
<1>6. ToLower(s) \in Seq(Rune) /\ Len(ToLower(s)) = Len(t)
  BY <1>2, <1>3, ToLowerType
<1>7. ToLower(s) = t
  BY <1>3, <1>5, <1>6, SeqEqual
<1> QED BY <1>7 DEF s, t

LEMMA ToLowerConcat ==
    ASSUME NEW v \in Seq(Rune), NEW w \in Seq(Rune)
    PROVE  ToLower(v \o w) = ToLower(v) \o ToLower(w)
<1> DEFINE s == v \o w
           t == ToLower(v) \o ToLower(w)
           n == Len(v) + Len(w)
<1>1. Len(v) \in Nat /\ Len(w) \in Nat
  OBVIOUS
<1>2. /\ s \in Seq(Rune) /\ Len(s) = n
      /\ \A k \in 1..n : s[k] = IF k <= Len(v) THEN v[k] ELSE w[k - Len(v)]
  BY ConcatProperties
<1>3. /\ t \in Seq(Rune) /\ Len(t) = n
      /\ \A k \in 1..n : t[k] = IF k <= Len(v) THEN ToLower(v)[k] ELSE ToLower(w)[k - Len(v)]
  <2> DEFINE a == ToLower(v)
             b == ToLower(w)
  <2>1. a \in Seq(Rune) /\ b \in Seq(Rune) /\ Len(a) = Len(v) /\ Len(b) = Len(w)
    BY ToLowerType
  <2> HIDE DEF a, b
  <2>2. /\ a \o b \in Seq(Rune) /\ Len(a \o b) = Len(a) + Len(b)
        /\ \A k \in 1..(Len(a) + Len(b)) :
              (a \o b)[k] = IF k <= Len(a) THEN a[k] ELSE b[k - Len(a)]
    BY <2>1, ConcatProperties
  <2> QED BY <2>1, <2>2 DEF a, b
<1> HIDE DEF s, t
<1>4. \A k \in 1..n : t[k] = Lower(s[k])
  <2> TAKE k \in 1..n
  <2>1. k <= Len(v) => k \in 1..Len(v)
    BY <1>1
  <2>2. ~(k <= Len(v)) => k - Len(v) \in 1..Len(w)
    BY <1>1
  <2> QED BY <1>2, <1>3, <2>1, <2>2, ToLowerType
<1>5. ToLower(s) \in Seq(Rune) /\ Len(ToLower(s)) = n /\ \A k \in 1..n : ToLower(s)[k] = t[k]
  BY <1>2, <1>4, ToLowerType
<1>6. ToLower(s) = t
  BY <1>3, <1>5, SeqEqual
<1> QED BY <1>6 DEF s, t

(* Lowering what is concatenated, and concatenating what is lowered.       *)
LEMMA LowerAllType ==
    ASSUME NEW words \in Seq(Seq(Rune))
    PROVE  /\ LowerAll(words) \in Seq(Seq(Rune)) /\ Len(LowerAll(words)) = Len(words)
           /\ \A k \in 1..Len(words) : LowerAll(words)[k] = ToLower(words[k])
<1>1. Len(words) \in Nat /\ DOMAIN words = 1..Len(words)
      /\ \A k \in 1..Len(words) : words[k] \in Seq(Rune)
  OBVIOUS
<1>2. \A k \in 1..Len(words) : ToLower(words[k]) \in Seq(Rune)
  BY <1>1, ToLowerType
<1>3. LowerAll(words) = [k \in 1..Len(words) |-> ToLower(words[k])]
  BY <1>1 DEF LowerAll
<1>4. LowerAll(words) \in [1..Len(words) -> Seq(Rune)]
  BY <1>2, <1>3
<1> QED BY <1>1, <1>3, <1>4

LEMMA LowerAllAppend ==
    ASSUME NEW words \in Seq(Seq(Rune)), NEW w \in Seq(Rune)
    PROVE  LowerAll(Append(words, w)) = Append(LowerAll(words), ToLower(w))
<1> DEFINE s == Append(words, w)
           t == Append(LowerAll(words), ToLower(w))
           n == Len(words)
<1>1. n \in Nat /\ ToLower(w) \in Seq(Rune)
  BY ToLowerType
<1>2. /\ s \in Seq(Seq(Rune)) /\ Len(s) = n + 1 /\ s[n + 1] = w
      /\ \A k \in 1..n : s[k] = words[k]
  BY AppendProperties
<1>3. LowerAll(words) \in Seq(Seq(Rune)) /\ Len(LowerAll(words)) = n
      /\ \A k \in 1..n : LowerAll(words)[k] = ToLower(words[k])
  BY LowerAllType
<1>4. /\ t \in Seq(Seq(Rune)) /\ Len(t) = n + 1 /\ t[n + 1] = ToLower(w)
      /\ \A k \in 1..n : t[k] = ToLower(words[k])
  BY <1>1, <1>3, AppendProperties
<1> HIDE DEF s, t
<1>5. /\ LowerAll(s) \in Seq(Seq(Rune)) /\ Len(LowerAll(s)) = n + 1
      /\ \A k \in 1..(n + 1) : LowerAll(s)[k] = ToLower(s[k])
  BY <1>2, LowerAllType
<1> HIDE DEF n
<1>6. ASSUME NEW k \in 1..(n + 1) PROVE LowerAll(s)[k] = t[k]
  <2>1. k \in 1..n \/ k = n + 1
    BY <1>1
  <2> QED BY <1>2, <1>4, <1>5, <2>1
<1>7. LowerAll(s) = t
  BY <1>4, <1>5, <1>6, SeqEqual
<1> QED BY <1>7 DEF s, t

LEMMA LowerTextAppend ==
    ASSUME NEW words \in Seq(Seq(Rune)), NEW w \in Seq(Rune)
    PROVE  /\ LowerText(words) \in Seq(Rune)
           /\ LowerText(Append(words, w)) = LowerText(words) \o ToLower(w)
BY LowerAllType, LowerAllAppend, FlattenType, FlattenAppend, ToLowerType DEF LowerText

LEMMA LowerFlatten ==
    ASSUME NEW words \in Seq(Seq(Rune))
    PROVE  ToLower(FlattenSeq(words)) = LowerText(words)
<1> DEFINE n == Len(words)
           pre(m) == SubSeq(words, 1, m)
           Same(m) == ToLower(FlattenSeq(pre(m))) = LowerText(pre(m))
           bad == {m \in 0..n : ~Same(m)}
<1>1. n \in Nat /\ pre(n) = words /\ pre(0) = <<>>
  BY PrefixEnds
<1>2. SUFFICES bad = {}
  <2>1. Same(n)
    <3> HIDE DEF Same
    <3> QED BY <1>1, <1>2
  <2> QED BY <1>1, <2>1
<1>3. SUFFICES ASSUME bad # {} PROVE FALSE
  OBVIOUS
<1>4. PICK m \in bad : \A k \in bad : m <= k
  <2> HIDE DEF Same
  <2>1. bad \in SUBSET Nat
    BY <1>1
  <2> QED BY <1>3, <2>1, LeastOf
<1>5. Same(0)
  <2>1. ToLower(<<>>) = <<>> /\ LowerAll(<<>>) = <<>>
    BY DEF ToLower, LowerAll
  <2> QED BY <1>1, <2>1, FlattenEmpty DEF LowerText
<1>6. m \in 1..n /\ Same(m - 1)
  <2> HIDE DEF Same
  <2>1. m \in 1..n
    BY <1>1, <1>5
  <2>2. m - 1 \in 0..n /\ ~(m <= m - 1)
    BY <1>1, <2>1
  <2> QED BY <1>4, <2>1, <2>2
<1>7. pre(m - 1) \in Seq(Seq(Rune)) /\ words[m] \in Seq(Rune)
  BY <1>1, <1>6, SubSeqProperties
<1>8. pre(m) = Append(pre(m - 1), words[m])
  BY <1>6, PrefixStep
<1> DEFINE before == pre(m - 1)
           word == words[m]
<1>9. /\ before \in Seq(Seq(Rune)) /\ word \in Seq(Rune) /\ pre(m) = Append(before, word)
      /\ ToLower(FlattenSeq(before)) = LowerText(before)
  BY <1>6, <1>7, <1>8
<1> HIDE DEF before, word, pre
<1>10. FlattenSeq(before) \in Seq(Rune)
  BY <1>9, FlattenType
<1>11. FlattenSeq(pre(m)) = FlattenSeq(before) \o word
  BY <1>9, FlattenAppend
<1>12. ToLower(FlattenSeq(pre(m))) = LowerText(before) \o ToLower(word)
  BY <1>9, <1>10, <1>11, ToLowerConcat
<1>13. LowerText(pre(m)) = LowerText(before) \o ToLower(word)
  BY <1>9, LowerTextAppend
<1> QED BY <1>12, <1>13

-----------------------------------------------------------------------------
(* splitWords.                                                             *)
State == [words : Seq(Word), word : Seq(Plain)]

LEMMA FlushedText ==
    ASSUME NEW s \in State
    PROVE  /\ Flushed(s) \in Seq(Word)
           /\ LowerText(Flushed(s)) = LowerText(s.words) \o ToLower(s.word)
           /\ Flushed(s) = <<>> <=> s.words = <<>> /\ s.word = <<>>
           /\ s.words # <<>> => Flushed(s)[1] = s.words[1]
           /\ s.words = <<>> /\ s.word # <<>> => Flushed(s)[1] = s.word
<1>1. /\ s.words \in Seq(Word) /\ s.word \in Seq(Plain)
      /\ s.words \in Seq(Seq(Rune)) /\ s.word \in Seq(Rune)
  <2>1. Word \subseteq Seq(Rune) /\ Seq(Plain) \subseteq Seq(Rune)
    BY RuneType DEF Word
  <2> QED BY <2>1 DEF State
<1> DEFINE ws == s.words
           w == s.word
<1>2. CASE w = <<>>
  <2>1. ToLower(<<>>) = <<>>
    BY DEF ToLower
  <2>2. LowerText(ws) \o <<>> = LowerText(ws)
    BY <1>1, LowerTextAppend, ConcatEmptySeq
  <2> QED BY <1>1, <1>2, <2>1, <2>2 DEF Flushed
<1>3. CASE w # <<>>
  <2>1. w \in Word /\ Flushed(s) = Append(ws, w)
    BY <1>1, <1>3 DEF Word, Flushed
  <2>2. LowerText(Append(ws, w)) = LowerText(ws) \o ToLower(w)
    BY <1>1, LowerTextAppend
  <2>3. /\ Append(ws, w) \in Seq(Word) /\ Append(ws, w) # <<>>
        /\ \A k \in 1..Len(ws) : Append(ws, w)[k] = ws[k]
        /\ Append(ws, w)[Len(ws) + 1] = w
    BY <1>1, <2>1, AppendProperties
  <2>4. ws # <<>> => 1 \in 1..Len(ws)
    BY <1>1
  <2>5. ws = <<>> => Len(ws) + 1 = 1
    OBVIOUS
  <2> HIDE DEF w, ws
  <2> QED BY <1>3, <2>1, <2>2, <2>3, <2>4, <2>5 DEF w, ws
<1> QED BY <1>2, <1>3

(* The loop of splitWords is what its recursion says.                      *)
LEMMA ScanStep ==
    ASSUME NEW name \in Seq(Rune)
    PROVE  /\ Scan(name)[0] = [words |-> <<>>, word |-> <<>>]
           /\ \A p \in 1..Len(name) :
                 Scan(name)[p] =
                    IF name[p] \in Separator
                    THEN [words |-> Flushed(Scan(name)[p - 1]), word |-> <<>>]
                    ELSE IF p > 1 /\ name[p] \in Capital /\ name[p - 1] \notin Capital
                    THEN [words |-> Flushed(Scan(name)[p - 1]), word |-> <<name[p]>>]
                    ELSE [Scan(name)[p - 1] EXCEPT !.word = Append(@, name[p])]
<1> DEFINE n == Len(name)
           Wide0 == [words : Seq(Seq(Rune)), word : Seq(Rune)]
           Next0(s, p) ==
              IF name[p] \in Separator THEN [words |-> Flushed(s), word |-> <<>>]
              ELSE IF p > 1 /\ name[p] \in Capital /\ name[p - 1] \notin Capital
              THEN [words |-> Flushed(s), word |-> <<name[p]>>]
              ELSE [s EXCEPT !.word = Append(@, name[p])]
           first == [words |-> <<>>, word |-> <<>>]
           step == [p \in 1..n |-> [s \in Wide0 |-> Next0(s, p)]]
<1>1. n \in Nat /\ \A p \in 1..n : name[p] \in Rune
  OBVIOUS
<1>2. first \in Wide0
  BY EmptySeq
<1>3. ASSUME NEW s \in Wide0, NEW p \in 1..n PROVE Next0(s, p) \in Wide0
  <2>1. Flushed(s) \in Seq(Seq(Rune))
    BY DEF Flushed
  <2>2. <<name[p]>> \in Seq(Rune) /\ <<>> \in Seq(Rune) /\ Append(s.word, name[p]) \in Seq(Rune)
    BY <1>1
  <2>3. [s EXCEPT !.word = Append(@, name[p])] \in Wide0
    BY <2>2
  <2> QED BY <2>1, <2>2, <2>3
<1>4. step \in [1..n -> [Wide0 -> Wide0]]
  <2> HIDE DEF Wide0, Next0
  <2> QED BY <1>3
<1>5. PICK f \in [0..n -> Wide0] : f[0] = first /\ \A p \in 1..n : f[p] = step[p][f[p - 1]]
  <2> HIDE DEF Wide0, step, first
  <2>1. Recursions(Wide0, n, first, step) # {}
    BY <1>1, <1>2, <1>4, RecursionExists
  <2> QED BY <2>1 DEF Recursions
<1>6. \A p \in 1..n : f[p] = Next0(f[p - 1], p)
  <2> HIDE DEF Wide0, Next0
  <2> TAKE p \in 1..n
  <2>1. p - 1 \in 0..n
    BY <1>1
  <2>2. f[p - 1] \in Wide0
    BY <2>1
  <2> QED BY <1>5, <2>2
<1> DEFINE Is(g) == g = [p \in 0..n |-> IF p = 0 THEN first ELSE Next0(g[p - 1], p)]
<1>7. Is(f)
  <2>1. \A p \in 0..n : f[p] = IF p = 0 THEN first ELSE Next0(f[p - 1], p)
    <3>1. \A p \in 0..n : p # 0 => p \in 1..n
      BY <1>1
    <3> HIDE DEF Next0, first
    <3> QED BY <1>5, <1>6, <3>1
  <2>2. f = [p \in 0..n |-> f[p]]
    OBVIOUS
  <2> HIDE DEF Next0, first
  <2> QED BY <2>1, <2>2
<1>8. Scan(name) = CHOOSE g : Is(g)
  BY DEF Scan
<1>9. Is(Scan(name))
  <2> HIDE DEF Is
  <2> QED BY <1>7, <1>8
<1>10. Scan(name)[0] = first /\ \A p \in 1..n : Scan(name)[p] = Next0(Scan(name)[p - 1], p)
  <2>1. 0 \in 0..n /\ \A p \in 1..n : p \in 0..n /\ p # 0
    BY <1>1
  <2> HIDE DEF Next0, first
  <2> QED BY <1>9, <2>1
<1> QED BY <1>10

(* The letters and digits of a narrow name stay in their order, in words   *)
(* that begin with its first.                                              *)
Letters(name) ==
    [k \in DOMAIN name |-> IF name[k] \in Separator THEN <<>> ELSE <<Lower(name[k])>>]

StartsWith(s, r) ==
    IF s.words = <<>> THEN s.word # <<>> /\ s.word[1] = r ELSE s.words[1][1] = r

Splits(name, p) ==
    LET s == Scan(name)[p]
    IN  /\ s \in State
        /\ LowerText(s.words) \o ToLower(s.word) = FlattenSeq(SubSeq(Letters(name), 1, p))
        /\ p # 0 => StartsWith(s, name[1])

LEMMA NarrowRunes ==
    ASSUME NEW name \in Seq(Rune), Narrow(name)
    PROVE  /\ Len(name) \in Nat \ {0} /\ DOMAIN name = 1..Len(name)
           /\ name[1] \in Plain /\ name[1] \in Letter
           /\ \A k \in 1..Len(name) : name[k] \in Separator \/ name[k] \in Plain
           /\ Letters(name) \in Seq(Seq(Rune)) /\ Len(Letters(name)) = Len(name)
<1>1. Len(name) \in Nat \ {0} /\ DOMAIN name = 1..Len(name)
      /\ \A k \in 1..Len(name) : name[k] \in Rune
  BY DEF Narrow
<1>2. /\ name[1] \in Letter
      /\ \A k \in 1..Len(name) : name[k] \in Separator \/ name[k] \in Plain
  BY <1>1 DEF Narrow, Plain
<1>3. name[1] \in Plain
  <2>1. 1 \in 1..Len(name)
    BY <1>1
  <2>2. name[1] \notin Separator
    <3>1. (Letter \cup Digit) \cap Separator = {}
      BY NamesAssumption
    <3> QED BY <1>2, <3>1
  <2> QED BY <1>2, <2>1, <2>2
<1> DEFINE t(k) == IF name[k] \in Separator THEN <<>> ELSE <<Lower(name[k])>>
<1>4. \A k \in 1..Len(name) : t(k) \in Seq(Rune)
  <2>1. \A k \in 1..Len(name) : Lower(name[k]) \in Rune
    BY <1>1, RuneType
  <2> QED BY <2>1
<1>5. Letters(name) = [k \in 1..Len(name) |-> t(k)]
  BY <1>1 DEF Letters
<1>6. Letters(name) \in [1..Len(name) -> Seq(Rune)]
  <2> HIDE DEF t
  <2> QED BY <1>4, <1>5
<1>7. Letters(name) \in Seq(Seq(Rune)) /\ Len(Letters(name)) = Len(name)
  BY <1>1, <1>6
<1> QED BY <1>1, <1>2, <1>3, <1>7

LEMMA SplitsStep ==
    ASSUME NEW name \in Seq(Rune), Narrow(name),
           NEW p \in 1..Len(name), Splits(name, p - 1)
    PROVE  Splits(name, p)
<1> DEFINE s == Scan(name)[p - 1]
           t == Scan(name)[p]
           r == name[p]
           text == LowerText(s.words) \o ToLower(s.word)
           before == SubSeq(Letters(name), 1, p - 1)
<1>1. s \in State /\ text = FlattenSeq(before) /\ (p # 1 => StartsWith(s, name[1]))
  BY DEF Splits
<1>2. /\ p \in Nat /\ p \in 1..Len(name) /\ name[1] \in Plain
      /\ r \in Separator \/ r \in Plain
  BY NarrowRunes
<1>3. t = IF r \in Separator THEN [words |-> Flushed(s), word |-> <<>>]
          ELSE IF p > 1 /\ r \in Capital /\ name[p - 1] \notin Capital
          THEN [words |-> Flushed(s), word |-> <<r>>]
          ELSE [s EXCEPT !.word = Append(@, r)]
  BY ScanStep
<1>4. before \in Seq(Seq(Rune)) /\ Letters(name)[p] \in Seq(Rune)
  BY <1>2, NarrowRunes, SubSeqProperties
<1>5. SubSeq(Letters(name), 1, p) = Append(before, Letters(name)[p])
  BY NarrowRunes, PrefixStep
<1>6. FlattenSeq(SubSeq(Letters(name), 1, p)) = text \o Letters(name)[p]
  BY <1>1, <1>4, <1>5, FlattenAppend
<1>7. Letters(name)[p] = IF r \in Separator THEN <<>> ELSE <<Lower(r)>>
  BY NarrowRunes DEF Letters
<1>8. /\ s.words \in Seq(Word) /\ s.word \in Seq(Plain)
      /\ s = [words |-> s.words, word |-> s.word]
  BY <1>1 DEF State
<1>9. s.words \in Seq(Seq(Rune)) /\ s.word \in Seq(Rune)
  <2>1. Word \subseteq Seq(Rune) /\ Seq(Plain) \subseteq Seq(Rune)
    BY RuneType DEF Word
  <2> QED BY <1>8, <2>1
<1>10. text \in Seq(Rune) /\ ToLower(s.word) \in Seq(Rune) /\ LowerText(s.words) \in Seq(Rune)
  <2>1. PICK words \in Seq(Seq(Rune)), word \in Seq(Rune) : words = s.words /\ word = s.word
    BY <1>9
  <2>2. LowerText(words) \in Seq(Rune)
    BY LowerTextAppend
  <2>3. ToLower(word) \in Seq(Rune)
    BY ToLowerType
  <2>4. LowerText(words) \o ToLower(word) \in Seq(Rune)
    BY <2>2, <2>3, ConcatProperties
  <2> QED BY <2>1, <2>2, <2>3, <2>4
<1>11. /\ Flushed(s) \in Seq(Word) /\ LowerText(Flushed(s)) = text
       /\ p # 1 => Flushed(s) # <<>> /\ Flushed(s)[1][1] = name[1]
  <2>1. /\ Flushed(s) \in Seq(Word) /\ LowerText(Flushed(s)) = text
        /\ Flushed(s) = <<>> <=> s.words = <<>> /\ s.word = <<>>
        /\ s.words # <<>> => Flushed(s)[1] = s.words[1]
        /\ s.words = <<>> /\ s.word # <<>> => Flushed(s)[1] = s.word
    BY <1>1, FlushedText
  <2> HIDE DEF s, text
  <2> QED BY <1>1, <2>1 DEF StartsWith
<1> HIDE DEF s, text, before
<1>12. CASE r \in Separator
  <2>1. t = [words |-> Flushed(s), word |-> <<>>] /\ p # 1
    <3>1. r = name[1] => FALSE
      BY <1>2, <1>12, RuneType
    <3> QED BY <1>3, <1>12, <3>1
  <2>2. t.words = Flushed(s) /\ t.word = <<>> /\ t \in State
    BY <1>11, <2>1, EmptySeq DEF State
  <2>3. text \o <<>> = text /\ ToLower(<<>>) = <<>>
    BY <1>10, ConcatEmptySeq DEF ToLower
  <2> HIDE DEF t
  <2>4. StartsWith(t, name[1])
    BY <1>11, <2>1, <2>2 DEF StartsWith
  <2> QED BY <1>6, <1>7, <1>11, <1>12, <2>2, <2>3, <2>4 DEF Splits, t
<1>13. CASE r \notin Separator /\ p > 1 /\ r \in Capital /\ name[p - 1] \notin Capital
  <2>1. t = [words |-> Flushed(s), word |-> <<r>>] /\ r \in Plain /\ p # 1
    BY <1>2, <1>3, <1>13
  <2>2. t.words = Flushed(s) /\ t.word = <<r>> /\ t \in State
    BY <1>11, <2>1 DEF State
  <2>3. ToLower(<<r>>) = <<Lower(r)>>
    BY DEF ToLower
  <2> HIDE DEF t
  <2>4. StartsWith(t, name[1])
    BY <1>11, <2>1, <2>2 DEF StartsWith
  <2> QED BY <1>6, <1>7, <1>11, <1>13, <2>2, <2>3, <2>4 DEF Splits, t
<1>14. CASE r \notin Separator /\ ~(p > 1 /\ r \in Capital /\ name[p - 1] \notin Capital)
  <2>1. t = [s EXCEPT !.word = Append(@, r)] /\ r \in Plain /\ r \in Rune
    BY <1>2, <1>3, <1>14, RuneType
  <2>2. t.words = s.words /\ t.word = Append(s.word, r) /\ t \in State
    <3>1. t = [words |-> s.words, word |-> Append(s.word, r)]
      BY <1>8, <2>1
    <3>2. Append(s.word, r) \in Seq(Plain)
      BY <1>8, <2>1, AppendProperties
    <3> HIDE DEF t
    <3> QED BY <1>8, <3>1, <3>2 DEF State
  <2>3. LowerText(s.words) \o ToLower(Append(s.word, r)) = text \o <<Lower(r)>>
    <3>1. ToLower(Append(s.word, r)) = Append(ToLower(s.word), Lower(r)) /\ Lower(r) \in Rune
      BY <1>9, <2>1, ToLowerAppend, RuneType
    <3> DEFINE a == LowerText(s.words)
               b == ToLower(s.word)
               c == Lower(r)
    <3>2. a \in Seq(Rune) /\ b \in Seq(Rune) /\ c \in Rune
      BY <1>10, <3>1
    <3> HIDE DEF a, b, c
    <3>3. a \o Append(b, c) = (a \o b) \o <<c>>
      BY <3>2
    <3> QED BY <3>1, <3>3 DEF a, b, c, text
  <2> HIDE DEF t
  <2>4. StartsWith(t, name[1])
    <3>1. CASE p = 1
      <4>1. s.words = <<>> /\ s.word = <<>>
        BY <3>1, ScanStep DEF s
      <4> QED BY <3>1, <4>1, <2>2 DEF StartsWith
    <3>2. CASE p # 1
      <4>1. s.word # <<>> => Append(s.word, r)[1] = s.word[1]
        <5>1. s.word # <<>> => 1 \in 1..Len(s.word)
          BY <1>8
        <5> QED BY <1>8, <2>1, <5>1, AppendProperties
      <4>2. Append(s.word, r) # <<>>
        BY <1>8, <2>1, AppendProperties
      <4> QED BY <1>1, <3>2, <4>1, <4>2, <2>2 DEF StartsWith
    <3> QED BY <3>1, <3>2
  <2> QED BY <1>6, <1>7, <1>14, <2>2, <2>3, <2>4 DEF Splits, t
<1> QED BY <1>12, <1>13, <1>14

LEMMA SplitsAll ==
    ASSUME NEW name \in Seq(Rune), Narrow(name)
    PROVE  \A p \in 0..Len(name) : Splits(name, p)
<1> DEFINE bad == {p \in 0..Len(name) : ~Splits(name, p)}
<1>1. Len(name) \in Nat
  OBVIOUS
<1>2. Splits(name, 0)
  <2>1. Scan(name)[0] = [words |-> <<>>, word |-> <<>>]
    BY ScanStep
  <2>2. Scan(name)[0] \in State
    BY <2>1, EmptySeq DEF State
  <2>3. LowerText(<<>>) = <<>> /\ ToLower(<<>>) = <<>>
    <3>1. LowerAll(<<>>) = <<>>
      BY DEF LowerAll
    <3> QED BY <3>1, FlattenEmpty DEF LowerText, ToLower
  <2>4. SubSeq(Letters(name), 1, 0) = <<>>
    BY NarrowRunes, PrefixEnds
  <2>5. <<>> \o <<>> = <<>>
    BY EmptySeq, ConcatEmptySeq
  <2> DEFINE s == Scan(name)[0]
  <2>6. s.words = <<>> /\ s.word = <<>> /\ s \in State
    BY <2>1, <2>2
  <2>7. FlattenSeq(SubSeq(Letters(name), 1, 0)) = <<>>
    BY <2>4, FlattenEmpty
  <2> HIDE DEF s
  <2>8. LowerText(s.words) \o ToLower(s.word) = <<>>
    BY <2>3, <2>5, <2>6
  <2> QED BY <2>6, <2>7, <2>8 DEF Splits, s
<1>3. SUFFICES ASSUME bad # {} PROVE FALSE
  OBVIOUS
<1>4. PICK p \in bad : \A k \in bad : p <= k
  <2>1. bad \in SUBSET Nat
    BY <1>1
  <2> QED BY <1>3, <2>1, LeastOf
<1>5. p \in 1..Len(name) /\ p - 1 \in 0..Len(name) /\ ~(p <= p - 1)
  BY <1>1, <1>2
<1>6. Splits(name, p - 1)
  BY <1>4, <1>5
<1> QED BY <1>5, <1>6, SplitsStep

(* splitWords loses nothing but separators and reorders nothing.           *)
LEMMA SplitText ==
    ASSUME NEW name \in Seq(Rune), Narrow(name)
    PROVE  /\ splitWords(name) \in Seq(Word) /\ splitWords(name) # <<>>
           /\ splitWords(name)[1][1] = name[1]
           /\ LowerText(splitWords(name)) = Bare(name)
<1> DEFINE n == Len(name)
           s == Scan(name)[n]
<1>1. n \in Nat \ {0}
  BY NarrowRunes
<1>2. Splits(name, n)
  BY <1>1, SplitsAll
<1>3. SubSeq(Letters(name), 1, n) = Letters(name)
  BY NarrowRunes, PrefixEnds
<1>4. /\ s \in State /\ StartsWith(s, name[1])
      /\ LowerText(s.words) \o ToLower(s.word) = FlattenSeq(Letters(name))
  BY <1>1, <1>2, <1>3 DEF Splits
<1>5. splitWords(name) = Flushed(s) /\ Bare(name) = FlattenSeq(Letters(name))
  BY DEF splitWords, Bare, Letters
<1> HIDE DEF s
<1>6. /\ Flushed(s) \in Seq(Word)
      /\ LowerText(Flushed(s)) = LowerText(s.words) \o ToLower(s.word)
      /\ Flushed(s) = <<>> <=> s.words = <<>> /\ s.word = <<>>
      /\ s.words # <<>> => Flushed(s)[1] = s.words[1]
      /\ s.words = <<>> /\ s.word # <<>> => Flushed(s)[1] = s.word
  BY <1>4, FlushedText
<1> QED BY <1>4, <1>5, <1>6 DEF StartsWith

-----------------------------------------------------------------------------
(* joinWords.                                                              *)
LEMMA LowWord ==
    ASSUME NEW w \in Word
    PROVE  /\ ToLower(w) \in Seq((Small \cup Digit) \ Wide) /\ ToLower(w) # <<>>
           /\ ToLower(w)[1] = Lower(w[1]) /\ w \in Seq(Rune) /\ w[1] \in Plain
<1>1. w \in Seq(Plain) /\ w \in Seq(Rune) /\ Len(w) \in Nat \ {0} /\ DOMAIN w = 1..Len(w)
  BY RuneType DEF Word
<1>2. \A k \in 1..Len(w) : w[k] \in Plain /\ Lower(w[k]) \in (Small \cup Digit) \ Wide
  BY <1>1, RuneType
<1>3. ToLower(w) = [k \in 1..Len(w) |-> Lower(w[k])]
  BY <1>1 DEF ToLower
<1>4. ToLower(w) \in [1..Len(w) -> (Small \cup Digit) \ Wide]
  BY <1>2, <1>3
<1>5. ToLower(w) \in Seq((Small \cup Digit) \ Wide) /\ Len(ToLower(w)) = Len(w)
  BY <1>1, <1>4
<1>6. 1 \in 1..Len(w)
  BY <1>1
<1> QED BY <1>1, <1>2, <1>3, <1>5, <1>6

LEMMA CapitalizedWord ==
    ASSUME NEW w \in Seq((Small \cup Digit) \ Wide), w # <<>>
    PROVE  /\ Capitalized(w) \in Seq(Letter \cup Digit) /\ Capitalized(w) # <<>>
           /\ ToLower(Capitalized(w)) = w
           /\ w[1] \in Small => Capitalized(w)[1] \in Capital
<1> DEFINE x == IF w[1] \in Small THEN Upper[w[1]] ELSE w[1]
           rest == Tail(w)
           n == Len(w)
<1>1. n \in Nat \ {0} /\ 1 \in 1..n /\ \A k \in 1..n : w[k] \in (Small \cup Digit) \ Wide
  OBVIOUS
<1>2. Capitalized(w) = <<x>> \o rest
  BY <1>1 DEF Capitalized
<1>3. /\ rest \in Seq(Letter \cup Digit) /\ Len(rest) = n - 1
      /\ \A k \in 1..(n - 1) : rest[k] = w[k + 1]
  <2>1. \A k \in 1..n : w[k] \in Letter \cup Digit
    BY <1>1 DEF Letter
  <2>2. w \in Seq(Letter \cup Digit)
    BY <2>1
  <2> QED BY <1>1, <2>2
<1>4. x \in Letter \cup Digit /\ (w[1] \in Small => x \in Capital) /\ Lower(x) = w[1]
  <2>1. w[1] \in Small \cup Digit
    BY <1>1
  <2>2. \A d \in Digit : d \notin Capital
    BY NamesAssumption DEF Letter
  <2> QED BY <2>1, <2>2, LowerRune DEF Letter
<1> DEFINE s == Capitalized(w)
<1> HIDE DEF x, rest, n
<1>5. /\ s \in Seq(Letter \cup Digit) /\ Len(s) = n /\ s[1] = x
      /\ \A k \in 1..(n - 1) : s[k + 1] = rest[k]
  <2>1. /\ <<x>> \in Seq(Letter \cup Digit) /\ Len(<<x>>) = 1 /\ <<x>>[1] = x
    BY <1>4
  <2>2. /\ s \in Seq(Letter \cup Digit) /\ Len(s) = 1 + Len(rest)
        /\ \A k \in 1..(1 + Len(rest)) : s[k] = IF k <= 1 THEN <<x>>[k] ELSE rest[k - 1]
    BY <1>2, <1>3, <2>1, ConcatProperties
  <2>3. Len(s) = n
    BY <1>1, <1>3, <2>2
  <2>4. s[1] = x
    BY <1>1, <1>3, <2>1, <2>2
  <2>5. ASSUME NEW k \in 1..(n - 1) PROVE s[k + 1] = rest[k]
    <3>1. k + 1 \in 1..(1 + Len(rest)) /\ ~(k + 1 <= 1) /\ k + 1 - 1 = k
      BY <1>1, <1>3
    <3> QED BY <2>2, <3>1
  <2> QED BY <2>2, <2>3, <2>4, <2>5
<1> HIDE DEF s
<1>6. s \in Seq(Rune) /\ w \in Seq(Rune)
  <2>1. Letter \cup Digit \subseteq Rune /\ (Small \cup Digit) \ Wide \subseteq Rune
    BY DEF Rune, Letter
  <2> QED BY <1>5, <2>1
<1>7. /\ ToLower(s) \in Seq(Rune) /\ Len(ToLower(s)) = n
      /\ \A k \in 1..n : ToLower(s)[k] = Lower(s[k])
  BY <1>5, <1>6, ToLowerType
<1>8. ASSUME NEW k \in 1..n PROVE ToLower(s)[k] = w[k]
  <2>1. CASE k = 1
    BY <1>4, <1>5, <1>7, <2>1
  <2>2. CASE k # 1
    <3>1. k - 1 \in 1..(n - 1) /\ k - 1 + 1 = k
      BY <1>1, <2>2
    <3>2. s[k] = w[k]
      BY <1>3, <1>5, <3>1
    <3>3. w[k] \in Small \cup Digit
      BY <1>1
    <3>4. Lower(w[k]) = w[k]
      BY <3>3, LowerRune, NamesAssumption DEF Letter
    <3> QED BY <1>7, <3>2, <3>4
  <2> QED BY <2>1, <2>2
<1>9. ToLower(s) = w
  BY <1>6, <1>7, <1>8, SeqEqual DEF n
<1>10. s # <<>>
  BY <1>1, <1>5
<1> QED BY <1>4, <1>5, <1>9, <1>10 DEF s

LEMMA PartText ==
    ASSUME NEW words \in Seq(Word), NEW k \in 1..Len(words), NEW exported \in BOOLEAN
    PROVE  LET part == Part(words, k, exported)
           IN  /\ part \in Seq(Letter \cup Digit) /\ part # <<>>
               /\ ToLower(part) = ToLower(words[k])
               /\ exported /\ words[k][1] \in Letter => part[1] \in Capital
               /\ ~exported /\ k = 1 => part[1] = Lower(words[k][1])
<1> DEFINE w == words[k]
           lower == ToLower(w)
<1>1. w \in Word
  OBVIOUS
<1>2. /\ lower \in Seq((Small \cup Digit) \ Wide) /\ lower # <<>>
      /\ lower[1] = Lower(w[1]) /\ w \in Seq(Rune) /\ w[1] \in Plain
  BY <1>1, LowWord
<1>3. w[1] \in Letter => lower[1] \in Small
  BY <1>2, LowerRune DEF Letter
<1>4. ToLower(lower) = lower
  <2>1. lower \in Seq(Rune) /\ Len(lower) = Len(w) /\ \A j \in 1..Len(w) : lower[j] = Lower(w[j])
    BY <1>2, ToLowerType
  <2> HIDE DEF lower
  <2>2. /\ ToLower(lower) \in Seq(Rune) /\ Len(ToLower(lower)) = Len(lower)
        /\ \A j \in 1..Len(lower) : ToLower(lower)[j] = Lower(lower[j])
    BY <2>1, ToLowerType
  <2>3. \A j \in 1..Len(w) : w[j] \in Rune
    BY <1>2
  <2>4. \A j \in 1..Len(lower) : ToLower(lower)[j] = lower[j]
    BY <2>1, <2>2, <2>3, RuneType
  <2> QED BY <2>1, <2>2, <2>4, SeqEqual
<1> HIDE DEF lower
<1>5. Part(words, k, exported) =
         IF k = 1 /\ ~exported THEN lower
         ELSE IF lower \in DOMAIN Initialisms THEN Initialisms[lower] ELSE Capitalized(lower)
  BY DEF Part, lower
<1>6. lower \in Seq(Letter \cup Digit)
  <2>1. (Small \cup Digit) \ Wide \subseteq Letter \cup Digit
    BY DEF Letter
  <2> QED BY <1>2, <2>1
<1>7. lower \in DOMAIN Initialisms =>
         /\ Initialisms[lower] \in Seq(Letter \cup Digit) /\ Initialisms[lower] # <<>>
         /\ ToLower(Initialisms[lower]) = lower /\ Initialisms[lower][1] \in Capital
  <2> SUFFICES ASSUME lower \in DOMAIN Initialisms
               PROVE  /\ Initialisms[lower] \in Seq(Letter \cup Digit)
                      /\ Initialisms[lower] # <<>>
                      /\ ToLower(Initialisms[lower]) = lower
                      /\ Initialisms[lower][1] \in Capital
    OBVIOUS
  <2>1. /\ Initialisms[lower] \in Seq(Letter \cup Digit)
        /\ ToLower(Initialisms[lower]) = lower /\ Initialisms[lower][1] \in Capital
    BY NamesAssumption
  <2>2. ToLower(<<>>) = <<>>
    BY DEF ToLower
  <2> QED BY <1>2, <2>1, <2>2
<1>8. /\ Capitalized(lower) \in Seq(Letter \cup Digit) /\ Capitalized(lower) # <<>>
      /\ ToLower(Capitalized(lower)) = lower
      /\ lower[1] \in Small => Capitalized(lower)[1] \in Capital
  BY <1>2, CapitalizedWord
<1> QED BY <1>2, <1>3, <1>4, <1>5, <1>6, <1>7, <1>8 DEF lower

(* A narrow name's Go name has its letters and digits, in order, and       *)
(* begins in the case that was asked for.                                  *)
LEMMA GoName ==
    ASSUME NEW name \in Name, Narrow(name), NEW exported \in BOOLEAN
    PROVE  LET out == joinWords(splitWords(name), exported)
           IN  /\ out \in Seq(Letter \cup Digit) /\ out # <<>>
               /\ ToLower(out) = Bare(name)
               /\ exported => out[1] \in Capital
               /\ ~exported => out[1] = Lower(name[1])
<1> DEFINE words == splitWords(name)
           n == Len(words)
           parts == [k \in DOMAIN words |-> Part(words, k, exported)]
           out == FlattenSeq(parts)
<1>1. name \in Seq(Rune)
  BY NamesAssumption
<1>2. /\ words \in Seq(Word) /\ words # <<>> /\ words[1][1] = name[1]
      /\ LowerText(words) = Bare(name)
  BY <1>1, SplitText
<1>3. name[1] \in Letter
  BY <1>1, NarrowRunes
<1> HIDE DEF words
<1>4. n \in Nat \ {0} /\ DOMAIN words = 1..n /\ 1 \in 1..n
  BY <1>2
<1>5. \A k \in 1..n :
         /\ Part(words, k, exported) \in Seq(Letter \cup Digit)
         /\ Part(words, k, exported) # <<>>
         /\ ToLower(Part(words, k, exported)) = ToLower(words[k])
  BY <1>2, PartText
<1>6. /\ exported => Part(words, 1, exported)[1] \in Capital
      /\ ~exported => Part(words, 1, exported)[1] = Lower(name[1])
  BY <1>2, <1>3, <1>4, PartText
<1>7. /\ parts \in Seq(Seq(Letter \cup Digit)) /\ Len(parts) = n
      /\ \A k \in 1..n : parts[k] = Part(words, k, exported)
  <2>1. parts = [k \in 1..n |-> Part(words, k, exported)]
    BY <1>4
  <2>2. parts \in [1..n -> Seq(Letter \cup Digit)]
    BY <1>5, <2>1
  <2> QED BY <1>4, <2>1, <2>2
<1> HIDE DEF parts, n
<1>8. parts # <<>> /\ parts[1] # <<>>
  BY <1>4, <1>5, <1>7
<1>9. out \in Seq(Letter \cup Digit) /\ out # <<>> /\ out[1] = parts[1][1]
  BY <1>7, <1>8, FlattenType, FlattenFirst
<1>10. out[1] \in Letter
  BY <1>3, <1>4, <1>6, <1>7, <1>9, LowerRune DEF Letter
<1>11. joinWords(words, exported) = out
  BY <1>9, <1>10 DEF joinWords, parts
<1>12. ToLower(out) = Bare(name)
  <2>1. Letter \cup Digit \subseteq Rune /\ Word \subseteq Seq(Rune)
    <3>1. Seq(Plain) \subseteq Seq(Rune)
      BY RuneType
    <3> QED BY <3>1 DEF Rune, Word
  <2>2. parts \in Seq(Seq(Rune)) /\ words \in Seq(Seq(Rune))
    <3>1. Seq(Letter \cup Digit) \subseteq Seq(Rune)
      BY <2>1
    <3> QED BY <1>2, <1>7, <2>1, <3>1
  <2>3. LowerAll(parts) = LowerAll(words)
    <3>1. /\ LowerAll(parts) \in Seq(Seq(Rune)) /\ LowerAll(words) \in Seq(Seq(Rune))
          /\ Len(LowerAll(parts)) = n /\ Len(LowerAll(words)) = n
          /\ \A k \in 1..n : LowerAll(parts)[k] = ToLower(parts[k])
          /\ \A k \in 1..n : LowerAll(words)[k] = ToLower(words[k])
      BY <1>7, <2>2, LowerAllType DEF n
    <3>2. \A k \in 1..n : LowerAll(parts)[k] = LowerAll(words)[k]
      BY <1>5, <1>7, <3>1
    <3> QED BY <3>1, <3>2, SeqEqual
  <2>4. ToLower(out) = LowerText(parts)
    BY <2>2, LowerFlatten
  <2> QED BY <1>2, <2>3, <2>4 DEF LowerText
<1> HIDE DEF out
<1> QED BY <1>4, <1>6, <1>7, <1>9, <1>11, <1>12 DEF words

-----------------------------------------------------------------------------
(* The types a package spells and the paths they record.                   *)
Params == UNION {ParamsOf(q) : q \in Queries}

LEMMA PackageTypes ==
    ASSUME pkg \in Package
    PROVE  /\ \A q \in Queries : q \in Query
           /\ \A f \in AllFields : f \in Field
           /\ Params \subseteq AllFields
<1>1. \A q \in Queries : q \in Query
  BY DEF Queries, Range, Package
<1>2. \A q \in Queries : \A f \in ParamsOf(q) \cup ColumnsOf(q) : f \in Field
  BY <1>1 DEF ParamsOf, ColumnsOf, Range, Query
<1> QED BY <1>1, <1>2 DEF AllFields, Params

LEMMA StandardNames ==
    /\ \A p \in Standard : p \in Path /\ LastElement[p] \in Range(LastElement)
    /\ LastElement["context"] = "context" /\ LastElement["fmt"] = "fmt"
    /\ LastElement["strings"] = "strings" /\ LastElement["time"] = "time"
    /\ LastElement["database/sql"] = "sql"
    /\ \A p \in Standard : Declares[p] = LastElement[p]
    /\ \A p \in Path : Declares[p] # "" /\ LastElement[p] \in Range(LastElement)
    /\ Standard = {"context", "database/sql", "fmt", "strings", "time"}
BY RenderingAssumption DEF Range

Packages == Range(LastElement) \cup {"sql"}

LEMMA GoTypes ==
    ASSUME NEW t \in Type, NEW nullAs
    PROVE  /\ goType(t, nullAs) \in Expression
           /\ goType(t, nullAs) = [goType(t, nullAs) EXCEPT !.list = t.slice]
           /\ goType(t, nullAs).list = t.slice
           /\ [goType(t, nullAs) EXCEPT !.list = FALSE] \in Expression
           /\ Imported(t, nullAs) \subseteq Path
<1> DEFINE s == scalarType(t, nullAs)
<1>1. /\ t.kind \in Kind /\ t.slice \in BOOLEAN /\ t.override \in Override
      /\ "time" \in Packages /\ "sql" \in Packages
  BY StandardNames DEF Type, Packages
<1>2. s \in Expression
  <2>1. CASE t.override # None
    <3>1. /\ t.override.stars \in Nat
          /\ t.override.form = "qualified" => t.override.path \in Path
      BY <1>1, <2>1 DEF Override
    <3>2. renderOverride(t.override) \in Expression
      BY <3>1, StandardNames DEF renderOverride, Spell, Expression
    <3> QED BY <2>1, <3>2 DEF scalarType
  <2>2. CASE t.override = None
    <3>1. plainType(t.kind) \in Expression /\ sqlNullType(t.kind) \in Expression
      BY <1>1 DEF plainType, sqlNullType, Spell, Expression, Packages
    <3>2. ASSUME NEW e \in Expression PROVE Pointer(e) \in Expression
      <4>1. /\ Pointer(e) = [list |-> e.list, stars |-> e.stars + 1,
                              package |-> e.package, type |-> e.type]
            /\ e.stars + 1 \in Nat
        <5>1. e.stars \in Nat /\ DOMAIN e = {"list", "stars", "package", "type"}
          BY DEF Expression
        <5>2. e = [list |-> e.list, stars |-> e.stars, package |-> e.package, type |-> e.type]
          BY DEF Expression
        <5> QED BY <5>1, <5>2 DEF Pointer
      <4>2. /\ e.list \in BOOLEAN /\ e.package \in {""} \cup Range(LastElement) \cup {"sql"}
            /\ e.type \in Kind \cup {"Time", "T", "override"}
        BY DEF Expression
      <4> DEFINE l == e.list
                 n == e.stars + 1
                 p == e.package
                 y == e.type
      <4> HIDE DEF l, n, p, y
      <4>3. ASSUME l \in BOOLEAN, n \in Nat, p \in {""} \cup Range(LastElement) \cup {"sql"},
                   y \in Kind \cup {"Time", "T", "override"}
            PROVE  [list |-> l, stars |-> n, package |-> p, type |-> y] \in Expression
        BY <4>3 DEF Expression
      <4> QED BY <4>1, <4>2, <4>3 DEF l, n, p, y
    <3>3. Pointer(plainType(t.kind)) \in Expression
      BY <3>1, <3>2
    <3> QED BY <2>2, <3>1, <3>3 DEF scalarType
  <2> QED BY <2>1, <2>2
<1>3. goType(t, nullAs) = [s EXCEPT !.list = t.slice]
  BY DEF goType
<1> HIDE DEF s
<1>4. /\ goType(t, nullAs) \in Expression /\ goType(t, nullAs).list = t.slice
      /\ [goType(t, nullAs) EXCEPT !.list = FALSE] \in Expression
  BY <1>1, <1>2, <1>3 DEF Expression
<1>5. goType(t, nullAs) = [goType(t, nullAs) EXCEPT !.list = t.slice]
  BY <1>4 DEF Expression
<1>6. Imported(t, nullAs) \subseteq Path
  BY <1>1, RenderingAssumption DEF Imported, Override
<1> QED BY <1>4, <1>5, <1>6

-----------------------------------------------------------------------------
(* Every variable keeps its type.                                          *)
LEMMA TypesOfFields ==
    ASSUME pkg \in Package, NEW fields \in SUBSET AllFields
    PROVE  /\ ImportedBy(fields) \subseteq Path
           /\ SpelledBy(fields) \subseteq Packages
<1>1. ASSUME NEW f \in fields
      PROVE  /\ Imported(f.type, pkg.nullAs) \subseteq Path
             /\ goType(f.type, pkg.nullAs).package \in {""} \cup Packages
  <2>1. f.type \in Type
    BY PackageTypes DEF Field
  <2> QED BY <2>1, GoTypes DEF Expression, Packages
<1> QED BY <1>1 DEF ImportedBy, SpelledBy

LEMMA WriteType ==
    ASSUME TypeOK, NEW file \in SourceFile, NEW paths \in SUBSET Path,
           NEW packages \in SUBSET Packages, Write(file, paths, packages)
    PROVE  /\ imports' \in [SourceFile -> SUBSET Path]
           /\ spelled' \in [SourceFile -> SUBSET Packages]
BY DEF Write, TypeOK, Packages

LEMMA Binders ==
    ASSUME NEW f
    PROVE  binder(f).value \in DOMAIN Takes \cup {""} /\ binder(f).element \in DOMAIN Takes \cup {""}
BY DEF binder, Takes

LEMMA FormsType ==
    /\ Forms \subseteq DOMAIN Takes
    /\ \A f \in Params : /\ binder(f).value # "" => binder(f).value \in Forms
                         /\ binder(f).element # "" => binder(f).element \in Forms
<1> DEFINE form == [f \in Params |-> {binder(f).value, binder(f).element}]
<1>1. Forms = (UNION {form[f] : f \in Params}) \ {""}
  BY DEF Forms, Params
<1>2. \A f \in Params : form[f] \subseteq DOMAIN Takes \cup {""}
  BY Binders
<1>3. \A f \in Params : binder(f).value \in form[f] /\ binder(f).element \in form[f]
  OBVIOUS
<1> HIDE DEF form
<1>4. ASSUME NEW x \in Forms PROVE x \in DOMAIN Takes
  <2>1. PICK f \in Params : x \in form[f]
    BY <1>1
  <2> QED BY <1>1, <1>2, <2>1
<1>5. ASSUME NEW f \in Params, NEW x \in form[f], x # "" PROVE x \in Forms
  BY <1>1, <1>5
<1> QED BY <1>3, <1>4, <1>5

LEMMA TypeInit == Init => TypeOK
<1> SUFFICES ASSUME Init PROVE TypeOK
  OBVIOUS
<1>1. pkg \in Package
  BY RenderingAssumption DEF Init
<1>2. Len(pkg.queries) \in Nat
  BY <1>1 DEF Package
<1> QED BY <1>1, <1>2 DEF Init, TypeOK, SourceFile, Takes

LEMMA TypeStep == TypeOK /\ [Next]_vars => TypeOK'
<1> SUFFICES ASSUME TypeOK, [Next]_vars PROVE TypeOK'
  OBVIOUS
<1>0. /\ pkg \in Package /\ Len(pkg.queries) \in Nat
      /\ {"context", "database/sql", "fmt", "strings", "time"} \subseteq Path
      /\ {"context", "sql", "fmt", "strings", "time"} \subseteq Packages
      /\ {"db", "types", "querier", "queries"} \subseteq SourceFile
  <2>1. pkg \in Package
    BY DEF TypeOK
  <2>2. Len(pkg.queries) \in Nat
    BY <2>1 DEF Package
  <2>3. /\ {"context", "database/sql", "fmt", "strings", "time"} \subseteq Path
        /\ {"context", "sql", "fmt", "strings", "time"} \subseteq Packages
    BY StandardNames DEF Packages
  <2> QED BY <2>1, <2>2, <2>3 DEF SourceFile
<1>a. ASSUME NEW q PROVE Signature(q).paths \subseteq Path /\ Signature(q).packages \subseteq Packages
  BY <1>0 DEF Signature
<1>b. ImportedBy(AllFields) \subseteq Path /\ SpelledBy(AllFields) \subseteq Packages
  BY <1>0, TypesOfFields
<1>1. CASE EmitDB
  <2>1. imports' \in [SourceFile -> SUBSET Path] /\ spelled' \in [SourceFile -> SUBSET Packages]
    <3>1. PICK S \in {{}, {"strings"}} :
             Write("db", {"context", "database/sql", "fmt"} \cup S, {"context", "sql", "fmt"} \cup S)
      BY <1>1 DEF EmitDB
    <3>2. /\ {"context", "database/sql", "fmt"} \cup S \subseteq Path
          /\ {"context", "sql", "fmt"} \cup S \subseteq Packages
      BY <1>0
    <3> QED BY <1>0, <3>1, <3>2, WriteType
  <2> QED BY <1>1, <2>1 DEF EmitDB, TypeOK, Packages
<1>2. CASE RefuseOverride \/ CannotParseTypes \/ CannotParseQueries \/ Done
  BY <1>2 DEF RefuseOverride, CannotParseTypes, CannotParseQueries, Done, Stop, TypeOK
<1>3. CASE EmitTypes
  <2>1. imports' \in [SourceFile -> SUBSET Path] /\ spelled' \in [SourceFile -> SUBSET Packages]
    BY <1>0, <1>b, <1>3, WriteType DEF EmitTypes
  <2> QED BY <1>3, <2>1 DEF EmitTypes, TypeOK, Packages
<1>4. CASE EmitQuerier
  <2>1. imports' \in [SourceFile -> SUBSET Path] /\ spelled' \in [SourceFile -> SUBSET Packages]
    <3>1. /\ UNION {Signature(q).paths : q \in Queries} \subseteq Path
          /\ UNION {Signature(q).packages : q \in Queries} \subseteq Packages
      BY <1>a
    <3> QED BY <1>0, <1>4, <3>1, WriteType DEF EmitQuerier
  <2> QED BY <1>4, <2>1 DEF EmitQuerier, TypeOK, Packages
<1>5. CASE WriteConstructor
  <2>1. imports' \in [SourceFile -> SUBSET Path] /\ spelled' \in [SourceFile -> SUBSET Packages]
    <3>1. PICK S \in {{}, {"strings"}} : Write("queries", {"context"} \cup S, S)
      BY <1>5 DEF WriteConstructor
    <3>2. {"context"} \cup S \subseteq Path /\ S \subseteq Packages
      BY <1>0
    <3> QED BY <1>0, <3>1, <3>2, WriteType
  <2> QED BY <1>5, <2>1 DEF WriteConstructor, TypeOK, Packages
<1>6. CASE WriteTimeHelpers
  <2>1. imports' \in [SourceFile -> SUBSET Path] /\ spelled' \in [SourceFile -> SUBSET Packages]
    <3>1. CASE Forms = {}
      BY <1>6, <3>1 DEF WriteTimeHelpers, TypeOK, Packages
    <3>2. CASE Forms # {}
      <4>1. PICK S \in {{}, {"database/sql"}}, T \in {{}, {"sql"}} :
               Write("queries", {"time"} \cup S, {"time"} \cup T)
        BY <1>6, <3>2 DEF WriteTimeHelpers
      <4>2. {"time"} \cup S \subseteq Path /\ {"time"} \cup T \subseteq Packages
        BY <1>0
      <4> QED BY <1>0, <4>1, <4>2, WriteType
    <3> QED BY <3>1, <3>2
  <2>2. Forms \subseteq DOMAIN Takes
    BY FormsType
  <2>3. helpers' \subseteq DOMAIN Takes
    BY <1>6, <2>2 DEF WriteTimeHelpers, Takes
  <2> QED BY <1>6, <2>1, <2>3 DEF WriteTimeHelpers, TypeOK, Packages
<1>7. CASE WriteMethod
  <2> DEFINE q == pkg.queries[written + 1]
  <2>1. imports' \in [SourceFile -> SUBSET Path] /\ spelled' \in [SourceFile -> SUBSET Packages]
    <3>1. PICK S \in {{}, {"strings"}} :
             Write("queries", Signature(q).paths \cup S, Signature(q).packages \cup S)
      BY <1>7 DEF WriteMethod
    <3>2. Signature(q).paths \cup S \subseteq Path /\ Signature(q).packages \cup S \subseteq Packages
      BY <1>0, <1>a
    <3> QED BY <1>0, <3>1, <3>2, WriteType
  <2>2. written + 1 \in 1..Len(pkg.queries)
    <3>1. written \in 0..Len(pkg.queries) /\ written < Len(pkg.queries)
      BY <1>7 DEF WriteMethod, TypeOK
    <3> QED BY <1>0, <3>1
  <2>3. q \in Queries
    BY <1>0, <2>2 DEF Queries, Range, Package
  <2>4. ASSUME NEW f \in ParamsOf(q)
        PROVE  Bound(f).helper \in DOMAIN Takes \cup {""} /\ Bound(f).given \in Expression
    <3>1. f.type \in Type
      BY <1>0, <2>3, PackageTypes DEF AllFields, Field
    <3> QED BY <3>1, GoTypes, Binders DEF Bound
  <2>5. \A c \in calls' : c.helper \in DOMAIN Takes \cup {""} /\ c.given \in Expression
    BY <1>7, <2>4 DEF WriteMethod, TypeOK
  <2>6. written' \in 0..Len(pkg.queries) /\ UNCHANGED <<pkg, pc, helpers>>
    BY <1>0, <1>7, <2>2 DEF WriteMethod
  <2> QED BY <2>1, <2>5, <2>6 DEF TypeOK, Packages
<1>8. CASE WriteShapeAssertions
  <2>1. imports' \in [SourceFile -> SUBSET Path] /\ spelled' \in [SourceFile -> SUBSET Packages]
    BY <1>0, <1>b, <1>8, WriteType DEF WriteShapeAssertions
  <2> QED BY <1>8, <2>1 DEF WriteShapeAssertions, TypeOK, Packages
<1>9. CASE UNCHANGED vars
  BY <1>9 DEF vars, TypeOK
<1> QED BY <1>1, <1>2, <1>3, <1>4, <1>5, <1>6, <1>7, <1>8, <1>9 DEF Next

(* Every variable keeps its type, the paths and packages of each file      *)
(* among those it can be told.                                             *)
THEOREM RenderingTyped == Spec => []TypeOK
BY TypeInit, TypeStep, PTL DEF Spec

-----------------------------------------------------------------------------
(* What the files of a well named package import is what they refer to.    *)
OverridePaths ==
    {f.type.override.path : f \in {f \in AllFields : f.type.override.form = "qualified"}}

Known == Standard \cup OverridePaths

Matched(paths, packages) == paths \subseteq Known /\ {Declares[p] : p \in paths} = packages

LEMMA MatchedUnion ==
    ASSUME NEW P, NEW Q, NEW R, NEW S, Matched(P, Q), Matched(R, S)
    PROVE  Matched(P \cup R, Q \cup S)
BY DEF Matched

LEMMA StandardMatch ==
    /\ Matched({}, {}) /\ Matched({"context"}, {"context"}) /\ Matched({"fmt"}, {"fmt"})
    /\ Matched({"strings"}, {"strings"}) /\ Matched({"time"}, {"time"})
    /\ Matched({"database/sql"}, {"sql"})
BY StandardNames DEF Matched, Known

(* No two paths of a well named package declare one name.                  *)
LEMMA KnownDiffer ==
    ASSUME WellNamed, NEW p \in Known, NEW r \in Known, Declares[p] = Declares[r]
    PROVE  p = r
<1>1. \A a, b \in OverridePaths :
         /\ Declares[a] = LastElement[a]
         /\ Declares[a] = Declares[b] => a = b
         /\ a \in Standard \/ \A std \in Standard : Declares[a] # Declares[std]
  BY DEF WellNamed, OverridePaths
<1>2. \A a, b \in Standard : Declares[a] = Declares[b] => a = b
  <2>1. /\ Declares["context"] = "context" /\ Declares["fmt"] = "fmt"
        /\ Declares["strings"] = "strings" /\ Declares["time"] = "time"
        /\ Declares["database/sql"] = "sql"
        /\ Standard = {"context", "database/sql", "fmt", "strings", "time"}
    BY StandardNames
  <2> QED BY <2>1
<1> QED BY <1>1, <1>2 DEF Known

LEMMA FieldMatch ==
    ASSUME pkg \in Package, WellNamed, NEW f \in AllFields
    PROVE  Matched(Imported(f.type, pkg.nullAs), {goType(f.type, pkg.nullAs).package} \ {""})
<1> DEFINE t == f.type
           n == pkg.nullAs
<1>1. t \in Type /\ t.kind \in Kind /\ t.override \in Override
  BY PackageTypes DEF Field, Type
<1>2. goType(t, n).package = scalarType(t, n).package
  <2>1. scalarType(t, n) = [scalarType(t, n) EXCEPT !.list = scalarType(t, n).list]
        /\ "package" \in DOMAIN scalarType(t, n)
    BY DEF scalarType, renderOverride, plainType, sqlNullType, Pointer, Spell
  <2> QED BY <2>1 DEF goType
<1>3. CASE t.override # None
  <2>1. CASE t.override.form = "qualified"
    <3> DEFINE p == t.override.path
    <3>1. p \in OverridePaths /\ p \in Path
      BY <1>1, <2>1, <1>3 DEF OverridePaths, Override
    <3>2. Declares[p] = LastElement[p] /\ Declares[p] # ""
      BY <3>1, StandardNames DEF WellNamed, OverridePaths
    <3>3. Imported(t, n) = {p} /\ scalarType(t, n).package = LastElement[p]
      BY <1>3, <2>1 DEF Imported, scalarType, renderOverride, Spell
    <3> QED BY <1>2, <3>1, <3>2, <3>3 DEF Matched, Known
  <2>2. CASE t.override.form # "qualified"
    <3>1. Imported(t, n) = {} /\ scalarType(t, n).package = ""
      BY <1>3, <2>2 DEF Imported, scalarType, renderOverride, Spell
    <3> QED BY <1>2, <3>1, StandardMatch
  <2> QED BY <2>1, <2>2
<1>4. CASE t.override = None
  <2>1. CASE t.kind # "bytes" /\ t.nullable /\ n = "sql"
    <3>1. Imported(t, n) = {"database/sql"} /\ scalarType(t, n).package = "sql"
      BY <1>4, <2>1 DEF Imported, scalarType, sqlNullType, Spell
    <3>2. {"sql"} \ {""} = {"sql"}
      OBVIOUS
    <3> QED BY <1>2, <3>1, <3>2, StandardMatch
  <2>2. CASE ~(t.kind # "bytes" /\ t.nullable /\ n = "sql") /\ t.kind = "time"
    <3>1. Imported(t, n) = {"time"} /\ scalarType(t, n).package = "time"
      BY <1>4, <2>2 DEF Imported, scalarType, plainType, Pointer, Spell
    <3>2. {"time"} \ {""} = {"time"}
      OBVIOUS
    <3> QED BY <1>2, <3>1, <3>2, StandardMatch
  <2>3. CASE ~(t.kind # "bytes" /\ t.nullable /\ n = "sql") /\ t.kind # "time"
    <3>1. Imported(t, n) = {} /\ scalarType(t, n).package = ""
      BY <1>4, <2>3 DEF Imported, scalarType, plainType, Pointer, Spell
    <3> QED BY <1>2, <3>1, StandardMatch
  <2> QED BY <2>1, <2>2, <2>3
<1> QED BY <1>3, <1>4

LEMMA FieldsMatch ==
    ASSUME pkg \in Package, WellNamed
    PROVE  Matched(ImportedBy(AllFields), SpelledBy(AllFields))
<1> DEFINE imp == [f \in AllFields |-> Imported(f.type, pkg.nullAs)]
           spl == [f \in AllFields |-> goType(f.type, pkg.nullAs).package]
<1>1. \A f \in AllFields : Matched(imp[f], {spl[f]} \ {""})
  BY FieldMatch
<1>2. ImportedBy(AllFields) = UNION {imp[f] : f \in AllFields}
      /\ SpelledBy(AllFields) = {spl[f] : f \in AllFields} \ {""}
  BY DEF ImportedBy, SpelledBy
<1> HIDE DEF imp, spl
<1>3. \A f \in AllFields : imp[f] \subseteq Known /\ {Declares[p] : p \in imp[f]} = {spl[f]} \ {""}
  BY <1>1 DEF Matched
<1>4. ImportedBy(AllFields) \subseteq Known
  BY <1>2, <1>3
<1>5. \A p \in ImportedBy(AllFields) : Declares[p] \in SpelledBy(AllFields)
  <2> TAKE p \in ImportedBy(AllFields)
  <2>1. PICK f \in AllFields : p \in imp[f]
    BY <1>2
  <2>2. Declares[p] \in {spl[f]} \ {""}
    BY <1>3, <2>1
  <2> QED BY <1>2, <2>2
<1>6. \A s \in SpelledBy(AllFields) : \E p \in ImportedBy(AllFields) : Declares[p] = s
  <2> TAKE s \in SpelledBy(AllFields)
  <2>1. PICK f \in AllFields : s = spl[f] /\ s # ""
    BY <1>2
  <2>2. s \in {Declares[p] : p \in imp[f]}
    BY <1>3, <2>1
  <2> QED BY <1>2, <2>2
<1> QED BY <1>4, <1>5, <1>6 DEF Matched

LEMMA SignatureMatch ==
    ASSUME NEW q
    PROVE  /\ Matched(Signature(q).paths, Signature(q).packages)
           /\ "context" \in Signature(q).paths /\ "context" \in Signature(q).packages
<1>1. Matched({"context"} \cup {"database/sql"}, {"context"} \cup {"sql"})
  BY StandardMatch, MatchedUnion
<1>2. /\ {"context"} \cup {"database/sql"} = {"context", "database/sql"}
      /\ {"context"} \cup {"sql"} = {"context", "sql"}
  OBVIOUS
<1> QED BY <1>1, <1>2, StandardMatch DEF Signature

-----------------------------------------------------------------------------
(* The names of a well named package: Go can parse them, and they differ.  *)
LEMMA FieldName ==
    ASSUME pkg \in Package, WellNamed, NEW f \in AllFields
    PROVE  /\ f.name \in Name /\ Legal(exportedName[f.name]) /\ ~Blank(exportedName[f.name])
           /\ ToLower(exportedName[f.name]) = Bare(f.name)
<1> DEFINE out == exportedName[f.name]
<1>1. f.name \in Name /\ Narrow(f.name)
  BY PackageTypes DEF Field, WellNamed
<1>2. out = joinWords(splitWords(f.name), TRUE)
  BY <1>1 DEF exportedName
<1>3. /\ out \in Seq(Letter \cup Digit) /\ out # <<>> /\ ToLower(out) = Bare(f.name)
      /\ out[1] \in Capital
  BY <1>1, <1>2, GoName
<1> HIDE DEF out
<1>4. 1 \in DOMAIN out
  BY <1>3
<1>5. out[1] \notin Digit /\ out[1] \notin Small /\ out[1] # "_"
  BY <1>3, NamesAssumption DEF Letter
<1>6. out \notin Keyword
  <2>1. \A w \in Keyword : \A k \in DOMAIN w : w[k] \in Small
    <3>1. \A w \in Keyword : w \in Seq(Small)
      BY NamesAssumption
    <3> QED BY <3>1
  <2> QED BY <1>4, <1>5, <2>1
<1>7. \A k \in DOMAIN out : out[k] \in Letter \cup Digit
  BY <1>3
<1>8. Legal(out)
  BY <1>5, <1>6, <1>7 DEF Legal
<1>9. ~Blank(out)
  <2>1. <<"_">>[1] = "_"
    OBVIOUS
  <2> QED BY <1>5, <2>1 DEF Blank
<1> QED BY <1>1, <1>3, <1>8, <1>9 DEF out

LEMMA QueryName ==
    ASSUME pkg \in Package, WellNamed, NEW q \in Queries
    PROVE  LET out == unexportedName[q.name]
           IN  /\ q.name \in Name /\ Legal(out) /\ ~Blank(out)
               /\ ToLower(out) = Bare(q.name)
               /\ out[1] \in Small /\ out # New
<1> DEFINE out == unexportedName[q.name]
<1>1. /\ q.name \in Name /\ Narrow(q.name) /\ q.name[1] \in Capital
      /\ Bare(q.name) \notin Keyword \cup {New}
  BY PackageTypes DEF Query, WellNamed
<1>2. out = joinWords(splitWords(q.name), FALSE)
  BY <1>1 DEF unexportedName
<1>3. /\ out \in Seq(Letter \cup Digit) /\ out # <<>> /\ ToLower(out) = Bare(q.name)
      /\ out[1] = Lower(q.name[1])
  BY <1>1, <1>2, GoName
<1>4. out[1] \in Small
  BY <1>1, <1>3, LowerRune
<1> HIDE DEF out
<1>5. \A w \in Seq(Small) : ToLower(w) = w
  <2> TAKE w \in Seq(Small)
  <2>1. /\ Len(w) \in Nat /\ DOMAIN w = 1..Len(w)
        /\ \A k \in 1..Len(w) : Lower(w[k]) = w[k]
    BY LowerRune
  <2> QED BY <2>1 DEF ToLower
<1>6. out \notin Keyword /\ out # New
  <2>1. Keyword \subseteq Seq(Small) /\ New \in Seq(Small)
    BY NamesAssumption, RenderingAssumption
  <2> QED BY <1>1, <1>3, <1>5, <2>1
<1>7. \A k \in DOMAIN out : out[k] \in Letter \cup Digit
  BY <1>3
<1>8. out[1] \notin Digit /\ out[1] # "_"
  <2>1. out[1] \in Letter
    BY <1>4 DEF Letter
  <2>2. Letter \cap Digit = {} /\ "_" \notin Letter
    BY NamesAssumption
  <2> QED BY <2>1, <2>2
<1>9. Legal(out)
  BY <1>6, <1>7, <1>8 DEF Legal
<1>10. ~Blank(out)
  <2>1. <<"_">>[1] = "_"
    OBVIOUS
  <2> QED BY <1>8, <2>1 DEF Blank
<1> QED BY <1>1, <1>3, <1>4, <1>6, <1>9, <1>10 DEF out

LEMMA WellNamedFields ==
    ASSUME pkg \in Package, WellNamed, NEW q \in Queries
    PROVE  FieldsFit(q.params) /\ FieldsFit(q.columns)
<1>1. \A f \in ParamsOf(q) \cup ColumnsOf(q) : f \in AllFields
  BY DEF AllFields
<1>2. ASSUME NEW fields \in Seq(Field), \A k \in DOMAIN fields : fields[k] \in AllFields,
             IsInjective([k \in DOMAIN fields |-> Bare(fields[k].name)])
      PROVE  FieldsFit(fields)
  <2>1. \A k \in DOMAIN fields :
           /\ ToLower(exportedName[fields[k].name]) = Bare(fields[k].name)
           /\ ~Blank(exportedName[fields[k].name])
    BY <1>2, FieldName
  <2> QED BY <1>2, <2>1 DEF FieldsFit, IsInjective
<1>3. q.params \in Seq(Field) /\ q.columns \in Seq(Field)
  BY PackageTypes DEF Query
<1>4. /\ IsInjective([k \in DOMAIN q.params |-> Bare(q.params[k].name)])
      /\ IsInjective([k \in DOMAIN q.columns |-> Bare(q.columns[k].name)])
  BY DEF WellNamed
<1>5. /\ \A k \in DOMAIN q.params : q.params[k] \in AllFields
      /\ \A k \in DOMAIN q.columns : q.columns[k] \in AllFields
  BY <1>1 DEF ParamsOf, ColumnsOf, Range
<1> QED BY <1>2, <1>3, <1>4, <1>5

LEMMA WellNamedQueries ==
    ASSUME pkg \in Package, WellNamed PROVE QueriesFit
<1>1. \A k \in DOMAIN pkg.queries : pkg.queries[k] \in Queries
  BY DEF Queries, Range
<1>2. \A k \in DOMAIN pkg.queries :
         LET stem == unexportedName[pkg.queries[k].name]
         IN  /\ ToLower(stem) = Bare(pkg.queries[k].name)
             /\ stem # New /\ ~Blank(stem) /\ stem[1] \in Small
  BY <1>1, QueryName
<1>3. \A q \in Queries : q.name[1] \notin Small
  BY NamesAssumption DEF WellNamed
<1>4. IsInjective([k \in DOMAIN pkg.queries |-> Bare(pkg.queries[k].name)])
  BY DEF WellNamed
<1> DEFINE stems == [k \in DOMAIN pkg.queries |-> unexportedName[pkg.queries[k].name]]
           bares == [k \in DOMAIN pkg.queries |-> Bare(pkg.queries[k].name)]
<1>5. /\ DOMAIN stems = DOMAIN pkg.queries /\ DOMAIN bares = DOMAIN pkg.queries
      /\ \A k \in DOMAIN pkg.queries :
            /\ ToLower(stems[k]) = bares[k] /\ stems[k] # New /\ ~Blank(stems[k])
            /\ \A q \in Queries : stems[k] # q.name
  BY <1>2, <1>3
<1>6. IsInjective(bares)
  BY <1>4
<1>7. QueriesFit <=> /\ IsInjective(stems)
                     /\ \A k \in DOMAIN stems :
                           /\ stems[k] # New /\ ~Blank(stems[k])
                           /\ \A q \in Queries : stems[k] # q.name
  BY DEF QueriesFit
<1> HIDE DEF stems, bares
<1>8. IsInjective(stems)
  BY <1>5, <1>6 DEF IsInjective
<1> QED BY <1>5, <1>7, <1>8

-----------------------------------------------------------------------------
(* What a call is given is what its helper takes.                          *)
LEMMA BoundTakes ==
    ASSUME pkg \in PackageSet, NEW f \in Params
    PROVE  Bound(f).helper # "" =>
               Bound(f).helper \in Forms /\ Takes[Bound(f).helper] = Bound(f).given
<1>h. SUFFICES ASSUME Bound(f).helper # ""
               PROVE  Bound(f).helper \in Forms /\ Takes[Bound(f).helper] = Bound(f).given
  OBVIOUS
<1> DEFINE t == f.type
<1>1. pkg \in Package /\ t.slice \in BOOLEAN /\ (t.slice => ~t.nullable)
  <2>1. pkg \in Package
    BY RenderingAssumption
  <2>2. PICK q \in Queries : f \in ParamsOf(q)
    BY DEF Params
  <2>3. PICK i \in DOMAIN pkg.queries : q = pkg.queries[i]
    BY DEF Queries, Range
  <2>4. f.type.slice => ~f.type.nullable
    BY <2>2, <2>3, RenderingAssumption DEF ParamsOf
  <2>5. f \in Field
    BY <2>1, PackageTypes
  <2> QED BY <2>1, <2>4, <2>5 DEF Field, Type
<1>2. Bound(f).helper \in Forms
  <2>1. Bound(f).helper \in {binder(f).element, binder(f).value}
    BY DEF Bound
  <2>2. CASE Bound(f).helper = binder(f).element
    <3>1. binder(f).element # ""
      BY <1>h, <2>2
    <3>2. binder(f).element \in Forms
      BY <3>1, FormsType
    <3> QED BY <2>2, <3>2
  <2>3. CASE Bound(f).helper = binder(f).value
    <3>1. binder(f).value # ""
      BY <1>h, <2>3
    <3>2. binder(f).value \in Forms
      BY <3>1, FormsType
    <3> QED BY <2>3, <3>2
  <2> QED BY <2>1, <2>2, <2>3
<1>3. pkg.dialect \in TextTime /\ t.override = None /\ t.kind = "time"
  BY <1>h DEF Bound, binder
<1> DEFINE n == pkg.nullAs
           l == t.slice
           no == FALSE
           value == [list |-> no, stars |-> 0, package |-> "time", type |-> "Time"]
           pointer == [list |-> no, stars |-> 1, package |-> "time", type |-> "Time"]
           null == [list |-> no, stars |-> 0, package |-> "sql", type |-> "time"]
<1> HIDE DEF no
<1>4. value = Spell("time", "Time") /\ pointer = Pointer(Spell("time", "Time"))
      /\ null = Spell("sql", "time")
  <2>1. value = Spell("time", "Time") /\ null = Spell("sql", "time")
    BY DEF Spell, no
  <2>2. Pointer(value) = pointer
    <3> DEFINE u == value
               zero == 0
               one == 1
    <3>1. u = [list |-> no, stars |-> zero, package |-> "time", type |-> "Time"]
      OBVIOUS
    <3>2. zero + 1 = one
      OBVIOUS
    <3>3. pointer = [list |-> no, stars |-> one, package |-> "time", type |-> "Time"]
      OBVIOUS
    <3> HIDE DEF u, zero, one, pointer
    <3>4. u.stars + 1 = one
      BY <3>1, <3>2
    <3>5. [u EXCEPT !.stars = one] = pointer
      BY <3>1, <3>3
    <3> QED BY <3>4, <3>5 DEF Pointer, u
  <2> HIDE DEF value, pointer, null
  <2> QED BY <2>1, <2>2
<1>a. ASSUME NEW u \in {value, pointer, null}, NEW m
      PROVE  [[u EXCEPT !.list = m] EXCEPT !.list = no] = u /\ [u EXCEPT !.list = no] = u
  <2>1. PICK s, p, y : u = [list |-> no, stars |-> s, package |-> p, type |-> y]
    OBVIOUS
  <2> DEFINE v == [u EXCEPT !.list = m]
  <2>2. v = [list |-> m, stars |-> s, package |-> p, type |-> y]
    BY <2>1
  <2> HIDE DEF v, value, pointer, null
  <2>3. [v EXCEPT !.list = no] = [list |-> no, stars |-> s, package |-> p, type |-> y]
    BY <2>2
  <2>4. [u EXCEPT !.list = no] = [list |-> no, stars |-> s, package |-> p, type |-> y]
    BY <2>1
  <2> QED BY <2>1, <2>3, <2>4 DEF v
<1>5. /\ ~t.nullable => goType(t, n) = [value EXCEPT !.list = l]
      /\ t.nullable /\ n = "sql" => goType(t, n) = [null EXCEPT !.list = l]
      /\ t.nullable /\ n # "sql" => goType(t, n) = [pointer EXCEPT !.list = l]
  <2>1. /\ ~t.nullable => scalarType(t, n) = value
        /\ t.nullable /\ n = "sql" => scalarType(t, n) = null
        /\ t.nullable /\ n # "sql" => scalarType(t, n) = pointer
    <3> HIDE DEF value, null, pointer
    <3>1. plainType("time") = value /\ sqlNullType("time") = null
          /\ Pointer(plainType("time")) = pointer
      BY <1>4 DEF plainType, sqlNullType
    <3> QED BY <1>3, <3>1 DEF scalarType
  <2> QED BY <2>1 DEF goType
<1>6. CASE Expanded(f)
  <2>1. t.slice /\ ~t.nullable
    BY <1>1, <1>6 DEF Expanded
  <2>2. Bound(f) = [helper |-> "timeText", given |-> [goType(t, n) EXCEPT !.list = FALSE]]
    BY <1>3, <1>6, <2>1 DEF Bound, binder
  <2>3. [goType(t, n) EXCEPT !.list = FALSE] = value
    <3>1. [[value EXCEPT !.list = l] EXCEPT !.list = FALSE] = value
      BY <1>a DEF no
    <3> QED BY <1>5, <2>1, <3>1
  <2>4. Takes["timeText"] = value
    BY <1>4 DEF Takes
  <2> QED BY <1>2, <2>2, <2>3, <2>4
<1>7. CASE ~Expanded(f)
  <2>1. Bound(f) = [helper |-> binder(f).value, given |-> goType(t, n)]
    BY <1>7 DEF Bound
  <2>2. l = FALSE
    <3>1. binder(f).value # ""
      <4>1. Bound(f).helper = binder(f).value
        BY <2>1
      <4> QED BY <1>h, <4>1
    <3>2. ~t.slice
      BY <1>3, <3>1 DEF binder
    <3> QED BY <1>1, <3>2
  <2>3. /\ [value EXCEPT !.list = l] = value /\ [null EXCEPT !.list = l] = null
        /\ [pointer EXCEPT !.list = l] = pointer
    <3>1. l = no
      BY <2>2 DEF no
    <3> QED BY <1>a, <3>1
  <2>4. /\ ~t.nullable => binder(f).value = "timeText"
        /\ t.nullable /\ n = "sql" => binder(f).value = "timeTextNull"
        /\ t.nullable /\ n # "sql" => binder(f).value = "timeTextPtr"
    BY <1>3, <2>2 DEF binder
  <2>5. /\ Takes["timeText"] = value /\ Takes["timeTextNull"] = null
        /\ Takes["timeTextPtr"] = pointer
    BY <1>4 DEF Takes
  <2>6. Bound(f).helper = binder(f).value /\ Bound(f).given = goType(t, n)
    BY <2>1
  <2> HIDE DEF value, null, pointer, l, n
  <2>7. CASE ~t.nullable
    <3>1. goType(t, n) = value
      BY <1>5, <2>3, <2>7
    <3> QED BY <1>2, <2>4, <2>5, <2>6, <2>7, <3>1
  <2>8. CASE t.nullable /\ n = "sql"
    <3>1. goType(t, n) = null
      BY <1>5, <2>3, <2>8
    <3> QED BY <1>2, <2>4, <2>5, <2>6, <2>8, <3>1
  <2>9. CASE t.nullable /\ n # "sql"
    <3>1. goType(t, n) = pointer
      BY <1>5, <2>3, <2>9
    <3> QED BY <1>2, <2>4, <2>5, <2>6, <2>9, <3>1
  <2> QED BY <2>7, <2>8, <2>9
<1> QED BY <1>6, <1>7

-----------------------------------------------------------------------------
(* The run under way.  Until a method is written, the file of the queries  *)
(* imports context without referring to it.                                *)
FilesMatch ==
    /\ \A f \in {"db", "types", "querier"} : Matched(imports[f], spelled[f])
    /\ pc \in {"db", "types", "querier", "constructor"} =>
           imports["queries"] = {} /\ spelled["queries"] = {}
    /\ pc \in {"helpers", "methods", "format", "done"} =>
           Matched(imports["queries"], spelled["queries"] \cup {"context"})
    /\ written > 0 => "context" \in spelled["queries"]

CallsMatch ==
    /\ \A c \in calls : \E f \in Params : c = Bound(f)
    /\ pc \in {"methods", "format", "done"} =>
           helpers = IF Forms = {} THEN {} ELSE Forms \cup {"timeText"}
    /\ pc \in {"format", "done"} => written = Len(pkg.queries)

Outcomes ==
    /\ pc = "refused" => \E f \in AllFields : Refused(f.type)
    /\ WellNamed => pc # "unparsable"

RenderingInv ==
    TypeOK /\ pkg \in PackageSet /\ CallsMatch /\ Outcomes /\ (WellNamed => FilesMatch)

LEMMA PackageFixed ==
    ASSUME pkg' = pkg
    PROVE  /\ Queries' = Queries /\ AllFields' = AllFields /\ Params' = Params
           /\ WellNamed' <=> WellNamed
           /\ Known' = Known /\ Forms' = Forms
           /\ \A f : Bound(f)' = Bound(f)
<1>1. Queries' = Queries /\ AllFields' = AllFields /\ Params' = Params
  BY DEF Queries, AllFields, Params
<1>2. WellNamed' <=> WellNamed
  BY <1>1 DEF WellNamed
<1>3. Known' = Known
  BY <1>1 DEF Known, OverridePaths
<1>4. \A f : binder(f)' = binder(f)
  BY DEF binder
<1>5. Forms' = Forms
  BY <1>1, <1>4 DEF Forms
<1>6. \A f : Bound(f)' = Bound(f)
  BY <1>4 DEF Bound, Expanded
<1> QED BY <1>1, <1>2, <1>3, <1>5, <1>6

LEMMA WriteMatch ==
    ASSUME TypeOK, NEW file \in SourceFile, NEW paths, NEW packages, NEW E,
           Write(file, paths, packages)
    PROVE  /\ \A f \in SourceFile \ {file} : imports'[f] = imports[f] /\ spelled'[f] = spelled[f]
           /\ imports'[file] = imports[file] \cup paths
           /\ spelled'[file] = spelled[file] \cup packages
           /\ Matched(imports[file], spelled[file] \cup E) /\ Matched(paths, packages)
                 => Matched(imports'[file], spelled'[file] \cup E)
<1>1. /\ \A f \in SourceFile \ {file} : imports'[f] = imports[f] /\ spelled'[f] = spelled[f]
      /\ imports'[file] = imports[file] \cup paths
      /\ spelled'[file] = spelled[file] \cup packages
  BY DEF Write, TypeOK
<1>2. ASSUME Matched(imports[file], spelled[file] \cup E), Matched(paths, packages)
      PROVE  Matched(imports'[file], spelled'[file] \cup E)
  <2>1. Matched(imports[file] \cup paths, (spelled[file] \cup E) \cup packages)
    BY <1>2, MatchedUnion
  <2>2. (spelled[file] \cup E) \cup packages = (spelled[file] \cup packages) \cup E
    OBVIOUS
  <2> QED BY <1>1, <2>1, <2>2
<1> QED BY <1>1, <1>2

LEMMA FilesStep ==
    ASSUME TypeOK, pkg \in PackageSet, WellNamed, FilesMatch, [Next]_vars
    PROVE  FilesMatch'
<1> DEFINE early == {"db", "types", "querier"}
<1>0. /\ pkg \in Package /\ Len(pkg.queries) \in Nat /\ written \in Nat
      /\ early \subseteq SourceFile /\ "queries" \in SourceFile /\ "queries" \notin early
  <2>1. pkg \in Package
    BY RenderingAssumption
  <2>2. Len(pkg.queries) \in Nat
    BY <2>1 DEF Package
  <2>3. written \in Nat
    <3>1. written \in 0..Len(pkg.queries)
      BY DEF TypeOK
    <3> QED BY <2>2, <3>1
  <2>4. early \subseteq SourceFile /\ "queries" \in SourceFile /\ "queries" \notin early
    BY DEF SourceFile
  <2> QED BY <2>1, <2>2, <2>3, <2>4
<1>1. pkg' = pkg
  BY DEF Next, vars, EmitDB, RefuseOverride, CannotParseTypes, EmitTypes, EmitQuerier,
     WriteConstructor, WriteTimeHelpers, WriteMethod, WriteShapeAssertions,
     CannotParseQueries, Done, Stop
<1>2. Known' = Known
  BY <1>1, PackageFixed
<1>3. ASSUME NEW file \in early, NEW paths, NEW packages, Write(file, paths, packages),
             Matched(paths, packages), written' = written,
             pc \in early /\ pc' \in {"types", "querier", "constructor"}
      PROVE  FilesMatch'
  <2>1. Matched(imports[file], spelled[file] \cup {})
    <3>1. spelled[file] \cup {} = spelled[file]
      OBVIOUS
    <3> QED BY <3>1 DEF FilesMatch
  <2>2. /\ \A f \in SourceFile \ {file} : imports'[f] = imports[f] /\ spelled'[f] = spelled[f]
        /\ Matched(imports'[file], spelled'[file] \cup {})
    BY <1>0, <1>3, <2>1, WriteMatch
  <2>3. spelled'[file] \cup {} = spelled'[file]
    OBVIOUS
  <2>4. \A f \in early : Matched(imports'[f], spelled'[f])
    BY <1>0, <2>2, <2>3 DEF FilesMatch
  <2>5. imports'["queries"] = {} /\ spelled'["queries"] = {}
    BY <1>0, <1>3, <2>2 DEF FilesMatch
  <2>6. written' > 0 => "context" \in spelled'["queries"]
    BY <1>0, <1>3, <2>2 DEF FilesMatch
  <2> QED BY <1>2, <1>3, <2>4, <2>5, <2>6 DEF FilesMatch, Matched
<1>4. ASSUME NEW paths, NEW packages, Write("queries", paths, packages),
             Matched(paths, packages),
             written' # written => "context" \in packages,
             pc \in {"helpers", "methods", "format", "done"},
             pc' \in {"helpers", "methods", "format", "done"}
      PROVE  FilesMatch'
  <2>1. Matched(imports["queries"], spelled["queries"] \cup {"context"})
    BY <1>4 DEF FilesMatch
  <2>2. /\ \A f \in SourceFile \ {"queries"} : imports'[f] = imports[f] /\ spelled'[f] = spelled[f]
        /\ spelled'["queries"] = spelled["queries"] \cup packages
        /\ Matched(imports'["queries"], spelled'["queries"] \cup {"context"})
    BY <1>0, <1>4, <2>1, WriteMatch
  <2>3. \A f \in early : Matched(imports'[f], spelled'[f])
    BY <1>0, <2>2 DEF FilesMatch
  <2>4. written' > 0 => "context" \in spelled'["queries"]
    BY <1>0, <1>4, <2>2 DEF FilesMatch
  <2> QED BY <1>2, <1>4, <2>2, <2>3, <2>4 DEF FilesMatch, Matched
<1>5. CASE EmitDB
  <2>1. PICK S \in {{}, {"strings"}} :
           Write("db", {"context", "database/sql", "fmt"} \cup S, {"context", "sql", "fmt"} \cup S)
    BY <1>5 DEF EmitDB
  <2>2. Matched(S, S)
    BY StandardMatch
  <2>3. Matched({"context", "database/sql", "fmt"}, {"context", "sql", "fmt"})
    <3>1. Matched(({"context"} \cup {"database/sql"}) \cup {"fmt"}, ({"context"} \cup {"sql"}) \cup {"fmt"})
      BY StandardMatch, MatchedUnion
    <3>2. /\ ({"context"} \cup {"database/sql"}) \cup {"fmt"} = {"context", "database/sql", "fmt"}
          /\ ({"context"} \cup {"sql"}) \cup {"fmt"} = {"context", "sql", "fmt"}
      OBVIOUS
    <3> QED BY <3>1, <3>2
  <2>4. Matched({"context", "database/sql", "fmt"} \cup S, {"context", "sql", "fmt"} \cup S)
    BY <2>2, <2>3, MatchedUnion
  <2>5. pc = "db" /\ pc' = "types" /\ written' = written
    BY <1>5 DEF EmitDB
  <2> QED BY <1>3, <2>1, <2>4, <2>5
<1>6. CASE EmitTypes
  <2>1. Matched(ImportedBy(AllFields), SpelledBy(AllFields))
    BY <1>0, FieldsMatch
  <2>2. Write("types", ImportedBy(AllFields), SpelledBy(AllFields))
        /\ pc = "types" /\ pc' = "querier" /\ written' = written
    BY <1>6 DEF EmitTypes
  <2> QED BY <1>3, <2>1, <2>2
<1>7. CASE EmitQuerier
  <2> DEFINE I == Queries
             P == [q \in I |-> Signature(q).paths]
             Q == [q \in I |-> Signature(q).packages]
             paths == UNION {P[q] : q \in I}
             packages == UNION {Q[q] : q \in I}
  <2>1. \A q \in I : Matched(P[q], Q[q])
    BY SignatureMatch
  <2>2. /\ Write("querier", paths, packages)
        /\ pc = "querier" /\ pc' = "constructor" /\ written' = written
    BY <1>7 DEF EmitQuerier
  <2> HIDE DEF I, P, Q
  <2>a. paths = UNION {P[q] : q \in I} /\ packages = UNION {Q[q] : q \in I}
    OBVIOUS
  <2> HIDE DEF paths, packages
  <2>b. \A q \in I : P[q] \subseteq Known /\ {Declares[p] : p \in P[q]} = Q[q]
    BY <2>1 DEF Matched
  <2>3. Matched(paths, packages)
    <3>1. paths \subseteq Known
      BY <2>a, <2>b
    <3>2. ASSUME NEW p \in paths PROVE Declares[p] \in packages
      BY <2>a, <2>b
    <3>3. ASSUME NEW s \in packages PROVE \E p \in paths : Declares[p] = s
      <4>1. PICK q \in I : s \in Q[q]
        BY <2>a
      <4>2. PICK p \in P[q] : s = Declares[p]
        BY <2>b, <4>1
      <4> QED BY <2>a, <4>2
    <3> QED BY <3>1, <3>2, <3>3 DEF Matched
  <2> QED BY <1>3, <2>2, <2>3
<1>8. CASE WriteConstructor
  <2>1. PICK S \in {{}, {"strings"}} : Write("queries", {"context"} \cup S, S)
    BY <1>8 DEF WriteConstructor
  <2>2. pc = "constructor" /\ pc' = "helpers" /\ written' = written
    BY <1>8 DEF WriteConstructor
  <2>3. /\ \A f \in SourceFile \ {"queries"} : imports'[f] = imports[f] /\ spelled'[f] = spelled[f]
        /\ imports'["queries"] = imports["queries"] \cup ({"context"} \cup S)
        /\ spelled'["queries"] = spelled["queries"] \cup S
    BY <1>0, <2>1, WriteMatch
  <2>4. imports'["queries"] = {"context"} \cup S /\ spelled'["queries"] \cup {"context"} = {"context"} \cup S
    BY <2>2, <2>3 DEF FilesMatch
  <2>5. Matched({"context"} \cup S, {"context"} \cup S)
    BY StandardMatch, MatchedUnion
  <2>6. \A f \in early : Matched(imports'[f], spelled'[f])
    BY <1>0, <2>3 DEF FilesMatch
  <2>7. written' > 0 => "context" \in spelled'["queries"]
    BY <2>2, <2>3 DEF FilesMatch
  <2> QED BY <1>2, <2>2, <2>4, <2>5, <2>6, <2>7 DEF FilesMatch, Matched
<1>9. CASE WriteTimeHelpers
  <2>1. pc = "helpers" /\ pc' = "methods" /\ written' = written
    BY <1>9 DEF WriteTimeHelpers
  <2>2. CASE Forms = {}
    <3>1. imports' = imports /\ spelled' = spelled
      BY <1>9, <2>2 DEF WriteTimeHelpers
    <3> QED BY <1>2, <2>1, <3>1 DEF FilesMatch, Matched
  <2>3. CASE Forms # {}
    <3>1. PICK S, T : /\ Write("queries", {"time"} \cup S, {"time"} \cup T)
                      /\ (S = {} /\ T = {}) \/ (S = {"database/sql"} /\ T = {"sql"})
      BY <1>9, <2>3 DEF WriteTimeHelpers
    <3>2. Matched(S, T)
      BY <3>1, StandardMatch
    <3>3. Matched({"time"} \cup S, {"time"} \cup T)
      BY <3>2, StandardMatch, MatchedUnion
    <3> QED BY <1>4, <2>1, <3>1, <3>3
  <2> QED BY <2>2, <2>3
<1>10. CASE WriteMethod
  <2> DEFINE q == pkg.queries[written + 1]
  <2>1. PICK S \in {{}, {"strings"}} :
           Write("queries", Signature(q).paths \cup S, Signature(q).packages \cup S)
    BY <1>10 DEF WriteMethod
  <2>2. Matched(Signature(q).paths \cup S, Signature(q).packages \cup S)
    BY StandardMatch, SignatureMatch, MatchedUnion
  <2>3. pc = "methods" /\ pc' = "methods"
    BY <1>10 DEF WriteMethod
  <2>4. "context" \in Signature(q).packages \cup S
    BY SignatureMatch
  <2> QED BY <1>4, <2>1, <2>2, <2>3, <2>4
<1>11. CASE WriteShapeAssertions
  <2>1. Matched(ImportedBy(AllFields), SpelledBy(AllFields))
    BY <1>0, FieldsMatch
  <2>2. Write("queries", ImportedBy(AllFields), SpelledBy(AllFields))
        /\ pc = "methods" /\ pc' = "format" /\ written' = written
    BY <1>11 DEF WriteShapeAssertions
  <2> QED BY <1>4, <2>1, <2>2
<1>12. CASE RefuseOverride \/ CannotParseTypes \/ CannotParseQueries \/ Done \/ UNCHANGED vars
  <2>1. imports' = imports /\ spelled' = spelled /\ written' = written
    BY <1>12 DEF RefuseOverride, CannotParseTypes, CannotParseQueries, Done, Stop, vars
  <2>2. \/ pc' = pc \/ pc' \in {"refused", "unparsable"} \/ (pc = "format" /\ pc' = "done")
    BY <1>12 DEF RefuseOverride, CannotParseTypes, CannotParseQueries, Done, Stop, vars
  <2> QED BY <1>2, <2>1, <2>2 DEF FilesMatch, Matched
<1> QED BY <1>5, <1>6, <1>7, <1>8, <1>9, <1>10, <1>11, <1>12 DEF Next

LEMMA CallsStep ==
    ASSUME TypeOK, pkg \in PackageSet, CallsMatch, [Next]_vars
    PROVE  CallsMatch' /\ pkg' = pkg
<1>1. pkg' = pkg
  BY DEF Next, vars, EmitDB, RefuseOverride, CannotParseTypes, EmitTypes, EmitQuerier,
     WriteConstructor, WriteTimeHelpers, WriteMethod, WriteShapeAssertions,
     CannotParseQueries, Done, Stop
<1>2. Params' = Params /\ Forms' = Forms /\ \A f : Bound(f)' = Bound(f)
  BY <1>1, PackageFixed
<1>3. \A c \in calls' : \E f \in Params : c = Bound(f)
  <2>1. CASE WriteMethod
    <3> DEFINE q == pkg.queries[written + 1]
    <3>1. calls' = calls \cup {Bound(f) : f \in ParamsOf(q)}
      BY <2>1 DEF WriteMethod
    <3>2. written + 1 \in 1..Len(pkg.queries)
      <4>1. /\ pkg \in Package /\ written \in 0..Len(pkg.queries)
            /\ written < Len(pkg.queries)
        BY <2>1 DEF WriteMethod, TypeOK
      <4>2. Len(pkg.queries) \in Nat
        BY <4>1 DEF Package
      <4> QED BY <4>1, <4>2
    <3>3. q \in Queries
      <4>1. DOMAIN pkg.queries = 1..Len(pkg.queries)
        <5>1. pkg.queries \in Seq(Query)
          BY DEF TypeOK, Package
        <5> QED BY <5>1
      <4> QED BY <3>2, <4>1 DEF Queries, Range
    <3>4. ParamsOf(q) \subseteq Params
      BY <3>3 DEF Params
    <3> HIDE DEF q
    <3> QED BY <3>1, <3>4 DEF CallsMatch
  <2>2. CASE ~WriteMethod
    <3>1. calls' = calls
      BY <2>2 DEF Next, vars, EmitDB, RefuseOverride, CannotParseTypes, EmitTypes, EmitQuerier,
         WriteConstructor, WriteTimeHelpers, WriteShapeAssertions, CannotParseQueries, Done, Stop
    <3> QED BY <3>1 DEF CallsMatch
  <2> QED BY <2>1, <2>2
<1>4. pc' \in {"methods", "format", "done"} =>
         helpers' = IF Forms = {} THEN {} ELSE Forms \cup {"timeText"}
  <2>1. CASE WriteTimeHelpers
    BY <2>1 DEF WriteTimeHelpers
  <2>2. CASE ~WriteTimeHelpers
    <3>1. /\ helpers' = helpers
          /\ pc' \in {"methods", "format", "done"} => pc \in {"methods", "format", "done"}
      BY <2>2 DEF Next, vars, EmitDB, RefuseOverride, CannotParseTypes, EmitTypes, EmitQuerier,
         WriteConstructor, WriteMethod, WriteShapeAssertions, CannotParseQueries, Done, Stop
    <3> QED BY <3>1 DEF CallsMatch
  <2> QED BY <2>1, <2>2
<1>5. pc' \in {"format", "done"} => written' = Len(pkg.queries)
  BY DEF CallsMatch, Next, vars, EmitDB, RefuseOverride, CannotParseTypes, EmitTypes, EmitQuerier,
     WriteConstructor, WriteTimeHelpers, WriteMethod, WriteShapeAssertions,
     CannotParseQueries, Done, Stop
<1>6. \A c \in calls' : \E f \in Params' : c = Bound(f)'
  BY <1>2, <1>3
<1> QED BY <1>1, <1>2, <1>4, <1>5, <1>6 DEF CallsMatch

LEMMA OutcomesStep ==
    ASSUME TypeOK, pkg \in PackageSet, Outcomes, pkg' = pkg, [Next]_vars
    PROVE  Outcomes'
<1>1. pkg \in Package /\ AllFields' = AllFields /\ (WellNamed' <=> WellNamed)
  BY PackageFixed DEF TypeOK
<1>2. WellNamed => ~CannotParseTypes /\ ~CannotParseQueries
  BY <1>1, FieldName, QueryName DEF CannotParseTypes, CannotParseQueries
<1>3. pc' = "unparsable" => pc = "unparsable" \/ CannotParseTypes \/ CannotParseQueries
  BY DEF Next, vars, EmitDB, RefuseOverride, EmitTypes, EmitQuerier,
     WriteConstructor, WriteTimeHelpers, WriteMethod, WriteShapeAssertions, Done, Stop
<1>4. pc' = "refused" => pc = "refused" \/ \E f \in AllFields : Refused(f.type)
  BY DEF Next, vars, EmitDB, RefuseOverride, CannotParseTypes, EmitTypes, EmitQuerier,
     WriteConstructor, WriteTimeHelpers, WriteMethod, WriteShapeAssertions,
     CannotParseQueries, Done, Stop
<1>5. pc' = "refused" => \E f \in AllFields' : Refused(f.type)
  BY <1>1, <1>4 DEF Outcomes
<1>6. WellNamed' => pc' # "unparsable"
  BY <1>1, <1>2, <1>3 DEF Outcomes
<1> QED BY <1>5, <1>6 DEF Outcomes

LEMMA RenderingInit == Init => RenderingInv
<1> SUFFICES ASSUME Init PROVE RenderingInv
  OBVIOUS
<1>1. TypeOK /\ pkg \in PackageSet
  BY TypeInit DEF Init
<1>2. /\ imports = [f \in SourceFile |-> {}] /\ spelled = [f \in SourceFile |-> {}]
      /\ pc = "db" /\ written = 0 /\ calls = {}
  BY DEF Init
<1>3. FilesMatch
  BY <1>2, StandardMatch DEF FilesMatch, SourceFile
<1>4. CallsMatch /\ Outcomes
  BY <1>2 DEF CallsMatch, Outcomes
<1> QED BY <1>1, <1>3, <1>4 DEF RenderingInv

LEMMA RenderingStep == RenderingInv /\ [Next]_vars => RenderingInv'
<1> SUFFICES ASSUME RenderingInv, [Next]_vars PROVE RenderingInv'
  OBVIOUS
<1>1. TypeOK /\ pkg \in PackageSet /\ CallsMatch /\ Outcomes /\ (WellNamed => FilesMatch)
  BY DEF RenderingInv
<1>2. TypeOK'
  BY <1>1, TypeStep
<1>3. CallsMatch' /\ pkg' = pkg
  BY <1>1, CallsStep
<1>4. Outcomes'
  BY <1>1, <1>3, OutcomesStep
<1>5. WellNamed' => FilesMatch'
  BY <1>1, <1>3, FilesStep, PackageFixed
<1> QED BY <1>1, <1>2, <1>3, <1>4, <1>5 DEF RenderingInv

-----------------------------------------------------------------------------
(* What the compiler finds at the end.                                     *)
LEMMA MatchedFits ==
    ASSUME WellNamed, NEW f \in SourceFile, TypeOK, Matched(imports[f], spelled[f])
    PROVE  ImportsFit(f)
<1>1. imports[f] \subseteq Known /\ {Declares[p] : p \in imports[f]} = spelled[f]
  BY DEF Matched
<1>2. \A p, r \in imports[f] : Declares[p] = Declares[r] => p = r
  BY <1>1, KnownDiffer
<1> DEFINE I == imports[f]
           names == [p \in I |-> Declares[p]]
<1>3. DOMAIN names = I /\ \A p \in I : names[p] = Declares[p]
  OBVIOUS
<1> HIDE DEF names
<1>4. IsInjective(names)
  BY <1>2, <1>3 DEF IsInjective
<1> QED BY <1>1, <1>4 DEF ImportsFit, names

LEMMA AtTheEnd ==
    ASSUME RenderingInv, WellNamed, pc = "done" PROVE Compiles
<1>1. /\ TypeOK /\ pkg \in PackageSet /\ CallsMatch /\ FilesMatch /\ pkg \in Package
  BY DEF RenderingInv, TypeOK
<1>2. \A f \in SourceFile : ImportsFit(f)
  <2>1. written > 0
    <3>1. pkg.queries # <<>> /\ pkg.queries \in Seq(Query)
      BY <1>1, RenderingAssumption DEF Package
    <3>2. Len(pkg.queries) > 0
      BY <3>1
    <3> QED BY <1>1, <3>2 DEF CallsMatch
  <2>2. spelled["queries"] \cup {"context"} = spelled["queries"]
    BY <1>1, <2>1 DEF FilesMatch
  <2>3. \A f \in SourceFile : Matched(imports[f], spelled[f])
    BY <1>1, <2>2 DEF FilesMatch, SourceFile
  <2> QED BY <1>1, <2>3, MatchedFits
<1>3. \A q \in Queries : FieldsFit(q.params) /\ FieldsFit(q.columns)
  BY <1>1, WellNamedFields
<1>4. QueriesFit
  BY <1>1, WellNamedQueries
<1>5. HelpersFit
  <2>1. helpers = IF Forms = {} THEN {} ELSE Forms \cup {"timeText"}
    BY <1>1 DEF CallsMatch
  <2>2. ASSUME NEW c \in calls, c.helper # ""
        PROVE  c.helper \in helpers /\ Takes[c.helper] = c.given
    <3>1. PICK f \in Params : c = Bound(f)
      BY <1>1 DEF CallsMatch
    <3>2. c.helper \in Forms /\ Takes[c.helper] = c.given
      BY <1>1, <2>2, <3>1, BoundTakes
    <3>3. Forms \subseteq helpers
      BY <2>1
    <3> QED BY <3>2, <3>3
  <2>3. helpers # {} => "timeText" \in helpers
    BY <2>1
  <2> QED BY <2>2, <2>3 DEF HelpersFit
<1> QED BY <1>2, <1>3, <1>4, <1>5 DEF Compiles

(* Whatever the package, if its names are what WellNamed asks of them, no  *)
(* file is unparsable, only an override without a path or a type is        *)
(* refused, and the files compile: every import used and of a name of its  *)
(* own, every struct's fields and every constant distinct, every helper    *)
(* that is called declared and given what it takes.                        *)
THEOREM WellNamedPackagesCompile == Spec => []WellNamedCompiles
<1>1. RenderingInv => WellNamedCompiles
  BY AtTheEnd DEF WellNamedCompiles, RenderingInv, Outcomes
<1> QED BY <1>1, RenderingInit, RenderingStep, PTL DEF Spec

-----------------------------------------------------------------------------
(* The texts of times.                                                     *)
LEMMA PowerStep ==
    /\ Power[0] = 1
    /\ \A k \in Nat : Power[k] \in Nat \ {0} /\ Power[k + 1] = Base * Power[k]
<1> DEFINE step == [k \in Nat |-> [x \in Nat |-> Base * x]]
           Is(g) == g = [k \in Nat |-> IF k = 0 THEN 1 ELSE Base * g[k - 1]]
<1>1. Base \in Nat /\ Base > 0
  BY TimeTextAssumption
<1>2. step \in [Nat -> [Nat -> Nat]]
  <2>1. \A x \in Nat : Base * x \in Nat
    BY <1>1
  <2> QED BY <2>1
<1>3. PICK f \in [Nat -> Nat] : f[0] = 1 /\ \A k \in Nat : f[k + 1] = step[k + 1][f[k]]
  <2> HIDE DEF step
  <2>1. RecursionsOnNat(Nat, 1, step) # {}
    BY <1>2, RecursionOnNatExists
  <2> QED BY <2>1 DEF RecursionsOnNat
<1>4. \A k \in Nat : f[k + 1] = Base * f[k]
  <2> TAKE k \in Nat
  <2>1. k + 1 \in Nat /\ f[k] \in Nat
    BY <1>3
  <2> QED BY <1>3, <2>1
<1>5. Is(f)
  <2>1. \A k \in Nat : f[k] = IF k = 0 THEN 1 ELSE Base * f[k - 1]
    <3> TAKE k \in Nat
    <3>1. CASE k = 0
      BY <1>3, <3>1
    <3>2. CASE k # 0
      <4>1. k - 1 \in Nat /\ (k - 1) + 1 = k
        BY <3>2
      <4> QED BY <1>4, <3>2, <4>1
    <3> QED BY <3>1, <3>2
  <2>2. f = [k \in Nat |-> f[k]]
    OBVIOUS
  <2> QED BY <2>1, <2>2
<1>6. Power = CHOOSE g : Is(g)
  BY DEF Power
<1>7. Is(Power)
  <2> HIDE DEF Is
  <2> QED BY <1>5, <1>6
<1>8. Power[0] = 1 /\ \A k \in Nat : Power[k + 1] = Base * Power[k]
  <2>1. \A k \in Nat : k + 1 \in Nat /\ k + 1 # 0 /\ (k + 1) - 1 = k
    OBVIOUS
  <2> QED BY <1>7, <2>1
<1>9. \A k \in Nat : Power[k] \in Nat \ {0}
  <2> SUFFICES ASSUME {k \in Nat : Power[k] \notin Nat \ {0}} # {} PROVE FALSE
    OBVIOUS
  <2>1. PICK k \in {k \in Nat : Power[k] \notin Nat \ {0}} :
           \A j \in {j \in Nat : Power[j] \notin Nat \ {0}} : k <= j
    <3>1. {k \in Nat : Power[k] \notin Nat \ {0}} \in SUBSET Nat
      OBVIOUS
    <3> QED BY <3>1, LeastOf
  <2>2. k # 0
    BY <1>8, <2>1
  <2>3. k - 1 \in Nat /\ ~(k <= k - 1) /\ (k - 1) + 1 = k
    BY <2>2
  <2>4. Power[k - 1] \in Nat \ {0}
    BY <2>1, <2>3
  <2>5. Power[k] = Base * Power[k - 1]
    BY <1>8, <2>3
  <2>6. \A x \in Nat \ {0} : Base * x \in Nat \ {0}
    BY <1>1
  <2> QED BY <2>1, <2>4, <2>5, <2>6
<1> QED BY <1>8, <1>9

LEMMA PowerMonotone ==
    ASSUME NEW m \in Nat, NEW n \in Nat, m <= n
    PROVE  Power[m] <= Power[n]
<1> DEFINE bad == {k \in Nat : m <= k /\ ~(Power[m] <= Power[k])}
<1>1. SUFFICES ASSUME bad # {} PROVE FALSE
  OBVIOUS
<1>2. PICK k \in bad : \A j \in bad : k <= j
  <2>1. bad \in SUBSET Nat
    OBVIOUS
  <2> HIDE DEF bad
  <2> QED BY <1>1, <2>1, LeastOf
<1>3. \A i \in Nat : Power[i] \in Nat \ {0}
  BY PowerStep
<1>4. k # m
  BY <1>2, <1>3
<1>5. k - 1 \in Nat /\ m <= k - 1 /\ (k - 1) + 1 = k /\ ~(k <= k - 1)
  BY <1>2, <1>4
<1>6. Power[m] <= Power[k - 1]
  BY <1>2, <1>5
<1>7. Power[k] = Base * Power[k - 1]
  BY <1>5, PowerStep
<1>8. \A x \in Nat : x <= Base * x /\ Base * x \in Nat
  <2>1. Base \in Nat /\ Base >= 1
    BY TimeTextAssumption
  <2> QED BY <2>1
<1>9. Power[k - 1] <= Power[k] /\ Power[k] \in Nat /\ Power[k - 1] \in Nat /\ Power[m] \in Nat
  BY <1>3, <1>5, <1>7, <1>8
<1> QED BY <1>2, <1>6, <1>9

(* A year within the layout has exactly its digits.                        *)
LEMMA DigitsFixed ==
    ASSUME NEW year \in Nat, year < Power[YearDigits]
    PROVE  Digits(year) =
               [k \in 1..YearDigits |-> (year \div Power[YearDigits - k]) % Base]
<1> DEFINE W(w) == year < Power[w] /\ (w > YearDigits => year >= Power[w - 1])
           width == CHOOSE w \in YearDigits..(YearDigits + year) : W(w)
<1>1. YearDigits \in Nat \ {0}
  BY TimeTextAssumption
<1>2. YearDigits \in YearDigits..(YearDigits + year) /\ W(YearDigits)
  BY <1>1
<1>3. \A w \in YearDigits..(YearDigits + year) : W(w) => w = YearDigits
  <2> SUFFICES ASSUME NEW w \in YearDigits..(YearDigits + year), W(w), w # YearDigits PROVE FALSE
    OBVIOUS
  <2>1. w \in Nat /\ w > YearDigits /\ w - 1 \in Nat /\ YearDigits <= w - 1
    BY <1>1
  <2>2. Power[YearDigits] <= Power[w - 1] /\ year >= Power[w - 1]
    BY <1>1, <2>1, PowerMonotone
  <2>3. Power[YearDigits] \in Nat /\ Power[w - 1] \in Nat
    BY <1>1, <2>1, PowerStep
  <2> QED BY <2>2, <2>3
<1>4. width = YearDigits
  <2> HIDE DEF W
  <2> QED BY <1>2, <1>3
<1>5. Digits(year) = [k \in 1..width |-> (year \div Power[width - k]) % Base]
  BY DEF Digits
<1> HIDE DEF width
<1> QED BY <1>4, <1>5

LEMMA Quotients ==
    /\ \A a, b \in Nat \ {0} : \A y \in Nat : (y \div a) \div b = y \div (a * b)
    /\ \A a \in Nat \ {0} : \A y, z \in Nat : y <= z => y \div a <= z \div a
    /\ \A a \in Nat \ {0} : \A y \in Nat : y \div a \in Nat /\ y % a \in Nat /\ y \div 1 = y
    /\ \A a \in Nat \ {0} : \A y, z \in Nat : y < z /\ y \div a = z \div a => y % a < z % a
    /\ \A a \in Nat \ {0} : \A y \in Nat : y < a => y \div a = 0
    /\ \A a, b \in Nat \ {0} : \A y \in Nat : y < a * b => y \div a < b
<1>1. \A a, b \in Nat \ {0} : \A y \in Nat : (y \div a) \div b = y \div (a * b)
  OBVIOUS
<1>2. \A a \in Nat \ {0} : \A y, z \in Nat : y <= z => y \div a <= z \div a
  OBVIOUS
<1>3. \A a \in Nat \ {0} : \A y \in Nat : y \div a \in Nat /\ y % a \in Nat /\ y \div 1 = y
  OBVIOUS
<1>4. \A a \in Nat \ {0} : \A y, z \in Nat : y < z /\ y \div a = z \div a => y % a < z % a
  OBVIOUS
<1>5. \A a \in Nat \ {0} : \A y \in Nat : y < a => y \div a = 0
  OBVIOUS
<1>6. \A a, b \in Nat \ {0} : \A y \in Nat : y < a * b => y \div a < b
  OBVIOUS
<1> QED BY <1>1, <1>2, <1>3, <1>4, <1>5, <1>6

(* The first digit in which two years differ orders them.                  *)
LEMMA DigitsOrder ==
    ASSUME NEW y \in Nat, NEW z \in Nat, y < z, z < Power[YearDigits]
    PROVE  \E k \in 1..YearDigits :
               /\ Digits(y)[k] < Digits(z)[k]
               /\ \A j \in 1..(k - 1) : Digits(y)[j] = Digits(z)[j]
<1> DEFINE n == YearDigits
           Q(x, k) == x \div Power[n - k]
           S == {k \in 1..n : Q(y, k) # Q(z, k)}
<1>1. n \in Nat \ {0} /\ Base \in Nat \ {0}
  BY TimeTextAssumption
<1>2. \A k \in 0..n : n - k \in Nat /\ Power[n - k] \in Nat \ {0}
  BY <1>1, PowerStep
<1>3. y < Power[n]
  <2>1. Power[n] \in Nat
    BY <1>1, PowerStep
  <2> QED BY <2>1
<1>4. /\ \A k \in 1..n : Digits(y)[k] = Q(y, k) % Base
      /\ \A k \in 1..n : Digits(z)[k] = Q(z, k) % Base
  BY <1>3, DigitsFixed
<1>5. Q(y, 0) = 0 /\ Q(z, 0) = 0 /\ Q(y, n) = y /\ Q(z, n) = z
  <2>1. n - 0 = n /\ n - n = 0 /\ Power[n] \in Nat \ {0} /\ Power[0] = 1
    BY <1>1, PowerStep
  <2> QED BY <1>3, <2>1, Quotients
<1>6. PICK k \in S : \A j \in S : k <= j
  <2>1. n \in S
    BY <1>1, <1>5
  <2>2. S \in SUBSET Nat
    BY <1>1
  <2> HIDE DEF S
  <2> QED BY <2>1, <2>2, LeastOf
<1>7. k \in 1..n /\ k \in 0..n /\ k - 1 \in 0..n /\ Q(y, k) # Q(z, k)
  BY <1>1, <1>6
<1>8. \A j \in 1..(k - 1) : j \in 1..n /\ Q(y, j) = Q(z, j)
  BY <1>1, <1>6, <1>7
<1>9. Q(y, k - 1) = Q(z, k - 1)
  <2>1. CASE k - 1 = 0
    BY <1>5, <2>1
  <2>2. CASE k - 1 # 0
    <3>1. k - 1 \in 1..(k - 1)
      BY <1>1, <1>7, <2>2
    <3> QED BY <1>8, <3>1
  <2> QED BY <2>1, <2>2
<1>10. Q(y, k - 1) = Q(y, k) \div Base /\ Q(z, k - 1) = Q(z, k) \div Base
  <2>1. n - (k - 1) = (n - k) + 1 /\ n - k \in Nat
    BY <1>1, <1>7
  <2>2. Power[n - (k - 1)] = Base * Power[n - k]
    BY <2>1, PowerStep
  <2>3. Base * Power[n - k] = Power[n - k] * Base
    BY <1>1, <1>2, <1>7
  <2>4. \A x \in Nat : (x \div Power[n - k]) \div Base = x \div (Power[n - k] * Base)
    BY <1>1, <1>2, <1>7, Quotients
  <2> QED BY <2>2, <2>3, <2>4
<1>11. Q(y, k) \in Nat /\ Q(z, k) \in Nat /\ Q(y, k) <= Q(z, k)
  <2>1. Power[n - k] \in Nat \ {0} /\ y <= z
    BY <1>2, <1>7
  <2>2. \A p \in Nat \ {0} : y \div p \in Nat /\ z \div p \in Nat /\ y \div p <= z \div p
    BY <2>1, Quotients
  <2> QED BY <2>1, <2>2
<1>12. Q(y, k) % Base < Q(z, k) % Base
  <2> HIDE DEF Q
  <2>1. Q(y, k) < Q(z, k)
    BY <1>7, <1>11
  <2> QED BY <1>1, <1>9, <1>10, <1>11, <2>1, Quotients
<1>13. \A j \in 1..(k - 1) : Digits(y)[j] = Digits(z)[j]
  <2> HIDE DEF Q
  <2> QED BY <1>4, <1>8
<1>14. Digits(y)[k] < Digits(z)[k]
  <2> HIDE DEF Q
  <2> QED BY <1>4, <1>7, <1>12
<1> QED BY <1>7, <1>13, <1>14

LEMMA DigitsType ==
    ASSUME NEW year \in Nat, year < Power[YearDigits]
    PROVE  Digits(year) \in Seq(Int) /\ Len(Digits(year)) = YearDigits
<1> DEFINE n == YearDigits
<1>1. n \in Nat \ {0} /\ Base \in Nat \ {0}
  BY TimeTextAssumption
<1>2. \A k \in 1..n : (year \div Power[n - k]) % Base \in Nat
  <2> TAKE k \in 1..n
  <2>1. n - k \in Nat
    BY <1>1
  <2>2. Power[n - k] \in Nat \ {0}
    BY <2>1, PowerStep
  <2> QED BY <1>1, <2>2, Quotients
<1>3. [k \in 1..n |-> (year \div Power[n - k]) % Base] \in Seq(Int)
  BY <1>1, <1>2
<1>4. Len([k \in 1..n |-> (year \div Power[n - k]) % Base]) = n
  BY <1>1, <1>2
<1> QED BY <1>3, <1>4, DigitsFixed

(* A moment's text is of its second alone, whatever its zone.              *)
LEMMA TextForm ==
    ASSUME NEW t \in Moments
    PROVE  /\ timeText(t) = Digits(t.second \div YearLength) \o <<Hyphen, t.second % YearLength>>
           /\ t.second \in Nat /\ t.second \div YearLength \in Nat /\ t.second % YearLength \in Nat
           /\ InRange(t) => t.second \div YearLength < Power[YearDigits]
<1>1. t \in [second : Int, fraction : BOOLEAN, zone : Int] /\ t.second >= 0
  BY TimeTextAssumption
<1>2. YearLength \in Nat \ {0} /\ YearDigits \in Nat
  BY TimeTextAssumption
<1>3. t.second \in Nat
  BY <1>1
<1>4. Wall(UTC(t)) = t.second
  <2>1. UTC(t).second = t.second /\ UTC(t).zone = 0
    BY <1>1 DEF UTC
  <2> QED BY <1>3, <2>1 DEF Wall
<1>5. timeText(t) = Digits(t.second \div YearLength) \o <<Hyphen, t.second % YearLength>>
  BY <1>4 DEF timeText, Format
<1>6. Power[YearDigits] \in Nat \ {0}
  BY <1>2, PowerStep
<1>7. InRange(t) => t.second \div YearLength < Power[YearDigits]
  <2>1. \A y \in Nat : y < YearLength * Power[YearDigits] => y \div YearLength < Power[YearDigits]
    BY <1>2, <1>6, Quotients
  <2> QED BY <1>3, <2>1 DEF InRange
<1>8. t.second \div YearLength \in Nat /\ t.second % YearLength \in Nat
  BY <1>2, <1>3, Quotients
<1> QED BY <1>3, <1>5, <1>7, <1>8

LEMMA TwoMore ==
    ASSUME NEW s \in Seq(Int), NEW h \in Int, NEW r \in Int
    PROVE  /\ Len(s \o <<h, r>>) = Len(s) + 2
           /\ \A k \in 1..Len(s) : (s \o <<h, r>>)[k] = s[k]
           /\ (s \o <<h, r>>)[Len(s) + 1] = h
           /\ (s \o <<h, r>>)[Len(s) + 2] = r
           /\ s \o <<h, r>> # <<>>
<1>1. /\ <<h, r>> \in Seq(Int) /\ Len(<<h, r>>) = 2
      /\ <<h, r>>[1] = h /\ <<h, r>>[2] = r
  OBVIOUS
<1>2. Len(s) \in Nat
  OBVIOUS
<1> DEFINE t == <<h, r>>
<1> HIDE DEF t
<1>3. /\ Len(s \o t) = Len(s) + 2
      /\ \A k \in 1..(Len(s) + 2) : (s \o t)[k] = IF k <= Len(s) THEN s[k] ELSE t[k - Len(s)]
  <2>1. t \in Seq(Int) /\ Len(t) = 2
    BY <1>1 DEF t
  <2>2. /\ Len(s \o t) = Len(s) + Len(t)
        /\ \A k \in 1..(Len(s) + Len(t)) :
              (s \o t)[k] = IF k <= Len(s) THEN s[k] ELSE t[k - Len(s)]
    BY <2>1, ConcatProperties
  <2> QED BY <2>1, <2>2
<1>4. s \o t # <<>>
  BY <1>2, <1>3
<1>5. \A k \in 1..Len(s) : (s \o t)[k] = s[k]
  BY <1>2, <1>3
<1>6. (s \o t)[Len(s) + 1] = t[1] /\ (s \o t)[Len(s) + 2] = t[2]
  <2>1. /\ Len(s) + 1 \in 1..(Len(s) + 2) /\ ~(Len(s) + 1 <= Len(s))
        /\ Len(s) + 2 \in 1..(Len(s) + 2) /\ ~(Len(s) + 2 <= Len(s))
        /\ (Len(s) + 1) - Len(s) = 1 /\ (Len(s) + 2) - Len(s) = 2
    BY <1>2
  <2> QED BY <1>3, <2>1
<1>7. t[1] = h /\ t[2] = r
  BY <1>1 DEF t
<1> QED BY <1>3, <1>4, <1>5, <1>6, <1>7 DEF t

(* Times that the layout has the digits for are ordered as their texts.    *)
LEMMA TextsOrder ==
    ASSUME NEW t \in Moments, NEW u \in Moments, InRange(t), InRange(u), t.second < u.second
    PROVE  Less(timeText(t), timeText(u))
<1> DEFINE n == YearDigits
           y == t.second \div YearLength
           z == u.second \div YearLength
           a == timeText(t)
           b == timeText(u)
<1>1. n \in Nat \ {0} /\ YearLength \in Nat \ {0} /\ Hyphen \in Int
  BY TimeTextAssumption DEF Hyphen
<1>2. /\ y \in Nat /\ y < Power[n] /\ t.second % YearLength \in Nat /\ t.second \in Nat
      /\ z \in Nat /\ z < Power[n] /\ u.second % YearLength \in Nat /\ u.second \in Nat
  BY TextForm
<1>3. y <= z /\ (y = z => t.second % YearLength < u.second % YearLength)
  <2>1. \A i, j \in Nat : /\ i <= j => i \div YearLength <= j \div YearLength
                          /\ i < j /\ i \div YearLength = j \div YearLength
                                => i % YearLength < j % YearLength
    BY <1>1, Quotients
  <2>2. t.second <= u.second
    BY <1>2
  <2> QED BY <1>2, <2>1, <2>2
<1>4. /\ a = Digits(y) \o <<Hyphen, t.second % YearLength>>
      /\ b = Digits(z) \o <<Hyphen, u.second % YearLength>>
  BY TextForm
<1>5. /\ Digits(y) \in Seq(Int) /\ Len(Digits(y)) = n
      /\ Digits(z) \in Seq(Int) /\ Len(Digits(z)) = n
  BY <1>2, DigitsType
<1>6. /\ Len(a) = n + 2 /\ Len(b) = n + 2 /\ a[n + 1] = Hyphen /\ b[n + 1] = Hyphen
      /\ a[n + 2] = t.second % YearLength /\ b[n + 2] = u.second % YearLength
      /\ \A k \in 1..n : a[k] = Digits(y)[k] /\ b[k] = Digits(z)[k]
  <2>1. t.second % YearLength \in Int /\ u.second % YearLength \in Int
    BY <1>2
  <2> QED BY <1>1, <1>4, <1>5, <2>1, TwoMore
<1> HIDE DEF a, b, y, z
<1>7. CASE y = z
  <2>1. n + 2 \in 1..Len(b) /\ a[n + 2] < b[n + 2]
    BY <1>1, <1>3, <1>6, <1>7
  <2>2. \A j \in 1..((n + 2) - 1) : j <= Len(a) /\ a[j] = b[j]
    <3> TAKE j \in 1..((n + 2) - 1)
    <3>1. j \in 1..n \/ j = n + 1
      BY <1>1
    <3>2. j <= n + 2
      BY <1>1
    <3>3. a[j] = b[j]
      BY <1>6, <1>7, <3>1
    <3> QED BY <1>6, <3>2, <3>3
  <2> QED BY <2>1, <2>2 DEF Less, a, b
<1>8. CASE y < z
  <2>1. PICK k \in 1..n : /\ Digits(y)[k] < Digits(z)[k]
                          /\ \A j \in 1..(k - 1) : Digits(y)[j] = Digits(z)[j]
    BY <1>2, <1>8, DigitsOrder
  <2>2. k \in 1..Len(b) /\ a[k] < b[k]
    BY <1>1, <1>6, <2>1
  <2>3. \A j \in 1..(k - 1) : j <= Len(a) /\ a[j] = b[j]
    <3> TAKE j \in 1..(k - 1)
    <3>1. j \in 1..n /\ j <= n + 2
      BY <1>1
    <3> QED BY <1>6, <2>1, <3>1
  <2> QED BY <2>2, <2>3 DEF Less, a, b
<1> QED BY <1>2, <1>3, <1>7, <1>8

(* A year of any length has its digits too.                                *)
LEMMA PowerAbove ==
    ASSUME NEW n \in Nat PROVE Power[n] > n
<1> DEFINE bad == {k \in Nat : ~(Power[k] > k)}
<1>1. SUFFICES ASSUME bad # {} PROVE FALSE
  OBVIOUS
<1>2. PICK k \in bad : \A j \in bad : k <= j
  <2>1. bad \in SUBSET Nat
    OBVIOUS
  <2> HIDE DEF bad
  <2> QED BY <1>1, <2>1, LeastOf
<1>3. k # 0
  BY <1>2, PowerStep
<1>4. k - 1 \in Nat /\ (k - 1) + 1 = k /\ ~(k <= k - 1)
  BY <1>2, <1>3
<1>5. Power[k - 1] > k - 1 /\ Power[k - 1] \in Nat /\ Power[k] = Base * Power[k - 1]
  BY <1>2, <1>4, PowerStep
<1>6. \A x \in Nat \ {0} : Base * x >= x + 1 /\ Base * x \in Nat
  <2>1. Base \in Nat /\ Base >= 2
    BY TimeTextAssumption
  <2> QED BY <2>1
<1>7. Power[k] >= Power[k - 1] + 1 /\ Power[k] \in Nat
  BY <1>4, <1>5, <1>6, PowerStep
<1> QED BY <1>2, <1>4, <1>5, <1>7

LEMMA DigitsSeq ==
    ASSUME NEW year \in Nat PROVE Digits(year) \in Seq(Int)
<1> DEFINE n == YearDigits
           W(w) == year < Power[w] /\ (w > n => year >= Power[w - 1])
           width == CHOOSE w \in n..(n + year) : W(w)
           S == {w \in n..(n + year) : year < Power[w]}
<1>1. n \in Nat \ {0} /\ Base \in Nat \ {0}
  BY TimeTextAssumption
<1>2. PICK w \in S : \A j \in S : w <= j
  <2>1. n + year \in Nat /\ n + year \in n..(n + year)
    BY <1>1
  <2>2. Power[n + year] > n + year /\ Power[n + year] \in Nat
    BY <2>1, PowerAbove, PowerStep
  <2>3. n + year \in S
    BY <1>1, <2>1, <2>2
  <2>4. S \in SUBSET Nat
    BY <1>1
  <2> HIDE DEF S
  <2> QED BY <2>3, <2>4, LeastOf
<1>3. w \in n..(n + year) /\ W(w)
  <2>1. w \in Nat /\ year < Power[w] /\ w \in n..(n + year)
    BY <1>1, <1>2
  <2>2. w > n => year >= Power[w - 1]
    <3> SUFFICES ASSUME w > n PROVE year >= Power[w - 1]
      OBVIOUS
    <3>1. w - 1 \in n..(n + year) /\ w - 1 \in Nat /\ ~(w <= w - 1)
      BY <1>1, <2>1
    <3>2. ~(year < Power[w - 1]) /\ Power[w - 1] \in Nat
      BY <1>2, <3>1, PowerStep
    <3> QED BY <3>2
  <2> QED BY <2>1, <2>2
<1>4. width \in n..(n + year)
  <2> HIDE DEF W
  <2> QED BY <1>3
<1>5. Digits(year) = [k \in 1..width |-> (year \div Power[width - k]) % Base]
  BY DEF Digits
<1> HIDE DEF width
<1>6. width \in Nat
  BY <1>1, <1>4
<1>7. \A k \in 1..width : (year \div Power[width - k]) % Base \in Int
  <2> TAKE k \in 1..width
  <2>1. width - k \in Nat
    BY <1>6
  <2>2. Power[width - k] \in Nat \ {0}
    BY <2>1, PowerStep
  <2>3. year \div Power[width - k] \in Nat
    BY <2>2, Quotients
  <2> QED BY <1>1, <2>3, Quotients
<1> QED BY <1>5, <1>6, <1>7

LEMMA TextNotNull ==
    ASSUME NEW t \in Moments PROVE timeText(t) # NULL
<1> DEFINE s == Digits(t.second \div YearLength)
           r == t.second % YearLength
<1>1. timeText(t) = s \o <<Hyphen, r>> /\ t.second \div YearLength \in Nat /\ r \in Nat
  BY TextForm
<1>2. s \in Seq(Int)
  BY <1>1, DigitsSeq
<1>3. r \in Int /\ Hyphen \in Int
  BY <1>1 DEF Hyphen
<1> HIDE DEF s, r
<1> QED BY <1>1, <1>2, <1>3, TwoMore DEF NULL

-----------------------------------------------------------------------------
(* What is bound for a time is its text, and NULL for a time there is not. *)
BoundAs(b) == \/ b.value = Nil /\ b.as = NULL
              \/ b.value \in Moments /\ b.as = timeText(b.value)

BoundRight == pkg.dialect \in TextTime => \A b \in bound : BoundAs(b)

LEMMA MomentNotNil == \A t \in Moments : t # Nil
<1> SUFFICES ASSUME NEW t \in Moments, t = Nil PROVE FALSE
  OBVIOUS
<1>1. DOMAIN t = {"second", "fraction", "zone"}
  BY TimeTextAssumption
<1>2. DOMAIN t = {"nil"}
  BY DEF Nil
<1> QED BY <1>1, <1>2

LEMMA BoundOrdered == ASSUME BoundRight PROVE TextsOrderAsTimes
<1>h. SUFFICES ASSUME pkg.dialect \in TextTime PROVE TextsOrderAsTimes
  BY DEF TextsOrderAsTimes
<1>1. \A b \in bound : BoundAs(b)
  BY <1>h DEF BoundRight
<1>2. \A b \in bound : b.value = Nil <=> b.as = NULL
  BY <1>1, MomentNotNil, TextNotNull DEF BoundAs
<1> DEFINE timed == {b \in bound : b.value # Nil /\ InRange(b.value)}
<1>3. \A b \in timed : b.value \in Moments /\ b.as = timeText(b.value) /\ InRange(b.value)
  BY <1>1 DEF BoundAs
<1> HIDE DEF timed
<1>4. ASSUME NEW a \in timed, NEW b \in timed
      PROVE  /\ a.value.second < b.value.second => Less(a.as, b.as)
             /\ a.value.second = b.value.second => a.as = b.as
  <2>1. a.value.second < b.value.second => Less(a.as, b.as)
    BY <1>3, <1>4, TextsOrder
  <2>2. a.value.second = b.value.second => a.as = b.as
    BY <1>3, <1>4, TextForm
  <2> QED BY <2>1, <2>2
<1> QED BY <1>2, <1>4 DEF TextsOrderAsTimes, timed

(* Where times are texts no time is bound as it is.                        *)
LEMMA HelperOfTime ==
    ASSUME pkg.dialect \in TextTime, NEW f, IsTime(f) PROVE Bound(f).helper # ""
<1>1. f.type.kind = "time" /\ f.type.override = None
  BY DEF IsTime
<1>2. pkg.dialect \in Expanding
  BY TimeTextAssumption
<1>3. CASE f.type.slice
  <2>1. binder(f).element = "timeText"
    BY <1>1, <1>3 DEF binder
  <2>2. Bound(f).helper = binder(f).element
    BY <1>2, <1>3 DEF Bound, Expanded
  <2> QED BY <2>1, <2>2
<1>4. CASE ~f.type.slice
  <2>1. binder(f).value \in {"timeText", "timeTextNull", "timeTextPtr"}
    BY <1>1, <1>4 DEF binder
  <2>2. Bound(f).helper = binder(f).value
    BY <1>4 DEF Bound, Expanded
  <2> QED BY <2>1, <2>2
<1> QED BY <1>3, <1>4

LEMMA GivenTimes ==
    ASSUME NEW f, NEW v \in Values(f), NEW k \in DOMAIN v
    PROVE  IsTime(f) /\ (v[k] \in Moments \/ v[k] = Nil)
<1>1. CASE ~IsTime(f)
  <2>1. v = <<>>
    BY <1>1 DEF Values
  <2> QED BY <2>1
<1>2. CASE IsTime(f) /\ f.type.slice
  <2>1. v \in SeqOf(Moments, MaxElements)
    BY <1>2 DEF Values
  <2>2. PICK m \in 0..MaxElements : v \in [1..m -> Moments]
    BY <2>1 DEF SeqOf
  <2> QED BY <1>2, <2>2
<1>3. CASE IsTime(f) /\ ~f.type.slice
  <2>1. PICK x \in Moments \cup {Nil} : v = <<x>>
    BY <1>3 DEF Values
  <2>2. k = 1 /\ v[k] = x
    BY <2>1
  <2> QED BY <1>3, <2>1, <2>2
<1> QED BY <1>1, <1>2, <1>3

LEMMA BoundStep == BoundRight /\ [TNext]_tvars => BoundRight'
<1> SUFFICES ASSUME BoundRight, [TNext]_tvars PROVE BoundRight'
  OBVIOUS
<1>1. pkg' = pkg
  BY DEF TNext, tvars, vars, Call, Next, EmitDB, RefuseOverride, CannotParseTypes,
     EmitTypes, EmitQuerier, WriteConstructor, WriteTimeHelpers, WriteMethod,
     WriteShapeAssertions, CannotParseQueries, Done, Stop
<1>2. ASSUME bound' = bound PROVE BoundRight'
  BY <1>1, <1>2 DEF BoundRight
<1>3. ASSUME NEW q \in Queries, Call(q) PROVE BoundRight'
  <2>h. SUFFICES ASSUME pkg.dialect \in TextTime PROVE \A b \in bound' : BoundAs(b)
    BY <1>1 DEF BoundRight
  <2>1. PICK arg : /\ \A f \in ParamsOf(q) : arg[f] \in Values(f)
                   /\ bound' = bound \cup UNION {Binding(f, arg[f]) : f \in ParamsOf(q)}
    BY <1>3 DEF Call
  <2>2. ASSUME NEW f \in ParamsOf(q), NEW b \in Binding(f, arg[f]) PROVE BoundAs(b)
    <3>1. PICK k \in DOMAIN arg[f] :
             b = [value |-> arg[f][k], as |-> Wrap(Bound(f).helper, arg[f][k])]
      BY DEF Binding
    <3>2. IsTime(f) /\ (arg[f][k] \in Moments \/ arg[f][k] = Nil)
      BY <2>1, GivenTimes
    <3>3. Bound(f).helper # ""
      BY <2>h, <3>2, HelperOfTime
    <3>4. b.value = arg[f][k] /\ b.as = IF arg[f][k] = Nil THEN NULL ELSE timeText(arg[f][k])
      BY <3>1, <3>3 DEF Wrap
    <3> QED BY <3>2, <3>4 DEF BoundAs
  <2>3. ASSUME NEW b \in bound' PROVE BoundAs(b)
    <3>1. CASE b \in bound
      BY <2>h, <3>1 DEF BoundRight
    <3>2. CASE b \notin bound
      BY <2>1, <2>2, <3>2
    <3> QED BY <3>1, <3>2
  <2> QED BY <2>3
<1>4. CASE Next /\ UNCHANGED <<called, bound>>
  BY <1>2, <1>4
<1>5. CASE UNCHANGED tvars
  BY <1>2, <1>5 DEF tvars
<1> QED BY <1>3, <1>4, <1>5 DEF TNext

(* Whatever the packages, the times, the digits and the bounds on the      *)
(* calls, an engine without a timestamp type compares the texts it is      *)
(* given as the others compare times, and gets NULL for no other value.    *)
THEOREM TimesOrdered == TSpec => []TextsOrderAsTimes
<1>1. TInit => BoundRight
  BY DEF TInit, BoundRight
<1>2. BoundRight => TextsOrderAsTimes
  BY BoundOrdered
<1> QED BY <1>1, <1>2, BoundStep, PTL DEF TSpec
=============================================================================
