----------------------------- MODULE MarksProofs -----------------------------
(***************************************************************************)
(* For texts of any length, any words and any catalog: the two passes of   *)
(* Marks find what the definition by parity says; and, for statements of   *)
(* any items, what their author means by it.                               *)
(***************************************************************************)
EXTENDS Statements, SequenceLemmas, FiniteSetTheorems

LEMMA TypeStart == text \in Seq(Lexeme) /\ Start => TypeOK
BY MarksAssumption DEF Start, TypeOK, Place, UserTables

LEMMA TextsTyped == Init => text \in Seq(Lexeme)
BY MarksAssumption DEF Init

LEMMA TypeStep == ASSUME TypeOK, [Next]_vars PROVE TypeOK'
<1> USE DEF TypeOK, Place
<1>1. CASE Skip  BY <1>1 DEF Skip, scanned
<1>2. CASE Open  BY <1>2 DEF Open, scanned
<1>3. CASE Escape  BY <1>3 DEF Escape, scanned
<1>4. CASE Close  BY <1>4 DEF Close, scanned
<1>5. CASE EndLiterals
  <2>1. Len(text) \in Nat  OBVIOUS
  <2> QED  BY <1>5, <2>1 DEF EndLiterals, scanned
<1>6. CASE Copy  BY <1>6 DEF Copy, scanned
<1>7. CASE LeaveLiteral  BY <1>7 DEF LeaveLiteral, Scanning, scanned
<1>8. CASE MarkTable  BY <1>8 DEF MarkTable, Scanning, scanned
<1>9. CASE EndWords  BY <1>9 DEF EndWords, scanned
<1>10. CASE UNCHANGED vars  BY <1>10 DEF vars, scanned
<1> QED
    BY <1>1, <1>2, <1>3, <1>4, <1>5, <1>6, <1>7, <1>8, <1>9, <1>10 DEF Next

(* Every variable keeps its type.                                          *)
THEOREM MarksTyped == Spec => []TypeOK
<1>1. Init => TypeOK
    BY TypeStart, TextsTyped DEF Init
<1> QED  BY <1>1, TypeStep, PTL DEF Spec

-----------------------------------------------------------------------------
(* Parity, one place at a time.                                            *)

LEMMA QuotesFinite ==
    ASSUME NEW p \in Nat \ {0}
    PROVE  IsFiniteSet(QuotesBefore(p)) /\ Cardinality(QuotesBefore(p)) \in Nat
<1>1. IsFiniteSet(1..(p - 1))
    BY FS_Interval
<1>2. IsFiniteSet(QuotesBefore(p))
    BY <1>1, FS_Subset DEF QuotesBefore
<1> QED  BY <1>2, FS_CardinalityType

(* A quote turns inside into outside; anything else leaves it.             *)
LEMMA QuotedNext ==
    ASSUME NEW p \in Nat \ {0}
    PROVE  Quoted(p + 1) <=> IF text[p] = "quote" THEN ~Quoted(p) ELSE Quoted(p)
<1>1. CASE text[p] = "quote"
  <2>1. QuotesBefore(p + 1) = QuotesBefore(p) \cup {p} /\ p \notin QuotesBefore(p)
      BY <1>1 DEF QuotesBefore
  <2>2. Cardinality(QuotesBefore(p + 1)) = Cardinality(QuotesBefore(p)) + 1
      BY <2>1, QuotesFinite, FS_AddElement
  <2>3. ASSUME NEW c \in Nat PROVE (c + 1) % 2 = 1 <=> ~(c % 2 = 1)
      OBVIOUS
  <2> QED  BY <1>1, <2>2, <2>3, QuotesFinite DEF Quoted
<1>2. CASE text[p] # "quote"
  <2>1. QuotesBefore(p + 1) = QuotesBefore(p)
      BY <1>2 DEF QuotesBefore
  <2> QED  BY <1>2, <2>1 DEF Quoted
<1> QED  BY <1>1, <1>2

LEMMA NotQuotedAtFirst == ~Quoted(1)
<1>1. QuotesBefore(1) = {}
    BY DEF QuotesBefore
<1> QED  BY <1>1, FS_EmptySet DEF Quoted

-----------------------------------------------------------------------------
(* The first pass: what it knows of the places behind it.                  *)
LiteralsInv ==
    pc = "literals" =>
        /\ i <= Len(text) + 1 /\ opened < i
        /\ opened # 0 <=> Quoted(i)
        /\ \A s \in spans : s[2] < i
        /\ \A p \in Place : p < i /\ text[p] # "quote" =>
              (Quoted(p) <=> InSpan(p) \/ (opened # 0 /\ opened <= p))

(* The second: its literals are right, and so are the words behind it.     *)
WordsInv ==
    /\ pc = "words" =>
          /\ i <= Len(text) + 1
          /\ \A p \in Place : text[p] # "quote" => (Quoted(p) <=> InSpan(p))
    /\ pc = "literals" => marks = {} /\ warned = {}
    /\ pc = "words" =>
          /\ marks = {p \in Named : p < i /\ ~Quoted(p) /\ ~PrecededByDot(p)}
          /\ warned = {p \in Named : p < i /\ Quoted(p)}
    /\ MarksExact

IInv == TypeOK /\ LiteralsInv /\ WordsInv

(* One literal more.                                                       *)
LEMMA SpanAdded ==
    ASSUME NEW a, NEW b, spans' = spans \cup {<<a, b>>}, NEW p
    PROVE  InSpan(p)' <=> InSpan(p) \/ (a <= p /\ p <= b)
<1>1. <<a, b>>[1] = a /\ <<a, b>>[2] = b
    OBVIOUS
<1>2. InSpan(p)' <=> \E s \in spans' : s[1] <= p /\ p <= s[2]
    BY DEF InSpan
<1>3. (\E s \in {<<a, b>>} : s[1] <= p /\ p <= s[2]) <=> a <= p /\ p <= b
    BY <1>1
<1>4. (\E s \in spans' : s[1] <= p /\ p <= s[2])
        <=> InSpan(p) \/ \E s \in {<<a, b>>} : s[1] <= p /\ p <= s[2]
    BY Zenon DEF InSpan
<1> QED  BY <1>2, <1>3, <1>4

LEMMA StartIInv == text \in Seq(Lexeme) /\ Start => IInv
<1> SUFFICES ASSUME text \in Seq(Lexeme), Start PROVE LiteralsInv /\ WordsInv
    BY TypeStart DEF IInv
<1>1. LiteralsInv
  <2>1. Len(text) \in Nat  OBVIOUS
  <2>2. \A p \in Place : ~(p < 1)  BY DEF Place
  <2> QED  BY <2>1, <2>2, NotQuotedAtFirst DEF Start, LiteralsInv
<1>2. WordsInv
  <2>1. UserTables = {} => Named = {}
      BY DEF Named
  <2> QED  BY <2>1 DEF Start, WordsInv, MarksExact
<1> QED  BY <1>1, <1>2

LEMMA LiteralSteps ==
    ASSUME IInv, Skip \/ Open \/ Escape \/ Close PROVE IInv'
<1>1. TypeOK /\ TypeOK'
    BY TypeStep DEF IInv, Next
<1>2. /\ UNCHANGED <<catalog, text, pc, marks, warned>> /\ pc = "literals"
      /\ i \in 1..Len(text)
    BY <1>1 DEF Skip, Open, Escape, Close, Reading, scanned, TypeOK
<1>3. WordsInv'
    BY <1>2 DEF IInv, WordsInv, MarksExact
<1>4. \A p : Quoted(p)' <=> Quoted(p)
    BY <1>2 DEF Quoted, QuotesBefore
<1>5. Place' = Place /\ Place = 1..Len(text) /\ Len(text) \in Nat
    BY <1>1, <1>2 DEF Place, TypeOK
<1>6. /\ opened < i /\ opened \in Nat
      /\ opened # 0 <=> Quoted(i)
      /\ \A s \in spans : s[2] < i /\ s[1] \in Nat /\ s[2] \in Nat
      /\ \A p \in Place : p < i /\ text[p] # "quote" =>
            (Quoted(p) <=> InSpan(p) \/ (opened # 0 /\ opened <= p))
    BY <1>1, <1>2 DEF IInv, LiteralsInv, TypeOK
<1>7. Quoted(i + 1) <=> IF text[i] = "quote" THEN ~Quoted(i) ELSE Quoted(i)
  <2>1. i \in Nat \ {0}  BY <1>1 DEF TypeOK
  <2> QED  BY <2>1, QuotedNext
<1>8. ~InSpan(i)
    BY <1>2, <1>6 DEF InSpan
<1>9. LiteralsInv'
  <2>1. CASE Skip
    <3>1. i' = i + 1 /\ opened' = opened /\ spans' = spans /\ text[i] # "quote"
        BY <2>1 DEF Skip
    <3>2. \A p : InSpan(p)' <=> InSpan(p)
        BY <3>1 DEF InSpan
    <3>3. ASSUME NEW p \in Place, p < i + 1, text[p] # "quote"
          PROVE  Quoted(p) <=> InSpan(p) \/ (opened # 0 /\ opened <= p)
      <4>1. CASE p < i  BY <1>6, <3>3, <4>1
      <4>2. CASE p = i  BY <1>2, <1>6, <1>8, <4>2
      <4> QED  BY <1>2, <1>5, <3>3, <4>1, <4>2
    <3> QED
        BY <1>2, <1>4, <1>5, <1>6, <1>7, <3>1, <3>2, <3>3 DEF LiteralsInv
  <2>2. CASE Open
    <3>1. i' = i + 1 /\ opened = 0 /\ opened' = i /\ spans' = spans /\ text[i] = "quote"
        BY <2>2 DEF Open
    <3>2. \A p : InSpan(p)' <=> InSpan(p)
        BY <3>1 DEF InSpan
    <3>3. ASSUME NEW p \in Place, p < i + 1, text[p] # "quote"
          PROVE  Quoted(p) <=> InSpan(p) \/ (i # 0 /\ i <= p)
      <4>1. p < i  BY <1>2, <1>5, <3>1, <3>3
      <4> QED  BY <1>2, <1>5, <1>6, <3>1, <3>3, <4>1
    <3> QED
        BY <1>2, <1>4, <1>5, <1>6, <1>7, <3>1, <3>2, <3>3 DEF LiteralsInv
  <2>3. CASE Escape
    <3>1. /\ i' = i + 2 /\ opened' = opened /\ spans' = spans
          /\ text[i] = "quote" /\ text[i + 1] = "quote" /\ i < Len(text)
        BY <2>3 DEF Escape, Doubled
    <3>2. \A p : InSpan(p)' <=> InSpan(p)
        BY <3>1 DEF InSpan
    <3>3. ASSUME NEW p \in Place, p < i + 2, text[p] # "quote" PROVE p < i
        BY <1>2, <1>5, <3>1, <3>3
    <3>4. Quoted((i + 1) + 1) <=> ~Quoted(i + 1)
      <4>1. i + 1 \in Nat \ {0}  BY <1>1 DEF TypeOK
      <4> QED  BY <3>1, <4>1, QuotedNext
    <3>5. (i + 1) + 1 = i + 2
        BY <1>2
    <3> QED
        BY <1>2, <1>4, <1>5, <1>6, <1>7, <3>1, <3>2, <3>3, <3>4, <3>5 DEF LiteralsInv
  <2>4. CASE Close
    <3>1. /\ i' = i + 1 /\ opened # 0 /\ opened' = 0 /\ text[i] = "quote"
          /\ spans' = spans \cup {<<opened, i>>}
        BY <2>4 DEF Close
    <3>2. ASSUME NEW p \in Place, p < i + 1, text[p] # "quote"
          PROVE  Quoted(p) <=> InSpan(p)'
      <4>1. p < i  BY <1>2, <1>5, <3>1, <3>2
      <4>2. InSpan(p)' <=> InSpan(p) \/ (opened <= p /\ p <= i)
          BY <3>1, SpanAdded
      <4> QED  BY <1>2, <1>5, <1>6, <3>1, <3>2, <4>1, <4>2
    <3>3. \A s \in spans' : s[2] < i + 1
        BY <1>2, <1>6, <3>1
    <3> QED
        BY <1>2, <1>4, <1>5, <1>6, <1>7, <3>1, <3>2, <3>3 DEF LiteralsInv
  <2> QED  BY <2>1, <2>2, <2>3, <2>4
<1> QED  BY <1>1, <1>3, <1>9 DEF IInv

LEMMA EndLiteralsStep == ASSUME IInv, EndLiterals PROVE IInv'
<1>1. TypeOK /\ TypeOK'
    BY TypeStep DEF IInv, Next
<1>2. /\ UNCHANGED <<catalog, text, marks, warned>> /\ pc = "literals" /\ pc' = "words"
      /\ i' = 1 /\ i = Len(text) + 1 /\ Len(text) \in Nat
    BY <1>1 DEF EndLiterals, scanned, TypeOK, IInv, LiteralsInv
<1>3. \A p : /\ Quoted(p)' <=> Quoted(p)
             /\ PrecededByDot(p)' <=> PrecededByDot(p)
    BY <1>2 DEF Quoted, QuotesBefore, PrecededByDot
<1>4. Place' = Place /\ Named' = Named /\ Place = 1..Len(text)
    BY <1>1, <1>2 DEF Place, Named, UserTables, TypeOK
<1>5. ASSUME NEW p \in Place, text[p] # "quote" PROVE Quoted(p) <=> InSpan(p)'
  <2>1. Quoted(p) <=> InSpan(p) \/ (opened # 0 /\ opened <= p)
      BY <1>2, <1>4, <1>5 DEF IInv, LiteralsInv
  <2>2. CASE opened # 0
    <3>1. spans' = spans \cup {<<opened, Len(text)>>}
        BY <1>5, <2>2 DEF EndLiterals
    <3>2. InSpan(p)' <=> InSpan(p) \/ (opened <= p /\ p <= Len(text))
        BY <3>1, SpanAdded
    <3> QED  BY <1>4, <2>1, <2>2, <3>2
  <2>3. CASE opened = 0
    <3>1. InSpan(p)' <=> InSpan(p)
        BY <2>3 DEF EndLiterals, InSpan
    <3> QED  BY <2>1, <2>3, <3>1
  <2> QED  BY <2>2, <2>3
<1>6. \A p \in Named : ~(p < 1)
    BY <1>4 DEF Named
<1>7. marks = {} /\ warned = {}
    BY <1>2 DEF IInv, WordsInv
<1>8. WordsInv'
    BY <1>2, <1>3, <1>4, <1>5, <1>6, <1>7 DEF WordsInv, MarksExact
<1> QED  BY <1>1, <1>2, <1>8 DEF IInv, LiteralsInv

LEMMA WordSteps ==
    ASSUME IInv, Copy \/ LeaveLiteral \/ MarkTable PROVE IInv'
<1>1. TypeOK /\ TypeOK'
    BY TypeStep DEF IInv, Next
<1>2. /\ UNCHANGED <<catalog, text, pc, spans>> /\ pc = "words"
      /\ i \in 1..Len(text) /\ i' = i + 1
    BY <1>1 DEF Copy, LeaveLiteral, MarkTable, Scanning, scanned, TypeOK
<1>3. \A p : /\ Quoted(p)' <=> Quoted(p)
             /\ PrecededByDot(p)' <=> PrecededByDot(p)
             /\ InSpan(p)' <=> InSpan(p)
    BY <1>2 DEF Quoted, QuotesBefore, PrecededByDot, InSpan
<1>4. /\ Place' = Place /\ Named' = Named /\ UserTables' = UserTables
      /\ Place = 1..Len(text) /\ Len(text) \in Nat
    BY <1>1, <1>2 DEF Place, Named, UserTables, TypeOK
<1>5. /\ marks = {p \in Named : p < i /\ ~Quoted(p) /\ ~PrecededByDot(p)}
      /\ warned = {p \in Named : p < i /\ Quoted(p)}
      /\ \A p \in Place : text[p] # "quote" => (Quoted(p) <=> InSpan(p))
    BY <1>2 DEF IInv, WordsInv
<1>6. \A p \in Named : p < i + 1 <=> p < i \/ p = i
    BY <1>2, <1>4 DEF Named
<1>7. UserTables \subseteq Name /\ "quote" \notin UserTables
    BY <1>1, MarksAssumption DEF TypeOK, UserTables, Symbol
<1>8. /\ marks' = {p \in Named : p < i + 1 /\ ~Quoted(p) /\ ~PrecededByDot(p)}
      /\ warned' = {p \in Named : p < i + 1 /\ Quoted(p)}
  <2>1. CASE Copy
    <3>1. i \notin Named /\ marks' = marks /\ warned' = warned
        BY <2>1 DEF Copy, Named
    <3> QED  BY <1>5, <1>6, <3>1
  <2>2. CASE LeaveLiteral
    <3>1. i \in Named /\ Quoted(i) /\ marks' = marks /\ warned' = warned \cup {i}
        BY <1>2, <1>4, <1>5, <1>7, <2>2 DEF LeaveLiteral, Named
    <3> QED  BY <1>5, <1>6, <3>1
  <2>3. CASE MarkTable
    <3>1. /\ i \in Named /\ ~Quoted(i) /\ warned' = warned
          /\ marks' = IF PrecededByDot(i) THEN marks ELSE marks \cup {i}
        BY <1>2, <1>4, <1>5, <1>7, <2>3 DEF MarkTable, Named
    <3> QED  BY <1>5, <1>6, <3>1
  <2> QED  BY <2>1, <2>2, <2>3
<1>9. WordsInv'
    BY <1>2, <1>3, <1>4, <1>5, <1>8 DEF WordsInv, MarksExact
<1> QED  BY <1>1, <1>2, <1>9 DEF IInv, LiteralsInv

LEMMA EndWordsStep == ASSUME IInv, EndWords PROVE IInv'
<1>1. TypeOK /\ TypeOK'
    BY TypeStep DEF IInv, Next
<1>2. /\ UNCHANGED <<catalog, text, marks, warned>> /\ pc = "words" /\ pc' = "done"
      /\ i > Len(text) /\ i \in Nat /\ Len(text) \in Nat
    BY <1>1 DEF EndWords, scanned, TypeOK
<1>3. \A p : /\ Quoted(p)' <=> Quoted(p)
             /\ PrecededByDot(p)' <=> PrecededByDot(p)
    BY <1>2 DEF Quoted, QuotesBefore, PrecededByDot
<1>4. Named' = Named /\ \A p \in Named : p < i
    BY <1>1, <1>2 DEF Place, Named, UserTables, TypeOK
<1>5. /\ marks = {p \in Named : ~Quoted(p) /\ ~PrecededByDot(p)}
      /\ warned = {p \in Named : Quoted(p)}
    BY <1>2, <1>4 DEF IInv, WordsInv
<1>6. MarksExact'
    BY <1>2, <1>3, <1>4, <1>5 DEF MarksExact
<1> QED  BY <1>1, <1>2, <1>6 DEF IInv, LiteralsInv, WordsInv

LEMMA StutterStep == ASSUME IInv, UNCHANGED vars PROVE IInv'
<1>1. TypeOK'
    BY TypeStep DEF IInv
<1>2. UNCHANGED <<catalog, text, pc, i, opened, spans, marks, warned>>
    BY DEF vars, scanned
<1>3. \A p : /\ Quoted(p)' <=> Quoted(p)
             /\ PrecededByDot(p)' <=> PrecededByDot(p)
             /\ InSpan(p)' <=> InSpan(p)
    BY <1>2 DEF Quoted, QuotesBefore, PrecededByDot, InSpan
<1>4. Place' = Place /\ Named' = Named
    BY <1>2 DEF Place, Named, UserTables
<1>5. LiteralsInv'
    BY <1>2, <1>3, <1>4 DEF IInv, LiteralsInv
<1>6. MarksExact'
    BY <1>2, <1>3, <1>4 DEF IInv, WordsInv, MarksExact
<1>7. WordsInv'
    BY <1>2, <1>3, <1>4, <1>6 DEF IInv, WordsInv
<1> QED  BY <1>1, <1>5, <1>7 DEF IInv

LEMMA NextIInv == ASSUME IInv, [Next]_vars PROVE IInv'
BY LiteralSteps, EndLiteralsStep, WordSteps, EndWordsStep, StutterStep DEF Next

(* Marked are the words spelled like a table that an even number of quotes *)
(* and no dot precede, in every text.                                      *)
THEOREM MarkedExactly == Spec => []MarksExact
<1>1. IInv => MarksExact
    BY DEF IInv, WordsInv
<1>2. Init => IInv
    BY StartIInv, TextsTyped DEF Init
<1> QED  BY <1>1, <1>2, NextIInv, PTL DEF Spec

-----------------------------------------------------------------------------
(* The text of a statement, item by item.                                  *)
LEMMA ItemType ==
    ASSUME NEW item \in Item
    PROVE  /\ item.kind \in Kind /\ item.word \in Word /\ item.column \in Word
           /\ Spelling(item) \in Seq(Lexeme)
<1>1. item.kind \in Kind /\ item.word \in Word /\ item.column \in Word
  BY ItemAssumption
<1> DEFINE w == item.word
           c == item.column
<1>2. w \in Lexeme /\ c \in Lexeme /\ "quote" \in Lexeme /\ "dot" \in Lexeme
      /\ "space" \in Lexeme /\ "digits" \in Lexeme /\ "other" \in Lexeme
  BY <1>1 DEF Lexeme, Symbol
<1>3. Spelling(item) \in
         {<<w>>, <<w, "dot", c>>, <<w, "space", "dot", "space", c>>, <<c, "dot", w>>,
          <<"other", w, "other">>, <<"digits", w>>, <<"quote", w, "quote">>,
          <<"quote", w, "quote", "quote", w, "quote">>, <<"quote", "quote">>,
          <<"other", w, "quote", "other">>, <<"other", w, "other", c, "other">>}
  BY <1>1 DEF Spelling, Kind
<1> HIDE DEF w, c
<1>4. /\ <<w>> \in Seq(Lexeme) /\ <<w, "dot", c>> \in Seq(Lexeme)
      /\ <<w, "space", "dot", "space", c>> \in Seq(Lexeme) /\ <<c, "dot", w>> \in Seq(Lexeme)
      /\ <<"other", w, "other">> \in Seq(Lexeme) /\ <<"digits", w>> \in Seq(Lexeme)
      /\ <<"quote", w, "quote">> \in Seq(Lexeme)
      /\ <<"quote", w, "quote", "quote", w, "quote">> \in Seq(Lexeme)
      /\ <<"quote", "quote">> \in Seq(Lexeme) /\ <<"other", w, "quote", "other">> \in Seq(Lexeme)
      /\ <<"other", w, "other", c, "other">> \in Seq(Lexeme)
  BY <1>2
<1>5. Spelling(item) \in Seq(Lexeme)
  BY <1>3, <1>4
<1> QED BY <1>1, <1>5

(* The recursion of TextOf.                                                *)
LEMMA TextSteps ==
    ASSUME NEW s \in Statement
    PROVE  /\ Len(s) \in Nat /\ DOMAIN s = 1..Len(s) /\ \A n \in 1..Len(s) : s[n] \in Item
           /\ TextOf(s) \in [0..Len(s) -> Seq(Lexeme)] /\ TextOf(s)[0] = <<>>
           /\ \A n \in 1..Len(s) :
                 TextOf(s)[n] = TextOf(s)[n - 1] \o Spelling(s[n]) \o <<"space">>
<1> DEFINE N == Len(s)
           step == [n \in 1..N |-> [x \in Seq(Lexeme) |-> x \o Spelling(s[n]) \o <<"space">>]]
<1>1. N \in Nat /\ DOMAIN s = 1..N /\ \A n \in 1..N : s[n] \in Item
  <2>1. PICK m \in 0..MaxItems : s \in [1..m -> Item]
    BY DEF Statement
  <2>2. m \in Nat
    BY ItemAssumption
  <2>3. s \in Seq(Item) /\ Len(s) = m
    BY <2>1, <2>2
  <2> QED BY <2>1, <2>2, <2>3
<1> HIDE DEF N
<1>2. <<"space">> \in Seq(Lexeme) /\ <<>> \in Seq(Lexeme)
  BY EmptySeq DEF Lexeme, Symbol
<1>3. ASSUME NEW n \in 1..N, NEW x \in Seq(Lexeme)
      PROVE  x \o Spelling(s[n]) \o <<"space">> \in Seq(Lexeme)
  <2>1. Spelling(s[n]) \in Seq(Lexeme)
    BY <1>1, ItemType
  <2>2. x \o Spelling(s[n]) \in Seq(Lexeme)
    BY <2>1
  <2> QED BY <1>2, <2>2
<1>4. step \in [1..N -> [Seq(Lexeme) -> Seq(Lexeme)]]
  BY <1>3
<1>5. PICK f \in [0..N -> Seq(Lexeme)] : f[0] = <<>> /\ \A n \in 1..N : f[n] = step[n][f[n - 1]]
  <2> HIDE DEF step
  <2>1. Recursions(Seq(Lexeme), N, <<>>, step) # {}
    BY <1>1, <1>2, <1>4, RecursionExists
  <2> QED BY <2>1 DEF Recursions
<1>6. \A n \in 1..N : f[n] = f[n - 1] \o Spelling(s[n]) \o <<"space">>
  <2> TAKE n \in 1..N
  <2>1. n - 1 \in 0..N
    BY <1>1
  <2>2. f[n - 1] \in Seq(Lexeme)
    BY <2>1
  <2> QED BY <1>5, <2>2
<1> DEFINE Is(g) == g = [n \in 0..N |-> IF n = 0 THEN <<>>
                                        ELSE g[n - 1] \o Spelling(s[n]) \o <<"space">>]
<1>7. Is(f)
  <2>1. \A n \in 0..N : f[n] = IF n = 0 THEN <<>> ELSE f[n - 1] \o Spelling(s[n]) \o <<"space">>
    <3>1. \A n \in 0..N : n # 0 => n \in 1..N
      BY <1>1
    <3> QED BY <1>5, <1>6, <3>1
  <2>2. f = [n \in 0..N |-> f[n]]
    OBVIOUS
  <2> QED BY <2>1, <2>2
<1> DEFINE t == CHOOSE g : Is(g)
<1>8. Is(t)
  <2> HIDE DEF Is
  <2> QED BY <1>7
<1>9. TextOf(s) = t
  BY DEF TextOf, N
<1> HIDE DEF t
<1>10. /\ DOMAIN t = 0..N /\ t[0] = <<>>
       /\ \A n \in 1..N : t[n] = t[n - 1] \o Spelling(s[n]) \o <<"space">>
  <2>1. 0 \in 0..N /\ \A n \in 1..N : n \in 0..N /\ n # 0
    BY <1>1
  <2> QED BY <1>8, <2>1
<1>11. t \in [0..N -> Seq(Lexeme)]
  <2> SUFFICES ASSUME {n \in 0..N : t[n] \notin Seq(Lexeme)} # {} PROVE FALSE
    <3>1. t = [n \in 0..N |-> t[n]]
      BY <1>8
    <3> QED BY <3>1
  <2>1. PICK n \in {n \in 0..N : t[n] \notin Seq(Lexeme)} :
           \A m \in {m \in 0..N : t[m] \notin Seq(Lexeme)} : n <= m
    <3>1. {n \in 0..N : t[n] \notin Seq(Lexeme)} \in SUBSET Nat
      BY <1>1
    <3> QED BY <3>1, LeastOf
  <2>2. n # 0 /\ n \in 1..N
    <3>1. n # 0
      BY <1>2, <1>10, <2>1
    <3> QED BY <1>1, <2>1, <3>1
  <2>3. n - 1 \in 0..N /\ ~(n <= n - 1)
    BY <1>1, <2>2
  <2>4. t[n - 1] \in Seq(Lexeme)
    BY <2>1, <2>3
  <2> QED BY <1>3, <1>10, <2>1, <2>2, <2>4
<1> QED BY <1>1, <1>9, <1>10, <1>11 DEF N

(* A statement's first items are the beginning of its text.                *)
LEMMA TextPrefix ==
    ASSUME NEW s \in Statement, NEW n \in 0..Len(s), NEW m \in n..Len(s)
    PROVE  /\ Len(TextOf(s)[n]) <= Len(TextOf(s)[m])
           /\ \A k \in 1..Len(TextOf(s)[n]) : TextOf(s)[m][k] = TextOf(s)[n][k]
<1> DEFINE f == TextOf(s)
           N == Len(s)
           Begins(j) == /\ Len(f[n]) <= Len(f[j])
                        /\ \A k \in 1..Len(f[n]) : f[j][k] = f[n][k]
           bad == {j \in n..N : ~Begins(j)}
<1>1. /\ N \in Nat /\ f \in [0..N -> Seq(Lexeme)]
      /\ \A j \in 1..N : f[j] = f[j - 1] \o Spelling(s[j]) \o <<"space">>
      /\ \A j \in 1..N : s[j] \in Item
  BY TextSteps
<1> HIDE DEF f, N
<1>2. SUFFICES ASSUME bad # {} PROVE FALSE
  <2>1. m \in n..N
    BY DEF N
  <2> HIDE DEF Begins
  <2>2. Begins(m)
    BY <1>2, <2>1
  <2> QED BY <2>2 DEF Begins, f
<1>3. PICK j \in bad : \A k \in bad : j <= k
  <2> HIDE DEF Begins
  <2>1. bad \in SUBSET Nat
    BY <1>1 DEF N
  <2> QED BY <1>2, <2>1, LeastOf
<1>4. j # n
  BY <1>1 DEF N
<1>5. j \in 1..N /\ j - 1 \in n..N /\ j - 1 \in 0..N /\ ~(j <= j - 1) /\ n \in 0..N
  BY <1>1, <1>4 DEF N
<1>6. Begins(j - 1)
  <2> HIDE DEF Begins
  <2> QED BY <1>3, <1>5
<1> DEFINE u == f[j - 1]
           v == Spelling(s[j])
           x == <<"space">>
<1>7. u \in Seq(Lexeme) /\ v \in Seq(Lexeme) /\ x \in Seq(Lexeme) /\ f[j] = (u \o v) \o x
  <2>1. x \in Seq(Lexeme)
    BY DEF Lexeme, Symbol
  <2> QED BY <1>1, <1>5, <2>1, ItemType
<1>8. /\ Len(f[n]) \in Nat /\ Len(f[n]) <= Len(u)
      /\ \A k \in 1..Len(f[n]) : u[k] = f[n][k]
  <2>1. f[n] \in Seq(Lexeme)
    BY <1>1, <1>5
  <2> QED BY <1>6, <2>1
<1> HIDE DEF u, v, x
<1>9. /\ Len((u \o v) \o x) >= Len(u)
      /\ \A k \in 1..Len(u) : ((u \o v) \o x)[k] = u[k]
  <2>1. u \o v \in Seq(Lexeme) /\ Len(u \o v) = Len(u) + Len(v)
    BY <1>7, ConcatProperties
  <2>2. Len(u) \in Nat /\ Len(v) \in Nat /\ Len(x) \in Nat
    BY <1>7
  <2>3. \A k \in 1..Len(u) : (u \o v)[k] = u[k]
    BY <1>7, <2>2, ConcatProperties
  <2>4. Len((u \o v) \o x) = Len(u) + Len(v) + Len(x)
    BY <1>7, <2>1, <2>2, ConcatProperties
  <2>5. \A k \in 1..Len(u \o v) : ((u \o v) \o x)[k] = (u \o v)[k]
    BY <1>7, <2>1, <2>2, ConcatProperties
  <2>6. \A k \in 1..Len(u) : k \in 1..Len(u \o v)
    BY <2>1, <2>2
  <2> QED BY <2>2, <2>3, <2>4, <2>5, <2>6
<1>10. Begins(j)
  <2>1. Len(u) \in Nat /\ Len((u \o v) \o x) \in Nat
    <3>1. (u \o v) \o x \in Seq(Lexeme)
      BY <1>7
    <3> QED BY <1>7, <3>1
  <2>2. \A k \in 1..Len(f[n]) : k \in 1..Len(u)
    BY <1>8, <2>1
  <2> QED BY <1>7, <1>8, <1>9, <2>1, <2>2
<1> HIDE DEF Begins
<1> QED BY <1>3, <1>10

(* An item stands behind the first b lexemes of the text, and a space      *)
(* behind it.                                                              *)
Stands(item, b) ==
    /\ \A k \in 1..Len(Spelling(item)) : text[b + k] = Spelling(item)[k]
    /\ text[b + Len(Spelling(item)) + 1] = "space"

Base(n) == Len(TextOf(statement)[n - 1])

LEMMA TextItems ==
    ASSUME statement \in Statement, text = TextOf(statement)[Len(statement)],
           NEW n \in 1..Len(statement)
    PROVE  /\ statement[n] \in Item /\ Base(n) \in Nat /\ Stands(statement[n], Base(n))
           /\ Base(n + 1) = Base(n) + Len(Spelling(statement[n])) + 1
           /\ Base(n + 1) <= Len(text) /\ Base(1) = 0 /\ Len(text) = Base(Len(statement) + 1)
<1> DEFINE f == TextOf(statement)
           N == Len(statement)
           item == statement[n]
           u == f[n - 1]
           v == Spelling(item)
           x == <<"space">>
<1>1. /\ N \in Nat /\ f \in [0..N -> Seq(Lexeme)] /\ f[0] = <<>>
      /\ f[n] = (u \o v) \o x /\ item \in Item
  BY TextSteps
<1>2. n \in 0..N /\ n - 1 \in 0..N /\ N \in n..N /\ (n + 1) - 1 = n /\ 1 - 1 = 0 /\ (N + 1) - 1 = N
  BY <1>1
<1>3. u \in Seq(Lexeme) /\ v \in Seq(Lexeme) /\ x \in Seq(Lexeme) /\ Len(x) = 1 /\ x[1] = "space"
  <2>1. x \in Seq(Lexeme) /\ Len(x) = 1 /\ x[1] = "space"
    BY DEF Lexeme, Symbol
  <2>2. v \in Seq(Lexeme)
    BY <1>1, ItemType
  <2> QED BY <1>1, <1>2, <2>1, <2>2
<1>4. /\ Len(f[n]) <= Len(text) /\ \A k \in 1..Len(f[n]) : text[k] = f[n][k]
  BY <1>2, TextPrefix
<1> HIDE DEF u, v, x, f
<1>5. Len(u) \in Nat /\ Len(v) \in Nat /\ u \o v \in Seq(Lexeme)
  BY <1>3
<1>6. /\ Len(u \o v) = Len(u) + Len(v)
      /\ \A k \in 1..(Len(u) + Len(v)) :
            (u \o v)[k] = IF k <= Len(u) THEN u[k] ELSE v[k - Len(u)]
  BY <1>3, ConcatProperties
<1>7. /\ Len((u \o v) \o x) = Len(u \o v) + 1
      /\ \A k \in 1..(Len(u \o v) + 1) :
            ((u \o v) \o x)[k] = IF k <= Len(u \o v) THEN (u \o v)[k] ELSE x[k - Len(u \o v)]
  <2> DEFINE y == u \o v
  <2>1. y \in Seq(Lexeme) /\ x \in Seq(Lexeme) /\ Len(x) = 1
    BY <1>3, <1>5
  <2> HIDE DEF y
  <2>2. /\ Len(y \o x) = Len(y) + Len(x)
        /\ \A k \in 1..(Len(y) + Len(x)) :
              (y \o x)[k] = IF k <= Len(y) THEN y[k] ELSE x[k - Len(y)]
    BY <2>1, ConcatProperties
  <2>3. /\ Len(y \o x) = Len(y) + 1
        /\ \A k \in 1..(Len(y) + 1) :
              (y \o x)[k] = IF k <= Len(y) THEN y[k] ELSE x[k - Len(y)]
    BY <2>1, <2>2
  <2> QED BY <2>3 DEF y
<1>8. Len(f[n]) = Len(u) + Len(v) + 1
  BY <1>1, <1>6, <1>7
<1>9. ASSUME NEW k \in 1..Len(v) PROVE text[Len(u) + k] = v[k]
  <2>1. /\ Len(u) + k \in 1..Len(f[n]) /\ Len(u) + k \in 1..(Len(u) + Len(v))
        /\ Len(u) + k \in 1..(Len(u \o v) + 1) /\ Len(u) + k <= Len(u \o v)
        /\ ~(Len(u) + k <= Len(u)) /\ (Len(u) + k) - Len(u) = k
    BY <1>5, <1>6, <1>8
  <2>2. text[Len(u) + k] = ((u \o v) \o x)[Len(u) + k]
    BY <1>1, <1>4, <2>1
  <2>3. ((u \o v) \o x)[Len(u) + k] = (u \o v)[Len(u) + k]
    BY <1>7, <2>1
  <2>4. (u \o v)[Len(u) + k] = v[k]
    BY <1>6, <2>1
  <2> QED BY <2>2, <2>3, <2>4
<1>10. text[Len(u) + Len(v) + 1] = "space"
  <2>1. /\ Len(u) + Len(v) + 1 \in 1..Len(f[n]) /\ Len(u) + Len(v) + 1 \in 1..(Len(u \o v) + 1)
        /\ ~(Len(u) + Len(v) + 1 <= Len(u \o v)) /\ (Len(u) + Len(v) + 1) - Len(u \o v) = 1
    BY <1>5, <1>6, <1>8
  <2> QED BY <1>1, <1>3, <1>4, <1>7, <2>1
<1>11. Base(n) = Len(u) /\ Base(n + 1) = Len(f[n]) /\ Base(1) = 0 /\ Base(N + 1) = Len(text)
  <2>1. Len(<<>>) = 0
    OBVIOUS
  <2> QED BY <1>1, <1>2, <2>1 DEF Base, f, u
<1>12. Stands(item, Len(u))
  BY <1>9, <1>10 DEF Stands, v
<1> QED BY <1>1, <1>4, <1>5, <1>8, <1>11, <1>12 DEF v

(* Every place of the text is one of an item, or of the space behind it.   *)
LEMMA ItemOf ==
    ASSUME statement \in Statement, text = TextOf(statement)[Len(statement)], NEW p \in Place
    PROVE  \E n \in 1..Len(statement) :
              \E k \in 1..(Len(Spelling(statement[n])) + 1) : p = Base(n) + k
<1> DEFINE N == Len(statement)
           beyond == {n \in 0..N : p <= Base(n + 1)}
<1>1. N \in Nat /\ text \in Seq(Lexeme)
  <2>1. N \in 0..N
    BY TextSteps
  <2> QED BY <2>1, TextSteps
<1>2. p \in 1..Len(text) /\ Len(text) \in Nat
  BY <1>1 DEF Place
<1>3. N # 0
  <2> SUFFICES ASSUME N = 0 PROVE FALSE
    OBVIOUS
  <2>1. text = <<>>
    BY TextSteps
  <2> QED BY <1>2, <2>1
<1>4. beyond # {} /\ beyond \in SUBSET Nat
  <2>1. Len(text) = Base(N + 1)
    <3>1. N \in 1..N
      BY <1>1, <1>3
    <3> QED BY <3>1, TextItems
  <2> QED BY <1>1, <1>2, <2>1
<1>5. PICK n \in beyond : \A m \in beyond : n <= m
  <2> HIDE DEF beyond
  <2> QED BY <1>4, LeastOf
<1>6. n # 0
  <2>1. Base(0 + 1) = 0
    <3>1. 1 \in 1..N /\ 0 + 1 = 1
      BY <1>1, <1>3
    <3> QED BY <3>1, TextItems
  <2> QED BY <1>2, <1>5, <2>1
<1>7. n \in 1..N /\ n - 1 \in 0..N /\ (n - 1) + 1 = n /\ ~(n <= n - 1)
  BY <1>1, <1>5, <1>6
<1>8. ~(p <= Base(n))
  BY <1>5, <1>7
<1>9. /\ Base(n) \in Nat /\ Base(n + 1) = Base(n) + Len(Spelling(statement[n])) + 1
      /\ Len(Spelling(statement[n])) \in Nat
  <2>1. statement[n] \in Item
    BY <1>7, TextItems
  <2>2. Len(Spelling(statement[n])) \in Nat
    BY <2>1, ItemType
  <2> QED BY <1>7, <2>2, TextItems
<1>10. p - Base(n) \in 1..(Len(Spelling(statement[n])) + 1) /\ p = Base(n) + (p - Base(n))
  BY <1>2, <1>5, <1>8, <1>9
<1> QED BY <1>7, <1>10

-----------------------------------------------------------------------------
(* What the marker makes of an item, from what comes before it.            *)

(* A place behind one space, or behind none, that no dot precedes.         *)
LEMMA NoDotBefore ==
    ASSUME NEW p \in Nat, p > 1, text[p] = "space" => text[p - 1] \notin {"dot", "space"},
           text[p] # "dot"
    PROVE  ~PrecededByDot(p + 1)
<1> SUFFICES ASSUME NEW q \in 1..p, text[q] = "dot", \A r \in (q + 1)..p : text[r] = "space"
             PROVE  FALSE
  <2>1. (p + 1) - 1 = p
    OBVIOUS
  <2> QED BY <2>1 DEF PrecededByDot
<1>1. q # p /\ p \in (q + 1)..p
  OBVIOUS
<1>2. text[p] = "space" /\ text[p - 1] \notin {"dot", "space"}
  BY <1>1
<1>3. CASE q = p - 1
  BY <1>2, <1>3
<1>4. CASE q # p - 1
  <2>1. p - 1 \in (q + 1)..p
    BY <1>1, <1>4
  <2> QED BY <1>2, <2>1
<1> QED BY <1>3, <1>4

(* Behind an item, no dot precedes.                                        *)
LEMMA NoDotBehind ==
    ASSUME NEW item \in Item, NEW b \in Nat, Stands(item, b)
    PROVE  ~PrecededByDot((b + Len(Spelling(item)) + 1) + 1)
<1> DEFINE u == Spelling(item)
           n == Len(u)
<1>1. n \in Nat \ {0} /\ u[n] \notin {"dot", "space"}
  <2>1. item.word \notin {"dot", "space"} /\ item.column \notin {"dot", "space"}
    BY ItemType, MarksAssumption DEF Symbol
  <2>2. item.kind \in Kind
    BY ItemType
  <2> DEFINE w == item.word
             c == item.column
  <2>3. u \in {<<w>>, <<w, "dot", c>>, <<w, "space", "dot", "space", c>>, <<c, "dot", w>>,
               <<"other", w, "other">>, <<"digits", w>>, <<"quote", w, "quote">>,
               <<"quote", w, "quote", "quote", w, "quote">>, <<"quote", "quote">>,
               <<"other", w, "quote", "other">>, <<"other", w, "other", c, "other">>}
    BY <2>2 DEF Spelling, Kind
  <2> HIDE DEF w, c, u
  <2>4. w \notin {"dot", "space"} /\ c \notin {"dot", "space"}
    BY <2>1 DEF w, c
  <2>5. CASE u = <<w>>
    BY <2>4, <2>5
  <2>6. CASE u = <<w, "dot", c>>
    BY <2>4, <2>6
  <2>7. CASE u = <<w, "space", "dot", "space", c>>
    BY <2>4, <2>7
  <2>8. CASE u = <<c, "dot", w>>
    BY <2>4, <2>8
  <2>9. CASE u = <<"other", w, "other">>
    BY <2>4, <2>9
  <2>10. CASE u = <<"digits", w>>
    BY <2>4, <2>10
  <2>11. CASE u = <<"quote", w, "quote">>
    BY <2>4, <2>11
  <2>12. CASE u = <<"quote", w, "quote", "quote", w, "quote">>
    BY <2>4, <2>12
  <2>13. CASE u = <<"quote", "quote">>
    BY <2>4, <2>13
  <2>14. CASE u = <<"other", w, "quote", "other">>
    BY <2>4, <2>14
  <2>15. CASE u = <<"other", w, "other", c, "other">>
    BY <2>4, <2>15
  <2> QED BY <2>3, <2>5, <2>6, <2>7, <2>8, <2>9, <2>10, <2>11, <2>12, <2>13, <2>14, <2>15
<1> HIDE DEF n, u
<1>2. text[b + n] = u[n] /\ text[b + n + 1] = "space"
  <2>1. n \in 1..n
    BY <1>1
  <2> QED BY <2>1 DEF Stands, n, u
<1> DEFINE p == b + n + 1
<1>3. p \in Nat /\ p > 1 /\ p - 1 = b + n
  BY <1>1
<1> HIDE DEF p
<1>4. text[p] = "space" /\ text[p - 1] \notin {"dot", "space"}
  BY <1>1, <1>2, <1>3 DEF p
<1>5. ~PrecededByDot(p + 1)
  BY <1>3, <1>4, NoDotBefore
<1> QED BY <1>5 DEF p, n, u

(* A word behind a dot, or behind a dot and a space, is preceded by one.    *)
LEMMA DotBefore ==
    ASSUME NEW p \in Nat
    PROVE  /\ p > 0 /\ text[p] = "dot" => PrecededByDot(p + 1)
           /\ p > 1 /\ text[p] = "space" /\ text[p - 1] = "dot" => PrecededByDot(p + 1)
<1>0. (p + 1) - 1 = p
  OBVIOUS
<1>1. ASSUME p > 0, text[p] = "dot" PROVE PrecededByDot(p + 1)
  <2>1. p \in 1..p /\ \A r \in (p + 1)..p : text[r] = "space"
    BY <1>1
  <2> QED BY <1>0, <1>1, <2>1 DEF PrecededByDot
<1>2. ASSUME p > 1, text[p] = "space", text[p - 1] = "dot" PROVE PrecededByDot(p + 1)
  <2>1. p - 1 \in 1..p /\ \A r \in ((p - 1) + 1)..p : r = p
    BY <1>2
  <2> QED BY <1>0, <1>2, <2>1 DEF PrecededByDot
<1> QED BY <1>1, <1>2

(* A plain item that begins outside literals ends outside, and of its      *)
(* words that are spelled like a table those it names one by are neither   *)
(* quoted nor behind a dot, and the others are.                            *)
LEMMA PlainItem ==
    ASSUME Own \subseteq Name, NEW item \in Item, NEW b \in Nat, Stands(item, b),
           Plain(item), ~Quoted(b + 1), ~PrecededByDot(b + 1)
    PROVE  /\ ~Quoted(b + (Len(Spelling(item)) + 2))
           /\ \A k \in 1..(Len(Spelling(item)) + 1) : text[b + k] \in Own =>
                 (~Quoted(b + k) /\ ~PrecededByDot(b + k) <=> k \in TablesOf(item))
<1> DEFINE w == item.word
           c == item.column
           u == Spelling(item)
           n == Len(u)
<1>1. /\ w \in Word /\ c \in Word /\ w # "quote" /\ c # "quote" /\ w # "dot" /\ w # "space"
      /\ item.kind \in Kind /\ \A x \in Symbol : x \notin Own
  BY ItemType, MarksAssumption DEF Symbol
<1>2. item.kind \in {"column", "string", "digitFirst"} => w \notin Own
  BY DEF Plain
<1>3. item.kind \notin {"apostrophe", "ofSchema", "oddTable"}
  BY DEF Plain
<1>4. \A k \in Nat \ {0} :
         Quoted((b + k) + 1) <=> IF text[b + k] = "quote" THEN ~Quoted(b + k) ELSE Quoted(b + k)
  <2> TAKE k \in Nat \ {0}
  <2>1. b + k \in Nat \ {0}
    OBVIOUS
  <2> QED BY <2>1, QuotedNext
<1>5. \A k \in Nat \ {0} :
         /\ text[b + k] = "dot" => PrecededByDot((b + k) + 1)
         /\ b + k > 1 /\ text[b + k] = "space" /\ text[(b + k) - 1] = "dot" =>
                PrecededByDot((b + k) + 1)
  <2> TAKE k \in Nat \ {0}
  <2>1. b + k \in Nat /\ b + k > 0
    OBVIOUS
  <2> QED BY <2>1, DotBefore
<1>6. /\ (b + 1) + 1 = b + 2 /\ (b + 2) + 1 = b + 3 /\ (b + 3) + 1 = b + 4
      /\ (b + 4) + 1 = b + 5 /\ (b + 5) + 1 = b + 6 /\ (b + 6) + 1 = b + 7
      /\ (b + 7) + 1 = b + 8 /\ (b + 4) - 1 = b + 3 /\ b + 4 > 1
  OBVIOUS
<1>7. CASE item.kind = "table"
  <2>1. u = <<w>> /\ n = 1
    BY <1>7 DEF Spelling
  <2>2. text[b + 1] = w /\ text[b + 2] = "space"
    <3> HIDE DEF w, c, u
    <3>1. (b + 1) + 1 = b + 2
      OBVIOUS
    <3>2. \A k \in 1..n : text[b + k] = u[k]
      BY DEF Stands, u
    <3>3. text[b + n + 1] = "space"
      BY DEF Stands, u
    <3> QED BY <2>1, <3>1, <3>2, <3>3
  <2>3. ~Quoted(b + 1) /\ ~Quoted(b + 2) /\ ~Quoted(b + 3)
    BY <1>1, <1>4, <1>6, <2>2
  <2>4. TablesOf(item) = {1}
    BY <1>7 DEF TablesOf
  <2>6. ASSUME NEW k \in 1..(1 + 1), text[b + k] \in Own
        PROVE  ~Quoted(b + k) /\ ~PrecededByDot(b + k) <=> k \in TablesOf(item)
    <3>1. k = 1 \/ k = 2
      OBVIOUS
    <3>2. "dot" \in Symbol /\ "space" \in Symbol /\ "quote" \in Symbol /\ "other" \in Symbol /\ "digits" \in Symbol
      BY DEF Symbol
    <3> QED BY <1>1, <2>1, <2>2, <2>3, <2>4, <2>6, <3>1, <3>2
  <2>7. n + 2 = 3 /\ n + 1 = 1 + 1
    BY <2>1
  <2> QED BY <2>3, <2>6, <2>7
<1>8. CASE item.kind = "column"
  <2>1. u = <<w>> /\ n = 1
    BY <1>8 DEF Spelling
  <2>2. text[b + 1] = w /\ text[b + 2] = "space"
    <3> HIDE DEF w, c, u
    <3>1. (b + 1) + 1 = b + 2
      OBVIOUS
    <3>2. \A k \in 1..n : text[b + k] = u[k]
      BY DEF Stands, u
    <3>3. text[b + n + 1] = "space"
      BY DEF Stands, u
    <3> QED BY <2>1, <3>1, <3>2, <3>3
  <2>3. ~Quoted(b + 1) /\ ~Quoted(b + 2) /\ ~Quoted(b + 3)
    BY <1>1, <1>4, <1>6, <2>2
  <2>4. TablesOf(item) = {}
    BY <1>8 DEF TablesOf
  <2>5. w \notin Own
    BY <1>2, <1>8
  <2>6. ASSUME NEW k \in 1..(1 + 1), text[b + k] \in Own
        PROVE  ~Quoted(b + k) /\ ~PrecededByDot(b + k) <=> k \in TablesOf(item)
    <3>1. k = 1 \/ k = 2
      OBVIOUS
    <3>2. "dot" \in Symbol /\ "space" \in Symbol /\ "quote" \in Symbol /\ "other" \in Symbol /\ "digits" \in Symbol
      BY DEF Symbol
    <3> QED BY <1>1, <2>1, <2>2, <2>3, <2>4, <2>5, <2>6, <3>1, <3>2
  <2>7. n + 2 = 3 /\ n + 1 = 1 + 1
    BY <2>1
  <2> QED BY <2>3, <2>6, <2>7
<1>9. CASE item.kind = "ofTable"
  <2>1. u = <<w, "dot", c>> /\ n = 3
    BY <1>9 DEF Spelling
  <2>2. text[b + 1] = w /\ text[b + 2] = "dot" /\ text[b + 3] = c /\ text[b + 4] = "space"
    <3> HIDE DEF w, c, u
    <3>1. (b + 3) + 1 = b + 4
      OBVIOUS
    <3>2. \A k \in 1..n : text[b + k] = u[k]
      BY DEF Stands, u
    <3>3. text[b + n + 1] = "space"
      BY DEF Stands, u
    <3> QED BY <2>1, <3>1, <3>2, <3>3
  <2>3. ~Quoted(b + 1) /\ ~Quoted(b + 2) /\ ~Quoted(b + 3) /\ ~Quoted(b + 4) /\ ~Quoted(b + 5)
    BY <1>1, <1>4, <1>6, <2>2
  <2>4. TablesOf(item) = {1}
    BY <1>9 DEF TablesOf
  <2>5. PrecededByDot(b + 3)
    BY <1>5, <1>6, <2>2
  <2>6. ASSUME NEW k \in 1..(3 + 1), text[b + k] \in Own
        PROVE  ~Quoted(b + k) /\ ~PrecededByDot(b + k) <=> k \in TablesOf(item)
    <3>1. k = 1 \/ k = 2 \/ k = 3 \/ k = 4
      OBVIOUS
    <3>2. "dot" \in Symbol /\ "space" \in Symbol /\ "quote" \in Symbol /\ "other" \in Symbol /\ "digits" \in Symbol
      BY DEF Symbol
    <3> QED BY <1>1, <2>1, <2>2, <2>3, <2>4, <2>5, <2>6, <3>1, <3>2
  <2>7. n + 2 = 5 /\ n + 1 = 3 + 1
    BY <2>1
  <2> QED BY <2>3, <2>6, <2>7
<1>10. CASE item.kind = "ofTableWide"
  <2>1. u = <<w, "space", "dot", "space", c>> /\ n = 5
    BY <1>10 DEF Spelling
  <2>2. text[b + 1] = w /\ text[b + 2] = "space" /\ text[b + 3] = "dot" /\ text[b + 4] = "space" /\ text[b + 5] = c /\ text[b + 6] = "space"
    <3> HIDE DEF w, c, u
    <3>1. (b + 5) + 1 = b + 6
      OBVIOUS
    <3>2. \A k \in 1..n : text[b + k] = u[k]
      BY DEF Stands, u
    <3>3. text[b + n + 1] = "space"
      BY DEF Stands, u
    <3> QED BY <2>1, <3>1, <3>2, <3>3
  <2>3. ~Quoted(b + 1) /\ ~Quoted(b + 2) /\ ~Quoted(b + 3) /\ ~Quoted(b + 4) /\ ~Quoted(b + 5) /\ ~Quoted(b + 6) /\ ~Quoted(b + 7)
    BY <1>1, <1>4, <1>6, <2>2
  <2>4. TablesOf(item) = {1}
    BY <1>10 DEF TablesOf
  <2>5. PrecededByDot(b + 5)
    BY <1>5, <1>6, <2>2
  <2>6. ASSUME NEW k \in 1..(5 + 1), text[b + k] \in Own
        PROVE  ~Quoted(b + k) /\ ~PrecededByDot(b + k) <=> k \in TablesOf(item)
    <3>1. k = 1 \/ k = 2 \/ k = 3 \/ k = 4 \/ k = 5 \/ k = 6
      OBVIOUS
    <3>2. "dot" \in Symbol /\ "space" \in Symbol /\ "quote" \in Symbol /\ "other" \in Symbol /\ "digits" \in Symbol
      BY DEF Symbol
    <3> QED BY <1>1, <2>1, <2>2, <2>3, <2>4, <2>5, <2>6, <3>1, <3>2
  <2>7. n + 2 = 7 /\ n + 1 = 5 + 1
    BY <2>1
  <2> QED BY <2>3, <2>6, <2>7
<1>11. CASE item.kind = "quotedTable"
  <2>1. u = <<"other", w, "other">> /\ n = 3
    BY <1>11 DEF Spelling
  <2>2. text[b + 1] = "other" /\ text[b + 2] = w /\ text[b + 3] = "other" /\ text[b + 4] = "space"
    <3> HIDE DEF w, c, u
    <3>1. (b + 3) + 1 = b + 4
      OBVIOUS
    <3>2. \A k \in 1..n : text[b + k] = u[k]
      BY DEF Stands, u
    <3>3. text[b + n + 1] = "space"
      BY DEF Stands, u
    <3> QED BY <2>1, <3>1, <3>2, <3>3
  <2>3. ~Quoted(b + 1) /\ ~Quoted(b + 2) /\ ~Quoted(b + 3) /\ ~Quoted(b + 4) /\ ~Quoted(b + 5)
    BY <1>1, <1>4, <1>6, <2>2
  <2>4. TablesOf(item) = {2}
    BY <1>11 DEF TablesOf
  <2>5. ~PrecededByDot(b + 2)
    <3> SUFFICES ASSUME PrecededByDot(b + 2) PROVE FALSE
      OBVIOUS
    <3>1. PICK q \in 1..(b + 1) : text[q] = "dot" /\ \A r \in (q + 1)..(b + 1) : text[r] = "space"
      <4>1. (b + 2) - 1 = b + 1
        OBVIOUS
      <4> QED BY <4>1 DEF PrecededByDot
    <3>2. q = b + 1 \/ b + 1 \in (q + 1)..(b + 1)
      OBVIOUS
    <3> QED BY <2>2, <3>1, <3>2
  <2>6. ASSUME NEW k \in 1..(3 + 1), text[b + k] \in Own
        PROVE  ~Quoted(b + k) /\ ~PrecededByDot(b + k) <=> k \in TablesOf(item)
    <3>1. k = 1 \/ k = 2 \/ k = 3 \/ k = 4
      OBVIOUS
    <3>2. "dot" \in Symbol /\ "space" \in Symbol /\ "quote" \in Symbol /\ "other" \in Symbol /\ "digits" \in Symbol
      BY DEF Symbol
    <3> QED BY <1>1, <2>1, <2>2, <2>3, <2>4, <2>5, <2>6, <3>1, <3>2
  <2>7. n + 2 = 5 /\ n + 1 = 3 + 1
    BY <2>1
  <2> QED BY <2>3, <2>6, <2>7
<1>12. CASE item.kind = "digitFirst"
  <2>1. u = <<"digits", w>> /\ n = 2
    BY <1>12 DEF Spelling
  <2>2. text[b + 1] = "digits" /\ text[b + 2] = w /\ text[b + 3] = "space"
    <3> HIDE DEF w, c, u
    <3>1. (b + 2) + 1 = b + 3
      OBVIOUS
    <3>2. \A k \in 1..n : text[b + k] = u[k]
      BY DEF Stands, u
    <3>3. text[b + n + 1] = "space"
      BY DEF Stands, u
    <3> QED BY <2>1, <3>1, <3>2, <3>3
  <2>3. ~Quoted(b + 1) /\ ~Quoted(b + 2) /\ ~Quoted(b + 3) /\ ~Quoted(b + 4)
    BY <1>1, <1>4, <1>6, <2>2
  <2>4. TablesOf(item) = {}
    BY <1>12 DEF TablesOf
  <2>5. w \notin Own
    BY <1>2, <1>12
  <2>6. ASSUME NEW k \in 1..(2 + 1), text[b + k] \in Own
        PROVE  ~Quoted(b + k) /\ ~PrecededByDot(b + k) <=> k \in TablesOf(item)
    <3>1. k = 1 \/ k = 2 \/ k = 3
      OBVIOUS
    <3>2. "dot" \in Symbol /\ "space" \in Symbol /\ "quote" \in Symbol /\ "other" \in Symbol /\ "digits" \in Symbol
      BY DEF Symbol
    <3> QED BY <1>1, <2>1, <2>2, <2>3, <2>4, <2>5, <2>6, <3>1, <3>2
  <2>7. n + 2 = 4 /\ n + 1 = 2 + 1
    BY <2>1
  <2> QED BY <2>3, <2>6, <2>7
<1>13. CASE item.kind = "literal"
  <2>1. u = <<"quote", w, "quote">> /\ n = 3
    BY <1>13 DEF Spelling
  <2>2. text[b + 1] = "quote" /\ text[b + 2] = w /\ text[b + 3] = "quote" /\ text[b + 4] = "space"
    <3> HIDE DEF w, c, u
    <3>1. (b + 3) + 1 = b + 4
      OBVIOUS
    <3>2. \A k \in 1..n : text[b + k] = u[k]
      BY DEF Stands, u
    <3>3. text[b + n + 1] = "space"
      BY DEF Stands, u
    <3> QED BY <2>1, <3>1, <3>2, <3>3
  <2>3. ~Quoted(b + 1) /\ Quoted(b + 2) /\ Quoted(b + 3) /\ ~Quoted(b + 4) /\ ~Quoted(b + 5)
    BY <1>1, <1>4, <1>6, <2>2
  <2>4. TablesOf(item) = {}
    BY <1>13 DEF TablesOf
  <2>6. ASSUME NEW k \in 1..(3 + 1), text[b + k] \in Own
        PROVE  ~Quoted(b + k) /\ ~PrecededByDot(b + k) <=> k \in TablesOf(item)
    <3>1. k = 1 \/ k = 2 \/ k = 3 \/ k = 4
      OBVIOUS
    <3>2. "dot" \in Symbol /\ "space" \in Symbol /\ "quote" \in Symbol /\ "other" \in Symbol /\ "digits" \in Symbol
      BY DEF Symbol
    <3> QED BY <1>1, <2>1, <2>2, <2>3, <2>4, <2>6, <3>1, <3>2
  <2>7. n + 2 = 5 /\ n + 1 = 3 + 1
    BY <2>1
  <2> QED BY <2>3, <2>6, <2>7
<1>14. CASE item.kind = "escaped"
  <2>1. u = <<"quote", w, "quote", "quote", w, "quote">> /\ n = 6
    BY <1>14 DEF Spelling
  <2>2. text[b + 1] = "quote" /\ text[b + 2] = w /\ text[b + 3] = "quote" /\ text[b + 4] = "quote" /\ text[b + 5] = w /\ text[b + 6] = "quote" /\ text[b + 7] = "space"
    <3> HIDE DEF w, c, u
    <3>1. (b + 6) + 1 = b + 7
      OBVIOUS
    <3>2. \A k \in 1..n : text[b + k] = u[k]
      BY DEF Stands, u
    <3>3. text[b + n + 1] = "space"
      BY DEF Stands, u
    <3> QED BY <2>1, <3>1, <3>2, <3>3
  <2>3. ~Quoted(b + 1) /\ Quoted(b + 2) /\ Quoted(b + 3) /\ ~Quoted(b + 4) /\ Quoted(b + 5) /\ Quoted(b + 6) /\ ~Quoted(b + 7) /\ ~Quoted(b + 8)
    BY <1>1, <1>4, <1>6, <2>2
  <2>4. TablesOf(item) = {}
    BY <1>14 DEF TablesOf
  <2>6. ASSUME NEW k \in 1..(6 + 1), text[b + k] \in Own
        PROVE  ~Quoted(b + k) /\ ~PrecededByDot(b + k) <=> k \in TablesOf(item)
    <3>1. k = 1 \/ k = 2 \/ k = 3 \/ k = 4 \/ k = 5 \/ k = 6 \/ k = 7
      OBVIOUS
    <3>2. "dot" \in Symbol /\ "space" \in Symbol /\ "quote" \in Symbol /\ "other" \in Symbol /\ "digits" \in Symbol
      BY DEF Symbol
    <3> QED BY <1>1, <2>1, <2>2, <2>3, <2>4, <2>6, <3>1, <3>2
  <2>7. n + 2 = 8 /\ n + 1 = 6 + 1
    BY <2>1
  <2> QED BY <2>3, <2>6, <2>7
<1>15. CASE item.kind = "empty"
  <2>1. u = <<"quote", "quote">> /\ n = 2
    BY <1>15 DEF Spelling
  <2>2. text[b + 1] = "quote" /\ text[b + 2] = "quote" /\ text[b + 3] = "space"
    <3> HIDE DEF w, c, u
    <3>1. (b + 2) + 1 = b + 3
      OBVIOUS
    <3>2. \A k \in 1..n : text[b + k] = u[k]
      BY DEF Stands, u
    <3>3. text[b + n + 1] = "space"
      BY DEF Stands, u
    <3> QED BY <2>1, <3>1, <3>2, <3>3
  <2>3. ~Quoted(b + 1) /\ Quoted(b + 2) /\ ~Quoted(b + 3) /\ ~Quoted(b + 4)
    BY <1>1, <1>4, <1>6, <2>2
  <2>4. TablesOf(item) = {}
    BY <1>15 DEF TablesOf
  <2>6. ASSUME NEW k \in 1..(2 + 1), text[b + k] \in Own
        PROVE  ~Quoted(b + k) /\ ~PrecededByDot(b + k) <=> k \in TablesOf(item)
    <3>1. k = 1 \/ k = 2 \/ k = 3
      OBVIOUS
    <3>2. "dot" \in Symbol /\ "space" \in Symbol /\ "quote" \in Symbol /\ "other" \in Symbol /\ "digits" \in Symbol
      BY DEF Symbol
    <3> QED BY <1>1, <2>1, <2>2, <2>3, <2>4, <2>6, <3>1, <3>2
  <2>7. n + 2 = 4 /\ n + 1 = 2 + 1
    BY <2>1
  <2> QED BY <2>3, <2>6, <2>7
<1>16. CASE item.kind = "string"
  <2>1. u = <<"other", w, "other">> /\ n = 3
    BY <1>16 DEF Spelling
  <2>2. text[b + 1] = "other" /\ text[b + 2] = w /\ text[b + 3] = "other" /\ text[b + 4] = "space"
    <3> HIDE DEF w, c, u
    <3>1. (b + 3) + 1 = b + 4
      OBVIOUS
    <3>2. \A k \in 1..n : text[b + k] = u[k]
      BY DEF Stands, u
    <3>3. text[b + n + 1] = "space"
      BY DEF Stands, u
    <3> QED BY <2>1, <3>1, <3>2, <3>3
  <2>3. ~Quoted(b + 1) /\ ~Quoted(b + 2) /\ ~Quoted(b + 3) /\ ~Quoted(b + 4) /\ ~Quoted(b + 5)
    BY <1>1, <1>4, <1>6, <2>2
  <2>4. TablesOf(item) = {}
    BY <1>16 DEF TablesOf
  <2>5. w \notin Own
    BY <1>2, <1>16
  <2>6. ASSUME NEW k \in 1..(3 + 1), text[b + k] \in Own
        PROVE  ~Quoted(b + k) /\ ~PrecededByDot(b + k) <=> k \in TablesOf(item)
    <3>1. k = 1 \/ k = 2 \/ k = 3 \/ k = 4
      OBVIOUS
    <3>2. "dot" \in Symbol /\ "space" \in Symbol /\ "quote" \in Symbol /\ "other" \in Symbol /\ "digits" \in Symbol
      BY DEF Symbol
    <3> QED BY <1>1, <2>1, <2>2, <2>3, <2>4, <2>5, <2>6, <3>1, <3>2
  <2>7. n + 2 = 5 /\ n + 1 = 3 + 1
    BY <2>1
  <2> QED BY <2>3, <2>6, <2>7
<1> QED BY <1>1, <1>3, <1>7, <1>8, <1>9, <1>10, <1>11, <1>12, <1>13, <1>14, <1>15, <1>16 DEF Kind

(* A name of a table is a place of its item, a dot precedes it only where  *)
(* it is reached through its schema, and unless it is no identifier its    *)
(* word stands there.                                                      *)
LEMMA TableOfItem ==
    ASSUME NEW item \in Item, NEW b \in Nat, Stands(item, b), ~PrecededByDot(b + 1),
           NEW k \in TablesOf(item)
    PROVE  /\ k \in 1..Len(Spelling(item))
           /\ PrecededByDot(b + k) <=> item.kind = "ofSchema"
           /\ item.kind # "oddTable" => text[b + k] = item.word
<1> DEFINE w == item.word
           c == item.column
           u == Spelling(item)
<1>1. item.kind \in Kind
  BY ItemType
<1>2. CASE item.kind \in {"table", "ofTable", "ofTableWide", "oddTable"}
  <2>1. /\ k = 1
        /\ u \in {<<w>>, <<w, "dot", c>>, <<w, "space", "dot", "space", c>>,
                  <<"other", w, "other", c, "other">>}
        /\ item.kind # "oddTable" => u[1] = w
    BY <1>2 DEF TablesOf, Spelling
  <2>2. Len(u) \in {1, 3, 5}
    BY <2>1
  <2>3. k \in 1..Len(u)
    <3> HIDE DEF u
    <3>1. 1 \in 1..Len(u)
      BY <2>2
    <3> QED BY <2>1, <3>1
  <2>4. ~PrecededByDot(b + k)
    BY <2>1
  <2>5. item.kind # "oddTable" => text[b + k] = w
    <3> HIDE DEF u, w
    <3> QED BY <2>1, <2>3 DEF Stands, u
  <2> QED BY <1>2, <2>3, <2>4, <2>5
<1>3. CASE item.kind = "quotedTable"
  <2>1. k = 2 /\ u = <<"other", w, "other">>
    BY <1>3 DEF TablesOf, Spelling
  <2>2. Len(u) = 3 /\ u[1] = "other" /\ 1 \in 1..Len(u) /\ u[2] = w /\ 2 \in 1..Len(u)
    BY <2>1
  <2>3. text[b + 1] = "other" /\ text[b + 2] = w
    <3> HIDE DEF u, w
    <3> QED BY <2>2 DEF Stands, u
  <2>4. ~PrecededByDot(b + 2)
    <3> SUFFICES ASSUME PrecededByDot(b + 2) PROVE FALSE
      OBVIOUS
    <3>1. PICK q \in 1..(b + 1) : text[q] = "dot" /\ \A r \in (q + 1)..(b + 1) : text[r] = "space"
      <4>1. (b + 2) - 1 = b + 1
        OBVIOUS
      <4> QED BY <4>1 DEF PrecededByDot
    <3>2. q = b + 1 \/ b + 1 \in (q + 1)..(b + 1)
      OBVIOUS
    <3> QED BY <2>3, <3>1, <3>2
  <2> QED BY <1>3, <2>1, <2>2, <2>3, <2>4
<1>4. CASE item.kind = "ofSchema"
  <2>1. k = 3 /\ u = <<c, "dot", w>>
    BY <1>4 DEF TablesOf, Spelling
  <2>2. Len(u) = 3 /\ u[2] = "dot" /\ 2 \in 1..Len(u) /\ u[3] = w /\ 3 \in 1..Len(u)
    BY <2>1
  <2>3. text[b + 2] = "dot" /\ text[b + 3] = w
    <3> HIDE DEF u, w
    <3> QED BY <2>2 DEF Stands, u
  <2>4. PrecededByDot(b + 3)
    <3>1. b + 2 \in Nat /\ b + 2 > 0 /\ (b + 2) + 1 = b + 3
      OBVIOUS
    <3> QED BY <2>3, <3>1, DotBefore
  <2> QED BY <1>4, <2>1, <2>2, <2>3, <2>4
<1>5. CASE item.kind \notin {"table", "ofTable", "ofTableWide", "oddTable", "quotedTable",
                            "ofSchema"}
  <2>1. TablesOf(item) = {}
    BY <1>5 DEF TablesOf
  <2> QED BY <2>1
<1> QED BY <1>2, <1>3, <1>4, <1>5

-----------------------------------------------------------------------------
(* Every item of a statement begins behind no dot, and in a statement of   *)
(* plain items outside every literal.                                      *)
Written == statement \in Statement /\ text = TextOf(statement)[Len(statement)]

LEMMA NoDotAtFirst == ~PrecededByDot(0 + 1)
BY DEF PrecededByDot

LEMMA BeginsBare ==
    ASSUME Written, NEW n \in 1..Len(statement)
    PROVE  ~PrecededByDot(Base(n) + 1)
<1>1. Len(statement) \in Nat
  BY TextSteps DEF Written
<1>2. CASE n = 1
  <2>1. Base(n) = 0
    BY <1>2, TextItems DEF Written
  <2> QED BY <2>1, NoDotAtFirst
<1>3. CASE n # 1
  <2> DEFINE m == n - 1
  <2>1. m \in 1..Len(statement) /\ m + 1 = n
    BY <1>1, <1>3
  <2> HIDE DEF m
  <2>2. /\ statement[m] \in Item /\ Base(m) \in Nat /\ Stands(statement[m], Base(m))
        /\ Base(n) = Base(m) + Len(Spelling(statement[m])) + 1
    BY <2>1, TextItems DEF Written
  <2> QED BY <2>2, NoDotBehind
<1> QED BY <1>2, <1>3

LEMMA BeginsOutside ==
    ASSUME Written, Own \subseteq Name, \A n \in DOMAIN statement : Plain(statement[n]),
           NEW n \in 1..Len(statement)
    PROVE  ~Quoted(Base(n) + 1)
<1> DEFINE N == Len(statement)
           Outside(j) == ~Quoted(Base(j) + 1)
           bad == {j \in 1..N : ~Outside(j)}
<1>1. N \in Nat /\ DOMAIN statement = 1..N
  BY TextSteps DEF Written
<1>2. SUFFICES ASSUME bad # {} PROVE FALSE
  <2> HIDE DEF Outside
  <2>1. Outside(n)
    BY <1>2
  <2> QED BY <2>1 DEF Outside
<1>3. PICK j \in bad : \A k \in bad : j <= k
  <2> HIDE DEF Outside
  <2>1. bad \in SUBSET Nat
    OBVIOUS
  <2> QED BY <1>2, <2>1, LeastOf
<1>4. j # 1
  <2> SUFFICES ASSUME j = 1 PROVE FALSE
    OBVIOUS
  <2>1. Base(1) = 0 /\ 0 + 1 = 1
    BY TextItems DEF Written
  <2>2. Outside(1)
    BY <2>1, NotQuotedAtFirst
  <2> HIDE DEF Outside
  <2> QED BY <1>3, <2>2
<1> DEFINE m == j - 1
<1>5. m \in 1..N /\ m + 1 = j /\ ~(j <= m)
  BY <1>1, <1>3, <1>4
<1> HIDE DEF m
<1>6. Outside(m)
  <2> HIDE DEF Outside
  <2> QED BY <1>3, <1>5
<1>7. /\ statement[m] \in Item /\ Base(m) \in Nat /\ Stands(statement[m], Base(m))
      /\ Base(j) = Base(m) + Len(Spelling(statement[m])) + 1
      /\ Plain(statement[m]) /\ ~PrecededByDot(Base(m) + 1)
  BY <1>1, <1>5, TextItems, BeginsBare DEF Written
<1>8. ~Quoted(Base(m) + (Len(Spelling(statement[m])) + 2))
  BY <1>6, <1>7, PlainItem
<1>9. Base(m) + (Len(Spelling(statement[m])) + 2) = Base(j) + 1
  <2>1. Len(Spelling(statement[m])) \in Nat
    BY <1>7, ItemType
  <2> QED BY <1>7, <2>1
<1>10. Outside(j)
  BY <1>8, <1>9
<1> HIDE DEF Outside
<1> QED BY <1>3, <1>10

(* The tables an item names are places of the text, and of the text those  *)
(* that an item names are the author's.                                    *)
LEMMA TablePlaces ==
    ASSUME Written, NEW n \in DOMAIN statement, NEW p \in PlacesOf(n)
    PROVE  \E k \in TablesOf(statement[n]) :
              /\ p = Base(n) + k /\ p \in Place /\ k \in 1..Len(Spelling(statement[n]))
              /\ PrecededByDot(p) <=> statement[n].kind = "ofSchema"
              /\ statement[n].kind # "oddTable" => text[p] = statement[n].word
<1>1. Len(statement) \in Nat /\ n \in 1..Len(statement)
  BY TextSteps DEF Written
<1>2. PICK k \in TablesOf(statement[n]) : p = Base(n) + k
  BY DEF PlacesOf, Base
<1>4. /\ statement[n] \in Item /\ Base(n) \in Nat /\ Stands(statement[n], Base(n))
      /\ Base(n + 1) = Base(n) + Len(Spelling(statement[n])) + 1 /\ Base(n + 1) <= Len(text)
      /\ ~PrecededByDot(Base(n) + 1)
  BY <1>1, TextItems, BeginsBare DEF Written
<1>5. /\ k \in 1..Len(Spelling(statement[n]))
      /\ PrecededByDot(Base(n) + k) <=> statement[n].kind = "ofSchema"
      /\ statement[n].kind # "oddTable" => text[Base(n) + k] = statement[n].word
  BY <1>4, TableOfItem
<1>6. Len(Spelling(statement[n])) \in Nat /\ text \in Seq(Lexeme)
  <2>1. Len(statement) \in 0..Len(statement)
    BY <1>1
  <2>2. text \in Seq(Lexeme)
    BY <2>1, TextSteps DEF Written
  <2>3. Spelling(statement[n]) \in Seq(Lexeme)
    BY <1>4, ItemType
  <2> QED BY <2>2, <2>3
<1>7. p \in 1..Len(text) /\ DOMAIN text = 1..Len(text)
  BY <1>2, <1>4, <1>5, <1>6
<1> QED BY <1>2, <1>5, <1>7 DEF Place

LEMMA MarksMeanTables ==
    ASSUME Written, Own \subseteq Name, MarksExact PROVE TablesMarked
<1> SUFFICES ASSUME pc = "done", \A n \in DOMAIN statement : Plain(statement[n])
             PROVE  marks = OwnTables
  BY DEF TablesMarked
<1>1. marks = {p \in Named : ~Quoted(p) /\ ~PrecededByDot(p)}
      /\ Named = {p \in Place : text[p] \in Own}
  BY DEF MarksExact, Named, UserTables, Own
<1>2. DOMAIN statement = 1..Len(statement)
  BY TextSteps DEF Written
<1>3. ASSUME NEW n \in DOMAIN statement, NEW k \in 1..(Len(Spelling(statement[n])) + 1),
             text[Base(n) + k] \in Own
      PROVE  ~Quoted(Base(n) + k) /\ ~PrecededByDot(Base(n) + k) <=> k \in TablesOf(statement[n])
  <2>1. /\ statement[n] \in Item /\ Base(n) \in Nat /\ Stands(statement[n], Base(n))
        /\ Plain(statement[n]) /\ ~PrecededByDot(Base(n) + 1) /\ ~Quoted(Base(n) + 1)
    BY <1>2, TextItems, BeginsBare, BeginsOutside DEF Written
  <2> QED BY <1>3, <2>1, PlainItem
<1>4. ASSUME NEW n \in DOMAIN statement, NEW p \in PlacesOf(n)
      PROVE  text[p] = statement[n].table
  <2>1. PICK k \in TablesOf(statement[n]) :
           statement[n].kind # "oddTable" => text[p] = statement[n].word
    BY <1>4, TablePlaces
  <2>2. statement[n].kind \in {"table", "ofTable", "ofTableWide", "quotedTable"}
    BY <2>1 DEF TablesOf, Plain
  <2> QED BY <2>1, <2>2 DEF Plain
<1>5. ASSUME NEW p \in marks PROVE p \in OwnTables
  <2>1. p \in Place /\ text[p] \in Own /\ ~Quoted(p) /\ ~PrecededByDot(p)
    BY <1>1
  <2>2. PICK n \in DOMAIN statement :
           \E k \in 1..(Len(Spelling(statement[n])) + 1) : p = Base(n) + k
    BY <1>2, <2>1, ItemOf DEF Written
  <2>3. PICK k \in 1..(Len(Spelling(statement[n])) + 1) : p = Base(n) + k
    BY <2>2
  <2>4. k \in TablesOf(statement[n])
    BY <1>3, <2>1, <2>3
  <2>5. p \in PlacesOf(n)
    BY <2>3, <2>4 DEF Base, PlacesOf
  <2>6. statement[n].table \in Own
    BY <1>4, <2>1, <2>5
  <2> QED BY <2>5, <2>6 DEF OwnTables
<1>6. ASSUME NEW p \in OwnTables PROVE p \in marks
  <2>1. PICK n \in DOMAIN statement : statement[n].table \in Own /\ p \in PlacesOf(n)
    BY DEF OwnTables
  <2>2. PICK k \in TablesOf(statement[n]) :
           p = Base(n) + k /\ p \in Place /\ k \in 1..Len(Spelling(statement[n]))
    BY <2>1, TablePlaces
  <2>3. k \in 1..(Len(Spelling(statement[n])) + 1)
    <3>1. Len(Spelling(statement[n])) \in Nat
      BY <1>2, TextItems, ItemType DEF Written
    <3> QED BY <2>2, <3>1
  <2>4. text[p] \in Own
    BY <1>4, <2>1
  <2>5. ~Quoted(p) /\ ~PrecededByDot(p)
    BY <1>3, <2>2, <2>3, <2>4
  <2> QED BY <1>1, <2>2, <2>4, <2>5
<1> QED BY <1>5, <1>6

(* A dot precedes a table just where it is reached through its schema.     *)
LEMMA SchemaDots ==
    ASSUME Written, NEW p \in OwnTables
    PROVE  p \in Place /\ (p \in BySchema <=> PrecededByDot(p))
<1>1. PICK n \in DOMAIN statement : p \in PlacesOf(n)
  BY DEF OwnTables
<1>2. p \in Place /\ (PrecededByDot(p) <=> statement[n].kind = "ofSchema")
  BY <1>1, TablePlaces
<1>3. statement[n].kind = "ofSchema" => p \in BySchema
  BY <1>1 DEF BySchema
<1>4. ASSUME p \in BySchema PROVE PrecededByDot(p)
  <2>1. PICK m \in DOMAIN statement : statement[m].kind = "ofSchema" /\ p \in PlacesOf(m)
    BY <1>4 DEF BySchema
  <2> QED BY <2>1, TablePlaces
<1> QED BY <1>2, <1>3, <1>4

LEMMA LossesOf ==
    ASSUME Written, MarksExact PROVE LostExactly
<1> SUFFICES ASSUME pc = "done", NEW p \in OwnTables
             PROVE  p \notin marks \cup warned <=>
                      text[p] \notin Own \/ (p \in BySchema /\ ~Quoted(p))
  BY DEF LostExactly, Lost
<1>1. p \in Place /\ (p \in BySchema <=> PrecededByDot(p))
  BY SchemaDots
<1>2. p \in Named <=> text[p] \in Own
  BY <1>1 DEF Named, UserTables, Own
<1>3. p \in marks \cup warned <=> p \in Named /\ (Quoted(p) \/ ~PrecededByDot(p))
  BY DEF MarksExact
<1> QED BY <1>1, <1>2, <1>3

-----------------------------------------------------------------------------
SInv == Written /\ IInv

LEMMA SInvInit == SInit => SInv
<1> SUFFICES ASSUME SInit PROVE SInv
  OBVIOUS
<1>1. Written /\ Start
  BY DEF SInit, Written
<1>2. text \in Seq(Lexeme)
  <2>1. Len(statement) \in 0..Len(statement)
    BY <1>1, TextSteps DEF Written
  <2> QED BY <1>1, <2>1, TextSteps DEF Written
<1> QED BY <1>1, <1>2, StartIInv DEF SInv

LEMMA SInvStep ==
    SInv /\ [Next /\ UNCHANGED statement]_<<vars, statement>> => SInv'
<1> SUFFICES ASSUME SInv, [Next]_vars, statement' = statement PROVE SInv'
  OBVIOUS
<1>1. IInv'
  BY NextIInv DEF SInv
<1>2. text' = text
  BY DEF Next, vars, scanned, Skip, Open, Escape, Close, EndLiterals, Copy, LeaveLiteral,
     MarkTable, EndWords
<1>3. TextOf(statement)' = TextOf(statement)
  BY DEF TextOf
<1>4. Written'
  BY <1>2, <1>3 DEF SInv, Written
<1> QED BY <1>1, <1>4 DEF SInv

LEMMA SInvMeans == SInv => TablesMarked /\ LostExactly
<1> SUFFICES ASSUME SInv PROVE TablesMarked /\ LostExactly
  OBVIOUS
<1>1. Written /\ MarksExact /\ TypeOK
  BY DEF SInv, IInv, WordsInv
<1>2. Own \subseteq Name
  BY <1>1, MarksAssumption DEF TypeOK, Own
<1> QED BY <1>1, <1>2, MarksMeanTables, LossesOf

(* In every statement of plain items, however long, which spell every      *)
(* table as the catalog does, the marks stand where the author names one   *)
(* of the consumer's tables, and nowhere else (emit.go:140-142).           *)
THEOREM PlainStatementsMarked == SSpec => []TablesMarked
BY SInvInit, SInvStep, SInvMeans, PTL DEF SSpec

(* In every statement whatever, the tables left without marker or warning  *)
(* are exactly those spelled otherwise than in the catalog and those       *)
(* reached through their schema outside a literal (prefix.go:92-108).      *)
THEOREM LossesKnown == SSpec => []LostExactly
BY SInvInit, SInvStep, SInvMeans, PTL DEF SSpec
=============================================================================
