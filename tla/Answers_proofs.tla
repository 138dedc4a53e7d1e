--------------------------- MODULE Answers_proofs ---------------------------
(***************************************************************************)
(* What holds of Answers for every set of texts, numerals, options and     *)
(* blocks, every config, every value that a request can bring and every    *)
(* list of attributes: the normalizers, the export and the import of a     *)
(* sheet, the mails, and the columns.                                      *)
(***************************************************************************)
EXTENDS Answers, FiniteSetTheorems, SequenceTheorems, TLAPS

-----------------------------------------------------------------------------
(* Strings, and trimming them.                                             *)

Strings == Seq(Piece)

\* There is a least number of a set of them ...
LEMMA Least ==
  ASSUME NEW T \in SUBSET Nat, T # {}
  PROVE  \E m \in T : \A n \in T : m <= n
<1>1. PICK m \in T : \A n \in T : <<n, m>> \notin OpToRel(<, Nat)
  BY NatLessThanWellFounded, WFMin
<1>2. \A n \in T : ~(n < m)
  BY <1>1 DEF OpToRel
<1> QED
  BY <1>2

\* ... and a greatest of a list's places.
LEMMA Greatest ==
  ASSUME NEW n \in Nat, NEW T \in SUBSET (1..n), T # {}
  PROVE  \E m \in T : \A k \in T : k <= m
<1> DEFINE rest == {n - k : k \in T}
<1>1. rest \in SUBSET Nat
  OBVIOUS
<1>5. PICK j \in T : TRUE
  OBVIOUS
<1>6. n - j \in rest
  OBVIOUS
<1>7. rest # {}
  BY <1>6
<1>2. PICK d \in rest : \A e \in rest : d <= e
  <2> HIDE DEF rest
  <2> QED
    BY <1>1, <1>7, Least
<1>3. PICK m \in T : d = n - m
  BY <1>2
<1>4. \A k \in T : n - m <= n - k
  BY <1>2, <1>3
<1> QED
  BY <1>3, <1>4

\* A list written as a function of its places.
LEMMA ListOf ==
  ASSUME NEW S, NEW n \in Nat, NEW f \in [1..n -> S]
  PROVE  f \in Seq(S) /\ Len(f) = n
<1>1. f \in Seq(S)
  BY SeqDef
<1> QED
  BY <1>1, LenProperties

\* A text alone is a string of one piece.
LEMMA PlainIs ==
  ASSUME NEW t \in Texts
  PROVE  /\ Plain(t) \in Strings /\ Len(Plain(t)) = 1 /\ Plain(t) # NotString
         /\ Plain(t)[1] = [text |-> t, padded |-> FALSE]
         /\ Plain(t)[1].text = t
         /\ <<Plain(t)>> \in Seq(Strings)
<1>1. [text |-> t, padded |-> FALSE] \in Piece
  BY DEF Piece
<1>2. /\ Plain(t) \in Strings /\ Len(Plain(t)) = 1 /\ Plain(t) # NotString
      /\ Plain(t)[1] = [text |-> t, padded |-> FALSE]
  BY <1>1 DEF Plain, Strings, NotString
<1>3. [text |-> t, padded |-> FALSE].text = t
  OBVIOUS
<1>4. <<Plain(t)>> \in Seq(Strings)
  BY <1>2
<1> QED
  BY <1>2, <1>3, <1>4

\* Texts apart are strings apart.
LEMMA PlainApart ==
  ASSUME NEW t, NEW u, Plain(t) = Plain(u)
  PROVE  t = u
<1>1. Plain(t)[1] = Plain(u)[1]
  OBVIOUS
<1>2. [text |-> t, padded |-> FALSE] = [text |-> u, padded |-> FALSE]
  BY <1>1 DEF Plain
<1>3. [text |-> t, padded |-> FALSE].text = [text |-> u, padded |-> FALSE].text
  BY <1>2
<1> QED
  BY <1>3

\* A string of one unpadded piece is its text.
LEMMA PlainOf ==
  ASSUME NEW s \in Strings, Len(s) = 1, ~s[1].padded
  PROVE  s = Plain(s[1].text) /\ s[1].text \in Texts
<1>1. s[1] \in Piece
  BY DEF Strings
<1>2. s[1] = [text |-> s[1].text, padded |-> FALSE] /\ s[1].text \in Texts
  BY <1>1 DEF Piece
<1>3. /\ Plain(s[1].text) \in Strings /\ Len(Plain(s[1].text)) = 1
      /\ Plain(s[1].text)[1] = s[1]
  BY <1>2, PlainIs
<1> QED
  BY <1>2, <1>3, SeqEqual DEF Strings

\* A piece without its blank, and with one.
LEMMA PieceWith ==
  ASSUME NEW x \in Piece, NEW b \in BOOLEAN
  PROVE  /\ [x EXCEPT !.padded = b] = [text |-> x.text, padded |-> b]
         /\ [x EXCEPT !.padded = b] \in Piece
         /\ x.text \in Texts /\ x.padded \in BOOLEAN
         /\ x = [text |-> x.text, padded |-> x.padded]
BY DEF Piece

\* A piece of a string that is trimmed.
Ends(s, i) == i = 1 \/ (i = Len(s) /\ s[i].text = NoText)
Trimmed(s, i) == IF Ends(s, i) THEN [s[i] EXCEPT !.padded = FALSE] ELSE s[i]

\* It is one, of the same text.
LEMMA TrimmedIs ==
  ASSUME NEW s \in Strings, NEW i \in 1..Len(s)
  PROVE  /\ Trimmed(s, i) \in Piece /\ Trimmed(s, i).text = s[i].text
         /\ Trimmed(s, i) = IF Ends(s, i) THEN [text |-> s[i].text, padded |-> FALSE] ELSE s[i]
<1> DEFINE x == s[i]
           y == [x EXCEPT !.padded = FALSE]
<1>1. x \in Piece
  BY ElementOfSeq DEF Strings
<1>2. Trimmed(s, i) = IF Ends(s, i) THEN y ELSE x
  BY DEF Trimmed
<1> HIDE DEF x
<1>3. y = [text |-> x.text, padded |-> FALSE] /\ y \in Piece
  BY <1>1, PieceWith
<1> HIDE DEF y
<1>4. y.text = x.text
  BY <1>3
<1> QED
  BY <1>1, <1>2, <1>3, <1>4 DEF x

\* Trimming takes the blanks at the ends and nothing else.
LEMMA TrimIs ==
  ASSUME NEW s \in Strings
  PROVE  /\ Trim(s) \in Strings /\ Len(Trim(s)) = Len(s)
         /\ s = NotString => Trim(s) = s
         /\ \A i \in 1..Len(s) :
              /\ Trim(s)[i] = IF Ends(s, i) THEN [text |-> s[i].text, padded |-> FALSE] ELSE s[i]
              /\ Trim(s)[i].text = s[i].text
         /\ s # NotString => /\ Len(s) \in Nat \ {0}
                             /\ Trim(s)[1] = [text |-> s[1].text, padded |-> FALSE]
<1>1. /\ Len(s) \in Nat /\ DOMAIN s = 1..Len(s) /\ \A i \in 1..Len(s) : s[i] \in Piece
      /\ Len(s) = 0 <=> s = NotString
  BY LenProperties, ElementOfSeq, EmptySeq DEF Strings, NotString
<1> DEFINE f == [i \in 1..Len(s) |-> Trimmed(s, i)]
<1>2. Trim(s) = f
  BY <1>1 DEF Trim, Trimmed, Ends
<1>3. f \in [1..Len(s) -> Piece] /\ \A i \in 1..Len(s) : f[i] = Trimmed(s, i)
  BY TrimmedIs
<1> HIDE DEF f
<1>4. Trim(s) \in Seq(Piece) /\ Len(Trim(s)) = Len(s)
  BY <1>1, <1>2, <1>3, ListOf
<1>5. s = NotString => Trim(s) = s
  BY <1>1, <1>4, EmptySeq DEF NotString
<1>6. \A i \in 1..Len(s) :
        /\ Trim(s)[i] = IF Ends(s, i) THEN [text |-> s[i].text, padded |-> FALSE] ELSE s[i]
        /\ Trim(s)[i].text = s[i].text
  BY <1>2, <1>3, TrimmedIs
<1>7. s # NotString => /\ Len(s) \in Nat \ {0}
                       /\ Trim(s)[1] = [text |-> s[1].text, padded |-> FALSE]
  <2> SUFFICES ASSUME s # NotString
               PROVE  /\ Len(s) \in Nat \ {0}
                      /\ Trim(s)[1] = [text |-> s[1].text, padded |-> FALSE]
    OBVIOUS
  <2>1. Len(s) \in Nat \ {0} /\ 1 \in 1..Len(s) /\ Ends(s, 1)
    BY <1>1 DEF Ends
  <2> QED
    BY <1>6, <2>1
<1> QED
  BY <1>4, <1>5, <1>6, <1>7 DEF Strings

\* What is trimmed stays as it is.
LEMMA TrimTwice ==
  ASSUME NEW s \in Strings
  PROVE  Trim(Trim(s)) = Trim(s)
<1> DEFINE t == Trim(s)
<1>1. /\ t \in Strings /\ Len(t) = Len(s) /\ Len(s) \in Nat
      /\ \A i \in 1..Len(s) :
           /\ t[i] = IF Ends(s, i) THEN [text |-> s[i].text, padded |-> FALSE] ELSE s[i]
           /\ t[i].text = s[i].text
  BY TrimIs, LenProperties DEF Strings
<1> HIDE DEF t
<1>2. /\ Trim(t) \in Strings /\ Len(Trim(t)) = Len(t)
      /\ \A i \in 1..Len(t) :
           Trim(t)[i] = IF Ends(t, i) THEN [text |-> t[i].text, padded |-> FALSE] ELSE t[i]
  BY <1>1, TrimIs
<1>3. \A i \in 1..Len(t) : Trim(t)[i] = t[i]
  BY <1>1, <1>2 DEF Ends
<1>4. Trim(t) = t
  BY <1>1, <1>2, <1>3, SeqEqual DEF Strings
<1> QED
  BY <1>4 DEF t

\* So does a text alone.
LEMMA TrimPlain ==
  ASSUME NEW t \in Texts
  PROVE  Trim(Plain(t)) = Plain(t)
<1>1. /\ Plain(t) \in Strings /\ Len(Plain(t)) = 1 /\ Plain(t) # NotString
      /\ Plain(t)[1] = [text |-> t, padded |-> FALSE]
  BY PlainIs
<1>2. /\ Trim(Plain(t)) \in Strings /\ Len(Trim(Plain(t))) = 1
      /\ Trim(Plain(t))[1] = [text |-> Plain(t)[1].text, padded |-> FALSE]
  BY <1>1, TrimIs
<1> DEFINE s == Plain(t)
           u == Trim(Plain(t))
<1>3. u[1] = s[1]
  BY <1>1, <1>2
<1>4. s \in Seq(Piece) /\ u \in Seq(Piece) /\ Len(s) = 1 /\ Len(u) = 1
  BY <1>1, <1>2 DEF Strings
<1> HIDE DEF s, u
<1>5. u = s
  BY <1>3, <1>4, SeqEqual
<1> QED
  BY <1>5 DEF s, u

-----------------------------------------------------------------------------
(* FlattenSeq.                                                             *)

\* FlattenSeq, as the steps of its recursive function: what it has gathered
\* after each of the sequences.
Gathers(f, seqs) ==
  f = [i \in 1..Len(seqs) |-> IF i = 1 THEN seqs[i] ELSE f[i-1] \o seqs[i]]

\* There is such a function: the shortest prefix that had none would have one,
\* the longer by a step than the one before it.
LEMMA GatherExists ==
  ASSUME NEW S, NEW seqs \in Seq(Seq(S))
  PROVE  \E f : Gathers(f, seqs)
<1> DEFINE Step(f, i) == IF i = 1 THEN seqs[i] ELSE f[i-1] \o seqs[i]
           Some(n) == \E f : f = [i \in 1..n |-> Step(f, i)]
           bad == {n \in Nat : ~Some(n)}
<1>1. bad = {}
  <2> SUFFICES ASSUME bad # {} PROVE FALSE
    OBVIOUS
  <2>1. bad \in SUBSET Nat
    OBVIOUS
  <2>2. PICK n \in bad : \A m \in bad : n <= m
    <3> HIDE DEF bad
    <3> QED
      BY <2>1, Least
  <2>3. n # 0
    <3>1. << >> = [i \in 1..0 |-> Step(<< >>, i)]
      OBVIOUS
    <3>2. Some(0)
      BY <3>1
    <3> QED
      BY <3>2, <2>2
  <2>4. n - 1 \in Nat /\ n - 1 \notin bad
    <3>1. n \in Nat
      BY <2>1
    <3> HIDE DEF bad
    <3> QED
      BY <2>2, <2>3, <3>1
  <2>5. PICK f : f = [i \in 1..(n-1) |-> Step(f, i)]
    BY <2>4
  <2> DEFINE g == [i \in 1..n |-> IF i = n THEN Step(f, n) ELSE f[i]]
  <2>6. \A i \in 1..n : g[i] = Step(g, i)
    <3> TAKE i \in 1..n
    <3>1. CASE i = 1
      <4>1. CASE n = 1
        BY <3>1, <4>1
      <4>2. CASE n # 1
        <5>1. i \in 1..(n-1) /\ i # n
          BY <3>1, <4>2, <2>4
        <5>2. f[i] = Step(f, i)
          BY <2>5, <5>1
        <5> QED
          BY <5>1, <5>2, <3>1
      <4> QED
        BY <4>1, <4>2
    <3>2. CASE i # 1
      <4>1. i - 1 \in 1..n /\ i - 1 # n /\ g[i-1] = f[i-1]
        BY <3>2, <2>4
      <4>2. Step(g, i) = Step(f, i)
        BY <4>1, <3>2
      <4>3. CASE i = n
        BY <4>2, <4>3
      <4>4. CASE i # n
        <5>1. i \in 1..(n-1)
          BY <4>4, <2>4
        <5>2. f[i] = Step(f, i)
          BY <2>5, <5>1
        <5> QED
          BY <4>2, <4>4, <5>2
      <4> QED
        BY <4>3, <4>4
    <3> QED
      BY <3>1, <3>2
  <2>7. g = [i \in 1..n |-> Step(g, i)]
    <3>1. DOMAIN g = 1..n
      OBVIOUS
    <3>2. g = [i \in 1..n |-> g[i]]
      OBVIOUS
    <3> HIDE DEF g
    <3> QED
      BY <2>6, <3>2
  <2>8. Some(n)
    BY <2>7
  <2> QED
    BY <2>8, <2>2
<1>2. Len(seqs) \in Nat
  BY LenProperties
<1>3. Some(Len(seqs))
  BY <1>1, <1>2
<1> QED
  BY <1>3 DEF Gathers

\* FlattenSeq is its last value.
LEMMA FlattenGathers ==
  ASSUME NEW S, NEW seqs \in Seq(Seq(S)), Len(seqs) # 0
  PROVE  \E f : Gathers(f, seqs) /\ FlattenSeq(seqs) = f[Len(seqs)]
<1> DEFINE f == CHOOSE g : g = [i \in 1..Len(seqs) |-> IF i = 1 THEN seqs[i] ELSE g[i-1] \o seqs[i]]
<1>1. f = [i \in 1..Len(seqs) |-> IF i = 1 THEN seqs[i] ELSE f[i-1] \o seqs[i]]
  BY GatherExists DEF Gathers
<1>2. FlattenSeq(seqs) = f[Len(seqs)]
  BY DEF FlattenSeq
<1> QED
  BY <1>1, <1>2 DEF Gathers

\* What it has gathered is a list.
LEMMA GathersList ==
  ASSUME NEW S, NEW seqs \in Seq(Seq(S)), NEW f, Gathers(f, seqs)
  PROVE  \A i \in 1..Len(seqs) : f[i] \in Seq(S)
<1> DEFINE bad == {i \in 1..Len(seqs) : f[i] \notin Seq(S)}
<1>1. Len(seqs) \in Nat
  BY LenProperties
<1> SUFFICES ASSUME bad # {} PROVE FALSE
  OBVIOUS
<1>2. bad \in SUBSET Nat
  BY <1>1
<1>3. PICK i \in bad : \A j \in bad : i <= j
  <2> HIDE DEF bad
  <2> QED
    BY <1>2, Least
<1>4. i \in 1..Len(seqs) /\ seqs[i] \in Seq(S)
  BY <1>1, <1>3, ElementOfSeq
<1>5. f[i] = IF i = 1 THEN seqs[i] ELSE f[i-1] \o seqs[i]
  BY <1>4 DEF Gathers
<1>6. CASE i = 1
  BY <1>3, <1>4, <1>5, <1>6
<1>7. CASE i # 1
  <2>1. i - 1 \in 1..Len(seqs) /\ i - 1 < i
    BY <1>1, <1>4, <1>7
  <2>2. i - 1 \notin bad
    <3> HIDE DEF bad
    <3> QED
      BY <1>3, <1>4, <2>1
  <2>3. f[i-1] \in Seq(S)
    BY <2>1, <2>2
  <2>4. f[i-1] \o seqs[i] \in Seq(S)
    BY <2>3, <1>4, ConcatProperties
  <2> QED
    BY <1>3, <1>5, <1>7, <2>4
<1> QED
  BY <1>6, <1>7

\* ... and, of sequences of one element each, the list of these.
LEMMA GathersOnes ==
  ASSUME NEW S, NEW seqs \in Seq(Seq(S)), NEW f, Gathers(f, seqs),
         \A i \in 1..Len(seqs) : Len(seqs[i]) = 1
  PROVE  \A i \in 1..Len(seqs) : Len(f[i]) = i /\ \A k \in 1..i : f[i][k] = seqs[k][1]
<1> DEFINE Good(i) == Len(f[i]) = i /\ \A k \in 1..i : f[i][k] = seqs[k][1]
           bad == {i \in 1..Len(seqs) : ~Good(i)}
<1>1. Len(seqs) \in Nat
  BY LenProperties
<1> SUFFICES ASSUME bad # {} PROVE FALSE
  OBVIOUS
<1>2. bad \in SUBSET Nat
  BY <1>1
<1>3. PICK i \in bad : \A j \in bad : i <= j
  <2> HIDE DEF bad
  <2> QED
    BY <1>2, Least
<1>4. i \in 1..Len(seqs) /\ seqs[i] \in Seq(S)
  BY <1>1, <1>3, ElementOfSeq
<1>5. f[i] = IF i = 1 THEN seqs[i] ELSE f[i-1] \o seqs[i]
  BY <1>4 DEF Gathers
<1>6. CASE i = 1
  <2>1. Good(i)
    BY <1>4, <1>5, <1>6
  <2> QED
    BY <1>3, <2>1
<1>7. CASE i # 1
  <2>1. i - 1 \in 1..Len(seqs) /\ i - 1 < i
    BY <1>1, <1>4, <1>7
  <2>2. i - 1 \notin bad
    <3> HIDE DEF bad
    <3> QED
      BY <1>3, <1>4, <2>1
  <2>3. Good(i - 1)
    BY <2>1, <2>2
  <2>4. f[i-1] \in Seq(S)
    BY <2>1, GathersList
  <2>5. /\ Len(f[i-1] \o seqs[i]) = i
        /\ \A k \in 1..i : (f[i-1] \o seqs[i])[k] =
                              IF k <= i - 1 THEN f[i-1][k] ELSE seqs[i][k - (i-1)]
    <3> DEFINE a == f[i-1]
               b == seqs[i]
    <3>1. Len(a) = i - 1 /\ Len(b) = 1 /\ a \in Seq(S) /\ b \in Seq(S) /\ i \in Nat
      BY <1>1, <1>4, <2>3, <2>4
    <3> HIDE DEF a, b
    <3>2. /\ Len(a \o b) = Len(a) + Len(b)
          /\ \A k \in 1..(Len(a) + Len(b)) :
               (a \o b)[k] = IF k <= Len(a) THEN a[k] ELSE b[k - Len(a)]
      BY <3>1, ConcatProperties
    <3>3. Len(a) + Len(b) = i
      BY <3>1
    <3>4. \A k \in 1..i : (a \o b)[k] = IF k <= i - 1 THEN a[k] ELSE b[k - (i - 1)]
      BY <3>1, <3>2, <3>3
    <3>5. Len(a \o b) = i
      BY <3>2, <3>3
    <3> QED
      BY <3>4, <3>5 DEF a, b
  <2>6. \A k \in 1..i : f[i][k] = seqs[k][1]
    <3> TAKE k \in 1..i
    <3>1. CASE k <= i - 1
      <4>1. f[i][k] = f[i-1][k]
        BY <1>5, <1>7, <2>5, <3>1
      <4>2. k \in 1..(i-1)
        BY <1>4, <3>1
      <4> QED
        BY <2>3, <4>1, <4>2
    <3>2. CASE ~(k <= i - 1)
      <4>1. k = i /\ k - (i - 1) = 1
        BY <1>4, <3>2
      <4> QED
        BY <1>5, <1>7, <2>5, <3>2, <4>1
    <3> QED
      BY <3>1, <3>2
  <2>7. Good(i)
    BY <1>5, <1>7, <2>5, <2>6
  <2> QED
    BY <1>3, <2>7
<1> QED
  BY <1>6, <1>7

\* Sequences of a set's elements, one after the other, are such a sequence.
LEMMA FlattenList ==
  ASSUME NEW S, NEW seqs \in Seq(Seq(S))
  PROVE  FlattenSeq(seqs) \in Seq(S)
<1>1. CASE Len(seqs) = 0
  <2>1. seqs = << >>
    BY <1>1, EmptySeq
  <2> QED
    BY <1>1, <2>1 DEF FlattenSeq
<1>2. CASE Len(seqs) # 0
  <2>1. PICK f : Gathers(f, seqs) /\ FlattenSeq(seqs) = f[Len(seqs)]
    BY <1>2, FlattenGathers
  <2>2. Len(seqs) \in 1..Len(seqs)
    BY <1>2, LenProperties
  <2> QED
    BY <2>1, <2>2, GathersList
<1> QED
  BY <1>1, <1>2

\* Sequences of one element each make the list of these elements.
LEMMA FlattenOnes ==
  ASSUME NEW S, NEW seqs \in Seq(Seq(S)),
         \A i \in 1..Len(seqs) : Len(seqs[i]) = 1
  PROVE  /\ Len(FlattenSeq(seqs)) = Len(seqs)
         /\ \A i \in 1..Len(seqs) : FlattenSeq(seqs)[i] = seqs[i][1]
<1>1. CASE Len(seqs) = 0
  BY <1>1 DEF FlattenSeq
<1>2. CASE Len(seqs) # 0
  <2>1. PICK f : Gathers(f, seqs) /\ FlattenSeq(seqs) = f[Len(seqs)]
    BY <1>2, FlattenGathers
  <2>2. Len(seqs) \in 1..Len(seqs)
    BY <1>2, LenProperties
  <2>3. Gathers(f, seqs)
    BY <2>1
  <2>4. \A i \in 1..Len(seqs) : Len(f[i]) = i /\ \A k \in 1..i : f[i][k] = seqs[k][1]
    BY <2>3, GathersOnes
  <2> QED
    BY <2>1, <2>2, <2>4
<1> QED
  BY <1>1, <1>2

-----------------------------------------------------------------------------
(* The items of an answer.                                                 *)

\* A piece alone is trimmed to its text.
LEMMA TrimOne ==
  ASSUME NEW p \in Piece
  PROVE  Trim(<<p>>) = Plain(p.text) /\ p.text \in Texts /\ <<p>> \in Strings
<1> DEFINE s == <<p>>
<1>1. s \in Strings /\ Len(s) = 1 /\ s[1] = p /\ s # NotString
  BY DEF Strings, NotString
<1>2. p.text \in Texts
  BY PieceWith
<1> HIDE DEF s
<1> DEFINE t == Trim(s)
<1>3. t \in Strings /\ Len(t) = 1 /\ t[1] = [text |-> p.text, padded |-> FALSE]
  BY <1>1, TrimIs
<1> HIDE DEF t
<1>4. ~t[1].padded /\ t[1].text = p.text
  BY <1>3
<1>5. t = Plain(p.text)
  BY <1>3, <1>4, PlainOf
<1> QED
  BY <1>1, <1>2, <1>5 DEF s, t

\* A value of one string, and what it is made of.
LEMMA OfIs ==
  ASSUME NEW kind, NEW s
  PROVE  /\ Of(kind, s).kind = kind /\ Of(kind, s).strs = <<s>>
         /\ Of(kind, s).strs[1] = s /\ Len(Of(kind, s).strs) = 1
BY DEF Of

\* A sendable value of one string is made of that string.
LEMMA OfOne ==
  ASSUME NEW v, Sendable(v), v.kind \notin {"null", "array"}
  PROVE  /\ v.strs[1] \in Strings /\ v.strs[1] # NotString
         /\ v = Of(v.kind, v.strs[1])
<1>1. /\ v \in [kind : Kinds \ {"refused"}, strs : Seq(Strings)]
      /\ Len(v.strs) = 1 /\ v.strs[1] # NotString
  BY DEF Sendable, Strings
<1>2. v.strs[1] \in Strings
  BY <1>1
<1> DEFINE a == v.strs
           b == <<v.strs[1]>>
<1>3. a \in Seq(Strings) /\ b \in Seq(Strings) /\ Len(a) = 1 /\ Len(b) = 1 /\ a[1] = b[1]
  BY <1>1, <1>2
<1> HIDE DEF a, b
<1>4. a = b
  BY <1>3, SeqEqual
<1>5. v = [kind |-> v.kind, strs |-> v.strs]
  BY <1>1
<1> QED
  BY <1>1, <1>2, <1>4, <1>5 DEF a, b, Of

\* No value is sendable, and missing.
LEMMA NullIs == Null.kind = "null" /\ Null.strs = << >> /\ Sendable(Null) /\ Missing(Null)
<1>1. Null.kind = "null" /\ Null.strs = << >>
  BY DEF Null
<1>2. Null \in [kind : Kinds \ {"refused"}, strs : Seq(Seq(Piece))]
  BY EmptySeq DEF Null, Kinds
<1> QED
  BY <1>1, <1>2 DEF Sendable, Missing

\* A refusal is not the absence of a value.
LEMMA RefusedIs == Refused.kind = "refused" /\ Refused.strs = << >> /\ Refused # Null
BY DEF Refused, Null

\* What the items of an answer are: each string of an array, or each piece of
\* a string, without the blanks.
LEMMA ItemsOfArray ==
  ASSUME NEW v, v.kind = "array", v.strs \in Seq(Strings)
  PROVE  /\ Items(v) \in Seq(Strings) /\ Len(Items(v)) = Len(v.strs)
         /\ DOMAIN Items(v) = 1..Len(v.strs)
         /\ \A i \in 1..Len(v.strs) : Items(v)[i] = Trim(v.strs[i])
<1>1. Len(v.strs) \in Nat /\ DOMAIN v.strs = 1..Len(v.strs)
  BY LenProperties
<1>2. Items(v) = [i \in 1..Len(v.strs) |-> Trim(v.strs[i])]
  BY <1>1 DEF Items
<1>3. \A i \in 1..Len(v.strs) : Trim(v.strs[i]) \in Strings
  BY ElementOfSeq, TrimIs
<1>4. Items(v) \in [1..Len(v.strs) -> Strings]
  BY <1>2, <1>3
<1> QED
  BY <1>1, <1>2, <1>4, ListOf

\* The pieces of a string, each without its blank.
LEMMA ItemsOfString ==
  ASSUME NEW v, v.kind = "string", v.strs[1] \in Strings
  PROVE  /\ Items(v) \in Seq(Strings) /\ Len(Items(v)) = Len(v.strs[1])
         /\ DOMAIN Items(v) = 1..Len(v.strs[1])
         /\ \A i \in 1..Len(v.strs[1]) : /\ v.strs[1][i].text \in Texts
                                         /\ Items(v)[i] = Plain(v.strs[1][i].text)
<1> DEFINE s == v.strs[1]
<1>1. Len(s) \in Nat /\ DOMAIN s = 1..Len(s) /\ \A i \in 1..Len(s) : s[i] \in Piece
  BY LenProperties, ElementOfSeq DEF Strings
<1>2. Items(v) = [i \in 1..Len(s) |-> Trim(<<s[i]>>)]
  <2>1. Split(s) = [i \in 1..Len(s) |-> <<s[i]>>]
    BY <1>1 DEF Split
  <2>2. Items(v) = [i \in DOMAIN Split(s) |-> Trim(Split(s)[i])]
    BY DEF Items
  <2> HIDE DEF s
  <2> QED
    BY <2>1, <2>2
<1> HIDE DEF s
<1>3. \A i \in 1..Len(s) : Trim(<<s[i]>>) = Plain(s[i].text) /\ s[i].text \in Texts
  BY <1>1, TrimOne
<1>4. \A i \in 1..Len(s) : Trim(<<s[i]>>) \in Strings
  BY <1>3, PlainIs
<1>5. Items(v) \in [1..Len(s) -> Strings]
  BY <1>2, <1>4
<1>6. Items(v) \in Seq(Strings) /\ Len(Items(v)) = Len(s)
  BY <1>1, <1>5, ListOf
<1> QED
  BY <1>1, <1>2, <1>3, <1>5, <1>6 DEF s

\* A value of another kind has none.
LEMMA ItemsOfOther ==
  ASSUME NEW v, v.kind \notin {"array", "string"}
  PROVE  Items(v) = << >>
BY DEF Items

\* In every case they are strings without a blank before them.
LEMMA ItemsTrimmed ==
  ASSUME NEW v, Sendable(v)
  PROVE  /\ Items(v) \in Seq(Strings)
         /\ \A i \in 1..Len(Items(v)) : Trim(Items(v)[i]) = Items(v)[i]
<1>1. CASE v.kind = "array"
  <2>1. v.strs \in Seq(Strings)
    BY DEF Sendable, Strings
  <2>2. \A i \in 1..Len(v.strs) : v.strs[i] \in Strings
    BY <2>1, ElementOfSeq
  <2> QED
    BY <1>1, <2>1, <2>2, ItemsOfArray, TrimTwice
<1>2. CASE v.kind = "string"
  <2>1. v.strs[1] \in Strings
    BY <1>2, OfOne
  <2> QED
    BY <1>2, <2>1, ItemsOfString, TrimPlain
<1>3. CASE v.kind \notin {"array", "string"}
  <2>1. << >> \in Seq(Strings) /\ Len(<< >>) = 0
    BY EmptySeq
  <2>2. Items(v) = << >>
    BY <1>3, ItemsOfOther
  <2> QED
    BY <2>1, <2>2
<1> QED
  BY <1>1, <1>2, <1>3

-----------------------------------------------------------------------------
(* Configs, and the values of one string.                                  *)

\* What a config says of its attribute, once it has been accepted.
ConfigFits(t, c) ==
  /\ c \in Config
  /\ t \in OptionTypes => /\ c.options # {} /\ \A o \in c.options : ~Blank(o)
                          /\ \A o \in c.options : {Of("string", o), Of("array", o)} \subseteq Values
  /\ t = "multiSelect" => c.max = None \/ c.max > 0
  /\ t = "block" => c.max \in Nat \ {0}

\* A config of the fields' types is one.
LEMMA ConfigIs ==
  ASSUME NEW o \in Options, NEW b \in BOOLEAN,
         NEW m \in Nat \cup {None}, NEW f \in SUBSET Texts
  PROVE  [options |-> o, allowOther |-> b, max |-> m, fields |-> f] \in Config
BY DEF Config

\* What normalizeConfig makes of a config that it accepts fits the type.
LEMMA ConfigMade ==
  ASSUME NEW t \in AttributeTypes, NEW r \in Raws, ValidBody(t, r), AcceptsConfig(t, r)
  PROVE  ConfigFits(t, NormalConfig(t, r))
<1>1. /\ r \in RawConfig /\ None \notin Nat /\ NoConfig \in Config
  BY AnswersAssumption DEF NoConfig, Config, Options
<1>2. /\ r.given \in BOOLEAN /\ r.options \in Options \cup {None} /\ r.allowOther \in BOOLEAN
      /\ r.max \in Nat \cup {None} /\ r.fields \in (SUBSET Texts) \cup {None}
  BY <1>1 DEF RawConfig
<1>7. r.options # None => \A o \in r.options : {Of("string", o), Of("array", o)} \subseteq Values
  BY InputAssumption
<1>3. CASE t = "multiSelect"
  <2>1. /\ r.options # None /\ r.options # {} /\ \A o \in r.options : ~Blank(o)
        /\ r.max = None \/ r.max > 0
    BY <1>3 DEF ValidBody, AcceptsConfig, OptionTypes, Positive
  <2>2. NormalConfig(t, r) = [options |-> Kept(r.options), allowOther |-> r.allowOther,
                              max |-> r.max, fields |-> {}]
    BY <1>3 DEF NormalConfig, OptionTypes, NoConfig
  <2>3. /\ NormalConfig(t, r) \in Config /\ NormalConfig(t, r).options = r.options
        /\ NormalConfig(t, r).max = r.max
    <3>1. Kept(r.options) = r.options /\ r.options \in Options
      BY <1>2, <2>1 DEF Kept
    <3>2. NormalConfig(t, r) = [options |-> r.options, allowOther |-> r.allowOther,
                                max |-> r.max, fields |-> {}]
      BY <2>2, <3>1
    <3> DEFINE o == r.options
               b == r.allowOther
               m == r.max
               f == {}
    <3>4. o \in Options /\ b \in BOOLEAN /\ m \in Nat \cup {None} /\ f \in SUBSET Texts
      BY <1>2, <3>1
    <3>5. NormalConfig(t, r) = [options |-> o, allowOther |-> b, max |-> m, fields |-> f]
      BY <3>2
    <3> HIDE DEF o, b, m, f
    <3>6. NormalConfig(t, r) \in Config
      BY <3>4, <3>5, ConfigIs
    <3> QED
      BY <3>2, <3>6
  <2> QED
    BY <1>3, <1>7, <2>1, <2>3 DEF ConfigFits
<1>4. CASE t = "select"
  <2>1. r.options # None /\ r.options # {} /\ \A o \in r.options : ~Blank(o)
    BY <1>4 DEF ValidBody, AcceptsConfig, OptionTypes
  <2>2. NormalConfig(t, r) = [options |-> Kept(r.options), allowOther |-> r.allowOther,
                              max |-> None, fields |-> {}]
    BY <1>4 DEF NormalConfig, OptionTypes, NoConfig
  <2>3. NormalConfig(t, r) \in Config /\ NormalConfig(t, r).options = r.options
    <3>1. Kept(r.options) = r.options /\ r.options \in Options
      BY <1>2, <2>1 DEF Kept
    <3>2. NormalConfig(t, r) = [options |-> r.options, allowOther |-> r.allowOther,
                                max |-> None, fields |-> {}]
      BY <2>2, <3>1
    <3> DEFINE o == r.options
               b == r.allowOther
               m == None
               f == {}
    <3>4. o \in Options /\ b \in BOOLEAN /\ m \in Nat \cup {None} /\ f \in SUBSET Texts
      BY <1>2, <3>1
    <3>5. NormalConfig(t, r) = [options |-> o, allowOther |-> b, max |-> m, fields |-> f]
      BY <3>2
    <3> HIDE DEF o, b, m, f
    <3>6. NormalConfig(t, r) \in Config
      BY <3>4, <3>5, ConfigIs
    <3> QED
      BY <3>2, <3>6
  <2> QED
    BY <1>4, <1>7, <2>1, <2>3 DEF ConfigFits
<1>5. CASE t = "block"
  <2> DEFINE m == IF r.given /\ r.max # None THEN r.max ELSE 1
             f == IF r.given /\ r.fields # None THEN r.fields \ {NoText} ELSE {}
  <2>3. ~r.given \/ r.max = None \/ r.max > 0
    BY <1>5 DEF AcceptsConfig, OptionTypes, Positive
  <2>4. m \in Nat \ {0}
    BY <1>2, <2>3
  <2>5. f \in SUBSET Texts
    BY <1>2
  <2>2. NormalConfig(t, r) = [options |-> {}, allowOther |-> FALSE, max |-> m, fields |-> f]
    BY <1>5 DEF NormalConfig, OptionTypes, NoConfig
  <2> HIDE DEF m, f
  <2>6. NormalConfig(t, r) \in Config /\ NormalConfig(t, r).max = m
    BY <2>2, <2>4, <2>5 DEF Config, Options
  <2> QED
    BY <1>5, <2>4, <2>6 DEF ConfigFits, OptionTypes
<1>6. CASE t \notin OptionTypes \cup {"block"}
  <2>1. NormalConfig(t, r) = NoConfig
    BY <1>6 DEF NormalConfig, OptionTypes
  <2> QED
    BY <1>1, <1>6, <2>1 DEF ConfigFits, OptionTypes
<1> QED
  BY <1>3, <1>4, <1>5, <1>6 DEF OptionTypes

\* A stored value: nothing, or one that is an answer to its attribute.
Answered(t, c, v) == Sendable(v) /\ Fits(t, c, v) /\ (v = Null \/ ~Missing(v))

\* Each normaliser makes such a value, and leaves one alone.
LEMMA SelectSound ==
  ASSUME NEW c, NEW v, Sendable(v), ~Missing(v)
  PROVE  /\ AsSelect(c, v) = Refused \/ Answered("select", c, AsSelect(c, v))
         /\ Fits("select", c, v) => AsSelect(c, v) = v
<1>1. v # Null
  BY NullIs
<1> QED
  BY <1>1 DEF AsSelect, Answered, Fits

\* The same of a text, a time, an address, a phone, a color or a file.
LEMMA StringSound ==
  ASSUME NEW t \in AttributeTypes \ {"select", "multiSelect", "block", "number", "checkbox",
                                     "date", "datetime"},
         NEW c, NEW v, Sendable(v), ~Missing(v)
  PROVE  /\ AsString(t, v) = Refused \/ Answered(t, c, AsString(t, v))
         /\ Fits(t, c, v) => AsString(t, v) = v
<1>1. v # Null
  BY NullIs
<1>2. v.kind = "string" => v.strs[1] # Plain(NoText)
  BY OfOne DEF Missing
<1>3. CASE t \in {"email", "tel", "color"}
  BY <1>1, <1>2, <1>3 DEF AsString, Answered, Fits
<1>4. CASE t \notin {"email", "tel", "color"}
  BY <1>1, <1>2, <1>4 DEF AsString, Answered, Fits, HasFormat
<1> QED
  BY <1>3, <1>4

\* The same of a value that a normaliser makes: one string of one text.
LEMMA OfSendable ==
  ASSUME NEW t \in Texts, NEW kind \in {"string", "number", "boolean"},
         kind = "number" => t \in {Numerals[u] : u \in DOMAIN Numerals},
         kind = "boolean" => t \in {"true", "false"}
  PROVE  /\ Sendable(Of(kind, Plain(t)))
         /\ Missing(Of(kind, Plain(t))) => kind = "string" /\ t = NoText
<1> DEFINE v == Of(kind, Plain(t))
<1>1. /\ v.kind = kind /\ v.strs = <<Plain(t)>> /\ v.strs[1] = Plain(t) /\ Len(v.strs) = 1
  BY OfIs
<1>2. Plain(t) \in Strings /\ Plain(t) # NotString
  BY PlainIs
<1>3. v \in [kind : Kinds \ {"refused"}, strs : Seq(Seq(Piece))]
  <2>1. <<Plain(t)>> \in Seq(Seq(Piece))
    BY <1>2 DEF Strings
  <2> QED
    BY <2>1 DEF Of, Kinds
<1>4. kind = "number" => OneOf(Plain(t), {Numerals[u] : u \in DOMAIN Numerals})
  BY DEF OneOf
<1>5. kind = "boolean" => v \in {Spoken(TRUE), Spoken(FALSE)}
  BY DEF Spoken
<1>6. v = Of("string", Plain(NoText)) => kind = "string" /\ t = NoText
  <2> SUFFICES ASSUME v = Of("string", Plain(NoText)) PROVE kind = "string" /\ t = NoText
    OBVIOUS
  <2>1. v.kind = "string" /\ v.strs[1] = Plain(NoText)
    BY DEF Of
  <2> QED
    <3>1. kind = "string" /\ Plain(t) = Plain(NoText)
      BY <1>1, <2>1
    <3> QED
      BY <3>1, PlainApart
<1> HIDE DEF v
<1>7. Sendable(v)
  BY <1>1, <1>2, <1>3, <1>4, <1>5 DEF Sendable
<1>8. Missing(v) => kind = "string" /\ t = NoText
  BY <1>1, <1>6 DEF Missing
<1> QED
  BY <1>7, <1>8 DEF v

\* The same of a number ...
LEMMA NumberSound ==
  ASSUME NEW c, NEW v, Sendable(v), ~Missing(v)
  PROVE  /\ AsNumber(v) = Refused \/ Answered("number", c, AsNumber(v))
         /\ Fits("number", c, v) => AsNumber(v) = v
<1>1. v # Null
  BY NullIs
<1>2. CASE v.kind = "number"
  BY <1>1, <1>2 DEF AsNumber, Answered, Fits
<1>3. CASE v.kind # "number"
  <2>1. ~Fits("number", c, v)
    BY <1>1, <1>3 DEF Fits
  <2>2. ASSUME AsNumber(v) # Refused
        PROVE  Answered("number", c, AsNumber(v))
    <3> DEFINE t == v.strs[1][1].text
    <3>1. t \in DOMAIN Numerals /\ AsNumber(v) = Of("number", Plain(Numerals[t]))
      BY <1>3, <2>2 DEF AsNumber
    <3> HIDE DEF t
    <3>2. Numerals[t] \in Texts
      BY <3>1, AnswersAssumption
    <3>3. Sendable(AsNumber(v)) /\ ~Missing(AsNumber(v))
      BY <3>1, <3>2, OfSendable
    <3>4. AsNumber(v).kind = "number"
      BY <3>1, OfIs
    <3> QED
      BY <3>3, <3>4 DEF Answered, Fits
  <2> QED
    BY <2>1, <2>2
<1> QED
  BY <1>2, <1>3

\* A date or a phone's number as a string.
LEMMA ReadSendable ==
  ASSUME NEW s \in Moments \cup Phones
  PROVE  /\ Of("string", s) \in Values /\ Sendable(Of("string", s)) /\ ~Missing(Of("string", s))
         /\ Of("string", s).kind = "string" /\ Of("string", s).strs[1] = s
<1> DEFINE v == Of("string", s)
<1>1. v \in Values /\ Sendable(v)
  BY InputAssumption
<1>2. s # Plain(NoText)
  BY AnswersAssumption
<1>3. v.kind = "string" /\ v.strs[1] = s /\ Of("string", Plain(NoText)).strs[1] = Plain(NoText)
  BY OfIs
<1> HIDE DEF v
<1>4. ~Missing(v)
  BY <1>2, <1>3 DEF Missing
<1> QED
  BY <1>1, <1>3, <1>4 DEF v

\* ... of a date ...
LEMMA DateSound ==
  ASSUME NEW t \in {"date", "datetime"}, NEW c, NEW v, Sendable(v), ~Missing(v)
  PROVE  /\ AsDate(v) = Refused \/ Answered(t, c, AsDate(v))
         /\ Fits(t, c, v) => AsDate(v) = v
<1>1. v # Null
  BY NullIs
<1>2. CASE v.kind = "date"
  <2> DEFINE m == v.strs[1]
  <2>1. m \in Moments
    BY <1>2 DEF Sendable
  <2>2. AsDate(v) = Of("string", m)
    BY <1>2 DEF AsDate
  <2> HIDE DEF m
  <2>3. Sendable(AsDate(v)) /\ ~Missing(AsDate(v))
    BY <2>1, <2>2, ReadSendable
  <2>4. AsDate(v).kind = "string" /\ AsDate(v).strs[1] \in Moments
    BY <2>1, <2>2, OfIs
  <2>5. ~Fits(t, c, v)
    BY <1>1, <1>2 DEF Fits
  <2> QED
    BY <2>3, <2>4, <2>5 DEF Answered, Fits
<1>3. CASE v.kind # "date"
  BY <1>1, <1>3 DEF AsDate, Answered, Fits
<1> QED
  BY <1>2, <1>3

\* ... and of a checkbox.
LEMMA CheckboxSound ==
  ASSUME NEW c, NEW v, Sendable(v), ~Missing(v)
  PROVE  /\ AsCheckbox(v) = Refused \/ Answered("checkbox", c, AsCheckbox(v))
         /\ Fits("checkbox", c, v) => AsCheckbox(v) = v
<1>1. v # Null
  BY NullIs
<1>2. \A b \in BOOLEAN : Answered("checkbox", c, Spoken(b)) /\ Spoken(b).kind = "boolean"
  <2> TAKE b \in BOOLEAN
  <2> DEFINE t == IF b THEN "true" ELSE "false"
  <2>1. t \in Texts
    BY AnswersAssumption
  <2>2. Spoken(b) = Of("boolean", Plain(t))
    BY DEF Spoken
  <2> HIDE DEF t
  <2>3. t \in {"true", "false"}
    BY DEF t
  <2>4. Sendable(Spoken(b)) /\ ~Missing(Spoken(b)) /\ Spoken(b).kind = "boolean"
    <3>1. Spoken(b).kind = "boolean"
      BY <2>2, OfIs
    <3> QED
      BY <2>1, <2>2, <2>3, <3>1, OfSendable
  <2>5. Spoken(b) \in {Spoken(TRUE), Spoken(FALSE)}
    OBVIOUS
  <2> QED
    BY <2>4, <2>5 DEF Answered, Fits
<1>3. CASE v.kind = "boolean"
  <2>1. v \in {Spoken(TRUE), Spoken(FALSE)}
    BY <1>3 DEF Sendable
  <2> QED
    BY <1>2, <1>3, <2>1 DEF AsCheckbox
<1>4. CASE v.kind # "boolean"
  <2>1. ~Fits("checkbox", c, v)
    BY <1>1, <1>2, <1>4 DEF Fits
  <2>2. AsCheckbox(v) \in {Refused, Spoken(TRUE), Spoken(FALSE)}
    BY <1>4 DEF AsCheckbox
  <2> QED
    BY <1>2, <2>1, <2>2
<1> QED
  BY <1>3, <1>4

-----------------------------------------------------------------------------
(* Answers of several strings.                                             *)

\* A sequence with a length is not empty.
LEMMA NonEmpty ==
  ASSUME NEW S, NEW s \in Seq(S)
  PROVE  s # << >> <=> Len(s) > 0
BY EmptySeq

\* A string of one piece is a string.
LEMMA OneIsSome ==
  ASSUME NEW s, Len(s) = 1
  PROVE  s # NotString
BY DEF NotString

\* An array, and one whose strings have no blanks: these are its items.
LEMMA ArrayIs ==
  ASSUME NEW s \in Seq(Strings), s # << >>,
         NEW n, n = [kind |-> "array", strs |-> s]
  PROVE  Sendable(n) /\ ~Missing(n) /\ n # Null
<1>1. n \in [kind : Kinds \ {"refused"}, strs : Seq(Seq(Piece))]
  BY DEF Kinds, Strings
<1>2. n.kind = "array" /\ n.strs = s
  OBVIOUS
<1>3. n # Of("string", Plain(NoText))
  <2>1. Of("string", Plain(NoText)).kind = "string"
    BY DEF Of
  <2> QED
    BY <1>2, <2>1
<1> QED
  BY <1>1, <1>2, <1>3, NullIs DEF Sendable, Missing

\* An array whose strings are trimmed is made of its items.
LEMMA ArrayItems ==
  ASSUME NEW v, Sendable(v), v.kind = "array",
         \A i \in 1..Len(v.strs) : Trim(v.strs[i]) = v.strs[i]
  PROVE  Items(v) = v.strs /\ v = [kind |-> "array", strs |-> Items(v)]
<1>1. v.strs \in Seq(Strings) /\ v = [kind |-> "array", strs |-> v.strs]
  BY DEF Sendable, Strings
<1>2. /\ Items(v) \in Seq(Strings) /\ Len(Items(v)) = Len(v.strs)
      /\ \A i \in 1..Len(v.strs) : Items(v)[i] = v.strs[i]
  BY <1>1, ItemsOfArray
<1> DEFINE a == Items(v)
           b == v.strs
<1>3. /\ a \in Seq(Strings) /\ b \in Seq(Strings) /\ Len(a) = Len(b)
      /\ \A i \in 1..Len(a) : a[i] = b[i]
  BY <1>1, <1>2
<1> HIDE DEF a, b
<1>4. a = b
  BY <1>3, SeqEqual
<1> QED
  BY <1>1, <1>4 DEF a, b

\* What stands in a sequence.
LEMMA RangeIs ==
  ASSUME NEW S, NEW s \in Seq(S)
  PROVE  Range(s) = {s[i] : i \in 1..Len(s)}
BY LenProperties DEF Range

\* normalizeMultiSelect makes such a value of any, and leaves one alone.
LEMMA MultiSound ==
  ASSUME NEW c, NEW v, Sendable(v), ~Missing(v)
  PROVE  /\ AsMulti(c, v) = Refused \/ Answered("multiSelect", c, AsMulti(c, v))
         /\ Fits("multiSelect", c, v) => AsMulti(c, v) = v
<1> DEFINE items == Items(v)
           n == [kind |-> "array", strs |-> items]
<1>1. /\ items \in Seq(Strings) /\ \A i \in 1..Len(items) : Trim(items[i]) = items[i]
      /\ DOMAIN items = 1..Len(items) /\ Len(items) \in Nat
      /\ Range(items) = {items[i] : i \in 1..Len(items)}
  BY ItemsTrimmed, LenProperties, RangeIs
<1>2. AsMulti(c, v) = IF /\ items # << >>
                         /\ \A i \in DOMAIN items : items[i] \notin {NotString, Plain(NoText)}
                         /\ c.options # {} \/ c.allowOther
                         /\ c.allowOther \/ Range(items) \subseteq c.options
                         /\ Within(Len(items), c.max)
                      THEN n ELSE Refused
  BY DEF AsMulti
<1> HIDE DEF items
<1>3. ASSUME AsMulti(c, v) # Refused
      PROVE  Answered("multiSelect", c, AsMulti(c, v))
  <2>1. /\ AsMulti(c, v) = n /\ items # << >>
        /\ \A i \in 1..Len(items) : items[i] \notin {NotString, Plain(NoText)}
        /\ c.allowOther \/ Range(items) \subseteq c.options
        /\ Within(Len(items), c.max)
    BY <1>1, <1>2, <1>3
  <2>2. Sendable(n) /\ ~Missing(n)
    BY <1>1, <2>1, ArrayIs
  <2>3. Len(items) > 0
    BY <1>1, <2>1, NonEmpty
  <2>4. \A s \in Range(items) : s \notin {NotString, Plain(NoText)} /\ s = Trim(s)
    BY <1>1, <2>1
  <2>6. n.kind = "array" /\ n.strs = items
    OBVIOUS
  <2> HIDE DEF n
  <2>7. Fits("multiSelect", c, n)
    BY <2>1, <2>3, <2>4, <2>6 DEF Fits
  <2> QED
    BY <2>1, <2>2, <2>7 DEF Answered
<1>4. ASSUME Fits("multiSelect", c, v)
      PROVE  AsMulti(c, v) = v
  <2>1. v # Null
    BY NullIs
  <2>2. /\ v.kind = "array" /\ Len(v.strs) > 0 /\ Within(Len(v.strs), c.max)
        /\ c.allowOther \/ Range(v.strs) \subseteq c.options
        /\ \A s \in Range(v.strs) : s \notin {NotString, Plain(NoText)} /\ s = Trim(s)
    BY <1>4, <2>1 DEF Fits
  <2>3. v.strs \in Seq(Strings)
    BY DEF Sendable, Strings
  <2>4. /\ Range(v.strs) = {v.strs[i] : i \in 1..Len(v.strs)} /\ Len(v.strs) \in Nat
    BY <2>3, RangeIs, LenProperties
  <2>5. items = v.strs /\ v = n
    BY <2>2, <2>4, ArrayItems DEF items
  <2>6. items # << >> /\ 1 \in 1..Len(items)
    <3>1. Len(items) > 0
      BY <2>2, <2>5
    <3>2. items # << >>
      BY <1>1, <3>1, NonEmpty
    <3> QED
      BY <1>1, <3>1, <3>2
  <2>7. \A i \in 1..Len(items) : items[i] \notin {NotString, Plain(NoText)}
    BY <2>2, <2>4, <2>5
  <2>8. c.allowOther \/ Range(items) \subseteq c.options
    BY <2>2, <2>5
  <2>9. c.options # {} \/ c.allowOther
    BY <1>1, <2>6, <2>8
  <2> QED
    BY <1>1, <1>2, <2>2, <2>5, <2>6, <2>7, <2>8, <2>9
<1> QED
  BY <1>3, <1>4

\* The blocks that a list of strings names are as many as the strings exactly
\* when each string is a block's uuid and none stands there twice.
LEMMA FoundAll ==
  ASSUME NEW items \in Seq(Strings), NEW found,
         found = {b \in Blocks : \E i \in DOMAIN items : items[i] = Plain(b)}
  PROVE  Cardinality(found) = Len(items) <=>
           Range(items) \subseteq {Plain(b) : b \in Blocks} /\ IsInjective(items)
<1> DEFINE N == 1..Len(items)
<1>1. /\ Len(items) \in Nat /\ DOMAIN items = N /\ IsFiniteSet(N) /\ Cardinality(N) = Len(items)
      /\ Range(items) = {items[i] : i \in N}
  <2>1. Len(items) \in Nat /\ DOMAIN items = N
    BY LenProperties
  <2>2. IsFiniteSet(N) /\ Cardinality(N) = Len(items)
    <3>1. Len(items) \in Int /\ 1 \in Int
      BY <2>1
    <3>2. IsFiniteSet(N) /\ Cardinality(N) = IF 1 > Len(items) THEN 0 ELSE Len(items) - 1 + 1
      BY <3>1, FS_Interval
    <3> QED
      BY <2>1, <3>2
  <2>3. Range(items) = {items[i] : i \in N}
    BY RangeIs
  <2> QED
    BY <2>1, <2>2, <2>3
<1> HIDE DEF N
<1>2. ASSUME Cardinality(found) = Len(items)
      PROVE  Range(items) \subseteq {Plain(b) : b \in Blocks} /\ IsInjective(items)
  <2> DEFINE h == [b \in found |-> CHOOSE i \in N : items[i] = Plain(b)]
  <2>1. \A b \in found : h[b] \in N /\ items[h[b]] = Plain(b)
    BY <1>1
  <2> HIDE DEF h
  <2>2. \A a, b \in found : h[a] = h[b] => a = b
    BY <2>1, PlainApart
  <2>3. h \in [found -> N]
    BY <2>1 DEF h
  <2>4. h \in Injection(found, N)
    BY <2>2, <2>3 DEF Injection, IsInjective
  <2>5. h \in Surjection(found, N)
    BY <1>1, <1>2, <2>4, FS_Injection
  <2>6. \A i \in N : \E b \in found : h[b] = i
    BY <2>5 DEF Surjection
  <2>7. \A i \in N : \E b \in found : h[b] = i /\ items[i] = Plain(b)
    BY <2>1, <2>6
  <2>8. Range(items) \subseteq {Plain(b) : b \in Blocks}
    BY <1>1, <2>7
  <2>9. ASSUME NEW i \in N, NEW j \in N, items[i] = items[j] PROVE i = j
    BY <2>7, <2>9, PlainApart
  <2> QED
    BY <1>1, <2>8, <2>9 DEF IsInjective
<1>3. ASSUME Range(items) \subseteq {Plain(b) : b \in Blocks}, IsInjective(items)
      PROVE  Cardinality(found) = Len(items)
  <2> DEFINE h == [i \in N |-> CHOOSE b \in Blocks : items[i] = Plain(b)]
  <2>1. \A i \in N : h[i] \in Blocks /\ items[i] = Plain(h[i])
    BY <1>1, <1>3
  <2> HIDE DEF h
  <2>2. \A i \in N : h[i] \in found
    BY <1>1, <2>1
  <2>3. h \in [N -> found]
    BY <2>2 DEF h
  <2>4. \A i, j \in N : h[i] = h[j] => i = j
    BY <1>1, <1>3, <2>1 DEF IsInjective
  <2>5. \A b \in found : \E i \in N : h[i] = b
    BY <1>1, <2>1, PlainApart
  <2>6. h \in Injection(N, found) /\ h \in Surjection(N, found)
    BY <2>3, <2>4, <2>5 DEF Injection, Surjection, IsInjective
  <2> QED
    BY <1>1, <2>6, FS_Surjection
<1> QED
  BY <1>2, <1>3

-----------------------------------------------------------------------------
(* Every type of answer.                                                   *)

\* normalizeBlock does so too: none of its blocks is unknown or stands there twice.
LEMMA BlockSound ==
  ASSUME NEW c, c.max \in Nat \ {0}, NEW v, Sendable(v), ~Missing(v)
  PROVE  /\ AsBlock(c, v) = Refused \/ Answered("block", c, AsBlock(c, v))
         /\ Fits("block", c, v) => AsBlock(c, v) = v
<1> DEFINE items == Items(v)
           n == [kind |-> "array", strs |-> items]
           found == {b \in Blocks : \E i \in DOMAIN items : items[i] = Plain(b)}
<1>1. /\ items \in Seq(Strings) /\ \A i \in 1..Len(items) : Trim(items[i]) = items[i]
      /\ DOMAIN items = 1..Len(items) /\ Len(items) \in Nat
      /\ Range(items) = {items[i] : i \in 1..Len(items)}
  BY ItemsTrimmed, LenProperties, RangeIs
<1>2. c.max # None
  BY AnswersAssumption
<1>3. AsBlock(c, v) = IF /\ items # << >>
                         /\ \A i \in DOMAIN items : OneOf(items[i], Uuids)
                         /\ Len(items) <= c.max
                         /\ Cardinality(found) = Len(items)
                      THEN n ELSE Refused
  BY <1>2 DEF AsBlock
<1>4. Cardinality(found) = Len(items) <=>
        Range(items) \subseteq {Plain(b) : b \in Blocks} /\ IsInjective(items)
  <2> HIDE DEF items
  <2> QED
    BY <1>1, FoundAll
<1> HIDE DEF items, found
<1>5. ASSUME AsBlock(c, v) # Refused
      PROVE  Answered("block", c, AsBlock(c, v))
  <2>1. /\ AsBlock(c, v) = n /\ items # << >> /\ Len(items) <= c.max
        /\ Range(items) \subseteq {Plain(b) : b \in Blocks} /\ IsInjective(items)
    BY <1>3, <1>4, <1>5
  <2>2. Sendable(n) /\ ~Missing(n)
    BY <1>1, <2>1, ArrayIs
  <2>3. Len(items) \in 1..c.max
    BY <1>1, <2>1, NonEmpty
  <2>4. n.kind = "array" /\ n.strs = items
    OBVIOUS
  <2> HIDE DEF n
  <2>5. Fits("block", c, n)
    BY <2>1, <2>3, <2>4 DEF Fits
  <2> QED
    BY <2>1, <2>2, <2>5 DEF Answered
<1>6. ASSUME Fits("block", c, v)
      PROVE  AsBlock(c, v) = v
  <2>1. v # Null
    BY NullIs
  <2>2. /\ v.kind = "array" /\ Range(v.strs) \subseteq {Plain(b) : b \in Blocks}
        /\ Len(v.strs) \in 1..c.max /\ IsInjective(v.strs)
    BY <1>6, <2>1 DEF Fits
  <2>3. v.strs \in Seq(Strings)
    BY DEF Sendable, Strings
  <2>4. /\ Range(v.strs) = {v.strs[i] : i \in 1..Len(v.strs)} /\ Len(v.strs) \in Nat
    BY <2>3, RangeIs, LenProperties
  <2>5. \A b \in Blocks : b \in Uuids /\ b \in Texts
    BY AnswersAssumption
  <2>6. \A i \in 1..Len(v.strs) : \E b \in Uuids : b \in Texts /\ v.strs[i] = Plain(b)
    BY <2>2, <2>4, <2>5
  <2>7. \A i \in 1..Len(v.strs) : Trim(v.strs[i]) = v.strs[i]
    BY <2>6, TrimPlain
  <2>8. items = v.strs /\ v = n
    BY <2>2, <2>7, ArrayItems DEF items
  <2>9. /\ Cardinality(found) = Len(items) /\ Len(items) <= c.max /\ Len(items) > 0
        /\ \A i \in 1..Len(items) : OneOf(items[i], Uuids)
    BY <1>4, <2>2, <2>6, <2>8 DEF OneOf
  <2>10. items # << >>
    BY <1>1, <2>9, NonEmpty
  <2> QED
    BY <1>1, <1>3, <2>8, <2>9, <2>10
<1> QED
  BY <1>5, <1>6

\* Normalizing makes an answer of whatever is sent, or refuses it, and leaves
\* alone what is an answer already.
LEMMA NormalizeSound ==
  ASSUME NEW t \in AttributeTypes, NEW c, ConfigFits(t, c), NEW v, Sendable(v)
  PROVE  /\ Normalize(t, c, v) = Refused \/ Answered(t, c, Normalize(t, c, v))
         /\ Missing(v) => Normalize(t, c, v) = Null
         /\ Fits(t, c, v) /\ ~Missing(v) => Normalize(t, c, v) = v
<1>1. CASE Missing(v)
  <2>1. Normalize(t, c, v) = Null
    BY <1>1 DEF Normalize
  <2>2. Answered(t, c, Null)
    BY NullIs DEF Answered, Fits
  <2> QED
    BY <1>1, <2>1, <2>2
<1>2. CASE ~Missing(v)
  <2>1. CASE t = "select"
    <3>1. Normalize(t, c, v) = AsSelect(c, v)
      BY <1>2, <2>1 DEF Normalize
    <3> QED
      BY <1>2, <2>1, <3>1, SelectSound
  <2>2. CASE t = "multiSelect"
    <3>1. Normalize(t, c, v) = AsMulti(c, v)
      BY <1>2, <2>2 DEF Normalize
    <3> QED
      BY <1>2, <2>2, <3>1, MultiSound
  <2>3. CASE t = "block"
    <3>1. Normalize(t, c, v) = AsBlock(c, v)
      BY <1>2, <2>3 DEF Normalize
    <3>2. c.max \in Nat \ {0}
      BY <2>3 DEF ConfigFits
    <3> QED
      BY <1>2, <2>3, <3>1, <3>2, BlockSound
  <2>4. CASE t = "number"
    <3>1. Normalize(t, c, v) = AsNumber(v)
      BY <1>2, <2>4 DEF Normalize
    <3> QED
      BY <1>2, <2>4, <3>1, NumberSound
  <2>5. CASE t \in {"date", "datetime"}
    <3>1. Normalize(t, c, v) = AsDate(v)
      BY <1>2, <2>5 DEF Normalize
    <3> QED
      BY <1>2, <2>5, <3>1, DateSound
  <2>6. CASE t = "checkbox"
    <3>1. Normalize(t, c, v) = AsCheckbox(v)
      BY <1>2, <2>6 DEF Normalize
    <3> QED
      BY <1>2, <2>6, <3>1, CheckboxSound
  <2>7. CASE t \notin {"select", "multiSelect", "block", "number", "checkbox", "date", "datetime"}
    <3>1. Normalize(t, c, v) = AsString(t, v)
      BY <1>2, <2>7 DEF Normalize
    <3> QED
      BY <1>2, <2>7, <3>1, StringSound
  <2> QED
    BY <2>1, <2>2, <2>3, <2>4, <2>5, <2>6, <2>7
<1> QED
  BY <1>1, <1>2

\* Some value is accepted by every attribute: an option, a block's uuid, a text
\* of its format.
LEMMA TextIs ==
  ASSUME NEW t \in Texts \ {NoText}
  PROVE  /\ Of("string", Plain(t)) \in Values /\ Sendable(Of("string", Plain(t)))
         /\ ~Missing(Of("string", Plain(t)))
         /\ Of("string", Plain(t)).kind = "string" /\ Of("string", Plain(t)).strs[1] = Plain(t)
         /\ Items(Of("string", Plain(t))) = <<Plain(t)>>
<1> DEFINE v == Of("string", Plain(t))
           p == Plain(t)
<1>1. v \in Values /\ Sendable(v) /\ ~Missing(v)
  BY InputAssumption, OfSendable
<1>2. v.kind = "string" /\ v.strs[1] = p
  BY OfIs
<1>3. p \in Strings /\ Len(p) = 1 /\ p[1].text = t /\ <<p>> \in Seq(Strings)
  BY PlainIs
<1> HIDE DEF v
<1> DEFINE a == Items(v)
           b == <<p>>
<1>4. a \in Seq(Strings) /\ Len(a) = 1 /\ a[1] = p
  <2>1. /\ a \in Seq(Strings) /\ Len(a) = Len(p)
        /\ \A i \in 1..Len(p) : a[i] = Plain(p[i].text)
    <3> HIDE DEF p
    <3> QED
      BY <1>2, <1>3, ItemsOfString
  <2> HIDE DEF a
  <2>2. 1 \in 1..Len(p)
    BY <1>3
  <2> QED
    BY <1>3, <2>1, <2>2
<1>5. b \in Seq(Strings) /\ Len(b) = 1 /\ b[1] = p
  BY <1>3
<1> HIDE DEF a, b, p
<1>6. \A i \in 1..Len(a) : a[i] = b[i]
  BY <1>4, <1>5
<1>7. a = b
  BY <1>4, <1>5, <1>6, SeqEqual
<1> QED
  BY <1>1, <1>2, <1>7 DEF a, b, v, p

\* What a multiple choice keeps has no blanks at its ends, so that options with
\* such blanks are never chosen.
LEMMA NeverChosen ==
  ASSUME NEW c, Unanswerable("multiSelect", c), NEW v, Sendable(v), ~Missing(v)
  PROVE  AsMulti(c, v) = Refused
<1> DEFINE items == Items(v)
<1>1. items \in Seq(Strings) /\ \A i \in 1..Len(items) : Trim(items[i]) = items[i]
  BY ItemsTrimmed
<1>2. SUFFICES ASSUME items # << >> PROVE ~(Range(items) \subseteq c.options)
  BY DEF AsMulti, Unanswerable
<1> HIDE DEF items
<1>3. Len(items) \in Nat /\ Len(items) > 0 /\ Range(items) = {items[i] : i \in 1..Len(items)}
  BY <1>1, <1>2, NonEmpty, RangeIs, LenProperties
<1>4. items[1] \in Range(items) /\ Trim(items[1]) = items[1]
  BY <1>1, <1>3
<1> QED
  BY <1>4 DEF Unanswerable

\* Whatever the config, some value is accepted, but for that case.
LEMMA SomeAccepted ==
  ASSUME NEW t \in AttributeTypes, NEW c, ConfigFits(t, c),
         t = "block" => Blocks # {}, ~Unanswerable(t, c)
  PROVE  \E v \in Values : Normalize(t, c, v).kind \notin {"refused", "null"}
<1>0. ASSUME t \in OptionTypes, NEW o \in c.options, NEW kind \in {"string", "array"}
      PROVE  /\ Of(kind, o) \in Values /\ Sendable(Of(kind, o)) /\ ~Missing(Of(kind, o))
             /\ Of(kind, o).kind = kind /\ Of(kind, o).strs = <<o>> /\ Of(kind, o).strs[1] = o
             /\ o \in Strings /\ o # NotString /\ ~Blank(o)
  <2> DEFINE v == Of(kind, o)
  <2>1. v \in Values /\ Sendable(v) /\ ~Blank(o) /\ o \in Strings /\ o # NotString
    BY <1>0, InputAssumption DEF ConfigFits, Config, Options, Strings
  <2>2. v.kind = kind /\ v.strs = <<o>> /\ v.strs[1] = o
    BY OfIs
  <2>3. o # Plain(NoText)
    BY <2>1, AnswersAssumption, TrimPlain DEF Blank
  <2>4. Of("string", Plain(NoText)).strs[1] = Plain(NoText)
    BY OfIs
  <2> HIDE DEF v
  <2>5. ~Missing(v)
    BY <2>2, <2>3, <2>4 DEF Missing
  <2> QED
    BY <2>1, <2>2, <2>5 DEF v
<1>1. CASE t = "select"
  <2>1. PICK o \in c.options : TRUE
    BY <1>1 DEF ConfigFits, OptionTypes
  <2> DEFINE v == Of("string", o)
  <2>2. v \in Values /\ ~Missing(v) /\ v.kind = "string" /\ v.strs[1] = o
    BY <1>0, <1>1, <2>1 DEF OptionTypes
  <2> HIDE DEF v
  <2>3. Normalize(t, c, v) = v
    BY <1>1, <2>1, <2>2 DEF Normalize, AsSelect
  <2> QED
    BY <2>2, <2>3
<1>2. CASE t = "multiSelect"
  <2>1. PICK o \in c.options : c.allowOther \/ Trim(o) = o
    BY <1>2 DEF Unanswerable, ConfigFits, OptionTypes
  <2> DEFINE v == Of("array", o)
             x == Trim(o)
  <2>2. /\ v \in Values /\ ~Missing(v) /\ v.kind = "array" /\ v.strs = <<o>>
        /\ o \in Strings /\ o # NotString /\ x # Plain(NoText)
    BY <1>0, <1>2, <2>1 DEF OptionTypes, Blank
  <2>3. x \in Strings /\ x # NotString
    BY <2>2, TrimIs DEF NotString
  <2> HIDE DEF v, x
  <2>4. Items(v) = <<x>>
    BY <2>2 DEF Items, x
  <2>5. <<x>> # << >> /\ DOMAIN <<x>> = {1} /\ <<x>>[1] = x /\ Len(<<x>>) = 1
    OBVIOUS
  <2>6. Range(<<x>>) = {x}
    BY <2>5 DEF Range
  <2>7. Within(1, c.max)
    <3>1. c.max = None \/ (c.max \in Nat /\ c.max > 0)
      BY <1>2 DEF ConfigFits, Config
    <3> QED
      BY <3>1 DEF Within
  <2>8. c.allowOther \/ Range(<<x>>) \subseteq c.options
    BY <2>1, <2>6 DEF x
  <2>9. AsMulti(c, v).kind = "array"
    BY <2>1, <2>2, <2>3, <2>4, <2>5, <2>7, <2>8 DEF AsMulti
  <2>10. Normalize(t, c, v) = AsMulti(c, v)
    BY <1>2, <2>2 DEF Normalize
  <2> QED
    BY <2>2, <2>9, <2>10
<1>3. CASE t = "block"
  <2>1. PICK b \in Blocks : TRUE
    BY <1>3
  <2>2. b \in Uuids /\ b \in Texts \ {NoText}
    BY AnswersAssumption
  <2> DEFINE v == Of("string", Plain(b))
             w == [kind |-> "array", strs |-> <<Plain(b)>>]
  <2>3. v \in Values /\ Sendable(v) /\ ~Missing(v) /\ Items(v) = <<Plain(b)>>
    BY <2>2, TextIs
  <2> HIDE DEF v
  <2>4. /\ <<Plain(b)>> # << >> /\ DOMAIN <<Plain(b)>> = 1..1 /\ <<Plain(b)>>[1] = Plain(b)
        /\ Len(<<Plain(b)>>) = 1
    OBVIOUS
  <2> DEFINE items == <<Plain(b)>>
             found == {d \in Blocks : \E i \in DOMAIN items : items[i] = Plain(d)}
  <2>5. items \in Seq(Strings)
    BY <2>2, PlainIs
  <2>6. Range(items) \subseteq {Plain(d) : d \in Blocks} /\ IsInjective(items)
    <3>1. Range(items) = {items[i] : i \in DOMAIN items}
      BY DEF Range
    <3> QED
      BY <2>1, <2>4, <3>1 DEF IsInjective
  <2>7. Cardinality(found) = 1
    <3> HIDE DEF items
    <3> QED
      BY <2>4, <2>5, <2>6, FoundAll DEF items
  <2>8. c.max \in Nat \ {0} /\ c.max # None
    BY <1>3, AnswersAssumption DEF ConfigFits
  <2>9. \A i \in DOMAIN items : OneOf(items[i], Uuids)
    <3>1. OneOf(Plain(b), Uuids)
      BY <2>2 DEF OneOf
    <3> QED
      BY <2>4, <3>1
  <2>10. AsBlock(c, v).kind = "array"
    BY <2>3, <2>4, <2>7, <2>8, <2>9 DEF AsBlock
  <2>11. Normalize(t, c, v) = AsBlock(c, v)
    BY <1>3, <2>3 DEF Normalize
  <2> QED
    BY <2>3, <2>10, <2>11
<1>4. CASE t = "number"
  <2>1. PICK o \in Texts \ {NoText} : o \in DOMAIN Numerals
    BY AnswersAssumption
  <2> DEFINE v == Of("string", Plain(o))
  <2>2. /\ v \in Values /\ Sendable(v) /\ ~Missing(v)
        /\ v.kind = "string" /\ v.strs[1] = Plain(o)
    BY <2>1, TextIs
  <2>3. Len(Plain(o)) = 1 /\ Plain(o)[1].text = o
    BY <2>1, PlainIs
  <2> HIDE DEF v
  <2>4. AsNumber(v) = Of("number", Plain(Numerals[o]))
    BY <2>1, <2>2, <2>3 DEF AsNumber
  <2>5. AsNumber(v).kind = "number"
    <3> DEFINE s == Plain(Numerals[o])
    <3> HIDE DEF s
    <3>1. AsNumber(v) = Of("number", s)
      BY <2>4 DEF s
    <3> QED
      BY <3>1, OfIs
  <2>6. Normalize(t, c, v) = AsNumber(v)
    BY <1>4, <2>2 DEF Normalize
  <2> QED
    BY <2>2, <2>5, <2>6
<1>5. CASE t \in {"date", "datetime"}
  <2>1. PICK o \in Moments : TRUE
    BY AnswersAssumption
  <2> DEFINE v == Of("string", o)
  <2>2. v \in Values /\ ~Missing(v) /\ v.kind = "string" /\ v.strs[1] = o
    BY <2>1, ReadSendable
  <2> HIDE DEF v
  <2>3. Normalize(t, c, v) = v
    BY <1>5, <2>1, <2>2 DEF Normalize, AsDate
  <2> QED
    BY <2>2, <2>3
<1>6. CASE t = "checkbox"
  <2>1. "true" \in Texts \ {NoText} /\ "true" \in Truths
    BY AnswersAssumption
  <2> DEFINE v == Of("string", Plain("true"))
  <2>2. v \in Values /\ ~Missing(v) /\ v.kind = "string" /\ v.strs[1] = Plain("true")
    BY <2>1, TextIs
  <2> HIDE DEF v
  <2>3. AsCheckbox(v) \in {Spoken(TRUE), Spoken(FALSE)}
    BY <2>1, <2>2 DEF AsCheckbox, OneOf
  <2>4. AsCheckbox(v).kind = "boolean"
    BY <2>3 DEF Spoken, Of
  <2>5. Normalize(t, c, v) = AsCheckbox(v)
    BY <1>6, <2>2 DEF Normalize
  <2> QED
    BY <2>2, <2>4, <2>5
<1>7. CASE t \notin {"select", "multiSelect", "block", "number", "checkbox", "date", "datetime"}
  <2>1. PICK v \in Values : ~Missing(v) /\ v.kind = "string" /\ HasFormat(t, v.strs[1])
    <3>1. CASE t = "tel"
      <4>1. PICK o \in Phones : TRUE
        BY AnswersAssumption
      <4> DEFINE v == Of("string", o)
      <4>2. v \in Values /\ ~Missing(v) /\ v.kind = "string" /\ v.strs[1] = o
        BY <4>1, ReadSendable
      <4> HIDE DEF v
      <4> QED
        BY <3>1, <4>1, <4>2 DEF HasFormat
    <3>2. CASE t # "tel"
      <4>1. PICK o \in Texts \ {NoText} : /\ t = "email" => o \in Emails
                                          /\ t = "color" => o \in Colors
        <5>1. \E o \in Emails : o \in Texts \ {NoText}
          BY AnswersAssumption
        <5>2. \E o \in Colors : o \in Texts \ {NoText}
          BY AnswersAssumption
        <5>3. "email" \in Texts \ {NoText}
          BY AnswersAssumption DEF NoText
        <5> QED
          BY <5>1, <5>2, <5>3
      <4> DEFINE v == Of("string", Plain(o))
      <4>2. v \in Values /\ ~Missing(v) /\ v.kind = "string" /\ v.strs[1] = Plain(o)
        BY <4>1, TextIs
      <4> HIDE DEF v
      <4> QED
        BY <3>2, <4>1, <4>2 DEF HasFormat, OneOf
    <3> QED
      BY <3>1, <3>2
  <2>2. AsString(t, v) = v
    BY <2>1 DEF AsString
  <2>3. Normalize(t, c, v) = AsString(t, v)
    BY <1>7, <2>1 DEF Normalize
  <2> QED
    BY <2>1, <2>2, <2>3
<1> QED
  BY <1>1, <1>2, <1>3, <1>4, <1>5, <1>6, <1>7

-----------------------------------------------------------------------------
(* Mails, tickets, and the cells of a sheet.                               *)

\* An answer is of one of the kinds that its type keeps, an array only of a
\* multiple choice or of blocks, and none of its strings is missing.
LEMMA AnsweredIs ==
  ASSUME NEW t \in AttributeTypes, NEW c, NEW v, Answered(t, c, v)
  PROVE  /\ v.kind \in {"null", "string", "array", "number", "boolean"}
         /\ v.kind = "null" <=> v = Null
         /\ v.kind = "array" <=> v # Null /\ t \in {"multiSelect", "block"}
         /\ v.kind = "array" => /\ v.strs \in Seq(Strings) /\ Len(v.strs) > 0
                                /\ \A i \in 1..Len(v.strs) : v.strs[i] # NotString
         /\ v.kind \notin {"null", "array"} => /\ v = Of(v.kind, v.strs[1])
                                               /\ v.strs[1] \in Strings
                                               /\ v.strs[1] # NotString
<1>1. Sendable(v) /\ Fits(t, c, v) /\ (v = Null \/ ~Missing(v))
  BY DEF Answered
<1>2. CASE v = Null
  BY <1>2, NullIs
<1>3. CASE v # Null
  <2>1. v.kind # "null"
    BY <1>1, <1>3 DEF Sendable
  <2>2. CASE t = "multiSelect"
    <3>1. /\ v.kind = "array" /\ Len(v.strs) > 0
          /\ \A s \in Range(v.strs) : s # NotString
      BY <1>1, <1>3, <2>2 DEF Fits
    <3>2. v.strs \in Seq(Strings)
      BY <1>1 DEF Sendable, Strings
    <3> QED
      BY <1>3, <2>2, <3>1, <3>2, RangeIs
  <2>3. CASE t = "block"
    <3>1. /\ v.kind = "array" /\ Len(v.strs) \in 1..c.max
          /\ Range(v.strs) \subseteq {Plain(b) : b \in Blocks}
      BY <1>1, <1>3, <2>3 DEF Fits
    <3>2. v.strs \in Seq(Strings)
      BY <1>1 DEF Sendable, Strings
    <3>3. \A b \in Blocks : Plain(b) # NotString
      BY AnswersAssumption, PlainIs
    <3>4. Len(v.strs) \in Nat
      BY <3>2, LenProperties
    <3>5. \A i \in 1..Len(v.strs) : v.strs[i] # NotString
      BY <3>1, <3>2, <3>3, RangeIs
    <3>6. Len(v.strs) > 0
      BY <3>1, <3>4
    <3> QED
      BY <1>3, <2>3, <3>1, <3>2, <3>5, <3>6
  <2>4. CASE t \notin {"multiSelect", "block"}
    <3>1. v.kind \in {"string", "number", "boolean"}
      <4>1. CASE t = "checkbox"
        <5>1. v \in {Spoken(TRUE), Spoken(FALSE)}
          BY <1>1, <1>3, <4>1 DEF Fits
        <5>2. Spoken(TRUE).kind = "boolean" /\ Spoken(FALSE).kind = "boolean"
          BY DEF Spoken, Of
        <5> QED
          BY <5>1, <5>2
      <4>2. CASE t # "checkbox"
        BY <1>1, <1>3, <2>4, <4>2 DEF Fits
      <4> QED
        BY <4>1, <4>2
    <3> QED
      BY <1>1, <1>3, <2>4, <3>1, OfOne
  <2> QED
    BY <2>2, <2>3, <2>4
<1> QED
  BY <1>2, <1>3

\* A mail names all that was chosen, and the ticket names the same blocks.
LEMMA MailShows ==
  ASSUME NEW t \in AttributeTypes, NEW c, NEW v, Answered(t, c, v), v.kind = "array"
  PROVE  /\ \A s \in Range(v.strs) :
              CASE t = "block" -> \E b \in Blocks : /\ s = Plain(b)
                                                    /\ Plain(NameOf[b]) \in Mailed(t, c, v)
                [] OTHER -> s \in Mailed(t, c, v) \/ s \notin c.options
         /\ t = "block" => Shown(t, v) = Mailed(t, c, v)
<1>1. Selected(v) = Range(v.strs)
  BY DEF Selected
<1>2. v # Null
  BY NullIs
<1>3. CASE t = "block"
  <2>1. Range(v.strs) \subseteq {Plain(b) : b \in Blocks}
    BY <1>2, <1>3 DEF Answered, Fits
  <2>2. /\ Mailed(t, c, v) = {Plain(m) : m \in NamesOf(v)}
        /\ Shown(t, v) = {Plain(m) : m \in NamesOf(v)}
    BY <1>3 DEF Mailed, Shown
  <2>3. ASSUME NEW s \in Range(v.strs)
        PROVE  \E b \in Blocks : s = Plain(b) /\ Plain(NameOf[b]) \in Mailed(t, c, v)
    <3>1. PICK b \in Blocks : s = Plain(b)
      BY <2>1
    <3>2. NameOf[b] \in NamesOf(v)
      BY <1>1, <3>1 DEF NamesOf
    <3> QED
      BY <2>2, <3>1, <3>2
  <2> QED
    BY <1>3, <2>2, <2>3
<1>4. CASE t # "block"
  <2>1. ASSUME NEW s \in Range(v.strs), s \in c.options
        PROVE  s \in Mailed(t, c, v)
    <3>2. CASE t = "multiSelect"
      <4>1. Mailed(t, c, v) = c.options \cap Selected(v)
        BY <2>1, <3>2 DEF Mailed
      <4> QED
        BY <1>1, <2>1, <4>1
    <3>3. CASE t # "multiSelect"
      <4>1. Mailed(t, c, v) = Range(v.strs)
        BY <1>4, <3>3 DEF Mailed
      <4> QED
        BY <4>1
    <3> QED
      BY <3>2, <3>3
  <2> QED
    BY <1>4, <2>1
<1> QED
  BY <1>3, <1>4

\* A blank before a string.
LEMMA PadIs ==
  ASSUME NEW s \in Strings, s # NotString, NEW t, t = [s EXCEPT ![1].padded = TRUE]
  PROVE  /\ t \in Strings /\ Len(t) = Len(s)
         /\ t[1].text = s[1].text
<1>1. Len(s) \in Nat \ {0} /\ s[1] \in Piece
  BY EmptySeq, ElementOfSeq DEF Strings, NotString
<1> DEFINE p == [s[1] EXCEPT !.padded = TRUE]
<1>2. p = [text |-> s[1].text, padded |-> TRUE] /\ p \in Piece
  BY <1>1, PieceWith
<1>3. t = [s EXCEPT ![1] = p]
  OBVIOUS
<1>4. p.text = s[1].text
  BY <1>2
<1> HIDE DEF p
<1>5. 1 \in 1..Len(s)
  BY <1>1
<1>6. t \in Seq(Piece) /\ Len(t) = Len(s) /\ \A j \in 1..Len(s) : t[j] = IF j = 1 THEN p ELSE s[j]
  <2> DEFINE u == [s EXCEPT ![1] = p]
  <2>1. s \in Seq(Piece) /\ p \in Piece
    BY <1>2 DEF Strings
  <2>2. u \in Seq(Piece) /\ Len(u) = Len(s) /\ \A j \in 1..Len(s) : u[j] = IF j = 1 THEN p ELSE s[j]
    BY <2>1, <1>5, ExceptSeq
  <2>3. t = u
    BY <1>3
  <2> HIDE DEF u
  <2> QED
    BY <2>2, <2>3
<1> QED
  BY <1>4, <1>5, <1>6 DEF Strings

\* The cell of an array: its strings one after the other.
LEMMA ArrayFormat ==
  ASSUME NEW v, v.kind = "array", v.strs \in Seq(Strings),
         \A i \in 1..Len(v.strs) : v.strs[i] # NotString
  PROVE  /\ Format(v) \in Strings
         /\ (\A i \in 1..Len(v.strs) : Len(v.strs[i]) = 1) =>
              /\ Len(Format(v)) = Len(v.strs)
              /\ \A i \in 1..Len(v.strs) : Format(v)[i].text = v.strs[i][1].text
<1> DEFINE padded == [i \in DOMAIN v.strs |->
                        IF i = 1 THEN v.strs[1] ELSE [v.strs[i] EXCEPT ![1].padded = TRUE]]
           N == Len(v.strs)
<1>1. N \in Nat /\ DOMAIN v.strs = 1..N /\ \A i \in 1..N : v.strs[i] \in Strings
  BY LenProperties, ElementOfSeq
<1>2. Format(v) = FlattenSeq(padded)
  BY DEF Format
<1>3. \A i \in 1..N : /\ padded[i] \in Strings /\ Len(padded[i]) = Len(v.strs[i])
                      /\ padded[i][1].text = v.strs[i][1].text
  <2> TAKE i \in 1..N
  <2>1. CASE i = 1
    BY <1>1, <2>1
  <2>2. CASE i # 1
    <3>1. padded[i] = [v.strs[i] EXCEPT ![1].padded = TRUE]
      BY <1>1, <2>2
    <3> DEFINE s == v.strs[i]
               t == padded[i]
    <3>2. t = [s EXCEPT ![1].padded = TRUE] /\ s \in Strings /\ s # NotString
      BY <1>1, <3>1
    <3> HIDE DEF s, t
    <3>3. t \in Strings /\ Len(t) = Len(s) /\ t[1].text = s[1].text
      BY <3>2, PadIs
    <3> QED
      BY <3>3 DEF s, t
  <2> QED
    BY <2>1, <2>2
<1>4. padded \in Seq(Seq(Piece)) /\ Len(padded) = N
  <2>1. padded = [i \in 1..N |-> padded[i]]
    BY <1>1
  <2> HIDE DEF padded
  <2>2. padded \in [1..N -> Strings]
    BY <1>3, <2>1
  <2> QED
    BY <1>1, <2>2, ListOf DEF Strings
<1> HIDE DEF padded
<1>5. Format(v) \in Strings
  BY <1>2, <1>4, FlattenList DEF Strings
<1>6. ASSUME \A i \in 1..N : Len(v.strs[i]) = 1
      PROVE  Len(Format(v)) = N /\ \A i \in 1..N : Format(v)[i].text = v.strs[i][1].text
  <2>1. \A i \in 1..Len(padded) : Len(padded[i]) = 1
    BY <1>3, <1>4, <1>6
  <2>2. /\ Len(FlattenSeq(padded)) = Len(padded)
        /\ \A i \in 1..Len(padded) : FlattenSeq(padded)[i] = padded[i][1]
    BY <1>4, <2>1, FlattenOnes
  <2> QED
    BY <1>2, <1>3, <1>4, <2>2
<1> QED
  BY <1>5, <1>6

-----------------------------------------------------------------------------
(* A cell that is imported.                                                *)

\* What a sheet makes of an answer that it holds as one string.
LEMMA OneBack ==
  ASSUME NEW t \in AttributeTypes \ (FileLike \cup {"block"}), NEW c, ConfigFits(t, c),
         NEW v, Answered(t, c, v), v.kind \in {"string", "number", "boolean"},
         v.strs[1] = Trim(v.strs[1])
  PROVE  Reimport(t, c, Format(v)) = v
<1> DEFINE s == v.strs[1]
<1>1. /\ v = Of(v.kind, s) /\ s \in Strings /\ s # NotString /\ s = Trim(s) /\ v # Null
      /\ Sendable(v) /\ ~Missing(v) /\ Fits(t, c, v)
  BY AnsweredIs, NullIs DEF Answered
<1>2. Format(v) = s
  BY DEF Format
<1> HIDE DEF s
<1>3. CASE v.kind = "string"
  <2>1. v = Of("string", s) /\ s # Plain(NoText)
    BY <1>1, <1>3 DEF Missing
  <2>2. Reimport(t, c, s) = Normalize(t, c, v)
    BY <1>1, <2>1 DEF Reimport
  <2> QED
    BY <1>1, <1>2, <2>2, NormalizeSound
<1>4. CASE v.kind = "number"
  <2>1. PICK m \in {Numerals[u] : u \in DOMAIN Numerals} : s = Plain(m)
    BY <1>1, <1>4 DEF Sendable, OneOf, s
  <2>2. m \in Texts /\ m # NoText /\ m \in DOMAIN Numerals /\ Numerals[m] = m
    BY <2>1, AnswersAssumption
  <2>3. s # Plain(NoText)
    BY <2>1, <2>2, PlainApart
  <2>4. t = "number"
    <3>1. Spoken(TRUE).kind = "boolean" /\ Spoken(FALSE).kind = "boolean"
      BY DEF Spoken, Of
    <3> QED
      BY <1>1, <1>4, <3>1 DEF Fits
  <2> DEFINE w == Of("string", s)
  <2>5. Reimport(t, c, s) = Normalize(t, c, w)
    BY <1>1, <2>3, <2>4 DEF Reimport, FileLike
  <2>6. /\ w = Of("string", Plain(m)) /\ ~Missing(w) /\ w.kind = "string" /\ w.strs[1] = s
    BY <2>1, <2>2, TextIs
  <2>7. Len(s) = 1 /\ s[1].text = m
    BY <2>1, <2>2, PlainIs
  <2> HIDE DEF w
  <2>8. AsNumber(w) = Of("number", s)
    BY <2>1, <2>2, <2>6, <2>7 DEF AsNumber
  <2>9. Normalize(t, c, w) = AsNumber(w)
    BY <2>4, <2>6 DEF Normalize
  <2> QED
    BY <1>1, <1>2, <1>4, <2>5, <2>8, <2>9
<1>5. CASE v.kind = "boolean"
  <2>1. PICK b \in BOOLEAN : v = Spoken(b)
    BY <1>1, <1>5 DEF Sendable
  <2> DEFINE m == IF b THEN "true" ELSE "false"
             w == Of("string", s)
  <2>2. m \in Texts \ {NoText}
    BY AnswersAssumption
  <2>3. s = Plain(m)
    <3>1. v = Of("boolean", Plain(m))
      BY <2>1 DEF Spoken
    <3> HIDE DEF m
    <3>2. v.strs[1] = Plain(m)
      BY <3>1, OfIs
    <3> QED
      BY <3>2 DEF s
  <2>4. s # Plain(NoText)
    BY <2>2, <2>3, PlainApart
  <2>5. t = "checkbox"
    BY <1>1, <1>5 DEF Fits
  <2>6. Reimport(t, c, s) = Normalize(t, c, w)
    BY <1>1, <2>4, <2>5 DEF Reimport, FileLike
  <2>7. ~Missing(w) /\ w.kind = "string" /\ w.strs[1] = s
    <3> HIDE DEF m
    <3> QED
      BY <2>2, <2>3, TextIs
  <2> HIDE DEF w
  <2>8. AsCheckbox(w) = Spoken(b)
    <3>1. w # Of("number", Plain("1")) /\ w # Of("number", Plain("0"))
      BY <2>7 DEF Of
    <3>2. CASE b
      <4>1. OneOf(s, Truths)
        BY <2>3, <3>2, AnswersAssumption DEF OneOf
      <4> QED
        BY <2>7, <3>2, <4>1 DEF AsCheckbox
    <3>3. CASE ~b
      <4>1. OneOf(s, Falsehoods) /\ ~OneOf(s, Truths)
        BY <2>3, <3>3, AnswersAssumption, PlainApart DEF OneOf
      <4> QED
        BY <2>7, <3>1, <3>3, <4>1 DEF AsCheckbox
    <3> QED
      BY <3>2, <3>3
  <2>9. Normalize(t, c, w) = AsCheckbox(w)
    BY <2>5, <2>7 DEF Normalize
  <2> QED
    BY <1>2, <2>1, <2>6, <2>8, <2>9
<1> QED
  BY <1>3, <1>4, <1>5

\* Strings of one piece each, without blanks, none of them empty.
OnePieced(s) ==
  \A i \in 1..Len(s) : Len(s[i]) = 1 /\ s[i] = Trim(s[i]) /\ s[i] # Plain(NoText)

\* An answer made of such strings has a cell with the same items.
LEMMA ManyBack ==
  ASSUME NEW v, v.kind = "array", v.strs \in Seq(Strings), Len(v.strs) > 0, OnePieced(v.strs)
  PROVE  /\ Trim(Format(v)) # Plain(NoText)
         /\ Items(Of("string", Trim(Format(v)))) = v.strs
<1> DEFINE N == Len(v.strs)
           s == Trim(Format(v))
           w == Of("string", s)
<1>1. N \in Nat /\ \A i \in 1..N : v.strs[i] \in Strings
  BY LenProperties, ElementOfSeq
<1>9. \A i \in 1..N : Len(v.strs[i]) = 1 /\ v.strs[i] # Plain(NoText)
  BY DEF OnePieced
<1>2. \A i \in 1..N : v.strs[i] # NotString
  BY <1>9, OneIsSome
<1>3. \A i \in 1..N : v.strs[i] = Plain(v.strs[i][1].text) /\ v.strs[i][1].text \in Texts
  <2> TAKE i \in 1..N
  <2> DEFINE u == v.strs[i]
  <2>1. u \in Strings /\ u # NotString /\ Len(u) = 1 /\ u = Trim(u)
    BY <1>1, <1>2, <1>9 DEF OnePieced
  <2> HIDE DEF u
  <2>2. u[1] = [text |-> u[1].text, padded |-> FALSE]
    BY <2>1, TrimIs
  <2>3. ~u[1].padded
    BY <2>2
  <2> QED
    BY <2>1, <2>3, PlainOf DEF u
<1>4. /\ Format(v) \in Strings /\ Len(Format(v)) = N
      /\ \A i \in 1..N : Format(v)[i].text = v.strs[i][1].text
  BY <1>2, <1>9, ArrayFormat
<1>5. Format(v) # NotString
  BY <1>4 DEF NotString
<1>6. /\ s \in Strings /\ Len(s) = N /\ \A i \in 1..N : s[i].text = v.strs[i][1].text
      /\ ~s[1].padded
  <2> DEFINE f == Format(v)
  <2>1. f \in Strings /\ f # NotString /\ Len(f) = N
    BY <1>4, <1>5
  <2> HIDE DEF f
  <2>2. /\ Trim(f) \in Strings /\ Len(Trim(f)) = N
        /\ Trim(f)[1] = [text |-> f[1].text, padded |-> FALSE]
    BY <2>1, TrimIs
  <2>3. ~Trim(f)[1].padded
    BY <2>2
  <2>4. \A i \in 1..N : Trim(f)[i].text = f[i].text
    BY <2>1, TrimIs
  <2> QED
    BY <1>4, <2>2, <2>3, <2>4 DEF f
<1> HIDE DEF s
<1>7. s # Plain(NoText)
  <2> SUFFICES ASSUME s = Plain(NoText) PROVE FALSE
    OBVIOUS
  <2>1. NoText \in Texts
    BY AnswersAssumption
  <2>2. Len(s) = 1 /\ s[1].text = NoText
    BY <2>1, PlainIs
  <2>3. 1 \in 1..N
    BY <1>1
  <2>4. v.strs[1] = Plain(NoText)
    BY <1>3, <1>6, <2>2, <2>3
  <2> QED
    BY <1>9, <2>3, <2>4
<1>8. Items(w) = v.strs
  <2>1. w.kind = "string" /\ w.strs[1] = s
    BY OfIs
  <2> HIDE DEF w
  <2>2. /\ Items(w) \in Seq(Strings) /\ Len(Items(w)) = N
        /\ \A i \in 1..N : Items(w)[i] = Plain(s[i].text)
    BY <1>6, <2>1, ItemsOfString
  <2>3. \A i \in 1..N : Items(w)[i] = v.strs[i]
    BY <1>3, <1>6, <2>2
  <2> DEFINE a == Items(w)
             b == v.strs
  <2>4. /\ a \in Seq(Strings) /\ b \in Seq(Strings) /\ Len(a) = Len(b)
        /\ \A i \in 1..Len(a) : a[i] = b[i]
    BY <2>2, <2>3
  <2> HIDE DEF a, b
  <2>5. a = b
    BY <2>4, SeqEqual
  <2> QED
    BY <2>5 DEF a, b
<1> QED
  BY <1>7, <1>8 DEF s

\* A multiple choice comes back from its cell with the same options.
LEMMA MultiBack ==
  ASSUME NEW c, ConfigFits("multiSelect", c),
         NEW v, Answered("multiSelect", c, v), v # Null, Clean(v)
  PROVE  Reimport("multiSelect", c, Format(v)) = v
<1>1. /\ v.kind = "array" /\ v.strs \in Seq(Strings) /\ Len(v.strs) > 0
      /\ Sendable(v) /\ ~Missing(v) /\ Fits("multiSelect", c, v)
  BY AnsweredIs DEF Answered, AttributeTypes
<1>2. \A s \in Range(v.strs) : s # Plain(NoText)
  BY <1>1 DEF Fits
<1>3. \A i \in 1..Len(v.strs) : /\ Len(v.strs[i]) = 1 /\ v.strs[i] = Trim(v.strs[i])
                                /\ v.strs[i] # Plain(NoText)
  BY <1>1, <1>2, RangeIs, LenProperties DEF Clean
<1> DEFINE s == Trim(Format(v))
           w == Of("string", s)
<1>4. s # Plain(NoText) /\ Items(w) = v.strs
  BY <1>1, <1>3, ManyBack DEF OnePieced
<1>5. Reimport("multiSelect", c, Format(v)) = Normalize("multiSelect", c, w)
  BY <1>4 DEF Reimport, FileLike
<1>6. w.kind = "string" /\ w.strs[1] = s
  BY OfIs
<1>7. ~Missing(w)
  <2>1. Of("string", Plain(NoText)).strs[1] = Plain(NoText)
    BY OfIs
  <2> HIDE DEF s, w
  <2> QED
    BY <1>4, <1>6, <2>1 DEF Missing
<1> HIDE DEF s, w
<1>8. /\ Normalize("multiSelect", c, w) = AsMulti(c, w)
      /\ Normalize("multiSelect", c, v) = AsMulti(c, v)
  BY <1>1, <1>7 DEF Normalize
<1>9. Items(v) = v.strs
  BY <1>1, <1>3, ArrayItems
<1>10. AsMulti(c, w) = AsMulti(c, v)
  BY <1>4, <1>9 DEF AsMulti
<1>11. AsMulti(c, v) = v
  BY <1>1, MultiSound
<1> QED
  BY <1>5, <1>8, <1>10, <1>11

\* Blocks stand in a sheet by their uuids, which are nobody's names.
LEMMA BlockBack ==
  ASSUME NEW c, NEW v, Answered("block", c, v), v # Null
  PROVE  Reimport("block", c, Format(v)) = Refused
<1>1. v.kind = "array" /\ v.strs \in Seq(Strings) /\ Len(v.strs) > 0 /\ Fits("block", c, v)
  BY AnsweredIs DEF Answered, AttributeTypes
<1>2. Range(v.strs) \subseteq {Plain(b) : b \in Blocks}
  BY <1>1 DEF Fits
<1>3. \A i \in 1..Len(v.strs) : \E b \in Blocks : v.strs[i] = Plain(b)
  BY <1>1, <1>2, RangeIs
<1>4. \A b \in Blocks : /\ b \in Texts /\ b \in Uuids /\ b # NoText
                        /\ Len(Plain(b)) = 1 /\ Trim(Plain(b)) = Plain(b)
                        /\ Plain(b) # Plain(NoText)
  BY AnswersAssumption, PlainIs, TrimPlain, PlainApart
<1>5. \A i \in 1..Len(v.strs) : /\ Len(v.strs[i]) = 1 /\ v.strs[i] = Trim(v.strs[i])
                                /\ v.strs[i] # Plain(NoText)
  BY <1>3, <1>4
<1> DEFINE s == Trim(Format(v))
<1>6. s # Plain(NoText) /\ Items(Of("string", s)) = v.strs
  BY <1>1, <1>5, ManyBack DEF OnePieced
<1> HIDE DEF s
<1>7. 1 \in DOMAIN v.strs /\ 1 \in 1..Len(v.strs)
  BY <1>1, LenProperties
<1>8. PICK b \in Blocks : v.strs[1] = Plain(b)
  BY <1>3, <1>7
<1>9. Named(v.strs[1]) = {}
  BY <1>4, <1>8, AnswersAssumption, PlainApart DEF Named
<1>10. Cardinality(Named(v.strs[1])) # 1
  BY <1>9, FS_EmptySet
<1>11. v.strs[1] # Plain(NoText)
  BY <1>5, <1>7
<1>12. ByName(s) = Refused
  BY <1>6, <1>7, <1>10, <1>11 DEF ByName
<1>13. Refused.kind = "refused"
  BY RefusedIs
<1> QED
  BY <1>6, <1>12, <1>13 DEF Reimport, s

\* Nothing comes back as nothing, a file is refused, and whatever else comes
\* back is an answer or refused.
LEMMA NullBack ==
  ASSUME NEW t, NEW c
  PROVE  Reimport(t, c, Format(Null)) = Null
<1>1. Format(Null) = Plain(NoText)
  BY NullIs DEF Format
<1>2. Trim(Plain(NoText)) = Plain(NoText)
  BY AnswersAssumption, TrimPlain
<1> QED
  BY <1>1, <1>2 DEF Reimport

\* The cell of a file is refused.
LEMMA FileBack ==
  ASSUME NEW t \in FileLike, NEW c, NEW u \in Uuids
  PROVE  Reimport(t, c, Format(Of("string", Plain(u)))) = Refused
<1>1. u \in Texts /\ u # NoText
  BY AnswersAssumption
<1>2. Format(Of("string", Plain(u))) = Plain(u)
  BY OfIs DEF Format
<1>3. Trim(Plain(u)) = Plain(u) /\ Plain(u) # Plain(NoText)
  BY <1>1, TrimPlain, PlainApart
<1> QED
  BY <1>2, <1>3 DEF Reimport, FileLike

\* Every cell is a string.
LEMMA FormatIs ==
  ASSUME NEW t \in AttributeTypes, NEW c, NEW v, Answered(t, c, v)
  PROVE  Format(v) \in Strings
<1>1. CASE v = Null
  <2>1. Format(v) = Plain(NoText)
    BY <1>1, NullIs DEF Format
  <2> QED
    <3>1. NoText \in Texts
      BY AnswersAssumption
    <3> QED
      BY <2>1, <3>1, PlainIs
<1>2. CASE v.kind = "array"
  BY <1>2, AnsweredIs, ArrayFormat
<1>3. CASE v.kind \notin {"null", "array"}
  <2>1. Format(v) = v.strs[1]
    BY <1>3 DEF Format
  <2> QED
    BY <1>3, <2>1, AnsweredIs
<1> QED
  BY <1>1, <1>2, <1>3, AnsweredIs

\* What a cell brings is refused, or an answer to the attribute.
LEMMA BackIs ==
  ASSUME NEW t \in AttributeTypes \ (FileLike \cup {"block"}), NEW c, ConfigFits(t, c),
         NEW s \in Strings, t # "multiSelect" => s # NotString
  PROVE  Reimport(t, c, s) = Refused \/ Answered(t, c, Reimport(t, c, s))
<1> DEFINE w == Of("string", Trim(s))
<1>1. CASE Trim(s) = Plain(NoText)
  <2>1. Reimport(t, c, s) = Null
    BY <1>1 DEF Reimport
  <2>2. Answered(t, c, Null)
    BY NullIs DEF Answered, Fits
  <2> QED
    BY <2>1, <2>2
<1>2. CASE Trim(s) # Plain(NoText)
  <2>1. Reimport(t, c, s) = Normalize(t, c, w)
    BY <1>2 DEF Reimport
  <2>2. w.kind = "string" /\ w.strs = <<Trim(s)>> /\ w.strs[1] = Trim(s) /\ Len(w.strs) = 1
    BY OfIs
  <2>3. CASE s = NotString
    <3>1. t = "multiSelect" /\ Trim(s) = NotString
      BY <2>3, TrimIs
    <3>2. ~Missing(w)
      <4>1. Of("string", Plain(NoText)).strs[1] = Plain(NoText)
        BY OfIs
      <4> HIDE DEF w
      <4> QED
        BY <1>2, <2>2, <4>1 DEF Missing
    <3>3. NotString \in Strings /\ Len(NotString) = 0
      BY EmptySeq DEF NotString, Strings
    <3>4. Items(w) \in Seq(Strings) /\ Len(Items(w)) = 0
      <4> HIDE DEF w
      <4> QED
        BY <2>2, <3>1, <3>3, ItemsOfString
    <3>5. Items(w) = << >>
      BY <3>4, NonEmpty
    <3> HIDE DEF w
    <3>6. AsMulti(c, w) = Refused
      BY <3>5 DEF AsMulti
    <3>7. Normalize(t, c, w) = AsMulti(c, w)
      BY <3>1, <3>2 DEF Normalize
    <3> QED
      BY <2>1, <3>6, <3>7
  <2>4. CASE s # NotString
    <3>1. Trim(s) \in Strings /\ Len(Trim(s)) \in Nat \ {0}
      BY <2>4, TrimIs
    <3>2. Trim(s) # NotString
      BY <3>1 DEF NotString
    <3>3. w \in [kind : Kinds \ {"refused"}, strs : Seq(Seq(Piece))]
      <4>1. <<Trim(s)>> \in Seq(Seq(Piece))
        BY <3>1 DEF Strings
      <4> QED
        BY <4>1 DEF Of, Kinds
    <3> HIDE DEF w
    <3>4. Sendable(w)
      BY <2>2, <3>2, <3>3 DEF Sendable
    <3> QED
      BY <2>1, <3>4, NormalizeSound
  <2> QED
    BY <2>3, <2>4
<1> QED
  BY <1>1, <1>2

-----------------------------------------------------------------------------
(* The attributes of a sheet.                                              *)

\* The rank of a place among those that are asked for.
Rank(S, i) == Cardinality({j \in S : j <= i})

\* A later place has a higher rank.
LEMMA RankUp ==
  ASSUME NEW S \in SUBSET Nat, IsFiniteSet(S), NEW i \in S
  PROVE  /\ Rank(S, i) \in 1..Cardinality(S)
         /\ \A j \in S : j < i => Rank(S, j) < Rank(S, i)
<1> DEFINE Upto(k) == {j \in S : j <= k}
<1>1. \A k \in S : IsFiniteSet(Upto(k)) /\ Cardinality(Upto(k)) \in Nat
                   /\ Cardinality(Upto(k)) <= Cardinality(S) /\ Cardinality(S) \in Nat
  <2> TAKE k \in S
  <2> DEFINE U == Upto(k)
  <2>1. U \in SUBSET S
    OBVIOUS
  <2> HIDE DEF U
  <2>2. IsFiniteSet(U) /\ Cardinality(U) <= Cardinality(S)
    BY <2>1, FS_Subset
  <2>3. Cardinality(U) \in Nat /\ Cardinality(S) \in Nat
    BY <2>2, FS_CardinalityType
  <2> QED
    BY <2>2, <2>3 DEF U
<1>2. Cardinality(Upto(i)) # 0
  <2> DEFINE U == Upto(i)
  <2>1. i \in U /\ IsFiniteSet(U)
    BY <1>1
  <2> HIDE DEF U
  <2>2. Cardinality(U) # 0
    BY <2>1, FS_EmptySet
  <2> QED
    BY <2>2 DEF U
<1>3. ASSUME NEW j \in S, j < i
      PROVE  Cardinality(Upto(j)) < Cardinality(Upto(i))
  <2> DEFINE U == Upto(j)
             V == Upto(i)
  <2>1. U \in SUBSET V /\ i \in V /\ i \notin U
    <3>1. i \in Nat /\ j \in Nat /\ \A x \in S : x \in Nat
      OBVIOUS
    <3>2. ~(i <= j) /\ \A x \in S : x <= j => x <= i
      BY <1>3, <3>1
    <3>3. \A x \in U : x \in V
      BY <3>2
    <3>4. i \in V
      BY <3>1
    <3>5. i \notin U
      BY <3>2
    <3> QED
      BY <3>3, <3>4, <3>5
  <2>2. IsFiniteSet(V) /\ Cardinality(U) \in Nat /\ Cardinality(V) \in Nat
    BY <1>1
  <2> HIDE DEF U, V
  <2>3. Cardinality(U) <= Cardinality(V) /\ Cardinality(U) # Cardinality(V)
    BY <2>1, <2>2, FS_Subset
  <2>4. Cardinality(U) < Cardinality(V)
    BY <2>2, <2>3
  <2> QED
    BY <2>4 DEF U, V
<1> QED
  BY <1>1, <1>2, <1>3 DEF Rank

\* Every rank is one place's.
LEMMA RankOnto ==
  ASSUME NEW S \in SUBSET Nat, IsFiniteSet(S), NEW k \in 1..Cardinality(S)
  PROVE  \E i \in S : Rank(S, i) = k
<1> DEFINE N == 1..Cardinality(S)
           f == [i \in S |-> Rank(S, i)]
<1>1. Cardinality(S) \in Nat
  BY FS_CardinalityType
<1>2. IsFiniteSet(N) /\ Cardinality(N) = Cardinality(S)
  <2>1. Cardinality(S) \in Int /\ 1 \in Int
    BY <1>1
  <2>2. IsFiniteSet(N) /\ Cardinality(N) = IF 1 > Cardinality(S) THEN 0 ELSE Cardinality(S) - 1 + 1
    BY <2>1, FS_Interval
  <2> QED
    BY <1>1, <2>2
<1>3. f \in [S -> N]
  <2>1. \A i \in S : Rank(S, i) \in N
    BY RankUp
  <2> QED
    BY <2>1
<1>4. ASSUME NEW i \in S, NEW j \in S, f[i] = f[j]
      PROVE  i = j
  <2>1. Rank(S, i) = Rank(S, j) /\ Rank(S, i) \in Nat
    BY <1>1, <1>4, RankUp
  <2>2. ~(i < j) /\ ~(j < i)
    <3>1. i < j => Rank(S, i) < Rank(S, j)
      BY RankUp
    <3>2. j < i => Rank(S, j) < Rank(S, i)
      BY RankUp
    <3> QED
      BY <2>1, <3>1, <3>2
  <2> QED
    BY <2>2
<1>5. f \in Injection(S, N)
  BY <1>3, <1>4 DEF Injection, IsInjective
<1> HIDE DEF f, N
<1>6. f \in Surjection(S, N)
  BY <1>2, <1>5, FS_Injection
<1>7. PICK i \in S : f[i] = k
  BY <1>6 DEF Surjection, N
<1> QED
  BY <1>7 DEF f

\* The exported list holds every attribute asked for, in the event's order.
LEMMA ExportedIs ==
  ASSUME NEW list \in Attributes, NEW S \in SUBSET DOMAIN list
  PROVE  \E place \in [1..Cardinality(S) -> S] :
           /\ Cardinality(S) \in Nat
           /\ DOMAIN Exported(list, S) = 1..Cardinality(S)
           /\ Len(Exported(list, S)) = Cardinality(S)
           /\ \A k \in 1..Cardinality(S) : Exported(list, S)[k] = list[place[k]]
           /\ \A i \in S : \E k \in 1..Cardinality(S) : place[k] = i
           /\ \A k, m \in 1..Cardinality(S) : k < m => place[k] < place[m]
<1> DEFINE N == 1..Cardinality(S)
           place == [k \in N |-> CHOOSE i \in S : Rank(S, i) = k]
<1>1. S \in SUBSET Nat /\ IsFiniteSet(S) /\ Cardinality(S) \in Nat
  <2>1. list \in Seq([uuid : Uuids, name : Texts, padded : BOOLEAN])
    BY InputAssumption
  <2>2. DOMAIN list = 1..Len(list) /\ Len(list) \in Nat
    BY <2>1, LenProperties
  <2>3. IsFiniteSet(DOMAIN list)
    BY <2>2, FS_Interval
  <2>4. IsFiniteSet(S)
    BY <2>3, FS_Subset
  <2> QED
    BY <2>2, <2>4, FS_CardinalityType
<1>2. \A k \in N : place[k] \in S /\ Rank(S, place[k]) = k
  BY <1>1, RankOnto
<1>3. Exported(list, S) = [k \in N |-> list[place[k]]]
  BY DEF Exported, Rank
<1>4. place \in [N -> S]
  BY <1>2
<1> HIDE DEF place
<1>5. ASSUME NEW i \in S
      PROVE  \E k \in N : place[k] = i
  <2>1. Rank(S, i) \in N
    BY <1>1, RankUp
  <2> DEFINE j == place[Rank(S, i)]
  <2>2. j \in S /\ Rank(S, j) = Rank(S, i)
    BY <1>2, <2>1
  <2>3. Rank(S, i) \in Nat
    BY <1>1, <2>1
  <2> HIDE DEF j
  <2>4. (i < j => Rank(S, i) < Rank(S, j)) /\ (j < i => Rank(S, j) < Rank(S, i))
    BY <1>1, <2>2, RankUp
  <2>5. i = j
    BY <1>1, <2>2, <2>3, <2>4
  <2> QED
    BY <2>1, <2>5 DEF j
<1>6. ASSUME NEW k \in N, NEW m \in N, k < m
      PROVE  place[k] < place[m]
  <2> DEFINE i == place[k]
             j == place[m]
  <2>1. i \in S /\ j \in S /\ Rank(S, i) = k /\ Rank(S, j) = m
    BY <1>2
  <2> HIDE DEF i, j
  <2>2. j < i => Rank(S, j) < Rank(S, i)
    BY <1>1, <2>1, RankUp
  <2>3. i \in Nat /\ j \in Nat /\ k \in Nat /\ m \in Nat
    BY <1>1, <2>1
  <2>4. i < j
    BY <1>6, <2>1, <2>2, <2>3
  <2> QED
    BY <2>4 DEF i, j
<1>7. Exported(list, S) \in [N -> {list[i] : i \in S}]
  BY <1>3, <1>4
<1>8. DOMAIN Exported(list, S) = N /\ Len(Exported(list, S)) = Cardinality(S)
  BY <1>1, <1>3, <1>7, ListOf
<1> QED
  BY <1>1, <1>3, <1>4, <1>5, <1>6, <1>8

-----------------------------------------------------------------------------
(* The columns of a sheet.                                                 *)

Header(x, p, u) == [base |-> [text |-> x, padded |-> p], uuid |-> u]

Bare(x, u) == Header(x, FALSE, u)

\* Trimming a header takes its blank and leaves its text and its uuid.
LEMMA HeaderTrimmed ==
  ASSUME NEW x, NEW p, NEW u
  PROVE  /\ [Header(x, p, u) EXCEPT !.base = [text |-> x, padded |-> FALSE]] = Bare(x, u)
         /\ Header(x, p, u).base.text = x
         /\ Header(x, p, u).uuid = u
<1>1. Header(x, p, u).base.text = x
  BY DEF Header
<1>2. Header(x, p, u).uuid = u
  BY DEF Header
<1>3. [Header(x, p, u) EXCEPT !.base = [text |-> x, padded |-> FALSE]] = Bare(x, u)
  <2> DEFINE b == [text |-> x, padded |-> FALSE]
  <2> HIDE DEF b
  <2>1. [Header(x, p, u) EXCEPT !.base = b] = [base |-> b, uuid |-> u]
    BY DEF Header
  <2> QED
    BY <2>1 DEF Bare, Header, b
<1> QED
  BY <1>1, <1>2, <1>3

\* Headers apart are of other texts, blanks or uuids.
LEMMA HeaderApart ==
  ASSUME NEW x, NEW p, NEW u, NEW y, NEW q, NEW w, Header(x, p, u) = Header(y, q, w)
  PROVE  x = y /\ p = q /\ u = w
<1>1. Header(x, p, u).base = Header(y, q, w).base /\ Header(x, p, u).uuid = Header(y, q, w).uuid
  OBVIOUS
<1>2. [text |-> x, padded |-> p] = [text |-> y, padded |-> q] /\ u = w
  BY <1>1 DEF Header
<1>3. /\ [text |-> x, padded |-> p].text = [text |-> y, padded |-> q].text
      /\ [text |-> x, padded |-> p].padded = [text |-> y, padded |-> q].padded
  BY <1>2
<1> QED
  BY <1>2, <1>3

\* Where the columns of a header may lead: the attributes of the event whose
\* own header it is, but for blanks.
Leads(list, x, u) == {i \in DOMAIN list : Headers(list)[i] = Bare(x, u)}
Held(x, u) == x \in Reserved /\ u = None
Leading(list, x, u) ==
  IF Held(x, u) THEN x
  ELSE IF Leads(list, x, u) = {} THEN "refused"
  ELSE list[CHOOSE i \in Leads(list, x, u) : \A j \in Leads(list, x, u) : j <= i].uuid

\* Where a column goes does not depend on the blank before its header.
LEMMA ColumnIs ==
  ASSUME NEW list, NEW x, NEW p, NEW u
  PROVE  ColumnOf(Header(x, p, u), list) = Leading(list, x, u)
<1> DEFINE h == Header(x, p, u)
<1>1. h.base.text = x /\ h.uuid = u
  BY HeaderTrimmed
<1>2. [h EXCEPT !.base = [text |-> x, padded |-> FALSE]] = Bare(x, u)
  BY HeaderTrimmed
<1> HIDE DEF h
<1>3. [h EXCEPT !.base = [text |-> h.base.text, padded |-> FALSE]] = Bare(x, u)
  BY <1>1, <1>2
<1>4. Leads(list, x, u) = {i \in DOMAIN list : Headers(list)[i] =
                               [h EXCEPT !.base = [text |-> h.base.text, padded |-> FALSE]]}
  BY <1>3 DEF Leads
<1>5. ColumnOf(h, list) = IF h.base.text \in Reserved /\ h.uuid = None THEN h.base.text
                          ELSE IF Leads(list, x, u) = {} THEN "refused"
                          ELSE list[CHOOSE i \in Leads(list, x, u) :
                                      \A j \in Leads(list, x, u) : j <= i].uuid
  BY <1>4 DEF ColumnOf
<1>6. ColumnOf(h, list) = Leading(list, x, u)
  BY <1>1, <1>5 DEF Leading, Held
<1> QED
  BY <1>6 DEF h

\* It goes to a reserved name, nowhere, or to an attribute with that header.
LEMMA LeadingIs ==
  ASSUME NEW list \in Attributes, NEW x, NEW u
  PROVE  /\ Held(x, u) => Leading(list, x, u) \in Reserved
         /\ ~Held(x, u) => \/ Leading(list, x, u) = "refused"
                           \/ \E i \in Leads(list, x, u) : Leading(list, x, u) = list[i].uuid
<1> DEFINE L == Leads(list, x, u)
<1>1. L # {} => \E i \in L : \A j \in L : j <= i
  <2>1. list \in Seq([uuid : Uuids, name : Texts, padded : BOOLEAN])
    BY InputAssumption
  <2>2. DOMAIN list = 1..Len(list) /\ Len(list) \in Nat
    BY <2>1, LenProperties
  <2>3. L \in SUBSET (1..Len(list))
    BY <2>2 DEF Leads
  <2> HIDE DEF L
  <2> QED
    BY <2>2, <2>3, Greatest
<1>2. Leading(list, x, u) = IF Held(x, u) THEN x ELSE IF L = {} THEN "refused"
                            ELSE list[CHOOSE i \in L : \A j \in L : j <= i].uuid
  BY DEF Leading
<1> HIDE DEF L
<1>3. L # {} => (CHOOSE i \in L : \A j \in L : j <= i) \in L
  BY <1>1
<1>4. ~Held(x, u) => \/ Leading(list, x, u) = "refused"
                    \/ \E i \in L : Leading(list, x, u) = list[i].uuid
  BY <1>2, <1>3
<1>5. Held(x, u) => Leading(list, x, u) \in Reserved
  BY <1>2 DEF Held
<1> QED
  BY <1>4, <1>5 DEF L

\* The header of an attribute of a list.
LEMMA HeaderIs ==
  ASSUME NEW list, NEW i \in DOMAIN list
  PROVE  /\ DOMAIN Headers(list) = DOMAIN list
         /\ Headers(list)[i] =
              Header(Base(list[i]).text, Base(list[i]).padded,
                     IF \E j \in 1..(i - 1) : Base(list[j]) = Base(list[i])
                     THEN list[i].uuid ELSE None)
         /\ Base(list[i]) = [text |-> Base(list[i]).text, padded |-> Base(list[i]).padded]
<1>1. Base(list[i]) = [text |-> Base(list[i]).text, padded |-> Base(list[i]).padded]
  BY DEF Base
<1>2. Headers(list)[i] = [base |-> Base(list[i]),
                          uuid |-> IF \E j \in 1..(i - 1) : Base(list[j]) = Base(list[i])
                                   THEN list[i].uuid ELSE None]
  BY DEF Headers
<1>3. DOMAIN Headers(list) = DOMAIN list
  BY DEF Headers
<1> QED
  BY <1>1, <1>2, <1>3 DEF Header

\* ColumnsKept, of any list and any choice of its attributes.
LEMMA ColumnsBack ==
  ASSUME NEW attrs \in Attributes, NEW S \in SUBSET DOMAIN attrs,
         NEW cols, cols = ColumnsOf(Headers(Exported(attrs, S)), attrs),
         NEW k \in DOMAIN cols
  PROVE  \/ cols[k] = Exported(attrs, S)[k].uuid
         \/ cols[k] \in Reserved
         \/ \E i \in DOMAIN attrs \ S : Base(attrs[i]).text = Base(Exported(attrs, S)[k]).text
<1> DEFINE list == Exported(attrs, S)
           hs == Headers(list)
           found == [i \in DOMAIN hs |-> ColumnOf(hs[i], attrs)]
           N == 1..Cardinality(S)
<1>1. PICK place \in [N -> S] :
           /\ Cardinality(S) \in Nat
           /\ DOMAIN list = N /\ Len(list) = Cardinality(S)
           /\ \A m \in N : list[m] = attrs[place[m]]
           /\ \A i \in S : \E m \in N : place[m] = i
           /\ \A l, m \in N : l < m => place[l] < place[m]
  BY ExportedIs
<1>2. DOMAIN hs = N /\ DOMAIN found = N
  BY <1>1 DEF Headers
<1>3. /\ cols = found
      /\ \A i \in DOMAIN found : found[i] \notin {"refused", "email"}
      /\ \A i, j \in DOMAIN found : found[i] = found[j] => i = j
  <2>1. cols = IF \/ \E i \in DOMAIN found : found[i] \in {"refused", "email"}
                  \/ \E i, j \in DOMAIN found : i # j /\ found[i] = found[j]
               THEN << >> ELSE found
    BY DEF ColumnsOf
  <2> HIDE DEF found
  <2>2. cols # << >>
    OBVIOUS
  <2> QED
    BY <2>1, <2>2
<1>4. k \in N /\ \A m \in N : cols[m] = ColumnOf(hs[m], attrs)
  BY <1>2, <1>3
<1> HIDE DEF found, hs, list, N
<1> SUFFICES ASSUME cols[k] \notin Reserved,
                    \A i \in DOMAIN attrs \ S : Base(attrs[i]).text # Base(list[k]).text
             PROVE  cols[k] = list[k].uuid
  BY DEF list
<1> DEFINE x == Base(list[k]).text
           p == Base(list[k]).padded
           u == IF \E j \in 1..(k - 1) : Base(list[j]) = Base(list[k]) THEN list[k].uuid ELSE None
<1>5. hs[k] = Header(x, p, u)
  <2>1. k \in DOMAIN list
    BY <1>1, <1>4
  <2> QED
    BY <2>1, HeaderIs DEF hs
<1> HIDE DEF x, p, u
<1>6. cols[k] = Leading(attrs, x, u)
  BY <1>4, <1>5, ColumnIs
<1>7. PICK i \in Leads(attrs, x, u) : cols[k] = attrs[i].uuid
  <2>1. cols[k] # "refused"
    BY <1>2, <1>3, <1>4
  <2>2. ~Held(x, u)
    BY <1>6, LeadingIs
  <2> QED
    BY <1>6, <2>1, <2>2, LeadingIs
<1>8. /\ i \in DOMAIN attrs
      /\ Base(attrs[i]).text = x /\ ~Base(attrs[i]).padded
      /\ u = IF \E j \in 1..(i - 1) : Base(attrs[j]) = Base(attrs[i]) THEN attrs[i].uuid ELSE None
  <2> DEFINE v == IF \E j \in 1..(i - 1) : Base(attrs[j]) = Base(attrs[i])
                  THEN attrs[i].uuid ELSE None
  <2>1. i \in DOMAIN attrs /\ Headers(attrs)[i] = Header(x, FALSE, u)
    BY DEF Leads, Bare
  <2>2. Headers(attrs)[i] = Header(Base(attrs[i]).text, Base(attrs[i]).padded, v)
    BY <2>1, HeaderIs
  <2> HIDE DEF v
  <2>3. Base(attrs[i]).text = x /\ Base(attrs[i]).padded = FALSE /\ v = u
    <3> DEFINE y == Base(attrs[i]).text
               q == Base(attrs[i]).padded
               no == FALSE
    <3>1. Header(y, q, v) = Header(x, no, u)
      BY <2>1, <2>2
    <3> HIDE DEF y, q, no
    <3>2. y = x /\ q = no /\ v = u
      BY <3>1, HeaderApart
    <3> QED
      BY <3>2 DEF y, q, no
  <2> QED
    BY <2>1, <2>3 DEF v
<1>9. CASE u # None
  <2>1. u = attrs[i].uuid
    BY <1>8, <1>9
  <2>2. u = list[k].uuid
    BY <1>9 DEF u
  <2> QED
    BY <1>7, <2>1, <2>2
<1>10. CASE u = None
  <2>1. i \in S
    BY <1>8 DEF x
  <2>2. PICK m \in N : place[m] = i
    BY <1>1, <2>1
  <2>3. list[m] = attrs[i]
    BY <1>1, <2>2
  <2>4. ~\E j \in 1..(i - 1) : Base(attrs[j]) = Base(attrs[i])
    <3>1. attrs \in Seq([uuid : Uuids, name : Texts, padded : BOOLEAN])
      BY InputAssumption
    <3>2. attrs[i].uuid \in Texts
      <4>1. attrs[i] \in [uuid : Uuids, name : Texts, padded : BOOLEAN]
        <5> DEFINE T == [uuid : Uuids, name : Texts, padded : BOOLEAN]
        <5>1. attrs \in Seq(T) /\ i \in DOMAIN attrs
          BY <1>8, <3>1
        <5> HIDE DEF T
        <5>2. i \in 1..Len(attrs)
          BY <5>1, LenProperties
        <5>3. attrs[i] \in T
          BY <5>1, <5>2, ElementOfSeq
        <5> QED
          BY <5>3 DEF T
      <4>2. attrs[i].uuid \in Uuids
        BY <4>1
      <4> QED
        BY <4>2, AnswersAssumption
    <3> QED
      BY <1>8, <1>10, <3>2, AnswersAssumption
  <2>5. ~\E j \in 1..(m - 1) : Base(list[j]) = Base(list[m])
    <3> SUFFICES ASSUME NEW j \in 1..(m - 1), Base(list[j]) = Base(list[m])
                 PROVE  FALSE
      OBVIOUS
    <3>1. j \in N /\ j < m
      BY <1>1 DEF N
    <3>2. place[j] < i /\ list[j] = attrs[place[j]] /\ place[j] \in S
      BY <1>1, <2>2, <3>1
    <3>3. i \in Nat /\ place[j] \in Nat \ {0}
      <4>1. attrs \in Seq([uuid : Uuids, name : Texts, padded : BOOLEAN])
        BY InputAssumption
      <4>2. DOMAIN attrs = 1..Len(attrs) /\ Len(attrs) \in Nat
        BY <4>1, LenProperties
      <4> QED
        BY <1>8, <3>2, <4>2
    <3>4. place[j] \in 1..(i - 1)
      BY <3>2, <3>3
    <3> QED
      BY <2>3, <2>4, <3>2, <3>4
  <2>6. hs[m] = Header(x, FALSE, None)
    <3>1. m \in DOMAIN list /\ Base(list[m]).text = x /\ Base(list[m]).padded = FALSE
      <4>1. Base(attrs[i]).padded \in BOOLEAN
        <5>1. attrs \in Seq([uuid : Uuids, name : Texts, padded : BOOLEAN])
          BY InputAssumption
        <5>2. attrs[i] \in [uuid : Uuids, name : Texts, padded : BOOLEAN]
          <6> DEFINE T == [uuid : Uuids, name : Texts, padded : BOOLEAN]
          <6>1. attrs \in Seq(T) /\ i \in DOMAIN attrs
            BY <1>8, <5>1
          <6> HIDE DEF T
          <6>2. i \in 1..Len(attrs)
            BY <6>1, LenProperties
          <6>3. attrs[i] \in T
            BY <6>1, <6>2, ElementOfSeq
          <6> QED
            BY <6>3 DEF T
        <5>3. attrs[i].padded \in BOOLEAN
          BY <5>2
        <5> QED
          BY <5>3 DEF Base
      <4> QED
        BY <1>1, <1>8, <2>3, <4>1
    <3> QED
      BY <2>5, <3>1, HeaderIs DEF hs
  <2>7. cols[m] = cols[k]
    <3>1. cols[m] = Leading(attrs, x, u)
      BY <1>4, <1>10, <2>6, ColumnIs
    <3> QED
      BY <1>6, <3>1
  <2>8. m = k
    BY <1>2, <1>3, <1>4, <2>7
  <2> QED
    BY <1>7, <2>3, <2>8
<1> QED
  BY <1>9, <1>10

-----------------------------------------------------------------------------
(* The invariant.                                                          *)

\* The inductive invariant: what each variable holds at each step of an
\* attribute's way, or of a sheet's.
Configured == step \in {"configured", "answered", "exported", "imported"}
HasAnswer == step \in {"answered", "exported", "imported"}
AnswerInv ==
  /\ config \in Config
  /\ Configured => type \in AttributeTypes /\ ConfigFits(type, config)
  /\ HasAnswer => /\ Answered(type, config, stored)
                  /\ type \in FileLike =>
                       stored = Null \/ \E u \in Uuids : stored = Of("string", Plain(u))
  /\ ~HasAnswer => stored = Null
  /\ cell = IF step \in {"exported", "imported"} THEN Format(stored) ELSE Plain(NoText)
  /\ back = IF step = "imported" THEN Reimport(type, config, cell) ELSE Null
SheetInv ==
  /\ step \in {"sheet", "columns"} =>
       /\ attributes \in Attributes /\ asked \in SUBSET DOMAIN attributes
       /\ sheet = Headers(Exported(attributes, asked))
  /\ step \notin {"sheet", "columns"} => attributes = << >> /\ asked = {} /\ sheet = << >>
  /\ columns = IF step = "columns" THEN ColumnsOf(sheet, attributes) ELSE << >>
AnswersInv == AnswerInv /\ SheetInv

\* The invariant holds at first ...
LEMMA InitAnswers == Init => AnswersInv
<1> SUFFICES ASSUME Init PROVE AnswersInv
  OBVIOUS
<1>1. NoConfig \in Config
  BY DEF NoConfig, Config, Options
<1> QED
  BY <1>1 DEF Init, AnswersInv, AnswerInv, SheetInv, Configured, HasAnswer

\* ... and each action keeps it: an attribute is configured,
LEMMA ConfigureAnswers ==
  ASSUME AnswersInv, NEW t \in AttributeTypes, NEW r \in Raws, Configure(t, r)
  PROVE  AnswersInv'
<1>1. /\ step = "new" /\ type' = t /\ step' \in {"configured", "refused"}
      /\ step' = "configured" => ValidBody(t, r) /\ AcceptsConfig(t, r)
      /\ config' = IF step' = "configured" THEN NormalConfig(t, r) ELSE NoConfig
      /\ UNCHANGED <<stored, cell, back, attributes, asked, sheet, columns>>
  BY DEF Configure, headers
<1>2. NoConfig \in Config
  BY DEF NoConfig, Config, Options
<1>3. step' = "configured" => ConfigFits(t, config')
  BY <1>1, ConfigMade
<1>4. config' \in Config
  BY <1>1, <1>2, <1>3 DEF ConfigFits
<1>5. AnswerInv'
  BY <1>1, <1>3, <1>4 DEF AnswersInv, AnswerInv, Configured, HasAnswer
<1>6. SheetInv'
  BY <1>1 DEF AnswersInv, SheetInv
<1> QED
  BY <1>5, <1>6 DEF AnswersInv

\* an answer is normalized,
LEMMA AnswerAnswers ==
  ASSUME AnswersInv, NEW v \in Values, Answer(v)
  PROVE  AnswersInv'
<1> DEFINE n == Normalize(type, config, v)
<1>1. /\ step = "configured" /\ step' \in {"answered", "refused"}
      /\ step' = "answered" => n.kind # "refused" /\ stored' = n
      /\ step' = "refused" => stored' = Null
      /\ type \in FileLike => Missing(v) \/ (v.kind = "string" /\ OneOf(v.strs[1], Uuids))
      /\ UNCHANGED <<type, config, cell, back, attributes, asked, sheet, columns>>
  BY DEF Answer, headers
<1>2. type \in AttributeTypes /\ ConfigFits(type, config) /\ config \in Config /\ Sendable(v)
  BY <1>1, InputAssumption DEF AnswersInv, AnswerInv, Configured
<1>3. n = Refused \/ Answered(type, config, n)
  BY <1>2, NormalizeSound
<1>4. step' = "answered" => Answered(type, config, n)
  BY <1>1, <1>3, RefusedIs
<1>5. ASSUME step' = "answered", type \in FileLike
      PROVE  n = Null \/ \E u \in Uuids : n = Of("string", Plain(u))
  <2>1. CASE Missing(v)
    BY <1>2, <2>1, NormalizeSound
  <2>2. CASE ~Missing(v)
    <3>1. PICK u \in Uuids : v.strs[1] = Plain(u)
      BY <1>1, <1>5, <2>2 DEF OneOf
    <3>2. v.kind = "string"
      BY <1>1, <1>5, <2>2
    <3>3. v = Of("string", Plain(u))
      BY <1>2, <3>1, <3>2, OfOne
    <3>4. n = AsString(type, v)
      BY <1>5, <2>2 DEF Normalize, FileLike
    <3>5. n \in {v, Refused}
      BY <3>4 DEF AsString
    <3>6. n.kind # "refused"
      BY <1>1, <1>5
    <3> QED
      BY <3>3, <3>5, <3>6, RefusedIs
  <2> QED
    BY <2>1, <2>2
<1> HIDE DEF n
<1>6. AnswerInv'
  BY <1>1, <1>2, <1>4, <1>5 DEF AnswersInv, AnswerInv, Configured, HasAnswer
<1>7. SheetInv'
  BY <1>1 DEF AnswersInv, SheetInv
<1> QED
  BY <1>6, <1>7 DEF AnswersInv

\* exported,
LEMMA ExportAnswers ==
  ASSUME AnswersInv, Export
  PROVE  AnswersInv'
<1>1. /\ step = "answered" /\ step' = "exported" /\ cell' = Format(stored)
      /\ UNCHANGED <<type, config, stored, back, attributes, asked, sheet, columns>>
  BY DEF Export, headers
<1>2. AnswerInv'
  BY <1>1 DEF AnswersInv, AnswerInv, Configured, HasAnswer
<1>3. SheetInv'
  BY <1>1 DEF AnswersInv, SheetInv
<1> QED
  BY <1>2, <1>3 DEF AnswersInv

\* and imported;
LEMMA ImportAnswers ==
  ASSUME AnswersInv, Import
  PROVE  AnswersInv'
<1>1. /\ step = "exported" /\ step' = "imported" /\ back' = Reimport(type, config, cell)
      /\ UNCHANGED <<type, config, stored, cell, attributes, asked, sheet, columns>>
  BY DEF Import, headers
<1>2. AnswerInv'
  BY <1>1 DEF AnswersInv, AnswerInv, Configured, HasAnswer
<1>3. SheetInv'
  BY <1>1 DEF AnswersInv, SheetInv
<1> QED
  BY <1>2, <1>3 DEF AnswersInv

\* a list of attributes is exported,
LEMMA ExportSheetAnswers ==
  ASSUME AnswersInv, NEW list \in Attributes, NEW S \in SUBSET DOMAIN list, ExportSheet(list, S)
  PROVE  AnswersInv'
<1>1. /\ step = "new" /\ step' = "sheet" /\ attributes' = list /\ asked' = S
      /\ sheet' = Headers(Exported(list, S))
      /\ UNCHANGED <<type, config, stored, cell, back, columns>>
  BY DEF ExportSheet
<1>2. AnswerInv'
  BY <1>1 DEF AnswersInv, AnswerInv, Configured, HasAnswer
<1>3. SheetInv'
  BY <1>1 DEF AnswersInv, SheetInv
<1> QED
  BY <1>2, <1>3 DEF AnswersInv

\* and its columns imported.
LEMMA ImportSheetAnswers ==
  ASSUME AnswersInv, ImportSheet
  PROVE  AnswersInv'
<1>1. /\ step = "sheet" /\ step' = "columns" /\ columns' = ColumnsOf(sheet, attributes)
      /\ UNCHANGED <<type, config, stored, cell, back, attributes, asked, sheet>>
  BY DEF ImportSheet
<1>2. AnswerInv'
  BY <1>1 DEF AnswersInv, AnswerInv, Configured, HasAnswer
<1>3. SheetInv'
  BY <1>1 DEF AnswersInv, SheetInv
<1> QED
  BY <1>2, <1>3 DEF AnswersInv

\* So does every step.
LEMMA NextAnswers == AnswersInv /\ [Next]_vars => AnswersInv'
<1> SUFFICES ASSUME AnswersInv, [Next]_vars PROVE AnswersInv'
  OBVIOUS
<1>1. ASSUME NEW t \in AttributeTypes, NEW r \in Raws, Configure(t, r) PROVE AnswersInv'
  BY <1>1, ConfigureAnswers
<1>2. ASSUME NEW v \in Values, Answer(v) PROVE AnswersInv'
  BY <1>2, AnswerAnswers
<1>3. CASE Export
  BY <1>3, ExportAnswers
<1>4. CASE Import
  BY <1>4, ImportAnswers
<1>5. ASSUME NEW list \in Attributes, NEW S \in SUBSET DOMAIN list, ExportSheet(list, S)
      PROVE  AnswersInv'
  BY <1>5, ExportSheetAnswers
<1>6. CASE ImportSheet
  BY <1>6, ImportSheetAnswers
<1>7. CASE UNCHANGED vars
  BY <1>7 DEF vars, AnswersInv, AnswerInv, SheetInv, Configured, HasAnswer
<1> QED
  BY <1>1, <1>2, <1>3, <1>4, <1>5, <1>6, <1>7 DEF Next

\* Every reachable state has the invariant.
THEOREM AnswersKept == Spec => []AnswersInv
<1>1. Init => AnswersInv
  BY InitAnswers
<1>2. AnswersInv /\ [Next]_vars => AnswersInv'
  BY NextAnswers
<1> QED
  BY <1>1, <1>2, PTL DEF Spec

\* A sendable value is of the types of values, as is a refusal.
LEMMA SendableTyped ==
  ASSUME NEW v, Sendable(v) \/ v = Refused
  PROVE  ValueType(v)
<1>1. CASE Sendable(v)
  <2>1. v.kind \in Kinds /\ v.strs \in Seq(Seq(Piece))
    BY <1>1 DEF Sendable
  <2>2. ASSUME NEW i \in DOMAIN v.strs, NEW j \in DOMAIN v.strs[i]
        PROVE  v.strs[i][j] \in Piece
    <3> DEFINE s == v.strs
               x == s[i]
    <3>1. s \in Seq(Seq(Piece)) /\ i \in 1..Len(s)
      BY <2>1, LenProperties
    <3> HIDE DEF s
    <3>2. x \in Seq(Piece)
      BY <3>1, ElementOfSeq
    <3>3. j \in DOMAIN x
      BY DEF s
    <3> HIDE DEF x
    <3>4. j \in 1..Len(x)
      BY <3>2, <3>3, LenProperties
    <3>5. x[j] \in Piece
      BY <3>2, <3>4, ElementOfSeq
    <3> QED
      BY <3>5 DEF s, x
  <2> QED
    BY <2>1, <2>2 DEF ValueType
<1>2. CASE v = Refused
  <2>1. v.kind = "refused" /\ DOMAIN v.strs = {}
    BY <1>2, RefusedIs
  <2> QED
    BY <2>1 DEF ValueType, Kinds
<1> QED
  BY <1>1, <1>2

\* The invariant gives the types ...
LEMMA TypeFromInv == AnswersInv => TypeOK
<1> SUFFICES ASSUME AnswersInv PROVE TypeOK
  OBVIOUS
<1>1. AnswerInv /\ SheetInv
  BY DEF AnswersInv
<1>2. HasAnswer => Configured
  BY DEF HasAnswer, Configured
<1>3. Sendable(stored) /\ stored.kind \in {"null", "string", "array", "number", "boolean"}
  <2>1. CASE HasAnswer
    <3>1. type \in AttributeTypes /\ Answered(type, config, stored)
      BY <1>1, <1>2, <2>1 DEF AnswerInv
    <3> QED
      BY <3>1, AnsweredIs DEF Answered
  <2>2. CASE ~HasAnswer
    BY <1>1, <2>2, NullIs DEF AnswerInv
  <2> QED
    BY <2>1, <2>2
<1>4. cell \in Strings
  <2>1. CASE step \in {"exported", "imported"}
    <3>1. HasAnswer
      BY <2>1 DEF HasAnswer
    <3>2. type \in AttributeTypes /\ Answered(type, config, stored) /\ cell = Format(stored)
      BY <1>1, <1>2, <2>1, <3>1 DEF AnswerInv
    <3> QED
      BY <3>2, FormatIs
  <2>2. CASE step \notin {"exported", "imported"}
    <3>1. cell = Plain(NoText) /\ NoText \in Texts
      BY <1>1, <2>2, AnswersAssumption DEF AnswerInv
    <3> QED
      BY <3>1, PlainIs
  <2> QED
    BY <2>1, <2>2
<1>5. Sendable(back) \/ back = Refused
  <2>1. CASE step = "imported"
    <3>1. HasAnswer /\ Configured
      BY <2>1 DEF HasAnswer, Configured
    <3>2. /\ type \in AttributeTypes /\ ConfigFits(type, config) /\ Answered(type, config, stored)
          /\ cell = Format(stored) /\ back = Reimport(type, config, cell)
          /\ type \in FileLike => stored = Null \/ \E u \in Uuids : stored = Of("string", Plain(u))
      BY <1>1, <2>1, <3>1 DEF AnswerInv
    <3>3. CASE stored = Null
      BY <3>2, <3>3, NullBack, NullIs
    <3>4. CASE stored # Null /\ type \in FileLike
      BY <3>2, <3>4, FileBack
    <3>5. CASE stored # Null /\ type = "block"
      BY <3>2, <3>5, BlockBack
    <3>6. CASE stored # Null /\ type \notin FileLike \cup {"block"}
      <4>1. cell \in Strings
        BY <1>4
      <4>2. type # "multiSelect" => cell # NotString
        <5>1. type # "multiSelect" => stored.kind \notin {"array", "null"}
          BY <3>2, <3>6, AnsweredIs
        <5>2. type # "multiSelect" => cell = stored.strs[1]
          BY <3>2, <5>1 DEF Format
        <5> QED
          BY <3>2, <5>1, <5>2, AnsweredIs
      <4>3. back = Refused \/ Answered(type, config, back)
        BY <3>2, <3>6, <4>1, <4>2, BackIs
      <4> QED
        BY <4>3 DEF Answered
    <3> QED
      BY <3>3, <3>4, <3>5, <3>6
  <2>2. CASE step # "imported"
    BY <1>1, <2>2, NullIs DEF AnswerInv
  <2> QED
    BY <2>1, <2>2
<1>6. \A i \in DOMAIN cell : cell[i] \in Piece
  BY <1>4, LenProperties, ElementOfSeq DEF Strings
<1>7. asked \subseteq DOMAIN attributes /\ Len(sheet) = Cardinality(asked)
  <2>1. CASE step \in {"sheet", "columns"}
    <3>1. /\ attributes \in Attributes /\ asked \in SUBSET DOMAIN attributes
          /\ sheet = Headers(Exported(attributes, asked))
      BY <1>1, <2>1 DEF SheetInv
    <3> DEFINE list == Exported(attributes, asked)
    <3>2. DOMAIN list = 1..Cardinality(asked) /\ Cardinality(asked) \in Nat
      BY <3>1, ExportedIs
    <3> HIDE DEF list
    <3>3. sheet = Headers(list)
      BY <3>1 DEF list
    <3>4. DOMAIN sheet = 1..Cardinality(asked)
      BY <3>2, <3>3 DEF Headers
    <3>5. sheet = [i \in 1..Cardinality(asked) |-> sheet[i]]
      BY <3>2, <3>3, <3>4 DEF Headers
    <3> DEFINE T == {sheet[i] : i \in 1..Cardinality(asked)}
    <3>6. sheet \in [1..Cardinality(asked) -> T]
      BY <3>5
    <3> HIDE DEF T
    <3>7. Len(sheet) = Cardinality(asked)
      BY <3>2, <3>6, ListOf
    <3> QED
      BY <3>1, <3>7
  <2>2. CASE step \notin {"sheet", "columns"}
    <3>1. attributes = << >> /\ asked = {} /\ sheet = << >>
      BY <1>1, <2>2 DEF SheetInv
    <3> QED
      BY <3>1, FS_EmptySet
  <2> QED
    BY <2>1, <2>2
<1> QED
  BY <1>1, <1>3, <1>5, <1>6, <1>7, SendableTyped DEF TypeOK, AnswerInv

-----------------------------------------------------------------------------
(* What it says.                                                           *)

\* ... that stored values are sound ...
LEMMA SoundFromInv == AnswersInv => ValuesSound
<1> SUFFICES ASSUME AnswersInv PROVE ValuesSound
  OBVIOUS
<1>1. AnswerInv
  BY DEF AnswersInv
<1>2. Configured => type \in AttributeTypes /\ ConfigFits(type, config)
  BY <1>1 DEF AnswerInv
<1>3. step = "answered" => Answered(type, config, stored)
  BY <1>1 DEF AnswerInv, HasAnswer
<1>4. ASSUME step = "configured", NEW v \in Values, Fits(type, config, v)
      PROVE  Normalize(type, config, v).kind # "refused"
  <2>1. type \in AttributeTypes /\ ConfigFits(type, config) /\ Sendable(v)
    BY <1>2, <1>4, InputAssumption DEF Configured
  <2>2. CASE Missing(v)
    <3>1. Normalize(type, config, v) = Null
      BY <2>1, <2>2, NormalizeSound
    <3> QED
      BY <3>1, NullIs
  <2>3. CASE ~Missing(v)
    <3>1. Normalize(type, config, v) = v
      BY <1>4, <2>1, <2>3, NormalizeSound
    <3>2. v.kind # "refused"
      BY <2>1 DEF Sendable
    <3> QED
      BY <3>1, <3>2
  <2> QED
    BY <2>2, <2>3
<1>5. StoredFits
  BY <1>3, <1>4 DEF StoredFits, Answered
<1>6. Stable
  <2> SUFFICES ASSUME step = "answered" PROVE Normalize(type, config, stored) = stored
    BY DEF Stable
  <2>1. /\ type \in AttributeTypes /\ ConfigFits(type, config) /\ Sendable(stored)
        /\ Fits(type, config, stored) /\ (stored = Null \/ ~Missing(stored))
    BY <1>2, <1>3 DEF Configured, Answered
  <2>2. CASE stored = Null
    BY <2>1, <2>2, NormalizeSound, NullIs
  <2>3. CASE stored # Null
    BY <2>1, <2>3, NormalizeSound
  <2> QED
    BY <2>2, <2>3
<1>7. Fillable
  <2> SUFFICES ASSUME step = "configured", type = "block" => Blocks # {}
               PROVE  (\E v \in Values : Normalize(type, config, v).kind \notin {"refused", "null"})
                        <=> ~Unanswerable(type, config)
    BY DEF Fillable
  <2>1. type \in AttributeTypes /\ ConfigFits(type, config)
    BY <1>2 DEF Configured
  <2>2. ASSUME Unanswerable(type, config), NEW v \in Values
        PROVE  Normalize(type, config, v).kind \in {"refused", "null"}
    <3>1. type = "multiSelect" /\ Unanswerable("multiSelect", config) /\ Sendable(v)
      BY <2>2, InputAssumption DEF Unanswerable
    <3>2. CASE Missing(v)
      <4>1. Normalize(type, config, v) = Null
        BY <3>2 DEF Normalize
      <4> QED
        BY <4>1, NullIs
    <3>3. CASE ~Missing(v)
      <4>1. Normalize(type, config, v) = AsMulti(config, v)
        BY <3>1, <3>3 DEF Normalize
      <4>2. AsMulti(config, v) = Refused
        BY <3>1, <3>3, NeverChosen
      <4> QED
        BY <4>1, <4>2, RefusedIs
    <3> QED
      BY <3>2, <3>3
  <2>3. ASSUME ~Unanswerable(type, config)
        PROVE  \E v \in Values : Normalize(type, config, v).kind \notin {"refused", "null"}
    BY <2>1, <2>3, SomeAccepted
  <2> QED
    BY <2>2, <2>3
<1> QED
  BY <1>5, <1>6, <1>7 DEF ValuesSound

\* ... that a sheet gives the answers back ...
LEMMA TripFromInv == AnswersInv => RoundTrip
<1> SUFFICES ASSUME AnswersInv, step = "imported"
             PROVE  IF type \in FileLike \cup {"block"} THEN back \in {stored, Refused}
                    ELSE Clean(stored) => back = stored
  BY DEF RoundTrip
<1>1. /\ type \in AttributeTypes /\ ConfigFits(type, config) /\ Answered(type, config, stored)
      /\ type \in FileLike => stored = Null \/ \E u \in Uuids : stored = Of("string", Plain(u))
      /\ back = Reimport(type, config, Format(stored))
  BY DEF AnswersInv, AnswerInv, Configured, HasAnswer
<1>2. CASE stored = Null
  <2>1. back = stored
    BY <1>1, <1>2, NullBack
  <2> QED
    BY <2>1
<1>3. CASE stored # Null /\ type \in FileLike
  BY <1>1, <1>3, FileBack
<1>4. CASE stored # Null /\ type = "block"
  BY <1>1, <1>4, BlockBack
<1>5. CASE stored # Null /\ type = "multiSelect"
  <2>1. Clean(stored) => back = stored
    BY <1>1, <1>5, MultiBack
  <2> QED
    BY <1>5, <2>1 DEF FileLike
<1>6. CASE stored # Null /\ type \notin FileLike \cup {"block", "multiSelect"}
  <2>1. stored.kind \in {"string", "number", "boolean"}
    BY <1>1, <1>6, AnsweredIs
  <2>2. stored = Of(stored.kind, stored.strs[1])
    BY <1>1, <2>1, AnsweredIs
  <2>3. 1 \in DOMAIN stored.strs
    BY <2>2 DEF Of
  <2>4. Clean(stored) => stored.strs[1] = Trim(stored.strs[1])
    BY <2>3 DEF Clean
  <2>5. Clean(stored) => back = stored
    BY <1>1, <1>6, <2>1, <2>4, OneBack
  <2> QED
    BY <1>6, <2>5
<1> QED
  BY <1>2, <1>3, <1>4, <1>5, <1>6

\* ... that a mail shows what was chosen ...
LEMMA MailFromInv == AnswersInv => MailShowsAnswer
<1> SUFFICES ASSUME AnswersInv, step = "answered", stored.kind = "array"
             PROVE  /\ \A s \in Range(stored.strs) :
                         CASE type = "block" -> \E b \in Blocks :
                                s = Plain(b) /\ Plain(NameOf[b]) \in Mailed(type, config, stored)
                           [] OTHER -> \/ s \in Mailed(type, config, stored)
                                       \/ s \notin config.options
                    /\ type = "block" => Shown(type, stored) = Mailed(type, config, stored)
  BY DEF MailShowsAnswer
<1>1. type \in AttributeTypes /\ Answered(type, config, stored)
  BY DEF AnswersInv, AnswerInv, Configured, HasAnswer
<1> QED
  BY <1>1, MailShows

\* ... and that a column keeps its attribute.
LEMMA ColumnsFromInv == AnswersInv => ColumnsKept
<1> SUFFICES ASSUME AnswersInv, NEW k \in DOMAIN columns
             PROVE  \/ columns[k] = Exported(attributes, asked)[k].uuid
                    \/ columns[k] \in Reserved
                    \/ \E i \in DOMAIN attributes \ asked :
                         Base(attributes[i]).text = Base(Exported(attributes, asked)[k]).text
  BY DEF ColumnsKept
<1>1. step = "columns"
  BY DEF AnswersInv, SheetInv
<1>2. /\ attributes \in Attributes /\ asked \in SUBSET DOMAIN attributes
      /\ columns = ColumnsOf(Headers(Exported(attributes, asked)), attributes)
  BY <1>1 DEF AnswersInv, SheetInv
<1> QED
  BY <1>2, ColumnsBack

\* Type correctness of the whole way of an answer, from its config to the sheet
\* (attribute-value-normalizer.ts, import-export.service.ts).
THEOREM Typed == Spec => []TypeOK
<1>1. AnswersInv => TypeOK
  BY TypeFromInv
<1> QED
  BY <1>1, AnswersKept, PTL

\* Whatever is sent to normalizeParticipantAttributeValue, for every config that
\* normalizeConfig accepts, what is stored is an answer to the attribute and is left
\* alone when it comes again; some answer is possible unless all the options of a
\* multiple choice have blanks at their ends, and then none is.
THEOREM ValuesAreSound == Spec => []ValuesSound
<1>1. AnswersInv => ValuesSound
  BY SoundFromInv
<1> QED
  BY <1>1, AnswersKept, PTL

\* A sheet that is exported and imported gives back every answer that a sheet can
\* hold, and never turns an answer about blocks or files into another one.
THEOREM AnswersReturn == Spec => []RoundTrip
<1>1. AnswersInv => RoundTrip
  BY TripFromInv
<1> QED
  BY <1>1, AnswersKept, PTL

\* parseEmailContent names every option and block that was chosen, and the ticket
\* names the same blocks.
THEOREM MailsShowAnswers == Spec => []MailShowsAnswer
<1>1. AnswersInv => MailShowsAnswer
  BY MailFromInv
<1> QED
  BY <1>1, AnswersKept, PTL

\* What leaves the system (parseEmailContent, formatAttributeValue, tickets) says
\* what was answered.
THEOREM AnswersGoOut == Spec => []AnswersOut
BY AnswersReturn, MailsShowAnswers, PTL DEF AnswersOut

\* parseXlsxToDto takes every column that buildAttributeHeaders wrote back to its
\* own attribute, unless the sheet leaves out one of the same name.
THEOREM ColumnsReturn == Spec => []ColumnsKept
<1>1. AnswersInv => ColumnsKept
  BY ColumnsFromInv
<1> QED
  BY <1>1, AnswersKept, PTL

=============================================================================
