------------------------------ MODULE StudyProofs ------------------------------
(***************************************************************************)
(* Proofs about QuizPage and FlashcardDeck, for any pages, questions,      *)
(* cards and scenarios.                                                    *)
(***************************************************************************)
EXTENDS FlashcardDeck, QuizPage, SetLemmas, SequenceTheorems

-----------------------------------------------------------------------------
(* Counting places. *)

Upto(ks, k) == {j \in ks : j <= k}

LEMMA UptoType ==
  ASSUME NEW m \in Nat, NEW ks, ks \subseteq 1 .. m, NEW k \in Nat
  PROVE  IsFiniteSet(Upto(ks, k)) /\ Cardinality(Upto(ks, k)) \in 0 .. Cardinality(ks)
<1>1. IsFiniteSet(ks) /\ Cardinality(ks) \in Nat
  <2>1. ks \subseteq 0 .. m
    OBVIOUS
  <2>2. QED
    BY <2>1, BoundedIsFinite
<1>2. Upto(ks, k) \in SUBSET ks
  BY DEF Upto
<1>3. IsFiniteSet(Upto(ks, k)) /\ Cardinality(Upto(ks, k)) <= Cardinality(ks)
  BY <1>1, <1>2, FS_Subset
<1>4. QED
  BY <1>1, <1>3, FS_CardinalityType

\* A later place counts more.
LEMMA UptoGrows ==
  ASSUME NEW m \in Nat, NEW ks, ks \subseteq 1 .. m, NEW k \in ks, NEW j \in 0 .. m, j < k
  PROVE  Cardinality(Upto(ks, j)) < Cardinality(Upto(ks, k))
<1>0. k \in Nat /\ j \in Nat /\ \A i \in ks : i \in Nat
  OBVIOUS
<1>1. /\ IsFiniteSet(Upto(ks, k)) /\ Cardinality(Upto(ks, k)) \in 0 .. Cardinality(ks)
      /\ IsFiniteSet(Upto(ks, j)) /\ Cardinality(Upto(ks, j)) \in 0 .. Cardinality(ks)
  BY <1>0, UptoType
<1>2. Upto(ks, j) \in SUBSET Upto(ks, k)
  <2>1. \A i \in ks : i <= j => i <= k
    BY <1>0
  <2>2. QED
    BY <2>1 DEF Upto
<1>3. Upto(ks, j) # Upto(ks, k)
  BY <1>0 DEF Upto
<1>4. QED
  BY <1>1, <1>2, <1>3, FS_Subset

\* There is an n-th place.
LEMMA PlaceExists ==
  ASSUME NEW m \in Nat, NEW ks, ks \subseteq 1 .. m, NEW n \in 1 .. Cardinality(ks)
  PROVE  \E k \in ks : Cardinality(Upto(ks, k)) = n
<1>1. IsFiniteSet(ks) /\ Cardinality(ks) \in Nat /\ ks \subseteq 0 .. m
  <2>1. ks \subseteq 0 .. m
    OBVIOUS
  <2>2. QED
    BY <2>1, BoundedIsFinite
<1>2. PICK G : G = {k \in ks : n <= Cardinality(Upto(ks, k))}
  OBVIOUS
<1>a. \A k \in ks : k \in Nat /\ IsFiniteSet(Upto(ks, k)) /\ Cardinality(Upto(ks, k)) \in Nat
  <2>1. TAKE k \in ks
  <2>2. k \in Nat
    OBVIOUS
  <2>3. IsFiniteSet(Upto(ks, k)) /\ Cardinality(Upto(ks, k)) \in 0 .. Cardinality(ks)
    BY <2>2, UptoType
  <2>4. QED
    BY <1>1, <2>2, <2>3
<1>3. G # {}
  <2>1. ks # {}
    BY <1>1, FS_EmptySet
  <2>2. PICK g \in ks : \A y \in ks : y <= g
    BY <1>1, <2>1, GreatestExists
  <2>3. Upto(ks, g) = ks
    BY <2>2 DEF Upto
  <2>4. g \in G
    BY <1>1, <1>2, <2>3
  <2>5. QED
    BY <2>4
<1>4. PICK k \in G : \A g \in G : k <= g
  <2>1. G \subseteq Nat
    BY <1>2, <1>a
  <2>2. QED
    BY <1>3, <2>1, LeastExists
<1>5. /\ k \in ks /\ k \in Nat /\ n <= Cardinality(Upto(ks, k))
      /\ IsFiniteSet(Upto(ks, k)) /\ Cardinality(Upto(ks, k)) \in Nat
  BY <1>2, <1>a
<1>6. SUFFICES ASSUME n < Cardinality(Upto(ks, k)) PROVE FALSE
  BY <1>1, <1>5
<1>7. PICK B : B = Upto(ks, k) \ {k}
  OBVIOUS
<1>8. IsFiniteSet(B) /\ Cardinality(B) = Cardinality(Upto(ks, k)) - 1
  <2>1. k \in Upto(ks, k)
    BY <1>5 DEF Upto
  <2>2. QED
    BY <1>5, <1>7, <2>1, FS_RemoveElement
<1>9. B # {} /\ B \subseteq 0 .. m
  <2>1. B # {}
    BY <1>5, <1>6, <1>8, FS_EmptySet
  <2>2. QED
    BY <1>1, <1>7, <2>1 DEF Upto
<1>10. PICK g \in B : \A y \in B : y <= g
  BY <1>9, GreatestExists
<1>b. \A y : y \in B <=> y \in ks /\ y <= k /\ y # k
  BY <1>7 DEF Upto
<1>11. g \in ks /\ g < k
  <2>1. g \in ks /\ g <= k /\ g # k
    BY <1>b
  <2>2. g \in Nat /\ k \in Nat
    BY <1>5, <1>a, <2>1
  <2>3. QED
    BY <2>1, <2>2
<1>12. Upto(ks, g) = B
  <2>1. \A y \in ks : y <= g <=> y <= k /\ y # k
    BY <1>5, <1>10, <1>11, <1>a, <1>b
  <2>2. QED
    BY <1>b, <2>1 DEF Upto
<1>13. g \in G
  BY <1>1, <1>2, <1>5, <1>6, <1>8, <1>11, <1>12
<1>14. QED
  BY <1>4, <1>11, <1>13, <1>5

-----------------------------------------------------------------------------
(* Lists made of another's entries. *)

\* Each entry of t is one of s, from a place of its own.
Drawn(S, t, s) ==
  /\ t \in Seq(S)
  /\ \E f \in [DOMAIN t -> DOMAIN s] :
       /\ \A n \in DOMAIN t : t[n] = s[f[n]]
       /\ \A n, m \in DOMAIN t : f[n] = f[m] => n = m

LEMMA PickedDrawn ==
  ASSUME NEW S, NEW s \in Seq(S), NEW ks, ks \subseteq DOMAIN s
  PROVE  /\ Drawn(S, Picked(s, ks), s) /\ DOMAIN Picked(s, ks) = 1 .. Cardinality(ks)
         /\ \A n \in DOMAIN Picked(s, ks) : \E k \in ks : Picked(s, ks)[n] = s[k]
<1> DEFINE At(n) == CHOOSE k \in ks : Cardinality({j \in ks : j <= k}) = n
           t == Picked(s, ks)
           f == [n \in 1 .. Cardinality(ks) |-> At(n)]
<1>1. Len(s) \in Nat /\ DOMAIN s = 1 .. Len(s)
  BY LenProperties
<1>2. ks \subseteq 1 .. Len(s) /\ ks \subseteq 0 .. Len(s)
  BY <1>1
<1>3. Cardinality(ks) \in Nat
  BY <1>1, <1>2, BoundedIsFinite
<1>4. ASSUME NEW n \in 1 .. Cardinality(ks)
      PROVE  At(n) \in ks /\ Cardinality(Upto(ks, At(n))) = n
  <2>1. \E k \in ks : Cardinality(Upto(ks, k)) = n
    BY <1>1, <1>2, PlaceExists
  <2>2. QED
    BY <2>1 DEF Upto
<1>5. t = [n \in 1 .. Cardinality(ks) |-> s[At(n)]]
  BY DEF Picked
<1> HIDE DEF At, t
<1>6. DOMAIN t = 1 .. Cardinality(ks) /\ \A n \in 1 .. Cardinality(ks) : t[n] = s[At(n)]
  BY <1>5
<1>7. \A n \in 1 .. Cardinality(ks) : s[At(n)] \in S
  BY <1>1, <1>2, <1>4, ElementOfSeq
<1>8. t \in [1 .. Cardinality(ks) -> S]
  BY <1>5, <1>7
<1>9. t \in Seq(S)
  BY <1>3, <1>8, SeqDef
<1>10. f \in [DOMAIN t -> DOMAIN s]
  BY <1>1, <1>2, <1>4, <1>6
<1>11. \A n \in DOMAIN t : t[n] = s[f[n]]
  BY <1>6
<1>12. \A n, m \in DOMAIN t : f[n] = f[m] => n = m
  BY <1>4, <1>6
<1>13. \A n \in DOMAIN t : \E k \in ks : t[n] = s[k]
  BY <1>4, <1>6
<1>14. Drawn(S, t, s)
  <2> HIDE DEF f
  <2>1. QED
    BY <1>9, <1>10, <1>11, <1>12 DEF Drawn
<1>15. QED
  BY <1>6, <1>13, <1>14 DEF t

\* A part of a sequence.
LEMMA SliceIs ==
  ASSUME NEW S, NEW s \in Seq(S), NEW i \in 1 .. Len(s) + 1, NEW n \in i - 1 .. Len(s)
  PROVE  /\ SubSeq(s, i, n) \in Seq(S) /\ Len(SubSeq(s, i, n)) = n - i + 1
         /\ \A j \in 1 .. n - i + 1 : SubSeq(s, i, n)[j] = s[i + j - 1]
<1>1. Len(s) \in Nat /\ \A j \in 1 .. Len(s) : s[j] \in S
  BY LenProperties, ElementOfSeq
<1>2. i \in Int /\ n \in Int /\ \A j \in i .. n : s[j] \in S
  BY <1>1
<1>3. /\ SubSeq(s, i, n) \in Seq(S)
      /\ Len(SubSeq(s, i, n)) = IF i <= n THEN n - i + 1 ELSE 0
      /\ \A j \in 1 .. n - i + 1 : SubSeq(s, i, n)[j] = s[i + j - 1]
  BY <1>2, SubSeqProperties
<1>4. (IF i <= n THEN n - i + 1 ELSE 0) = n - i + 1
  BY <1>1
<1>5. QED
  BY <1>3, <1>4

\* What taking one entry away leaves.
LEMMA RemoveAtIs ==
  ASSUME NEW S, NEW s \in Seq(S), NEW i \in DOMAIN s
  PROVE  /\ RemoveAt(s, i) \in Seq(S) /\ Len(RemoveAt(s, i)) = Len(s) - 1
         /\ \A j \in 1 .. Len(s) - 1 : RemoveAt(s, i)[j] = IF j < i THEN s[j] ELSE s[j + 1]
<1>1. Len(s) \in Nat /\ i \in 1 .. Len(s)
  BY LenProperties
<1> DEFINE a == SubSeq(s, 1, i - 1)
           b == SubSeq(s, i + 1, Len(s))
<1>2. a \in Seq(S) /\ Len(a) = i - 1 /\ \A j \in 1 .. i - 1 : a[j] = s[j]
  <2>1. 1 \in 1 .. Len(s) + 1 /\ i - 1 \in 1 - 1 .. Len(s)
    BY <1>1
  <2>2. /\ a \in Seq(S) /\ Len(a) = (i - 1) - 1 + 1
        /\ \A j \in 1 .. (i - 1) - 1 + 1 : a[j] = s[1 + j - 1]
    BY <2>1, SliceIs
  <2> HIDE DEF a
  <2>3. (i - 1) - 1 + 1 = i - 1 /\ \A j \in 1 .. i - 1 : 1 + j - 1 = j
    BY <1>1
  <2>4. QED
    BY <2>2, <2>3
<1>3. b \in Seq(S) /\ Len(b) = Len(s) - i /\ \A j \in 1 .. Len(s) - i : b[j] = s[i + j]
  <2>1. i + 1 \in 1 .. Len(s) + 1 /\ Len(s) \in (i + 1) - 1 .. Len(s)
    BY <1>1
  <2>2. /\ b \in Seq(S) /\ Len(b) = Len(s) - (i + 1) + 1
        /\ \A j \in 1 .. Len(s) - (i + 1) + 1 : b[j] = s[(i + 1) + j - 1]
    BY <2>1, SliceIs
  <2> HIDE DEF b
  <2>3. Len(s) - (i + 1) + 1 = Len(s) - i
    BY <1>1
  <2>4. ASSUME NEW j \in 1 .. Len(s) - i PROVE b[j] = s[i + j]
    <3>1. b[j] = s[(i + 1) + j - 1]
      BY <2>2, <2>3
    <3>2. (i + 1) + j - 1 = i + j
      BY <1>1
    <3>3. QED
      BY <3>1, <3>2
  <2>5. QED
    BY <2>2, <2>3, <2>4
<1>4. /\ a \o b \in Seq(S) /\ Len(a \o b) = Len(a) + Len(b)
      /\ \A j \in 1 .. Len(a) + Len(b) : (a \o b)[j] = IF j <= Len(a) THEN a[j] ELSE b[j - Len(a)]
  BY <1>2, <1>3, ConcatProperties
<1>5. RemoveAt(s, i) = a \o b
  BY DEF RemoveAt
<1> HIDE DEF a, b
<1> DEFINE c == a \o b
<1>6. /\ c \in Seq(S) /\ Len(c) = Len(s) - 1
      /\ \A j \in 1 .. Len(s) - 1 : c[j] = IF j <= i - 1 THEN a[j] ELSE b[j - (i - 1)]
  <2>1. Len(a) + Len(b) = Len(s) - 1
    <3>1. Len(a) = i - 1 /\ Len(b) = Len(s) - i
      BY <1>2, <1>3
    <3>2. (i - 1) + (Len(s) - i) = Len(s) - 1
      BY <1>1
    <3>3. QED
      BY <3>1, <3>2
  <2>2. QED
    BY <1>2, <1>4, <2>1
<1> HIDE DEF c
<1>7. ASSUME NEW j \in 1 .. Len(s) - 1
      PROVE  c[j] = IF j < i THEN s[j] ELSE s[j + 1]
  <2>1. c[j] = IF j <= i - 1 THEN a[j] ELSE b[j - (i - 1)]
    BY <1>6
  <2>2. CASE j < i
    BY <1>1, <1>2, <2>1, <2>2
  <2>3. CASE ~(j < i)
    <3>1. c[j] = b[j - (i - 1)] /\ j - (i - 1) \in 1 .. Len(s) - i
      BY <1>1, <2>1, <2>3
    <3>2. b[j - (i - 1)] = s[i + (j - (i - 1))]
      BY <1>3, <3>1
    <3>3. i + (j - (i - 1)) = j + 1
      BY <1>1
    <3>4. QED
      BY <2>3, <3>1, <3>2, <3>3
  <2>4. QED
    BY <2>2, <2>3
<1>8. QED
  BY <1>5, <1>6, <1>7 DEF c

LEMMA RemoveAtDrawn ==
  ASSUME NEW S, NEW s \in Seq(S), NEW i \in DOMAIN s
  PROVE  Drawn(S, RemoveAt(s, i), s)
<1> DEFINE t == RemoveAt(s, i)
           f == [j \in DOMAIN t |-> IF j < i THEN j ELSE j + 1]
<1>1. /\ t \in Seq(S) /\ Len(t) = Len(s) - 1
      /\ \A j \in 1 .. Len(s) - 1 : t[j] = IF j < i THEN s[j] ELSE s[j + 1]
  BY RemoveAtIs
<1> HIDE DEF t
<1>2. Len(s) \in Nat /\ DOMAIN s = 1 .. Len(s) /\ DOMAIN t = 1 .. Len(s) - 1
  BY <1>1, LenProperties
<1>3. f \in [DOMAIN t -> DOMAIN s]
  BY <1>2
<1>4. \A j \in DOMAIN t : t[j] = s[f[j]]
  BY <1>1, <1>2
<1>5. \A j, k \in DOMAIN t : f[j] = f[k] => j = k
  BY <1>2
<1>6. QED
  <2> HIDE DEF f
  <2>1. QED
    BY <1>1, <1>3, <1>4, <1>5 DEF Drawn, t

\* Dragging an entry to the top.
LEMMA ToTopDrawn ==
  ASSUME NEW S, NEW s \in Seq(S), NEW i \in DOMAIN s
  PROVE  Drawn(S, <<s[i]>> \o RemoveAt(s, i), s)
<1>1. PICK r \in Seq(S) : /\ r = RemoveAt(s, i) /\ Len(r) = Len(s) - 1
                          /\ \A j \in 1 .. Len(s) - 1 : r[j] = IF j < i THEN s[j] ELSE s[j + 1]
  BY RemoveAtIs
<1>2. Len(s) \in Nat /\ DOMAIN s = 1 .. Len(s) /\ s[i] \in S
  BY LenProperties, ElementOfSeq
<1>3. PICK u \in Seq(S) : u = <<s[i]>> /\ Len(u) = 1 /\ u[1] = s[i]
  <2>1. /\ Append(<<>>, s[i]) \in Seq(S) /\ Len(Append(<<>>, s[i])) = Len(<<>>) + 1
        /\ Append(<<>>, s[i])[Len(<<>>) + 1] = s[i]
    BY <1>2, EmptySeq, AppendProperties
  <2>2. Append(<<>>, s[i]) = <<s[i]>> /\ Len(<<>>) + 1 = 1
    OBVIOUS
  <2>3. QED
    BY <2>1, <2>2
<1>4. PICK t \in Seq(S) : /\ t = u \o r /\ Len(t) = 1 + Len(r)
                          /\ \A j \in 1 .. 1 + Len(r) : t[j] = IF j <= 1 THEN u[j] ELSE r[j - 1]
  <2>1. /\ u \o r \in Seq(S) /\ Len(u \o r) = Len(u) + Len(r)
        /\ \A j \in 1 .. Len(u) + Len(r) : (u \o r)[j] = IF j <= Len(u) THEN u[j] ELSE r[j - Len(u)]
    BY ConcatProperties
  <2>2. QED
    BY <1>3, <2>1
<1> DEFINE f == [j \in DOMAIN t |-> IF j = 1 THEN i ELSE IF j - 1 < i THEN j - 1 ELSE j]
<1>5. DOMAIN t = 1 .. Len(s)
  BY <1>1, <1>2, <1>4, LenProperties
<1>6. f \in [DOMAIN t -> DOMAIN s]
  BY <1>2, <1>5
<1>7. \A j \in DOMAIN t : t[j] = s[f[j]]
  <2>1. TAKE j \in DOMAIN t
  <2>2. CASE j = 1
    <3>1. 1 \in 1 .. 1 + Len(r) /\ t[1] = u[1]
      BY <1>1, <1>2, <1>4
    <3>2. QED
      BY <1>3, <2>2, <3>1
  <2>3. CASE j # 1
    <3>1. j - 1 \in 1 .. Len(s) - 1 /\ t[j] = r[j - 1]
      BY <1>1, <1>2, <1>4, <1>5, <2>3
    <3>2. r[j - 1] = IF j - 1 < i THEN s[j - 1] ELSE s[(j - 1) + 1]
      BY <1>1, <3>1
    <3>3. (j - 1) + 1 = j
      BY <1>2, <1>5
    <3>4. QED
      BY <2>3, <3>1, <3>2, <3>3
  <2>4. QED
    BY <2>2, <2>3
<1>8. \A j, k \in DOMAIN t : f[j] = f[k] => j = k
  BY <1>2, <1>5
<1>9. QED
  <2> HIDE DEF f
  <2>1. Drawn(S, t, s)
    BY <1>6, <1>7, <1>8 DEF Drawn
  <2>2. QED
    BY <1>1, <1>3, <1>4, <2>1

-----------------------------------------------------------------------------
(* The quiz: the inductive invariant. *)

Marks  == [0 .. MaxQuestions -> 0 .. MaxOptions]
Sight  == [place : 0 .. MaxOptions, options : Seq(Texts)]
Clicks == [Topics -> Sight]

Request == [kind : {"save", "submit"}, questions : Seq(Question), answers : Marks, chosen : Clicks]
Sheet   == [at : {"unopened", "take", "edit"}, questions : Seq(Question), rows : Seq(Question),
            asked : Seq(Request), answers : Marks, chosen : Clicks, scored : BOOLEAN]
Action  == [next : {"none", "write", "insert"}, sent : Seq(Question), questions : Seq(Question),
            chosen : Clicks]

\* No id has been about two topics, on any page and at any time, and none of a list is
\* above n; a list asks nothing twice.
Named(about, n, qs) ==
  /\ qs \in Seq(Question)
  /\ \A k \in DOMAIN qs : qs[k].id <= n /\ (qs[k].id # 0 => qs[k].topic = about[qs[k].id])
  /\ \A j, k \in DOMAIN qs : qs[j].topic = qs[k].topic => j = k

Final(qs) == \A k \in DOMAIN qs : qs[k].id # 0

\* An answer is what was chosen for what its id is about.
Fits(about, n, answers, chosen) ==
  \A i \in 1 .. MaxQuestions : answers[i] # 0 => i <= n /\ chosen[about[i]].place = answers[i]

\* Only questions the page shows have answers.
SheetSound(about, n, s) ==
  /\ s \in Sheet
  /\ Named(about, n, s.questions) /\ Named(about, n, s.rows)
  /\ Fits(about, n, s.answers, s.chosen)
  /\ \A i \in 1 .. MaxQuestions :
       s.answers[i] # 0 => \E k \in DOMAIN s.questions : s.questions[k].id = i
  /\ \A m \in DOMAIN s.asked : /\ Named(about, n, s.asked[m].questions)
                               /\ Fits(about, n, s.asked[m].answers, s.asked[m].chosen)

Earned(credited, chosen) ==
  \A k \in DOMAIN credited : /\ credited[k].correct # 0
                             /\ chosen[credited[k].topic].place = credited[k].correct

AllEarned == \A a \in attempts : Earned(a.credited, a.chosen)

ActionSound(about, n, a) ==
  /\ a \in Action
  /\ Named(about, n, a.sent) /\ Named(about, n, a.questions)
  /\ a.next = "write" => Final(a.questions)
  /\ a.next = "insert" => Earned(a.questions, a.chosen)

About == [1 .. MaxQuestions -> Topics \cup {0}]

QuizSound(about) ==
  /\ Named(about, ids, quiz) /\ Final(quiz)
  /\ \A p \in Pages : SheetSound(about, ids, sheet[p]) /\ ActionSound(about, ids, action[p])

QuizInv ==
  /\ ids \in 0 .. MaxQuestions
  /\ sheet \in [Pages -> Sheet] /\ action \in [Pages -> Action]
  /\ \E about \in About : QuizSound(about)
  /\ AllEarned

-----------------------------------------------------------------------------
(* Lists of questions. *)

LEMMA BlankSound ==
  ASSUME NEW about \in About, NEW n \in Nat
  PROVE  /\ Blank \in Sheet /\ SheetSound(about, n, Blank)
         /\ NoAction \in Action /\ ActionSound(about, n, NoAction)
         /\ Blank.answers \in Marks /\ Blank.chosen \in Clicks
         /\ Fits(about, n, Blank.answers, Blank.chosen)
         /\ Named(about, n, <<>>)
         /\ \A i \in 0 .. MaxQuestions : Blank.answers[i] = 0
<1>1. <<>> \in Seq(Question) /\ <<>> \in Seq(Request) /\ DOMAIN <<>> = {}
  <2>1. DOMAIN <<>> = 1 .. Len(<<>>) /\ Len(<<>>) = 0
    BY LenProperties, EmptySeq
  <2>2. QED
    BY <2>1, EmptySeq
<1>2. Named(about, n, <<>>)
  BY <1>1 DEF Named
<1>3. Blank.answers = [i \in 0 .. MaxQuestions |-> 0] /\ Blank.chosen = [q \in Topics |-> Unanswered]
  BY DEF Blank
<1>4. Blank.answers \in Marks /\ Blank.chosen \in Clicks
  <2>1. <<>> \in Seq(Texts) /\ 0 \in 0 .. MaxOptions
    BY EmptySeq, QuizAssumption
  <2>2. Unanswered \in Sight
    BY <2>1 DEF Unanswered, Sight
  <2> HIDE DEF Sight
  <2>3. QED
    BY <1>3, <2>1, <2>2 DEF Marks, Clicks
<1>5. Blank \in Sheet
  BY <1>1, <1>3, <1>4 DEF Blank, Sheet
<1>6. \A i \in 0 .. MaxQuestions : Blank.answers[i] = 0
  BY <1>3
<1>7. Fits(about, n, Blank.answers, Blank.chosen)
  BY <1>6, QuizAssumption DEF Fits
<1>8. Blank.questions = <<>> /\ Blank.rows = <<>> /\ Blank.asked = <<>>
  BY DEF Blank
<1>9. SheetSound(about, n, Blank)
  BY <1>1, <1>2, <1>5, <1>6, <1>7, <1>8, QuizAssumption DEF SheetSound
<1>10. NoAction.sent = <<>> /\ NoAction.questions = <<>> /\ NoAction.next = "none"
  BY DEF NoAction
<1>11. NoAction \in Action
  BY <1>1, <1>4 DEF NoAction, Action
<1>12. ActionSound(about, n, NoAction)
  BY <1>2, <1>10, <1>11 DEF ActionSound
<1>13. QED
  BY <1>2, <1>4, <1>5, <1>6, <1>7, <1>9, <1>11, <1>12

LEMMA NamedDrawn ==
  ASSUME NEW about, NEW n, NEW s, Named(about, n, s), NEW t, Drawn(Question, t, s)
  PROVE  Named(about, n, t) /\ (Final(s) => Final(t))
<1>1. PICK f \in [DOMAIN t -> DOMAIN s] : /\ \A k \in DOMAIN t : t[k] = s[f[k]]
                                          /\ \A k, m \in DOMAIN t : f[k] = f[m] => k = m
  BY DEF Drawn
<1>2. t \in Seq(Question)
  BY DEF Drawn
<1>3. \A k \in DOMAIN t : f[k] \in DOMAIN s
  BY <1>1
<1>4. QED
  BY <1>1, <1>2, <1>3 DEF Named, Final

\* An entry that keeps its id and its topic.
LEMMA NamedExcept ==
  ASSUME NEW about, NEW n, NEW s, Named(about, n, s), NEW k \in DOMAIN s, NEW q \in Question,
         q.id = s[k].id, q.topic = s[k].topic
  PROVE  Named(about, n, [s EXCEPT ![k] = q])
<1>1. s \in Seq(Question) /\ k \in 1 .. Len(s) /\ DOMAIN s = 1 .. Len(s)
  BY LenProperties DEF Named
<1>2. [s EXCEPT ![k] = q] \in Seq(Question)
  BY <1>1, ExceptSeq
<1>3. DOMAIN [s EXCEPT ![k] = q] = DOMAIN s
  OBVIOUS
<1>4. \A j \in DOMAIN s : /\ [s EXCEPT ![k] = q][j].id = s[j].id
                          /\ [s EXCEPT ![k] = q][j].topic = s[j].topic
  OBVIOUS
<1> DEFINE t == [s EXCEPT ![k] = q]
<1> HIDE DEF t
<1>5. QED
  <2>1. t \in Seq(Question) /\ DOMAIN t = DOMAIN s
    BY <1>2, <1>3 DEF t
  <2>2. \A j \in DOMAIN s : t[j].id = s[j].id /\ t[j].topic = s[j].topic
    BY <1>4 DEF t
  <2>3. Named(about, n, t)
    BY <2>1, <2>2 DEF Named
  <2>4. QED
    BY <2>3 DEF t

\* A new question about something else.
LEMMA NamedAppend ==
  ASSUME NEW about, NEW n \in Nat, NEW s, Named(about, n, s), NEW q \in Question, q.id = 0,
         \A k \in DOMAIN s : s[k].topic # q.topic
  PROVE  Named(about, n, Append(s, q))
<1> DEFINE t == Append(s, q)
<1>1. s \in Seq(Question)
  BY DEF Named
<1>2. /\ t \in Seq(Question) /\ Len(t) = Len(s) + 1 /\ Len(s) \in Nat
      /\ \A i \in 1 .. Len(s) : t[i] = s[i]
      /\ t[Len(s) + 1] = q
  BY <1>1, AppendProperties, LenProperties
<1> HIDE DEF t
<1>3. DOMAIN s = 1 .. Len(s) /\ DOMAIN t = 1 .. Len(s) + 1
  BY <1>1, <1>2, LenProperties
<1>4. \A k \in DOMAIN t : \/ k \in DOMAIN s /\ t[k] = s[k]
                          \/ k = Len(s) + 1 /\ k \notin DOMAIN s /\ t[k] = q
  <2>1. \A k \in 1 .. Len(s) + 1 : k \in 1 .. Len(s) \/ (k = Len(s) + 1 /\ k \notin 1 .. Len(s))
    BY <1>2
  <2>2. QED
    BY <1>2, <1>3, <2>1
<1>5. \A k \in DOMAIN t : t[k].id <= n /\ (t[k].id # 0 => t[k].topic = about[t[k].id])
  BY <1>4 DEF Named
<1>6. \A j, k \in DOMAIN t : t[j].topic = t[k].topic => j = k
  BY <1>4 DEF Named
<1>7. Named(about, n, t)
  BY <1>2, <1>5, <1>6 DEF Named
<1>8. QED
  BY <1>7 DEF t

-----------------------------------------------------------------------------
(* Ids that are handed out do not change what the others are about. *)

Agrees(a, b, n) == \A i \in 1 .. n : a[i] = b[i]

LEMMA NamedLater ==
  ASSUME NEW about, NEW later, NEW n \in Nat, NEW m \in Nat, n <= m, Agrees(about, later, n),
         NEW qs, Named(about, n, qs)
  PROVE  Named(later, m, qs)
<1>1. ASSUME NEW k \in DOMAIN qs
      PROVE  qs[k].id <= m /\ (qs[k].id # 0 => qs[k].topic = later[qs[k].id])
  <2>1. qs[k] \in Question
    BY LenProperties, ElementOfSeq DEF Named
  <2>2. qs[k].id \in Nat
    BY <2>1, QuizAssumption DEF Question
  <2>3. qs[k].id <= n /\ (qs[k].id # 0 => qs[k].topic = about[qs[k].id])
    BY DEF Named
  <2>4. qs[k].id # 0 => about[qs[k].id] = later[qs[k].id]
    <3>1. qs[k].id # 0 => qs[k].id \in 1 .. n
      BY <2>2, <2>3
    <3>2. QED
      BY <3>1 DEF Agrees
  <2>5. QED
    BY <2>2, <2>3, <2>4
<1>2. QED
  BY <1>1 DEF Named

LEMMA FitsLater ==
  ASSUME NEW about, NEW later, NEW n \in Nat, NEW m \in Nat, n <= m, Agrees(about, later, n),
         NEW answers, NEW chosen, Fits(about, n, answers, chosen)
  PROVE  Fits(later, m, answers, chosen)
<1>1. ASSUME NEW i \in 1 .. MaxQuestions, answers[i] # 0
      PROVE  i <= m /\ chosen[later[i]].place = answers[i]
  <2>1. i <= n /\ chosen[about[i]].place = answers[i]
    BY <1>1 DEF Fits
  <2>2. about[i] = later[i]
    BY <2>1, QuizAssumption DEF Agrees
  <2>3. QED
    BY <2>1, <2>2, QuizAssumption
<1>2. QED
  BY <1>1 DEF Fits

LEMMA SheetLater ==
  ASSUME NEW about, NEW later, NEW n \in Nat, NEW m \in Nat, n <= m, Agrees(about, later, n)
  PROVE  /\ \A s : SheetSound(about, n, s) => SheetSound(later, m, s)
         /\ \A a : ActionSound(about, n, a) => ActionSound(later, m, a)
<1>1. \A qs : Named(about, n, qs) => Named(later, m, qs)
  BY NamedLater
<1>2. \A answers, chosen : Fits(about, n, answers, chosen) => Fits(later, m, answers, chosen)
  BY FitsLater
<1>3. \A s : SheetSound(about, n, s) => SheetSound(later, m, s)
  BY <1>1, <1>2 DEF SheetSound
<1>4. \A a : ActionSound(about, n, a) => ActionSound(later, m, a)
  BY <1>1 DEF ActionSound
<1>5. QED
  BY <1>3, <1>4

-----------------------------------------------------------------------------
(* What the page does. *)

LEMMA FieldsOfSheet ==
  ASSUME NEW s \in Sheet
  PROVE  /\ s.at \in {"unopened", "take", "edit"} /\ s.scored \in BOOLEAN
         /\ s.questions \in Seq(Question) /\ s.rows \in Seq(Question) /\ s.asked \in Seq(Request)
         /\ s.answers \in Marks /\ s.chosen \in Clicks
BY DEF Sheet

LEMMA OpenSound ==
  ASSUME NEW about \in About, NEW n \in Nat, NEW qs, Named(about, n, qs)
  PROVE  SheetSound(about, n, [Blank EXCEPT !.at = "take", !.questions = qs])
<1> DEFINE new == [Blank EXCEPT !.at = "take", !.questions = qs]
<1>1. Blank \in Sheet /\ SheetSound(about, n, Blank) /\ \A i \in 0 .. MaxQuestions : Blank.answers[i] = 0
  BY BlankSound
<1>2. qs \in Seq(Question)
  BY DEF Named
<1>3. /\ new \in Sheet /\ new.questions = qs /\ new.rows = Blank.rows /\ new.asked = Blank.asked
      /\ new.answers = Blank.answers /\ new.chosen = Blank.chosen
  BY <1>1, <1>2 DEF Sheet
<1> HIDE DEF new
<1>4. \A i \in 1 .. MaxQuestions : new.answers[i] = 0
  BY <1>1, <1>3, QuizAssumption
<1>5. SheetSound(about, n, new)
  BY <1>1, <1>3, <1>4 DEF SheetSound
<1>6. QED
  BY <1>5 DEF new

LEMMA ChooseSound ==
  ASSUME NEW about \in About, NEW n \in Nat, NEW s, SheetSound(about, n, s),
         NEW k \in DOMAIN s.questions, NEW o \in 1 .. MaxOptions, NEW sight \in Sight,
         sight.place = o
  PROVE  LET q == s.questions[k] IN
         SheetSound(about, n, [s EXCEPT !.answers[q.id] = o, !.chosen[q.topic] = sight])
<1> DEFINE q       == s.questions[k]
           answers == [s.answers EXCEPT ![q.id] = o]
           chosen  == [s.chosen EXCEPT ![q.topic] = sight]
           new     == [s EXCEPT !.answers[q.id] = o, !.chosen[q.topic] = sight]
<1>1. s \in Sheet /\ Named(about, n, s.questions)
  BY DEF SheetSound
<1>2. q \in Question /\ q.id \in 0 .. MaxQuestions /\ q.topic \in Topics
  <2>1. q \in Question
    BY <1>1, FieldsOfSheet, LenProperties, ElementOfSeq
  <2>2. QED
    BY <2>1 DEF Question
<1>3. q.id <= n /\ (q.id # 0 => q.topic = about[q.id])
  BY <1>1 DEF Named
<1>4. \A j \in DOMAIN s.questions : s.questions[j].topic = q.topic => j = k
  BY <1>1 DEF Named
<1> HIDE DEF q
<1>5. s.answers \in Marks /\ s.chosen \in Clicks
  BY <1>1, FieldsOfSheet
<1>6. answers \in Marks /\ chosen \in Clicks
  BY <1>2, <1>5, QuizAssumption DEF Marks, Clicks
<1>7. /\ \A i \in 0 .. MaxQuestions : answers[i] = IF i = q.id THEN o ELSE s.answers[i]
      /\ \A t \in Topics : chosen[t] = IF t = q.topic THEN sight ELSE s.chosen[t]
  BY <1>2, <1>5 DEF Marks, Clicks
<1>8. /\ new.answers = answers /\ new.chosen = chosen /\ new.at = s.at /\ new.scored = s.scored
      /\ new.questions = s.questions /\ new.rows = s.rows /\ new.asked = s.asked
      /\ new = [s EXCEPT !.answers = answers, !.chosen = chosen]
  BY <1>1 DEF Sheet
<1> HIDE DEF answers, chosen
<1>9. new \in Sheet
  BY <1>1, <1>6, <1>8 DEF Sheet
<1> HIDE DEF new
<1>10. ASSUME NEW i \in 1 .. MaxQuestions, answers[i] # 0
       PROVE  /\ i <= n /\ chosen[about[i]].place = answers[i]
              /\ \E j \in DOMAIN s.questions : s.questions[j].id = i
  <2>1. i \in 0 .. MaxQuestions
    BY QuizAssumption
  <2>2. CASE i = q.id
    <3>1. answers[i] = o /\ i # 0 /\ i <= n /\ q.topic = about[i]
      BY <1>3, <1>7, <2>1, <2>2, QuizAssumption
    <3>2. chosen[q.topic].place = o
      BY <1>2, <1>7
    <3>3. s.questions[k].id = i
      BY <2>2 DEF q
    <3>4. QED
      BY <3>1, <3>2, <3>3
  <2>3. CASE i # q.id
    <3>1. s.answers[i] # 0 /\ answers[i] = s.answers[i]
      BY <1>7, <1>10, <2>1, <2>3
    <3>2. i <= n /\ s.chosen[about[i]].place = s.answers[i]
      BY <3>1 DEF SheetSound, Fits
    <3>3. PICK j \in DOMAIN s.questions : s.questions[j].id = i
      BY <3>1 DEF SheetSound
    <3>4. s.questions[j].topic = about[i]
      <4>1. i # 0
        BY QuizAssumption
      <4>2. QED
        BY <1>1, <3>3, <4>1 DEF Named
    <3>5. about[i] # q.topic
      <4>1. SUFFICES ASSUME about[i] = q.topic PROVE FALSE
        OBVIOUS
      <4>2. j = k
        BY <1>4, <3>4, <4>1
      <4>3. QED
        BY <2>3, <3>3, <4>2 DEF q
    <3>6. about[i] \in Topics
      <4>1. s.questions[j] \in Question
        BY <1>1, FieldsOfSheet, LenProperties, ElementOfSeq
      <4>2. QED
        BY <3>4, <4>1 DEF Question
    <3>7. chosen[about[i]] = s.chosen[about[i]]
      BY <1>7, <3>5, <3>6
    <3>8. QED
      BY <3>1, <3>2, <3>3, <3>7
  <2>4. QED
    BY <2>2, <2>3
<1>11. Fits(about, n, answers, chosen)
  BY <1>10 DEF Fits
<1>12. SheetSound(about, n, new)
  BY <1>8, <1>9, <1>10, <1>11 DEF SheetSound
<1>13. QED
  BY <1>12 DEF new, q

\* "Retake", and a rewrite of the questions that ends.
LEMMA CleanSound ==
  ASSUME NEW about \in About, NEW n \in Nat, NEW s, SheetSound(about, n, s)
  PROVE  /\ SheetSound(about, n, [s EXCEPT !.answers = Blank.answers, !.chosen = Blank.chosen,
                                           !.scored = FALSE])
         /\ \A qs : Named(about, n, qs) =>
              SheetSound(about, n, [s EXCEPT !.questions = qs, !.answers = Blank.answers,
                                             !.chosen = Blank.chosen, !.scored = FALSE])
<1>1. /\ Blank.answers \in Marks /\ Blank.chosen \in Clicks
      /\ Fits(about, n, Blank.answers, Blank.chosen)
      /\ \A i \in 1 .. MaxQuestions : Blank.answers[i] = 0
  BY BlankSound, QuizAssumption
<1>2. PICK answers, chosen : answers = Blank.answers /\ chosen = Blank.chosen
  OBVIOUS
<1>3. s \in Sheet
  BY DEF SheetSound
<1>4. ASSUME NEW qs, Named(about, n, qs)
      PROVE  SheetSound(about, n, [s EXCEPT !.questions = qs, !.answers = answers,
                                            !.chosen = chosen, !.scored = FALSE])
  <2> DEFINE new == [s EXCEPT !.questions = qs, !.answers = answers, !.chosen = chosen, !.scored = FALSE]
  <2>1. qs \in Seq(Question)
    BY <1>4 DEF Named
  <2>2. /\ new \in Sheet /\ new.questions = qs /\ new.rows = s.rows /\ new.asked = s.asked
        /\ new.answers = answers /\ new.chosen = chosen
    BY <1>1, <1>2, <1>3, <2>1 DEF Sheet
  <2> HIDE DEF new
  <2>3. SheetSound(about, n, new)
    BY <1>1, <1>2, <1>4, <2>2 DEF SheetSound
  <2>4. QED
    BY <2>3 DEF new
<1>5. SheetSound(about, n, [s EXCEPT !.answers = answers, !.chosen = chosen, !.scored = FALSE])
  <2>1. Named(about, n, s.questions)
    BY DEF SheetSound
  <2>2. [s EXCEPT !.questions = s.questions, !.answers = answers, !.chosen = chosen, !.scored = FALSE]
          = [s EXCEPT !.answers = answers, !.chosen = chosen, !.scored = FALSE]
    BY <1>3 DEF Sheet
  <2>3. QED
    BY <1>4, <2>1, <2>2, Zenon
<1>6. QED
  BY <1>2, <1>4, <1>5, Zenon

LEMMA ScoredSound ==
  ASSUME NEW about \in About, NEW n \in Nat, NEW s, SheetSound(about, n, s), NEW b \in BOOLEAN
  PROVE  SheetSound(about, n, [s EXCEPT !.scored = b])
<1> DEFINE new == [s EXCEPT !.scored = b]
<1>1. s \in Sheet
  BY DEF SheetSound
<1>2. /\ new \in Sheet /\ new.questions = s.questions /\ new.rows = s.rows /\ new.asked = s.asked
      /\ new.answers = s.answers /\ new.chosen = s.chosen
  BY <1>1 DEF Sheet
<1> HIDE DEF new
<1>3. SheetSound(about, n, new)
  BY <1>2 DEF SheetSound
<1>4. QED
  BY <1>3 DEF new

LEMMA EditSound ==
  ASSUME NEW about \in About, NEW n \in Nat, NEW s, SheetSound(about, n, s),
         NEW at \in {"take", "edit"}, NEW qs, Named(about, n, qs)
  PROVE  SheetSound(about, n, [s EXCEPT !.at = at, !.rows = qs])
<1> DEFINE new == [s EXCEPT !.at = at, !.rows = qs]
<1>1. s \in Sheet /\ qs \in Seq(Question)
  BY DEF SheetSound, Named
<1>2. /\ new \in Sheet /\ new.questions = s.questions /\ new.rows = qs /\ new.asked = s.asked
      /\ new.answers = s.answers /\ new.chosen = s.chosen
  BY <1>1 DEF Sheet
<1> HIDE DEF new
<1>3. SheetSound(about, n, new)
  BY <1>2 DEF SheetSound
<1>4. QED
  BY <1>3 DEF new

\* A request is put behind the others.
LEMMA AskSound ==
  ASSUME NEW about \in About, NEW n \in Nat, NEW s, SheetSound(about, n, s), NEW r \in Request,
         Named(about, n, r.questions), Fits(about, n, r.answers, r.chosen),
         NEW qs, Named(about, n, qs)
  PROVE  SheetSound(about, n, [s EXCEPT !.rows = qs, !.asked = Append(@, r)])
<1> DEFINE asked == Append(s.asked, r)
           new   == [s EXCEPT !.rows = qs, !.asked = asked]
<1>1. s \in Sheet /\ qs \in Seq(Question)
  BY DEF SheetSound, Named
<1>2. s.asked \in Seq(Request)
  BY <1>1, FieldsOfSheet
<1>3. /\ asked \in Seq(Request) /\ Len(asked) = Len(s.asked) + 1 /\ Len(s.asked) \in Nat
      /\ \A i \in 1 .. Len(s.asked) : asked[i] = s.asked[i]
      /\ asked[Len(s.asked) + 1] = r
  BY <1>2, AppendProperties, LenProperties
<1>4. DOMAIN asked = 1 .. Len(s.asked) + 1 /\ DOMAIN s.asked = 1 .. Len(s.asked)
  BY <1>2, <1>3, LenProperties
<1> HIDE DEF asked
<1>5. /\ new \in Sheet /\ new.questions = s.questions /\ new.rows = qs /\ new.asked = asked
      /\ new.answers = s.answers /\ new.chosen = s.chosen
  BY <1>1, <1>3 DEF Sheet
<1> HIDE DEF new
<1>6. ASSUME NEW m \in DOMAIN asked
      PROVE  Named(about, n, asked[m].questions) /\ Fits(about, n, asked[m].answers, asked[m].chosen)
  <2>1. CASE m \in 1 .. Len(s.asked)
    BY <1>3, <1>4, <2>1 DEF SheetSound
  <2>2. CASE m = Len(s.asked) + 1
    BY <1>3, <2>2
  <2>3. QED
    BY <1>3, <1>4, <2>1, <2>2
<1>7. SheetSound(about, n, new)
  BY <1>5, <1>6 DEF SheetSound
<1>8. QED
  BY <1>7 DEF new, asked

\* The first request is taken up.
LEMMA TakenSound ==
  ASSUME NEW about \in About, NEW n \in Nat, NEW s, SheetSound(about, n, s), s.asked # <<>>
  PROVE  /\ SheetSound(about, n, [s EXCEPT !.asked = Tail(@)])
         /\ Head(s.asked) \in Request
         /\ Named(about, n, Head(s.asked).questions)
         /\ Fits(about, n, Head(s.asked).answers, Head(s.asked).chosen)
<1> DEFINE asked == Tail(s.asked)
           new   == [s EXCEPT !.asked = asked]
<1>1. s \in Sheet
  BY DEF SheetSound
<1>2. s.asked \in Seq(Request)
  BY <1>1, FieldsOfSheet
<1>3. /\ Head(s.asked) \in Request /\ asked \in Seq(Request) /\ Len(asked) = Len(s.asked) - 1
      /\ \A i \in 1 .. Len(asked) : asked[i] = s.asked[i + 1]
  BY <1>2, HeadTailProperties
<1>4. Len(s.asked) \in Nat \ {0} /\ DOMAIN s.asked = 1 .. Len(s.asked) /\ Head(s.asked) = s.asked[1]
  BY <1>2, EmptySeq, LenProperties
<1>5. DOMAIN asked = 1 .. Len(asked)
  BY <1>3, LenProperties
<1> HIDE DEF asked
<1>6. \A i \in DOMAIN asked : i + 1 \in DOMAIN s.asked
  BY <1>3, <1>4, <1>5
<1>7. /\ new \in Sheet /\ new.questions = s.questions /\ new.rows = s.rows /\ new.asked = asked
      /\ new.answers = s.answers /\ new.chosen = s.chosen
  BY <1>1, <1>3 DEF Sheet
<1> HIDE DEF new
<1>8. \A m \in DOMAIN asked : /\ Named(about, n, asked[m].questions)
                              /\ Fits(about, n, asked[m].answers, asked[m].chosen)
  BY <1>3, <1>5, <1>6 DEF SheetSound
<1>9. SheetSound(about, n, new)
  BY <1>7, <1>8 DEF SheetSound
<1>10. 1 \in DOMAIN s.asked
  BY <1>4
<1>11. QED
  BY <1>3, <1>4, <1>9, <1>10 DEF SheetSound, new, asked

-----------------------------------------------------------------------------
(* The ids a save hands out. *)

\* They are new ones, so there is a way to go on saying what each id is about.
LEMMA MintedSound ==
  ASSUME NEW about \in About, ids \in Nat, Named(about, ids, quiz), Final(quiz),
         NEW qs, Named(about, ids, qs),
         NEW m, m = Max({ids} \cup QuestionIds(Minted(qs))), m <= MaxQuestions
  PROVE  /\ m \in Nat /\ ids <= m
         /\ \E later \in About : /\ Agrees(about, later, ids)
                                 /\ Named(later, m, Minted(qs)) /\ Final(Minted(qs))
<1> DEFINE known == QuestionIds(quiz)
           new   == {j \in 1 .. Len(qs) : qs[j].id \notin known}
           c(k)  == Cardinality(Upto(new, k))
           next  == Minted(qs)
<1>1. qs \in Seq(Question) /\ Len(qs) \in Nat /\ DOMAIN qs = 1 .. Len(qs)
  BY LenProperties DEF Named
<1>2. \A k \in DOMAIN qs : qs[k] \in Question /\ qs[k].id \in Nat
  <2>1. \A k \in DOMAIN qs : qs[k] \in Question
    BY <1>1, ElementOfSeq
  <2>2. QED
    BY <2>1, QuizAssumption DEF Question
<1>3. \A i \in known : i # 0 /\ i <= ids
  BY DEF QuestionIds, Named, Final
<1>4. next = [k \in DOMAIN qs |-> IF qs[k].id \in known THEN qs[k]
                                  ELSE [qs[k] EXCEPT !.id = ids + c(k)]]
  <2>1. ASSUME NEW k \in DOMAIN qs
        PROVE  {j \in 1 .. k : qs[j].id \notin known} = Upto(new, k)
    BY <1>1 DEF Upto
  <2>2. QED
    BY <2>1 DEF Minted
<1>5. new \subseteq 1 .. Len(qs)
  OBVIOUS
<1>6. \A k \in DOMAIN qs : c(k) \in 0 .. Cardinality(new) /\ c(k) \in Nat
  <2>1. Cardinality(new) \in Nat
    <3>1. new \subseteq 0 .. Len(qs)
      OBVIOUS
    <3>2. QED
      BY <1>1, <3>1, BoundedIsFinite
  <2>2. TAKE k \in DOMAIN qs
  <2>3. k \in Nat
    BY <1>1
  <2>4. c(k) \in 0 .. Cardinality(new)
    BY <1>1, <1>5, <2>3, UptoType
  <2>5. QED
    BY <2>1, <2>4
<1>7. \A k \in new, j \in DOMAIN qs : j < k => c(j) < c(k)
  <2>1. TAKE k \in new, j \in DOMAIN qs
  <2>2. j \in 0 .. Len(qs)
    BY <1>1
  <2>3. QED
    BY <1>1, <1>5, <2>2, UptoGrows
<1>8. \A k \in new : c(k) # 0 /\ c(k) \in Nat
  <2>1. TAKE k \in new
  <2>2. Cardinality(Upto(new, 0)) < c(k)
    BY <1>1, <1>5, UptoGrows
  <2>3. Cardinality(Upto(new, 0)) \in 0 .. Cardinality(new)
    BY <1>1, <1>5, UptoType
  <2>4. k \in DOMAIN qs
    BY <1>1
  <2>5. QED
    BY <1>6, <2>2, <2>3, <2>4
<1> HIDE DEF c, new, known
<1>9. \A k \in DOMAIN qs : qs[k].id \in known \/ k \in new
  BY <1>1 DEF new
<1>10. \A k \in new : k \in DOMAIN qs /\ qs[k].id \notin known
  BY <1>1 DEF new
<1> HIDE DEF next
<1>11. DOMAIN next = DOMAIN qs
  BY <1>4
<1>12. \A k \in DOMAIN qs :
         /\ next[k].topic = qs[k].topic
         /\ next[k].id = IF qs[k].id \in known THEN qs[k].id ELSE ids + c(k)
         /\ ids + c(k) \in 0 .. MaxQuestions \/ qs[k].id \in known => next[k] \in Question
  <2>1. TAKE k \in DOMAIN qs
  <2>2. next[k] = IF qs[k].id \in known THEN qs[k] ELSE [qs[k] EXCEPT !.id = ids + c(k)]
    BY <1>4
  <2>3. qs[k] \in Question
    BY <1>2
  <2>4. QED
    BY <2>2, <2>3 DEF Question
<1>13. PICK I : I = {ids} \cup QuestionIds(next)
  OBVIOUS
<1>14. PICK b \in Nat : I \subseteq 0 .. b /\ I # {}
  <2>1. Cardinality(new) \in Nat
    <3>1. new \subseteq 0 .. Len(qs)
      BY DEF new
    <3>2. QED
      BY <1>1, <3>1, BoundedIsFinite
  <2>2. \A k \in DOMAIN next : next[k].id \in 0 .. ids + Cardinality(new)
    <3>1. TAKE k \in DOMAIN next
    <3>2. CASE qs[k].id \in known
      BY <1>2, <1>3, <1>11, <1>12, <2>1, <3>2
    <3>3. CASE qs[k].id \notin known
      BY <1>6, <1>11, <1>12, <2>1, <3>3
    <3>4. QED
      BY <3>2, <3>3
  <2>3. I \subseteq 0 .. ids + Cardinality(new)
    BY <1>13, <2>1, <2>2 DEF QuestionIds
  <2>4. ids \in I
    BY <1>13
  <2>5. ids + Cardinality(new) \in Nat
    BY <2>1
  <2>6. QED
    BY <2>3, <2>4, <2>5
<1>15. m \in I /\ \A i \in I : i <= m
  <2>1. m = Max(I)
    BY <1>13 DEF next
  <2>2. QED
    BY <1>14, <2>1, MaxIs
<1>16. m \in Nat /\ ids <= m
  BY <1>13, <1>14, <1>15
<1>17. \A k \in DOMAIN next : next[k].id <= m
  BY <1>13, <1>15 DEF QuestionIds
<1>18. \A k \in DOMAIN next : next[k] \in Question
  <2>1. TAKE k \in DOMAIN next
  <2>2. CASE qs[k].id \in known
    BY <1>11, <1>12, <2>2
  <2>3. CASE qs[k].id \notin known
    <3>1. next[k].id = ids + c(k) /\ c(k) \in Nat
      BY <1>6, <1>11, <1>12, <2>3
    <3>2. ids + c(k) <= m
      BY <1>17, <3>1
    <3>3. ids + c(k) \in 0 .. MaxQuestions
      BY <1>16, <3>1, <3>2, QuizAssumption
    <3>4. QED
      BY <1>11, <1>12, <3>3
  <2>4. QED
    BY <2>2, <2>3
<1>19. next \in Seq(Question)
  <2>1. next \in [1 .. Len(qs) -> Question]
    BY <1>1, <1>4, <1>11, <1>18
  <2>2. QED
    BY <1>1, <2>1, SeqDef
<1> DEFINE later == [i \in 1 .. MaxQuestions |->
                       IF \E k \in new : ids + c(k) = i
                       THEN qs[CHOOSE k \in new : ids + c(k) = i].topic ELSE about[i]]
<1>20. later \in About
  <2>1. ASSUME NEW i \in 1 .. MaxQuestions
        PROVE  later[i] \in Topics \cup {0}
    <3>1. CASE \E k \in new : ids + c(k) = i
      <4>1. PICK k : k \in new /\ later[i] = qs[k].topic
        BY <3>1
      <4>2. qs[k] \in Question
        BY <1>2, <1>10, <4>1
      <4>3. QED
        BY <4>1, <4>2 DEF Question
    <3>2. CASE ~\E k \in new : ids + c(k) = i
      BY <3>2 DEF About
    <3>3. QED
      BY <3>1, <3>2
  <2>2. QED
    BY <2>1 DEF About
<1>21. \A i \in 1 .. MaxQuestions : i <= ids => later[i] = about[i]
  BY <1>8, QuizAssumption
<1>22. \A k \in new : ids + c(k) \in 1 .. MaxQuestions /\ later[ids + c(k)] = qs[k].topic
  <2>1. TAKE k \in new
  <2>2. next[k].id = ids + c(k)
    BY <1>10, <1>12
  <2>3. ids + c(k) \in 1 .. MaxQuestions
    BY <1>8, <1>10, <1>11, <1>16, <1>17, <2>2, QuizAssumption
  <2>4. PICK j \in new : ids + c(j) = ids + c(k) /\ later[ids + c(k)] = qs[j].topic
    BY <2>3
  <2>5. j = k
    <3>1. c(j) = c(k)
      BY <1>8, <2>4
    <3>2. j \in DOMAIN qs /\ k \in DOMAIN qs /\ j \in Nat /\ k \in Nat
      BY <1>1, <1>10
    <3>3. ~(j < k) /\ ~(k < j)
      BY <1>7, <1>8, <3>1, <3>2
    <3>4. QED
      BY <3>2, <3>3
  <2>6. QED
    BY <2>3, <2>4, <2>5
<1> HIDE DEF later
<1>23. Agrees(about, later, ids)
  <2>1. ids <= MaxQuestions
    BY <1>16, QuizAssumption
  <2>2. QED
    BY <1>21, <2>1, QuizAssumption DEF Agrees
<1>24. Final(next)
  <2>1. ASSUME NEW k \in DOMAIN next PROVE next[k].id # 0
    BY <1>3, <1>8, <1>9, <1>10, <1>11, <1>12
  <2>2. QED
    BY <2>1 DEF Final
<1>25. \A k \in DOMAIN next : next[k].topic = later[next[k].id]
  <2>1. TAKE k \in DOMAIN next
  <2>2. CASE qs[k].id \in known
    <3>1. next[k].id = qs[k].id /\ next[k].topic = qs[k].topic /\ qs[k].id # 0 /\ qs[k].id <= ids
      BY <1>3, <1>11, <1>12, <2>2
    <3>2. qs[k].topic = about[qs[k].id]
      BY <1>11, <3>1 DEF Named
    <3>3. qs[k].id \in 1 .. MaxQuestions
      BY <1>2, <1>11, <1>16, <3>1, QuizAssumption
    <3>4. QED
      BY <1>21, <3>1, <3>2, <3>3
  <2>3. CASE qs[k].id \notin known
    BY <1>9, <1>11, <1>12, <1>22, <2>3
  <2>4. QED
    BY <2>2, <2>3
<1>26. \A j, k \in DOMAIN next : next[j].topic = next[k].topic => j = k
  BY <1>11, <1>12 DEF Named
<1>27. Named(later, m, next)
  BY <1>17, <1>19, <1>25, <1>26 DEF Named
<1>28. QED
  BY <1>16, <1>20, <1>23, <1>24, <1>27 DEF next

-----------------------------------------------------------------------------
(* Every step keeps it. *)

\* A step of a page that asks for nothing.
LEMMA SheetStep ==
  ASSUME QuizInv, NEW about \in About, QuizSound(about), NEW p \in Pages,
         NEW s, SheetSound(about, ids, s), SheetBecomes(p, s)
  PROVE  QuizInv'
<1>1. s \in Sheet
  BY DEF SheetSound
<1>2. /\ sheet' = [sheet EXCEPT ![p] = s]
      /\ quiz' = quiz /\ ids' = ids /\ action' = action /\ attempts' = attempts
  BY DEF SheetBecomes
<1>3. sheet' \in [Pages -> Sheet] /\ \A u \in Pages : sheet'[u] = IF u = p THEN s ELSE sheet[u]
  BY <1>1, <1>2 DEF QuizInv
<1>4. QuizSound(about)'
  BY <1>2, <1>3 DEF QuizSound
<1>5. AllEarned'
  BY <1>2 DEF QuizInv, AllEarned
<1>6. QED
  BY <1>2, <1>3, <1>4, <1>5 DEF QuizInv

\* A server action that goes on, or ends.
LEMMA ActionStep ==
  ASSUME QuizInv, NEW about \in About, QuizSound(about), NEW p \in Pages,
         NEW later \in About, Agrees(about, later, ids),
         ids' \in 0 .. MaxQuestions, ids <= ids',
         NEW s, SheetSound(later, ids', s), sheet' = [sheet EXCEPT ![p] = s],
         NEW a, ActionSound(later, ids', a), action' = [action EXCEPT ![p] = a],
         Named(later, ids', quiz'), Final(quiz'), AllEarned'
  PROVE  QuizInv'
<1>1. s \in Sheet /\ a \in Action
  BY DEF SheetSound, ActionSound
<1>2. sheet' \in [Pages -> Sheet] /\ \A u \in Pages : sheet'[u] = IF u = p THEN s ELSE sheet[u]
  BY <1>1 DEF QuizInv
<1>3. action' \in [Pages -> Action] /\ \A u \in Pages : action'[u] = IF u = p THEN a ELSE action[u]
  BY <1>1 DEF QuizInv
<1>4. ids \in Nat /\ ids' \in Nat
  BY QuizAssumption DEF QuizInv
<1>5. /\ \A t : SheetSound(about, ids, t) => SheetSound(later, ids', t)
      /\ \A t : ActionSound(about, ids, t) => ActionSound(later, ids', t)
  <2>1. PICK m \in Nat : m = ids'
    BY <1>4
  <2>2. ids <= m
    BY <2>1
  <2>3. /\ \A t : SheetSound(about, ids, t) => SheetSound(later, m, t)
        /\ \A t : ActionSound(about, ids, t) => ActionSound(later, m, t)
    BY <1>4, <2>2, SheetLater
  <2>4. QED
    BY <2>1, <2>3
<1>6. QuizSound(later)'
  BY <1>2, <1>3, <1>5 DEF QuizSound
<1>7. QED
  BY <1>2, <1>3, <1>6 DEF QuizInv

LEMMA SameAgrees == ASSUME NEW about, NEW n PROVE Agrees(about, about, n)
BY DEF Agrees

LEMMA PageSound ==
  ASSUME QuizInv, NEW about \in About, QuizSound(about), NEW p \in Pages
  PROVE  /\ SheetSound(about, ids, sheet[p]) /\ ActionSound(about, ids, action[p])
         /\ sheet[p] \in Sheet /\ action[p] \in Action /\ ids \in Nat
         /\ Named(about, ids, quiz) /\ Final(quiz)
BY QuizAssumption DEF QuizInv, QuizSound

LEMMA ReadQuizKeeps ==
  ASSUME QuizInv, NEW about \in About, QuizSound(about), NEW p \in Pages, ReadQuiz(p)
  PROVE  QuizInv'
<1> DEFINE sent  == Head(sheet[p].asked).questions
           whole == Picked(sent, {k \in DOMAIN sent : Whole(sent[k])})
           next  == Minted(whole)
           a     == [NoAction EXCEPT !.next = "write", !.sent = sent, !.questions = next]
           s     == [sheet[p] EXCEPT !.asked = Tail(@)]
<1>1. /\ SheetSound(about, ids, sheet[p]) /\ ids \in Nat /\ sheet[p] \in Sheet
      /\ Named(about, ids, quiz) /\ Final(quiz)
  BY PageSound
<1>2. sheet[p].asked # <<>>
  BY DEF ReadQuiz, Waits
<1>3. SheetSound(about, ids, s) /\ Named(about, ids, sent)
  BY <1>1, <1>2, TakenSound
<1>4. Named(about, ids, whole)
  <2>1. sent \in Seq(Question)
    BY <1>3 DEF Named
  <2>2. PICK ks : ks = {k \in DOMAIN sent : Whole(sent[k])}
    OBVIOUS
  <2>3. Drawn(Question, Picked(sent, ks), sent)
    BY <2>1, <2>2, PickedDrawn
  <2>4. Named(about, ids, Picked(sent, ks))
    BY <1>3, <2>3, NamedDrawn, Zenon
  <2>5. QED
    BY <2>2, <2>4
<1>5. /\ ids' = Max({ids} \cup QuestionIds(next)) /\ ids' <= MaxQuestions
      /\ action' = [action EXCEPT ![p] = a]
      /\ sheet' = [sheet EXCEPT ![p] = s]
      /\ quiz' = quiz /\ attempts' = attempts
  <2>1. sheet' = [sheet EXCEPT ![p].asked = Tail(@)]
    BY DEF ReadQuiz
  <2>2. sheet' = [sheet EXCEPT ![p] = s]
    BY <2>1
  <2>3. QED
    BY <2>2, Zenon DEF ReadQuiz
<1> HIDE DEF whole, s
<1>6. PICK m : m = ids'
  OBVIOUS
<1>7. /\ m \in Nat /\ ids <= m
      /\ \E later \in About : /\ Agrees(about, later, ids)
                              /\ Named(later, m, next) /\ Final(next)
  <2>1. m = Max({ids} \cup QuestionIds(Minted(whole))) /\ m <= MaxQuestions
    BY <1>5, <1>6
  <2>2. QED
    BY <1>1, <1>4, <2>1, MintedSound
<1>8. PICK later \in About : Agrees(about, later, ids) /\ Named(later, m, next) /\ Final(next)
  BY <1>7
<1> HIDE DEF next
<1>9. /\ \A t : SheetSound(about, ids, t) => SheetSound(later, m, t)
      /\ Named(later, m, quiz) /\ Named(later, m, sent)
  BY <1>1, <1>3, <1>7, <1>8, SheetLater, NamedLater
<1>10. ActionSound(later, m, a)
  <2>1. NoAction \in Action
    BY BlankSound, <1>1
  <2>2. sent \in Seq(Question) /\ next \in Seq(Question)
    BY <1>8, <1>9 DEF Named
  <2>3. a \in Action /\ a.next = "write" /\ a.sent = sent /\ a.questions = next
    BY <2>1, <2>2 DEF Action
  <2> HIDE DEF a
  <2>4. QED
    BY <1>8, <1>9, <2>3 DEF ActionSound
<1> HIDE DEF a, sent
<1>11. SheetSound(later, m, s)
  BY <1>3, <1>9
<1>12. AllEarned'
  BY <1>5 DEF QuizInv, AllEarned
<1>13. ids' \in 0 .. MaxQuestions /\ ids <= ids'
  BY <1>5, <1>6, <1>7, QuizAssumption
<1>14. Named(later, ids', quiz') /\ Final(quiz')
  BY <1>1, <1>5, <1>6, <1>9
<1>15. QED
  BY <1>5, <1>6, <1>8, <1>10, <1>11, <1>12, <1>13, <1>14, ActionStep

LEMMA WriteQuizKeeps ==
  ASSUME QuizInv, NEW about \in About, QuizSound(about), NEW p \in Pages, WriteQuiz(p)
  PROVE  QuizInv'
<1> DEFINE sent  == action[p].sent
           ks    == {k \in DOMAIN sent : sent[k].prompt # Empty}
           shown == Picked(sent, ks)
           s     == [sheet[p] EXCEPT !.questions = shown, !.answers = Blank.answers,
                                     !.chosen = Blank.chosen, !.scored = FALSE]
<1>1. /\ SheetSound(about, ids, sheet[p]) /\ ActionSound(about, ids, action[p])
      /\ sheet[p] \in Sheet /\ ids \in Nat
  BY PageSound
<1>2. /\ sheet' = [sheet EXCEPT ![p] = s] /\ action' = [action EXCEPT ![p] = NoAction]
      /\ quiz' = action[p].questions /\ ids' = ids /\ attempts' = attempts
      /\ action[p].next = "write"
  BY DEF WriteQuiz
<1>3. SheetSound(about, ids, s)
  <2>1. Named(about, ids, sent) /\ sent \in Seq(Question) /\ ks \subseteq DOMAIN sent
    BY <1>1 DEF ActionSound, Named
  <2> HIDE DEF ks, sent
  <2>2. Drawn(Question, shown, sent)
    BY <2>1, PickedDrawn
  <2> HIDE DEF shown
  <2>3. Named(about, ids, shown)
    BY <2>1, <2>2, NamedDrawn
  <2>4. QED
    BY <1>1, <2>3, CleanSound, Zenon
<1> HIDE DEF s
<1>4. Named(about, ids', quiz') /\ Final(quiz')
  BY <1>1, <1>2 DEF ActionSound
<1>5. ActionSound(about, ids', NoAction) /\ SheetSound(about, ids', s)
  BY <1>1, <1>2, <1>3, BlankSound
<1>6. AllEarned'
  BY <1>2 DEF QuizInv, AllEarned
<1>7. ids' \in 0 .. MaxQuestions /\ ids <= ids'
  BY <1>1, <1>2 DEF QuizInv
<1>8. QED
  BY <1>2, <1>4, <1>5, <1>6, <1>7, SameAgrees, ActionStep

\* What is credited is what was chosen, for the quiz as it is by now.
LEMMA ReadAndGradeKeeps ==
  ASSUME QuizInv, NEW about \in About, QuizSound(about), NEW p \in Pages, ReadAndGrade(p)
  PROVE  QuizInv'
<1> DEFINE asked    == Head(sheet[p].asked)
           ks       == {k \in DOMAIN quiz : quiz[k].correct # 0 /\ asked.answers[quiz[k].id] = quiz[k].correct}
           credited == Picked(quiz, ks)
           a        == [NoAction EXCEPT !.next = "insert", !.chosen = asked.chosen, !.questions = credited]
           s        == [sheet[p] EXCEPT !.asked = Tail(@)]
<1>1. /\ SheetSound(about, ids, sheet[p]) /\ ids \in Nat /\ sheet[p] \in Sheet
      /\ Named(about, ids, quiz) /\ Final(quiz)
  BY PageSound
<1>2. sheet[p].asked # <<>>
  BY DEF ReadAndGrade, Waits
<1>3. /\ SheetSound(about, ids, s) /\ asked \in Request /\ Fits(about, ids, asked.answers, asked.chosen)
  BY <1>1, <1>2, TakenSound
<1>4. /\ sheet' = [sheet EXCEPT ![p] = s] /\ action' = [action EXCEPT ![p] = a]
      /\ quiz' = quiz /\ ids' = ids /\ attempts' = attempts
  <2>1. sheet' = [sheet EXCEPT ![p].asked = Tail(@)]
    BY DEF ReadAndGrade
  <2>2. sheet' = [sheet EXCEPT ![p] = s]
    BY <2>1
  <2>3. QED
    BY <2>2 DEF ReadAndGrade, Credited
<1>5. quiz \in Seq(Question)
  BY <1>1 DEF Named
<1>6. /\ Drawn(Question, credited, quiz)
      /\ \A n \in DOMAIN credited : \E k \in ks : credited[n] = quiz[k]
  <2>1. ks \subseteq DOMAIN quiz
    OBVIOUS
  <2> HIDE DEF ks
  <2>2. QED
    BY <1>5, <2>1, PickedDrawn
<1>7. Named(about, ids, credited)
  <2> HIDE DEF credited
  <2>1. QED
    BY <1>1, <1>6, NamedDrawn
<1>8. Earned(credited, asked.chosen)
  <2>1. ASSUME NEW k \in ks
        PROVE  quiz[k].correct # 0 /\ asked.chosen[quiz[k].topic].place = quiz[k].correct
    <3>1. quiz[k] \in Question /\ quiz[k].id \in 0 .. MaxQuestions /\ quiz[k].id # 0
      <4>1. quiz[k] \in Question
        BY <1>5, LenProperties, ElementOfSeq
      <4>2. QED
        BY <1>1, <4>1 DEF Question, Final
    <3>2. quiz[k].id \in 1 .. MaxQuestions /\ quiz[k].topic = about[quiz[k].id]
      BY <1>1, <3>1, QuizAssumption DEF Named
    <3>3. asked.answers[quiz[k].id] = quiz[k].correct /\ quiz[k].correct # 0
      OBVIOUS
    <3>4. asked.chosen[about[quiz[k].id]].place = asked.answers[quiz[k].id]
      BY <1>3, <3>2, <3>3, Zenon DEF Fits
    <3>5. QED
      BY <3>2, <3>3, <3>4
  <2> HIDE DEF ks, credited, asked
  <2>2. QED
    BY <1>6, <2>1 DEF Earned
<1>9. ActionSound(about, ids, a)
  <2>1. NoAction \in Action /\ ActionSound(about, ids, NoAction)
    BY <1>1, BlankSound
  <2>2. credited \in Seq(Question) /\ asked.chosen \in Clicks
    BY <1>3, <1>7, Zenon DEF Named, Request
  <2> HIDE DEF credited, asked
  <2>3. /\ a \in Action /\ a.next = "insert" /\ a.sent = NoAction.sent
        /\ a.questions = credited /\ a.chosen = asked.chosen
    BY <2>1, <2>2 DEF Action
  <2> HIDE DEF a
  <2>4. QED
    BY <1>7, <1>8, <2>1, <2>3 DEF ActionSound
<1> HIDE DEF a, s
<1>10. AllEarned'
  BY <1>4 DEF QuizInv, AllEarned
<1>11. ids' \in 0 .. MaxQuestions /\ ids <= ids'
  BY <1>1, <1>4 DEF QuizInv
<1>12. QED
  BY <1>1, <1>3, <1>4, <1>9, <1>10, <1>11, SameAgrees, ActionStep

LEMMA InsertAttemptKeeps ==
  ASSUME QuizInv, NEW about \in About, QuizSound(about), NEW p \in Pages, InsertAttempt(p)
  PROVE  QuizInv'
<1> DEFINE s == [sheet[p] EXCEPT !.scored = TRUE]
<1>1. /\ SheetSound(about, ids, sheet[p]) /\ ActionSound(about, ids, action[p])
      /\ sheet[p] \in Sheet /\ ids \in Nat /\ Named(about, ids, quiz) /\ Final(quiz)
  BY PageSound
<1>2. /\ action' = [action EXCEPT ![p] = NoAction]
      /\ attempts' = attempts \cup {[credited |-> action[p].questions, chosen |-> action[p].chosen]}
      /\ quiz' = quiz /\ ids' = ids /\ action[p].next = "insert"
  BY DEF InsertAttempt
<1>3. sheet' = [sheet EXCEPT ![p] = s]
  <2>1. sheet' = [sheet EXCEPT ![p].scored = TRUE]
    BY DEF InsertAttempt
  <2>2. QED
    BY <2>1
<1>4. SheetSound(about, ids, s)
  BY <1>1, ScoredSound
<1> HIDE DEF s
<1>5. ActionSound(about, ids, NoAction)
  BY <1>1, BlankSound
<1>6. Earned(action[p].questions, action[p].chosen)
  BY <1>1, <1>2 DEF ActionSound
<1>7. AllEarned'
  BY <1>2, <1>6 DEF QuizInv, AllEarned, Earned
<1>8. ids' \in 0 .. MaxQuestions /\ ids <= ids'
  BY <1>1, <1>2 DEF QuizInv
<1>9. QED
  BY <1>1, <1>2, <1>3, <1>4, <1>5, <1>7, <1>8, SameAgrees, ActionStep

\* What the student does on a page.
LEMMA StudentKeeps ==
  ASSUME QuizInv, NEW about \in About, QuizSound(about), NEW p \in Pages,
         \/ OpenQuiz(p) \/ Submit(p) \/ Retake(p) \/ Edit(p) \/ Take(p)
         \/ \E k \in DOMAIN sheet[p].questions, o \in 1 .. MaxOptions : Choose(p, k, o)
  PROVE  QuizInv'
<1>1. /\ SheetSound(about, ids, sheet[p]) /\ sheet[p] \in Sheet /\ ids \in Nat
      /\ Named(about, ids, quiz)
  BY PageSound
<1>2. /\ Named(about, ids, sheet[p].questions) /\ Named(about, ids, sheet[p].rows)
      /\ Fits(about, ids, sheet[p].answers, sheet[p].chosen)
      /\ sheet[p].answers \in Marks /\ sheet[p].chosen \in Clicks
  BY <1>1, FieldsOfSheet DEF SheetSound
<1>3. CASE OpenQuiz(p)
  <2>1. SheetSound(about, ids, [Blank EXCEPT !.at = "take", !.questions = quiz])
    BY <1>1, OpenSound, Zenon
  <2>2. QED
    BY <1>3, <2>1, SheetStep DEF OpenQuiz
<1>4. CASE Submit(p)
  <2> DEFINE r == [kind |-> "submit", questions |-> <<>>, answers |-> sheet[p].answers,
                   chosen |-> sheet[p].chosen]
             s == [sheet[p] EXCEPT !.asked = Append(@, r)]
  <2>1. Named(about, ids, <<>>) /\ <<>> \in Seq(Question)
    BY <1>1, BlankSound DEF Named
  <2>2. /\ r \in Request /\ r.questions = <<>> /\ r.answers = sheet[p].answers
        /\ r.chosen = sheet[p].chosen
    BY <1>2, <2>1 DEF Request
  <2>3. SheetBecomes(p, s)
    BY <1>4 DEF Submit
  <2> HIDE DEF r
  <2>4. SheetSound(about, ids, [sheet[p] EXCEPT !.rows = sheet[p].rows, !.asked = Append(@, r)])
    BY <1>1, <1>2, <2>1, <2>2, AskSound, Zenon
  <2>5. [sheet[p] EXCEPT !.rows = sheet[p].rows, !.asked = Append(@, r)] = s
    BY <1>1 DEF Sheet
  <2>6. SheetSound(about, ids, s)
    BY <2>4, <2>5
  <2> HIDE DEF s
  <2>7. QED
    BY <2>3, <2>6, SheetStep
<1>5. CASE Retake(p)
  <2>1. SheetSound(about, ids, [sheet[p] EXCEPT !.answers = Blank.answers, !.chosen = Blank.chosen,
                                                !.scored = FALSE])
    BY <1>1, CleanSound, Zenon
  <2>2. QED
    BY <1>5, <2>1, SheetStep DEF Retake
<1>6. CASE Edit(p)
  <2>1. SheetSound(about, ids, [sheet[p] EXCEPT !.at = "edit", !.rows = sheet[p].questions])
    BY <1>1, <1>2, EditSound, Zenon
  <2>2. QED
    BY <1>6, <2>1, SheetStep DEF Edit
<1>7. CASE Take(p)
  <2>1. Named(about, ids, <<>>)
    BY <1>1, BlankSound
  <2>2. SheetSound(about, ids, [sheet[p] EXCEPT !.at = "take", !.rows = <<>>])
    BY <1>1, <2>1, EditSound, Zenon
  <2>3. QED
    BY <1>7, <2>2, SheetStep DEF Take
<1>8. CASE \E k \in DOMAIN sheet[p].questions, o \in 1 .. MaxOptions : Choose(p, k, o)
  <2>1. PICK k \in DOMAIN sheet[p].questions, o \in 1 .. MaxOptions : Choose(p, k, o)
    BY <1>8
  <2> DEFINE q     == sheet[p].questions[k]
             sight == [place |-> o, options |-> q.options]
             s     == [sheet[p] EXCEPT !.answers[q.id] = o, !.chosen[q.topic] = sight]
  <2>2. sight \in Sight /\ sight.place = o
    <3>1. q \in Question
      BY <1>2, LenProperties, ElementOfSeq DEF Named
    <3>2. q.options \in Seq(Texts) /\ o \in 0 .. MaxOptions
      BY <3>1, QuizAssumption DEF Question
    <3>3. QED
      BY <3>2 DEF Sight
  <2>5. SheetSound(about, ids, s)
    <3> HIDE DEF sight
    <3>1. QED
      BY <1>1, <2>2, ChooseSound, Zenon
  <2>3. SheetBecomes(p, s)
    BY <2>1, Zenon DEF Choose
  <2> HIDE DEF s
  <2>4. QED
    BY <2>3, <2>5, SheetStep
<1>9. QED
  BY <1>3, <1>4, <1>5, <1>6, <1>7, <1>8

\* The editor saves its questions.
LEMMA SaveQuestionsKeeps ==
  ASSUME QuizInv, NEW about \in About, QuizSound(about), NEW p \in Pages,
         NEW qs, Named(about, ids, qs), SaveQuestions(p, qs)
  PROVE  QuizInv'
<1> DEFINE r == [kind |-> "save", questions |-> qs, answers |-> Blank.answers, chosen |-> Blank.chosen]
           s == [sheet[p] EXCEPT !.rows = qs, !.asked = Append(@, r)]
<1>1. SheetSound(about, ids, sheet[p]) /\ ids \in Nat
  BY PageSound
<1>2. /\ Blank.answers \in Marks /\ Blank.chosen \in Clicks
      /\ Fits(about, ids, Blank.answers, Blank.chosen)
  BY <1>1, BlankSound
<1>3. r \in Request /\ r.questions = qs /\ r.answers = Blank.answers /\ r.chosen = Blank.chosen
  <2>1. qs \in Seq(Question)
    BY DEF Named
  <2>2. PICK answers \in Marks, chosen \in Clicks : answers = Blank.answers /\ chosen = Blank.chosen
    BY <1>2
  <2>3. [kind |-> "save", questions |-> qs, answers |-> answers, chosen |-> chosen] \in Request
    BY <2>1 DEF Request
  <2>4. QED
    BY <2>2, <2>3
<1>4. SheetBecomes(p, s)
  BY DEF SaveQuestions
<1> HIDE DEF r
<1>5. SheetSound(about, ids, s)
  BY <1>1, <1>2, <1>3, AskSound, Zenon
<1> HIDE DEF s
<1>6. QED
  BY <1>4, <1>5, SheetStep

\* A row, or an option of one, is added to what the editor shows.
LEMMA GrowKeeps ==
  ASSUME QuizInv, NEW about \in About, QuizSound(about), NEW p \in Pages,
         NEW qs, Named(about, ids, qs), Grow(p, qs)
  PROVE  QuizInv'
<1> DEFINE s == [sheet[p] EXCEPT !.rows = qs]
<1>1. SheetSound(about, ids, sheet[p]) /\ ids \in Nat /\ sheet[p] \in Sheet /\ sheet[p].at = "edit"
  BY PageSound DEF Grow
<1>2. SheetSound(about, ids, [sheet[p] EXCEPT !.at = "edit", !.rows = qs])
  BY <1>1, EditSound, Zenon
<1>3. [sheet[p] EXCEPT !.at = "edit", !.rows = qs] = s
  BY <1>1 DEF Sheet
<1>4. SheetBecomes(p, s)
  BY DEF Grow
<1>5. SheetSound(about, ids, s)
  BY <1>2, <1>3
<1> HIDE DEF s
<1>6. QED
  BY <1>4, <1>5, SheetStep

\* A question's prompt, options and mark may change: its id and its topic stay.
LEMMA RewrittenIs ==
  ASSUME NEW q \in Question
  PROVE  /\ \A text \in Texts : [q EXCEPT !.prompt = text] \in Question
         /\ \A o \in 0 .. MaxOptions : [q EXCEPT !.correct = o] \in Question
         /\ \A os \in Seq(Texts), o \in 0 .. MaxOptions :
              [q EXCEPT !.options = os, !.correct = o] \in Question
         /\ q.options \in Seq(Texts) /\ q.correct \in 0 .. MaxOptions
BY Zenon DEF Question

LEMMA RowRewritten ==
  ASSUME NEW about, NEW n, NEW s, Named(about, n, s), NEW k \in DOMAIN s
  PROVE  /\ s[k] \in Question
         /\ \A text \in Texts : Named(about, n, [s EXCEPT ![k] = [s[k] EXCEPT !.prompt = text]])
         /\ \A o \in 0 .. MaxOptions : Named(about, n, [s EXCEPT ![k] = [s[k] EXCEPT !.correct = o]])
         /\ \A os \in Seq(Texts), o \in 0 .. MaxOptions :
              Named(about, n, [s EXCEPT ![k] = [s[k] EXCEPT !.options = os, !.correct = o]])
<1>1. s[k] \in Question
  BY LenProperties, ElementOfSeq DEF Named
<1>2. ASSUME NEW text \in Texts
      PROVE  Named(about, n, [s EXCEPT ![k] = [s[k] EXCEPT !.prompt = text]])
  <2> DEFINE q == [s[k] EXCEPT !.prompt = text]
  <2>1. q \in Question
    BY <1>1, RewrittenIs, Zenon
  <2>2. q.id = s[k].id /\ q.topic = s[k].topic
    BY <1>1 DEF Question
  <2> HIDE DEF q
  <2>3. Named(about, n, [s EXCEPT ![k] = q])
    BY <2>1, <2>2, NamedExcept
  <2>4. QED
    BY <2>3 DEF q
<1>3. ASSUME NEW o \in 0 .. MaxOptions
      PROVE  Named(about, n, [s EXCEPT ![k] = [s[k] EXCEPT !.correct = o]])
  <2> DEFINE q == [s[k] EXCEPT !.correct = o]
  <2>1. q \in Question
    BY <1>1, RewrittenIs, Zenon
  <2>2. q.id = s[k].id /\ q.topic = s[k].topic
    BY <1>1 DEF Question
  <2> HIDE DEF q
  <2>3. Named(about, n, [s EXCEPT ![k] = q])
    BY <2>1, <2>2, NamedExcept
  <2>4. QED
    BY <2>3 DEF q
<1>4. ASSUME NEW os \in Seq(Texts), NEW o \in 0 .. MaxOptions
      PROVE  Named(about, n, [s EXCEPT ![k] = [s[k] EXCEPT !.options = os, !.correct = o]])
  <2> DEFINE q == [s[k] EXCEPT !.options = os, !.correct = o]
  <2>1. q \in Question
    BY <1>1, RewrittenIs, Zenon
  <2>2. q.id = s[k].id /\ q.topic = s[k].topic
    BY <1>1 DEF Question
  <2> HIDE DEF q
  <2>3. Named(about, n, [s EXCEPT ![k] = q])
    BY <2>1, <2>2, NamedExcept
  <2>4. QED
    BY <2>3 DEF q
<1>5. QED
  BY <1>1, <1>2, <1>3, <1>4, Zenon

\* What the student types, marks and takes away in a row.
LEMMA RowKeeps ==
  ASSUME QuizInv, NEW about \in About, QuizSound(about), NEW p \in Pages,
         NEW k \in DOMAIN sheet[p].rows,
         \/ AddOption(p, k)
         \/ \E text \in Texts : RetypePrompt(p, k, text)
         \/ \E o \in 1 .. MaxOptions :
              \/ MarkCorrect(p, k, o) \/ RemoveOption(p, k, o)
              \/ \E text \in Texts : RetypeOption(p, k, o, text)
  PROVE  QuizInv'
<1> DEFINE list == sheet[p].rows
           q    == list[k]
<1>1. Named(about, ids, list) /\ ids \in Nat
  BY PageSound DEF SheetSound
<1>2. /\ q \in Question
      /\ \A text \in Texts : Named(about, ids, [list EXCEPT ![k] = [q EXCEPT !.prompt = text]])
      /\ \A o \in 0 .. MaxOptions : Named(about, ids, [list EXCEPT ![k] = [q EXCEPT !.correct = o]])
      /\ \A os \in Seq(Texts), o \in 0 .. MaxOptions :
           Named(about, ids, [list EXCEPT ![k] = [q EXCEPT !.options = os, !.correct = o]])
  BY <1>1, RowRewritten, Zenon
<1>3. q.options \in Seq(Texts) /\ q.correct \in 0 .. MaxOptions
  BY <1>2, RewrittenIs, Zenon
<1>4. ASSUME NEW os \in Seq(Texts)
      PROVE  Named(about, ids, [list EXCEPT ![k].options = os])
  <2>1. [q EXCEPT !.options = os, !.correct = q.correct] = [q EXCEPT !.options = os]
    BY <1>2, Zenon DEF Question
  <2>2. Named(about, ids, [list EXCEPT ![k] = [q EXCEPT !.options = os]])
    BY <1>2, <1>3, <2>1, Zenon
  <2>3. QED
    BY <2>2
<1>5. CASE AddOption(p, k)
  <2>1. Append(q.options, Empty) \in Seq(Texts)
    BY <1>3, QuizAssumption, AppendProperties
  <2>2. Grow(p, [list EXCEPT ![k].options = Append(q.options, Empty)])
    BY <1>5 DEF AddOption
  <2>3. QED
    BY <1>4, <2>1, <2>2, GrowKeeps
<1>6. ASSUME NEW text \in Texts, RetypePrompt(p, k, text)
      PROVE  QuizInv'
  <2>1. SaveQuestions(p, [list EXCEPT ![k] = [q EXCEPT !.prompt = text]])
    BY <1>6 DEF RetypePrompt
  <2>2. Named(about, ids, [list EXCEPT ![k] = [q EXCEPT !.prompt = text]])
    BY <1>2, Zenon
  <2>3. QED
    BY <2>1, <2>2, SaveQuestionsKeeps
<1>7. ASSUME NEW o \in 1 .. MaxOptions, MarkCorrect(p, k, o)
      PROVE  QuizInv'
  <2>1. SaveQuestions(p, [list EXCEPT ![k] = [q EXCEPT !.correct = o]])
    BY <1>7 DEF MarkCorrect
  <2>2. Named(about, ids, [list EXCEPT ![k] = [q EXCEPT !.correct = o]])
    <3>1. o \in 0 .. MaxOptions
      BY QuizAssumption
    <3>2. QED
      BY <1>2, <3>1, Zenon
  <2>3. QED
    BY <2>1, <2>2, SaveQuestionsKeeps
<1>8. ASSUME NEW o \in 1 .. MaxOptions, RemoveOption(p, k, o)
      PROVE  QuizInv'
  <2> DEFINE os   == RemoveAt(q.options, o)
             mark == IF q.correct >= o THEN Max({1, q.correct - 1}) ELSE q.correct
  <2>1. os \in Seq(Texts)
    BY <1>3, <1>8, RemoveAtIs, Zenon DEF RemoveOption
  <2>2. mark \in 0 .. MaxOptions
    <3>1. CASE q.correct >= o
      <4>1. q.correct - 1 \in Nat /\ q.correct - 1 <= MaxOptions /\ 1 \in Nat
        BY <1>3, <3>1, QuizAssumption
      <4>2. \E m \in {1, q.correct - 1} : \A y \in {1, q.correct - 1} : m >= y
        BY <4>1
      <4>3. Max({1, q.correct - 1}) \in {1, q.correct - 1}
        BY <4>2 DEF Max
      <4>4. QED
        BY <3>1, <4>1, <4>3, QuizAssumption
    <3>2. CASE ~(q.correct >= o)
      BY <1>3, <3>2
    <3>3. QED
      BY <3>1, <3>2
  <2>3. SaveQuestions(p, [list EXCEPT ![k] = [q EXCEPT !.options = os, !.correct = mark]])
    BY <1>8, Zenon DEF RemoveOption
  <2>4. Named(about, ids, [list EXCEPT ![k] = [q EXCEPT !.options = os, !.correct = mark]])
    <3> HIDE DEF os, mark
    <3>1. QED
      BY <1>2, <2>1, <2>2, Zenon
  <2> HIDE DEF os, mark
  <2>5. QED
    BY <2>3, <2>4, SaveQuestionsKeeps
<1>9. ASSUME NEW o \in 1 .. MaxOptions, NEW text \in Texts, RetypeOption(p, k, o, text)
      PROVE  QuizInv'
  <2>1. [q.options EXCEPT ![o] = text] \in Seq(Texts)
    <3>1. o \in 1 .. Len(q.options) /\ text \in Texts
      BY <1>1, <1>3, <1>9, LenProperties DEF RetypeOption
    <3>2. QED
      BY <1>3, <3>1, ExceptSeq
  <2>2. SaveQuestions(p, [list EXCEPT ![k].options = [q.options EXCEPT ![o] = text]])
    BY <1>9 DEF RetypeOption
  <2>3. QED
    BY <1>4, <2>1, <2>2, SaveQuestionsKeeps
<1>10. QED
  BY <1>5, <1>6, <1>7, <1>8, <1>9

LEMMA EditorKeeps ==
  ASSUME QuizInv, NEW about \in About, QuizSound(about), NEW p \in Pages,
         \/ \E topic \in Topics : AddQuestion(p, topic)
         \/ \E k \in DOMAIN sheet[p].rows : RemoveQuestion(p, k) \/ MoveQuestion(p, k)
  PROVE  QuizInv'
<1>1. Named(about, ids, sheet[p].rows) /\ ids \in Nat
  BY PageSound DEF SheetSound
<1>2. sheet[p].rows \in Seq(Question)
  BY <1>1 DEF Named
<1>3. ASSUME NEW topic \in Topics, AddQuestion(p, topic)
      PROVE  QuizInv'
  <2> DEFINE q == [id |-> 0, topic |-> topic, prompt |-> Empty, options |-> <<Empty, Empty>>,
                   correct |-> 1]
  <2>1. <<Empty, Empty>> \in Seq(Texts)
    BY QuizAssumption
  <2>2. q \in Question /\ q.id = 0 /\ q.topic = topic
    BY <2>1, QuizAssumption DEF Question
  <2>3. \A k \in DOMAIN sheet[p].rows : sheet[p].rows[k].topic # topic
    BY <1>3 DEF AddQuestion
  <2>4. Grow(p, Append(sheet[p].rows, q))
    BY <1>3 DEF AddQuestion
  <2> HIDE DEF q
  <2>5. Named(about, ids, Append(sheet[p].rows, q))
    BY <1>1, <2>2, <2>3, NamedAppend
  <2>6. QED
    BY <2>4, <2>5, GrowKeeps
<1>4. ASSUME NEW k \in DOMAIN sheet[p].rows, RemoveQuestion(p, k)
      PROVE  QuizInv'
  <2>1. Named(about, ids, RemoveAt(sheet[p].rows, k))
    BY <1>1, <1>2, RemoveAtDrawn, NamedDrawn
  <2>2. QED
    BY <1>4, <2>1, SaveQuestionsKeeps DEF RemoveQuestion
<1>5. ASSUME NEW k \in DOMAIN sheet[p].rows, MoveQuestion(p, k)
      PROVE  QuizInv'
  <2>1. Named(about, ids, <<sheet[p].rows[k]>> \o RemoveAt(sheet[p].rows, k))
    BY <1>1, <1>2, ToTopDrawn, NamedDrawn
  <2>2. QED
    BY <1>5, <2>1, SaveQuestionsKeeps DEF MoveQuestion
<1>6. QED
  BY <1>3, <1>4, <1>5

LEMMA InitQuizInv == QuizInit => QuizInv
<1> SUFFICES ASSUME QuizInit PROVE QuizInv
  OBVIOUS
<1> DEFINE about == [i \in 1 .. MaxQuestions |-> IF i \in DOMAIN quiz THEN quiz[i].topic ELSE 0]
<1>1. /\ quiz \in Seq(Question) /\ ids = Len(quiz)
      /\ \A k \in DOMAIN quiz :
           /\ quiz[k].id = k
           /\ \A j \in DOMAIN quiz : quiz[j].topic = quiz[k].topic => j = k
  <2>1. left \in QuizScenarios /\ quiz = left.questions /\ ids = Len(quiz)
    BY DEF QuizInit
  <2>2. left \in QuizScenario
    BY <2>1, QuizAssumption
  <2>3. left.questions \in Seq(Question)
    BY <2>2 DEF QuizScenario
  <2>4. QED
    BY <2>1, <2>3, QuizAssumption
<1>2. Len(quiz) \in Nat /\ DOMAIN quiz = 1 .. Len(quiz) /\ \A k \in DOMAIN quiz : quiz[k] \in Question
  BY <1>1, LenProperties, ElementOfSeq
<1>3. Len(quiz) <= MaxQuestions
  <2>1. CASE Len(quiz) = 0
    BY <2>1, QuizAssumption
  <2>2. CASE Len(quiz) # 0
    <3>1. Len(quiz) \in DOMAIN quiz
      BY <1>2, <2>2
    <3>2. quiz[Len(quiz)].id = Len(quiz) /\ quiz[Len(quiz)].id \in 0 .. MaxQuestions
      BY <1>1, <1>2, <3>1 DEF Question
    <3>3. QED
      BY <1>2, <3>2, QuizAssumption
  <2>3. QED
    BY <2>1, <2>2
<1>4. \A k \in DOMAIN quiz : k \in 1 .. MaxQuestions /\ quiz[k].topic \in Topics
  BY <1>2, <1>3, QuizAssumption DEF Question
<1>5. about \in About
  BY <1>4 DEF About
<1>6. \A k \in DOMAIN quiz : about[k] = quiz[k].topic
  BY <1>4
<1> HIDE DEF about
<1>7. ids \in 0 .. MaxQuestions /\ ids \in Nat
  BY <1>1, <1>2, <1>3, QuizAssumption
<1>8. Named(about, ids, quiz) /\ Final(quiz)
  <2>1. \A k \in DOMAIN quiz : quiz[k].id <= ids /\ quiz[k].id # 0 /\ quiz[k].topic = about[quiz[k].id]
    BY <1>1, <1>2, <1>6
  <2>2. QED
    BY <1>1, <2>1 DEF Named, Final
<1>9. /\ Blank \in Sheet /\ SheetSound(about, ids, Blank)
      /\ NoAction \in Action /\ ActionSound(about, ids, NoAction)
  BY <1>5, <1>7, BlankSound
<1>10. sheet = [p \in Pages |-> Blank] /\ action = [p \in Pages |-> NoAction] /\ attempts = {}
  BY DEF QuizInit
<1>11. QuizSound(about)
  BY <1>8, <1>9, <1>10 DEF QuizSound
<1>12. QED
  BY <1>5, <1>7, <1>9, <1>10, <1>11 DEF QuizInv, AllEarned

LEMMA StepQuizInv == QuizInv /\ [QuizNext]_quizVars => QuizInv'
<1> SUFFICES ASSUME QuizInv, [QuizNext]_quizVars PROVE QuizInv'
  OBVIOUS
<1>1. PICK about \in About : QuizSound(about)
  BY DEF QuizInv
<1>2. CASE UNCHANGED quizVars
  <2>1. QuizSound(about)'
    BY <1>1, <1>2 DEF quizVars, QuizSound
  <2>2. QED
    BY <1>2, <2>1 DEF quizVars, QuizInv, AllEarned
<1>3. CASE QuizNext
  <2>1. PICK p \in Pages :
          \/ ReadQuiz(p) \/ WriteQuiz(p) \/ ReadAndGrade(p) \/ InsertAttempt(p)
          \/ OpenQuiz(p) \/ Submit(p) \/ Retake(p) \/ Edit(p) \/ Take(p)
          \/ \E k \in DOMAIN sheet[p].questions, o \in 1 .. MaxOptions : Choose(p, k, o)
          \/ \E topic \in Topics : AddQuestion(p, topic)
          \/ \E k \in DOMAIN sheet[p].rows :
               \/ RemoveQuestion(p, k) \/ MoveQuestion(p, k) \/ AddOption(p, k)
               \/ \E text \in Texts : RetypePrompt(p, k, text)
               \/ \E o \in 1 .. MaxOptions :
                    \/ MarkCorrect(p, k, o) \/ RemoveOption(p, k, o)
                    \/ \E text \in Texts : RetypeOption(p, k, o, text)
    BY <1>3 DEF QuizNext
  <2>2. QED
    BY <1>1, <2>1, ReadQuizKeeps, WriteQuizKeeps, ReadAndGradeKeeps, InsertAttemptKeeps,
       StudentKeeps, EditorKeeps, RowKeeps
<1>4. QED
  BY <1>2, <1>3

\* The inductive invariant of the quiz: no id ever names two questions, and what a page
\* holds as answers, or sent off, is what was chosen for them.
THEOREM QuizInvariant == QuizSpec => []QuizInv
<1>1. QED
  BY InitQuizInv, StepQuizInv, PTL DEF QuizSpec

\* An answer counts as right only for the question it was given to, and only if its correct
\* option was chosen or its options were edited meanwhile, however many pages rewrite the
\* quiz while it is taken (QuizStudyView, gradeQuiz).
THEOREM CreditStays == QuizSpec => []CreditIsForItsQuestion
<1>1. AllEarned => CreditIsForItsQuestion
  <2> SUFFICES ASSUME AllEarned, NEW a \in attempts, NEW k \in DOMAIN a.credited
               PROVE  LET q == a.credited[k] IN
                      /\ Seen(a, q).place # 0
                      /\ Meant(a, q) = q.options[q.correct] \/ Seen(a, q).options # q.options
    BY DEF CreditIsForItsQuestion
  <2>1. a.credited[k].correct # 0 /\ a.chosen[a.credited[k].topic].place = a.credited[k].correct
    BY DEF AllEarned, Earned
  <2>2. QED
    BY <2>1 DEF Seen, Meant
<1>2. QuizInv => AllEarned
  BY DEF QuizInv
<1>3. QED
  BY <1>1, <1>2, QuizInvariant, PTL

-----------------------------------------------------------------------------
(* FlashcardDeck: the Learn queue. *)

\* The passes card c has ahead of it in queue q from place p on.
Ahead(q, p, c) == {k \in p .. Len(q) : q[k] = c}

LEMMA AheadFinite ==
  ASSUME NEW q \in Seq(Nat), NEW p \in Nat \ {0}, NEW c
  PROVE  IsFiniteSet(Ahead(q, p, c)) /\ Cardinality(Ahead(q, p, c)) \in Nat
<1>1. Len(q) \in Nat
  BY LenProperties
<1>2. Ahead(q, p, c) \subseteq 0 .. Len(q)
  BY <1>1 DEF Ahead
<1>3. QED
  BY <1>1, <1>2, BoundedIsFinite

\* A card that is passed has one less ahead.
LEMMA AheadPassed ==
  ASSUME NEW q \in Seq(Nat), NEW p \in Nat \ {0}, p <= Len(q), NEW c
  PROVE  Cardinality(Ahead(q, p, c)) = Cardinality(Ahead(q, p + 1, c)) + IF q[p] = c THEN 1 ELSE 0
<1>1. Len(q) \in Nat
  BY LenProperties
<1>2. /\ IsFiniteSet(Ahead(q, p + 1, c)) /\ Cardinality(Ahead(q, p + 1, c)) \in Nat
  BY AheadFinite
<1>3. p .. Len(q) = {p} \cup (p + 1 .. Len(q)) /\ p \notin p + 1 .. Len(q)
  BY <1>1
<1>4. CASE q[p] = c
  <2>1. Ahead(q, p, c) = Ahead(q, p + 1, c) \cup {p} /\ p \notin Ahead(q, p + 1, c)
    BY <1>3, <1>4 DEF Ahead
  <2>2. QED
    BY <1>2, <1>4, <2>1, FS_AddElement
<1>5. CASE q[p] # c
  <2>1. Ahead(q, p, c) = Ahead(q, p + 1, c)
    BY <1>3, <1>5 DEF Ahead
  <2>2. QED
    BY <1>2, <1>5, <2>1
<1>6. QED
  BY <1>4, <1>5

LEMMA InsertAtIs ==
  ASSUME NEW S, NEW q \in Seq(S), NEW at \in 1 .. Len(q) + 1, NEW x \in S
  PROVE  /\ InsertAt(q, at, x) \in Seq(S) /\ Len(InsertAt(q, at, x)) = Len(q) + 1
         /\ InsertAt(q, at, x)[at] = x
         /\ \A k \in 1 .. at - 1 : InsertAt(q, at, x)[k] = q[k]
         /\ \A k \in at .. Len(q) : InsertAt(q, at, x)[k + 1] = q[k]
<1>1. Len(q) \in Nat /\ DOMAIN q = 1 .. Len(q)
  BY LenProperties
<1>2. /\ SubSeq(q, 1, at - 1) \in Seq(S) /\ Len(SubSeq(q, 1, at - 1)) = at - 1
      /\ \A k \in 1 .. at - 1 : SubSeq(q, 1, at - 1)[k] = q[k]
  BY <1>1, SubSeqProperties
<1>3. /\ SubSeq(q, at, Len(q)) \in Seq(S) /\ Len(SubSeq(q, at, Len(q))) = Len(q) - at + 1
      /\ \A k \in 1 .. Len(q) - at + 1 : SubSeq(q, at, Len(q))[k] = q[at + k - 1]
  BY <1>1, SubSeqProperties
<1> DEFINE a == SubSeq(q, 1, at - 1)
           b == SubSeq(q, at, Len(q))
<1> HIDE DEF a, b
<1>4. InsertAt(q, at, x) = a \o <<x>> \o b
  BY DEF InsertAt, a, b
<1>5. a \o <<x>> \in Seq(S) /\ Len(a \o <<x>>) = at
      /\ (a \o <<x>>)[at] = x /\ \A k \in 1 .. at - 1 : (a \o <<x>>)[k] = q[k]
  <2>1. a \in Seq(S) /\ Len(a) = at - 1 /\ \A k \in 1 .. at - 1 : a[k] = q[k]
    BY <1>2 DEF a
  <2>2. a \o <<x>> = Append(a, x)
    BY <2>1, AppendIsConcat
  <2>3. /\ Append(a, x) \in Seq(S) /\ Len(Append(a, x)) = (at - 1) + 1
        /\ \A i \in 1 .. at - 1 : Append(a, x)[i] = a[i]
        /\ Append(a, x)[(at - 1) + 1] = x
    BY <2>1, AppendProperties
  <2>4. (at - 1) + 1 = at
    BY <1>1
  <2>5. QED
    BY <2>1, <2>2, <2>3, <2>4
<1> DEFINE ax == a \o <<x>>
<1> HIDE DEF ax
<1>6. /\ InsertAt(q, at, x) = ax \o b /\ ax \in Seq(S) /\ b \in Seq(S)
      /\ Len(ax) = at /\ Len(b) = Len(q) - at + 1
  BY <1>3, <1>4, <1>5 DEF ax, b
<1>7. /\ ax \o b \in Seq(S) /\ Len(ax \o b) = Len(q) + 1
      /\ \A k \in 1 .. at : (ax \o b)[k] = ax[k]
      /\ \A k \in at + 1 .. Len(q) + 1 : (ax \o b)[k] = b[k - at]
  <2>1. /\ ax \o b \in Seq(S) /\ Len(ax \o b) = Len(ax) + Len(b)
        /\ \A i \in 1 .. Len(ax) + Len(b) :
             (ax \o b)[i] = IF i <= Len(ax) THEN ax[i] ELSE b[i - Len(ax)]
    BY <1>6, ConcatProperties
  <2>2. Len(ax) + Len(b) = Len(q) + 1 /\ at <= Len(q) + 1
    BY <1>1, <1>6
  <2>3. \A i \in 1 .. Len(q) + 1 : (ax \o b)[i] = IF i <= at THEN ax[i] ELSE b[i - at]
    BY <1>6, <2>1, <2>2
  <2>4. \A k \in 1 .. at : k \in 1 .. Len(q) + 1 /\ k <= at
    BY <1>1, <2>2
  <2>5. \A k \in at + 1 .. Len(q) + 1 : k \in 1 .. Len(q) + 1 /\ ~(k <= at)
    BY <1>1, <2>2
  <2>6. QED
    BY <2>1, <2>2, <2>3, <2>4, <2>5
<1>8. \A k \in at .. Len(q) : (ax \o b)[k + 1] = q[k]
  <2>1. TAKE k \in at .. Len(q)
  <2>2. k + 1 \in at + 1 .. Len(q) + 1 /\ (k + 1) - at \in 1 .. Len(q) - at + 1
        /\ at + ((k + 1) - at) - 1 = k
    BY <1>1
  <2>3. (ax \o b)[k + 1] = b[(k + 1) - at]
    BY <1>7, <2>2
  <2>4. b[(k + 1) - at] = q[at + ((k + 1) - at) - 1]
    BY <1>3, <2>2 DEF b
  <2>5. QED
    BY <2>2, <2>3, <2>4
<1>9. QED
  BY <1>1, <1>5, <1>6, <1>7, <1>8 DEF ax

\* Wherever it is put after the current place, a card has one pass more ahead.
LEMMA AheadInserted ==
  ASSUME NEW q \in Seq(Nat), NEW lo \in Nat \ {0}, NEW at \in lo .. Len(q) + 1, NEW x \in Nat, NEW c
  PROVE  /\ InsertAt(q, at, x) \in Seq(Nat) /\ Len(InsertAt(q, at, x)) = Len(q) + 1
         /\ Cardinality(Ahead(InsertAt(q, at, x), lo, c)) =
              Cardinality(Ahead(q, lo, c)) + IF x = c THEN 1 ELSE 0
<1>1. Len(q) \in Nat /\ at \in 1 .. Len(q) + 1
  BY LenProperties
<1> DEFINE new == InsertAt(q, at, x)
<1>2. /\ new \in Seq(Nat) /\ Len(new) = Len(q) + 1 /\ new[at] = x
      /\ \A k \in 1 .. at - 1 : new[k] = q[k]
      /\ \A k \in at .. Len(q) : new[k + 1] = q[k]
  <2>1. PICK S : S = Nat
    OBVIOUS
  <2>2. q \in Seq(S) /\ x \in S
    BY <2>1
  <2>3. /\ new \in Seq(S) /\ Len(new) = Len(q) + 1 /\ new[at] = x
        /\ \A k \in 1 .. at - 1 : new[k] = q[k]
        /\ \A k \in at .. Len(q) : new[k + 1] = q[k]
    BY <1>1, <2>2, InsertAtIs
  <2>4. QED
    BY <2>1, <2>3
<1> HIDE DEF new
<1>3. /\ IsFiniteSet(Ahead(q, lo, c)) /\ Cardinality(Ahead(q, lo, c)) \in Nat
      /\ IsFiniteSet(Ahead(new, lo, c)) /\ Cardinality(Ahead(new, lo, c)) \in Nat
  BY <1>2, AheadFinite
<1> DEFINE A == Ahead(q, lo, c)
           B == Ahead(new, lo, c) \ {at}
           f == [k \in A |-> IF k < at THEN k ELSE k + 1]
<1>4. /\ \A k \in A : k \in Nat /\ lo <= k /\ k <= Len(q) /\ q[k] = c
      /\ \A k : k \in B <=> k \in Nat /\ lo <= k /\ k <= Len(q) + 1 /\ new[k] = c /\ k # at
  BY <1>1, <1>2 DEF Ahead
<1>5. f \in Bijection(A, B)
  <2>1. f \in [A -> B]
    <3>1. \A k \in A : f[k] \in B
      <4>1. TAKE k \in A
      <4>a. k \in Nat /\ lo <= k /\ k <= Len(q) /\ q[k] = c /\ at \in Nat
        BY <1>1, <1>4, <4>1
      <4>2. CASE k < at
        <5>1. k \in 1 .. at - 1 /\ k # at /\ k <= Len(q) + 1
          BY <1>1, <4>a, <4>2
        <5>2. QED
          BY <1>2, <1>4, <4>a, <4>2, <5>1
      <4>3. CASE ~(k < at)
        <5>1. k \in at .. Len(q) /\ k + 1 # at /\ k + 1 <= Len(q) + 1 /\ k + 1 \in Nat /\ lo <= k + 1
          BY <1>1, <4>a, <4>3
        <5>2. new[k + 1] = c
          BY <1>2, <4>a, <5>1
        <5>3. f[k] = k + 1 /\ k + 1 \in B
          BY <1>4, <4>3, <5>1, <5>2
        <5>4. QED
          BY <5>3
      <4>4. QED
        BY <4>2, <4>3
    <3>2. QED
      BY <3>1
  <2>2. \A j, k \in A : f[j] = f[k] => j = k
    BY <1>1, <1>4
  <2>3. \A y \in B : \E k \in A : f[k] = y
    <3>1. TAKE y \in B
    <3>2. y \in Nat /\ lo <= y /\ y <= Len(q) + 1 /\ new[y] = c /\ y # at
      BY <1>4
    <3>3. CASE y < at
      <4>1. y \in A
        BY <1>1, <1>2, <3>2, <3>3 DEF Ahead
      <4>2. QED
        BY <3>3, <4>1
    <3>4. CASE y > at
      <4>1. y - 1 \in at .. Len(q) /\ (y - 1) + 1 = y
        BY <1>1, <3>2, <3>4
      <4>a. y - 1 \in lo .. Len(q)
        BY <1>1, <3>2, <3>4, <4>1
      <4>b. q[y - 1] = c
        BY <1>2, <3>2, <4>1
      <4>2. y - 1 \in A
        BY <4>a, <4>b DEF Ahead
      <4>3. f[y - 1] = y
        BY <1>1, <4>1, <4>2
      <4>4. QED
        BY <4>2, <4>3
    <3>5. QED
      BY <1>1, <3>2, <3>3, <3>4
  <2>4. QED
    BY <2>1, <2>2, <2>3 DEF Bijection, Injection, Surjection, ExistsBijection, IsInjective
<1>6. Cardinality(A) = Cardinality(B) /\ IsFiniteSet(B)
  BY <1>3, <1>5, FS_Bijection DEF ExistsBijection
<1>7. CASE x = c
  <2>1. at \in Ahead(new, lo, c)
    BY <1>1, <1>2, <1>7 DEF Ahead
  <2>2. Cardinality(B) = Cardinality(Ahead(new, lo, c)) - 1
    BY <1>3, <2>1, FS_RemoveElement
  <2>3. QED
    BY <1>2, <1>3, <1>6, <1>7, <2>2 DEF new
<1>8. CASE x # c
  <2>1. B = Ahead(new, lo, c)
    BY <1>2, <1>8 DEF Ahead
  <2>a. Cardinality(Ahead(new, lo, c)) = Cardinality(Ahead(q, lo, c)) + 0
    <3>1. Cardinality(B) = Cardinality(Ahead(q, lo, c))
      BY <1>6
    <3>2. Cardinality(Ahead(new, lo, c)) = Cardinality(Ahead(q, lo, c))
      BY <2>1, <3>1
    <3>3. QED
      BY <1>3, <3>2
  <2>2. QED
    BY <1>2, <1>8, <2>a DEF new
<1>9. QED
  BY <1>7, <1>8

LEMMA RequeuedSound ==
  ASSUME NEW q \in Seq(Nat), NEW lo \in Nat \ {0}, lo <= Len(q) + 1, NEW x \in Nat,
         NEW g \in {"yes", "close", "no"}, NEW new \in Requeued(q, lo, x, g), NEW c
  PROVE  /\ new \in Seq(Nat) /\ Extra(g) \in Nat
         /\ Cardinality(Ahead(new, lo, c)) =
              Cardinality(Ahead(q, lo, c)) + IF x = c THEN Extra(g) ELSE 0
<1>1. Cardinality(Ahead(q, lo, c)) \in Nat /\ Len(q) \in Nat
  BY AheadFinite, LenProperties
<1>2. CASE g = "yes"
  <2>1. Extra(g) = 0
    BY <1>2 DEF Extra
  <2>2. new = q
    BY <2>1 DEF Requeued
  <2>3. QED
    BY <1>1, <2>1, <2>2
<1>3. CASE g = "close"
  <2>1. Extra(g) = 1
    BY <1>3 DEF Extra
  <2>2. PICK at \in lo .. Len(q) + 1 : new = InsertAt(q, at, x)
    BY <2>1 DEF Requeued, Inserted
  <2>3. /\ InsertAt(q, at, x) \in Seq(Nat)
        /\ Cardinality(Ahead(InsertAt(q, at, x), lo, c)) =
             Cardinality(Ahead(q, lo, c)) + IF x = c THEN 1 ELSE 0
    BY AheadInserted
  <2>4. QED
    BY <1>1, <2>1, <2>2, <2>3
<1>4. CASE g = "no"
  <2>1. Extra(g) = 2
    BY <1>4 DEF Extra
  <2>2. PICK mid \in Inserted({q}, lo, x) : new \in {InsertAt(mid, at, x) : at \in lo .. Len(mid) + 1}
    BY <2>1 DEF Requeued, Inserted
  <2>3. PICK at \in lo .. Len(q) + 1 : mid = InsertAt(q, at, x)
    BY <2>2 DEF Inserted
  <2>4. /\ mid \in Seq(Nat) /\ Len(mid) = Len(q) + 1
        /\ Cardinality(Ahead(mid, lo, c)) = Cardinality(Ahead(q, lo, c)) + IF x = c THEN 1 ELSE 0
    BY <2>3, AheadInserted
  <2>5. PICK to \in lo .. Len(mid) + 1 : new = InsertAt(mid, to, x)
    BY <2>2
  <2>6. /\ new \in Seq(Nat)
        /\ Cardinality(Ahead(new, lo, c)) = Cardinality(Ahead(mid, lo, c)) + IF x = c THEN 1 ELSE 0
    BY <2>4, <2>5, AheadInserted
  <2>7. QED
    BY <1>1, <2>1, <2>4, <2>6
<1>5. QED
  BY <1>2, <1>3, <1>4

\* A session owes each card the passes it has ahead.
SessionSound(s) ==
  /\ s \in Session /\ s.position # 0
  /\ s.on => \A c \in DOMAIN s.owed : s.owed[c] = Cardinality(Ahead(s.queue, s.position, c))

LEMMA NoSessionSound == SessionSound(NoSession)
<1>1. Cardinality(Terms) \in Nat
  BY DeckAssumption, FS_CardinalityType
<1>2. QED
  BY <1>1 DEF SessionSound, Session, NoSession

LEMMA StartSound ==
  ASSUME NEW cards \in Seq(Card)
  PROVE  SessionSound(StartSession(cards))
<1>1. Cardinality(Terms) \in Nat /\ Len(cards) \in Nat /\ DOMAIN cards = 1 .. Len(cards)
  BY DeckAssumption, FS_CardinalityType, LenProperties
<1> DEFINE s == StartSession(cards)
           q == [k \in 1 .. Len(cards) |-> k]
           owed == [c \in 1 .. Cardinality(Terms) |-> IF c \in 1 .. Len(cards) THEN 1 ELSE 0]
<1>2. s = [on |-> TRUE, queue |-> q, position |-> 1, owed |-> owed]
  <2>1. DOMAIN NoSession.owed = 1 .. Cardinality(Terms)
    BY <1>1 DEF NoSession
  <2>2. s = [NoSession EXCEPT !.on = TRUE, !.queue = q, !.owed = owed]
    BY <1>1, <2>1 DEF StartSession
  <2>3. QED
    BY <2>2 DEF NoSession
<1>3. q \in Seq(Nat) /\ Len(q) = Len(cards)
  BY <1>1, SeqDef
<1>4. owed \in [1 .. Cardinality(Terms) -> Nat]
  OBVIOUS
<1>5. \A c \in 1 .. Cardinality(Terms) : owed[c] = Cardinality(Ahead(q, 1, c))
  <2>1. TAKE c \in 1 .. Cardinality(Terms)
  <2>2. CASE c \in 1 .. Len(cards)
    <3>1. Ahead(q, 1, c) = {c}
      BY <1>3, <2>2 DEF Ahead
    <3>2. QED
      BY <2>2, <3>1, FS_Singleton
  <2>3. CASE c \notin 1 .. Len(cards)
    <3>1. Ahead(q, 1, c) = {}
      BY <1>3, <2>3 DEF Ahead
    <3>2. QED
      BY <2>3, <3>1, FS_EmptySet
  <2>4. QED
    BY <2>2, <2>3
<1> HIDE DEF q, owed
<1>6. s \in Session
  BY <1>2, <1>3, <1>4 DEF Session
<1>7. QED
  BY <1>2, <1>4, <1>5, <1>6 DEF SessionSound

LEMMA GradedSound ==
  ASSUME NEW s, SessionSound(s), s.on, s.position <= Len(s.queue), NEW g \in {"yes", "close", "no"},
         NEW c, c = s.queue[s.position],
         NEW owed, owed = [s.owed EXCEPT ![c] = s.owed[c] - 1 + Extra(g)],
         NEW queue \in Requeued(s.queue, s.position + 1, c, g)
  PROVE  SessionSound([s EXCEPT !.queue = queue, !.position = s.position + 1, !.owed = owed])
<1> DEFINE q == s.queue
           p == s.position
           N == 1 .. Cardinality(Terms)
<1>1. /\ s \in Session /\ q \in Seq(Nat) /\ p \in Nat \ {0} /\ s.owed \in [N -> Nat] /\ s.on \in BOOLEAN
      /\ Len(q) \in Nat /\ DOMAIN q = 1 .. Len(q)
  BY LenProperties DEF SessionSound, Session
<1>2. c \in Nat /\ p + 1 \in Nat \ {0} /\ p + 1 <= Len(q) + 1
  <2>1. p \in DOMAIN q
    BY <1>1
  <2>2. q[p] \in Nat
    BY <1>1, <2>1
  <2>3. QED
    BY <1>1, <2>2
<1>3. \A d \in N : /\ s.owed[d] = Cardinality(Ahead(q, p + 1, d)) + IF c = d THEN 1 ELSE 0
                   /\ Cardinality(Ahead(q, p + 1, d)) \in Nat
  <2>1. TAKE d \in N
  <2>2. s.owed[d] = Cardinality(Ahead(q, p, d))
    BY <1>1 DEF SessionSound
  <2>3. Cardinality(Ahead(q, p, d)) = Cardinality(Ahead(q, p + 1, d)) + IF q[p] = d THEN 1 ELSE 0
    BY <1>1, AheadPassed
  <2>4. Cardinality(Ahead(q, p + 1, d)) \in Nat
    BY <1>1, <1>2, AheadFinite
  <2>5. QED
    BY <2>2, <2>3, <2>4
<1>a. /\ q \in Seq(Nat) /\ p + 1 \in Nat \ {0} /\ p + 1 <= Len(q) + 1 /\ c \in Nat
      /\ queue \in Requeued(q, p + 1, c, g)
  BY <1>1, <1>2
<1> HIDE DEF q, p
<1>4. queue \in Seq(Nat) /\ Extra(g) \in Nat
  BY <1>a, RequeuedSound
<1>5. \A d : Cardinality(Ahead(queue, p + 1, d)) =
               Cardinality(Ahead(q, p + 1, d)) + IF c = d THEN Extra(g) ELSE 0
  BY <1>a, RequeuedSound
<1> USE DEF q, p
<1>6. /\ owed \in [N -> Nat]
      /\ \A d \in N : owed[d] = Cardinality(Ahead(queue, p + 1, d))
  <2>1. \A d \in N : owed[d] = Cardinality(Ahead(queue, p + 1, d)) /\ owed[d] \in Nat
    <3>1. TAKE d \in N
    <3>2. CASE d = c
      <4>1. owed[d] = s.owed[d] - 1 + Extra(g)
        BY <1>1, <3>2
      <4>2. s.owed[d] = Cardinality(Ahead(q, p + 1, d)) + 1 /\ Cardinality(Ahead(q, p + 1, d)) \in Nat
        BY <1>3, <3>2
      <4>3. Cardinality(Ahead(queue, p + 1, d)) = Cardinality(Ahead(q, p + 1, d)) + Extra(g)
        BY <1>5, <3>2
      <4>4. QED
        BY <1>4, <4>1, <4>2, <4>3, SMTT(30)
    <3>3. CASE d # c
      <4>1. owed[d] = s.owed[d]
        BY <1>1, <3>3
      <4>2. QED
        BY <1>3, <1>5, <3>3, <4>1
    <3>4. QED
      BY <3>2, <3>3
  <2>2. owed \in [N -> Nat]
    <3>1. DOMAIN owed = N /\ owed = [d \in N |-> owed[d]]
      BY <1>1
    <3>2. QED
      BY <2>1, <3>1
  <2>3. QED
    BY <2>1, <2>2
<1> DEFINE new == [s EXCEPT !.queue = queue, !.position = s.position + 1, !.owed = owed]
<1>7. /\ new \in Session /\ new.queue = queue /\ new.position = p + 1 /\ new.owed = owed
  BY <1>1, <1>2, <1>4, <1>6 DEF Session
<1>8. DOMAIN owed = N
  BY <1>6
<1> HIDE DEF new
<1>9. SessionSound(new)
  BY <1>2, <1>6, <1>7, <1>8 DEF SessionSound
<1>10. QED
  BY <1>9 DEF new

-----------------------------------------------------------------------------
(* FlashcardDeck: the inductive invariant. *)

Errand    == [kind : {"save", "grade"}, id : 0 .. MaxIds, cards : Seq(Card)]
EditorRow == [card : Card, full : BOOLEAN]
View      == [at : {"unopened", "study", "edit"}, cards : Seq(Card), rows : Seq(EditorRow),
              asked : Seq(Errand), learn : Session]
Call      == [next : {"none", "write-deck", "read-rows", "delete", "each-card", "state",
                      "read-state", "write-state"},
              sent : Seq(Card), cards : Seq(Card), has : SUBSET Ids, alone : BOOLEAN,
              id : 0 .. MaxIds, read : Nat]

\* No two cards of a list have one id, and none an id above n.
Listed(n, cards) ==
  /\ cards \in Seq(Card)
  /\ \A k \in DOMAIN cards : cards[k].id <= n
  /\ \A j, k \in DOMAIN cards : cards[j].id = cards[k].id /\ cards[k].id # 0 => j = k

\* Neither do two rows of the editor.
Lined(n, lines) ==
  /\ lines \in Seq(EditorRow)
  /\ \A k \in DOMAIN lines : lines[k].card.id <= n
  /\ \A j, k \in DOMAIN lines :
       lines[j].card.id = lines[k].card.id /\ lines[k].card.id # 0 => j = k

\* Each card has an id.
Identifies(n, cards) == Listed(n, cards) /\ \A k \in DOMAIN cards : cards[k].id # 0

ViewSound(n, v) ==
  /\ v \in View
  /\ Listed(n, v.cards) /\ Lined(n, v.rows)
  /\ \A m \in DOMAIN v.asked : Listed(n, v.asked[m].cards)
  /\ SessionSound(v.learn)

CallSound(n, c) ==
  /\ c \in Call
  /\ Listed(n, c.sent) /\ Identifies(n, c.cards)
  /\ c.next = "state" => c.cards # <<>>
  /\ c.next \in {"read-state", "write-state"} => c.id # 0

\* A row is about one term; only a card with a row has a schedule.
RowsSound(r, s) ==
  /\ r \in [Ids -> SUBSET Terms] /\ \A i \in Ids : r[i] = {} \/ \E x \in Terms : r[i] = {x}
  /\ s \in [Ids -> Nat] /\ \A i \in Ids : s[i] # 0 => r[i] # {}

Bounded(b) == b \in DeckScenario /\ Len(b.terms) <= MaxIds

Untouched(v) == v.at = "unopened" /\ v.asked = <<>> /\ ~v.learn.on

DeckInv ==
  /\ minted \in 0 .. MaxIds
  /\ Identifies(minted, deck)
  /\ RowsSound(rows, srs)
  /\ maker \in {"artifact", "clear", "rows", "states", "done", "dead"}
  /\ Bounded(bound)
  /\ CallSound(minted, tool)
  /\ page \in [Tabs -> View] /\ call \in [Tabs -> Call]
  /\ \A t \in Tabs : ViewSound(minted, page[t]) /\ CallSound(minted, call[t])
  /\ maker = "artifact" => minted = 0 /\ \A t \in Tabs : Untouched(page[t])

-----------------------------------------------------------------------------
(* Lists of cards. *)

LEMMA CardFields ==
  ASSUME NEW c \in Card
  PROVE  c.id \in 0 .. MaxIds /\ c.id \in Nat /\ c.term \in Terms
BY DeckAssumption DEF Card

LEMMA EmptyListed ==
  ASSUME NEW n
  PROVE  Listed(n, <<>>) /\ Identifies(n, <<>>) /\ Lined(n, <<>>)
BY DEF Listed, Identifies, Lined

LEMMA ListedLater ==
  ASSUME NEW n \in Nat, NEW m \in Nat, n <= m, NEW cards
  PROVE  /\ Listed(n, cards) => Listed(m, cards)
         /\ Identifies(n, cards) => Identifies(m, cards)
<1>1. ASSUME Listed(n, cards) PROVE Listed(m, cards)
  <2>1. \A k \in DOMAIN cards : cards[k].id \in Nat /\ cards[k].id <= n
    <3>1. TAKE k \in DOMAIN cards
    <3>2. cards[k] \in Card
      BY <1>1, ElementOfSeq DEF Listed
    <3>3. QED
      BY <1>1, <3>2, CardFields DEF Listed
  <2>2. \A k \in DOMAIN cards : cards[k].id <= m
    BY <2>1
  <2>3. QED
    BY <1>1, <2>2 DEF Listed
<1>2. QED
  BY <1>1 DEF Identifies

LEMMA LinedLater ==
  ASSUME NEW n \in Nat, NEW m \in Nat, n <= m, NEW lines, Lined(n, lines)
  PROVE  Lined(m, lines)
<1>1. \A k \in DOMAIN lines : lines[k].card.id \in Nat /\ lines[k].card.id <= n
  <2>1. TAKE k \in DOMAIN lines
  <2>2. lines[k] \in EditorRow
    BY ElementOfSeq DEF Lined
  <2>3. lines[k].card \in Card
    BY <2>2 DEF EditorRow
  <2>4. QED
    BY <2>1, <2>3, CardFields DEF Lined
<1>2. \A k \in DOMAIN lines : lines[k].card.id <= m
  BY <1>1
<1>3. QED
  BY <1>2 DEF Lined

LEMMA ViewLater ==
  ASSUME NEW n \in Nat, NEW m \in Nat, n <= m, NEW v, ViewSound(n, v)
  PROVE  ViewSound(m, v)
BY ListedLater, LinedLater DEF ViewSound

LEMMA CallLater ==
  ASSUME NEW n \in Nat, NEW m \in Nat, n <= m, NEW c, CallSound(n, c)
  PROVE  CallSound(m, c)
BY ListedLater DEF CallSound

LEMMA TailListed ==
  ASSUME NEW n, NEW cards, Identifies(n, cards), cards # <<>>
  PROVE  /\ Identifies(n, Tail(cards)) /\ Head(cards) \in Card /\ Head(cards).id # 0
         /\ Head(cards).id \in Ids /\ Head(cards) = cards[1] /\ Len(Tail(cards)) = Len(cards) - 1
         /\ Len(cards) \in Nat /\ Len(cards) # 0
         /\ \A i \in 1 .. Len(cards) - 1 : Tail(cards)[i] = cards[i + 1]
<1>1. cards \in Seq(Card) /\ Len(cards) \in Nat /\ DOMAIN cards = 1 .. Len(cards) /\ Len(cards) # 0
  BY LenProperties, EmptySeq DEF Identifies, Listed
<1>2. /\ Tail(cards) \in Seq(Card) /\ Len(Tail(cards)) = Len(cards) - 1
      /\ \A i \in 1 .. Len(cards) - 1 : Tail(cards)[i] = cards[i + 1]
  BY <1>1, HeadTailProperties
<1>3. DOMAIN Tail(cards) = 1 .. Len(cards) - 1
  BY <1>2, LenProperties
<1>4. \A i \in 1 .. Len(cards) - 1 : i + 1 \in DOMAIN cards
  BY <1>1
<1>5. Listed(n, Tail(cards))
  <2>1. \A k \in DOMAIN Tail(cards) : Tail(cards)[k].id <= n
    BY <1>2, <1>3, <1>4 DEF Identifies, Listed
  <2>2. ASSUME NEW j \in DOMAIN Tail(cards), NEW k \in DOMAIN Tail(cards),
               Tail(cards)[j].id = Tail(cards)[k].id, Tail(cards)[k].id # 0
        PROVE  j = k
    <3>1. j + 1 = k + 1
      BY <1>2, <1>3, <1>4, <2>2 DEF Identifies, Listed
    <3>2. QED
      BY <1>3, <3>1
  <2>3. QED
    BY <1>2, <2>1, <2>2 DEF Listed
<1>6. \A k \in DOMAIN Tail(cards) : Tail(cards)[k].id # 0
  BY <1>2, <1>3, <1>4 DEF Identifies
<1>7. Head(cards) = cards[1] /\ 1 \in DOMAIN cards
  BY <1>1
<1>8. Head(cards) \in Card /\ Head(cards).id # 0
  BY <1>1, <1>7, ElementOfSeq DEF Identifies
<1>9. Head(cards).id \in Ids
  BY <1>8, CardFields, DeckAssumption DEF Ids
<1>10. QED
  BY <1>1, <1>2, <1>5, <1>6, <1>7, <1>8, <1>9 DEF Identifies

LEMMA LinedDrawn ==
  ASSUME NEW n, NEW lines, Lined(n, lines), NEW new, Drawn(EditorRow, new, lines)
  PROVE  Lined(n, new)
<1>1. PICK f \in [DOMAIN new -> DOMAIN lines] :
        /\ \A k \in DOMAIN new : new[k] = lines[f[k]]
        /\ \A j, k \in DOMAIN new : f[j] = f[k] => j = k
  BY DEF Drawn
<1>2. new \in Seq(EditorRow)
  BY DEF Drawn
<1>3. \A k \in DOMAIN new : f[k] \in DOMAIN lines
  BY <1>1
<1>4. QED
  BY <1>1, <1>2, <1>3 DEF Lined

\* "Add term".
LEMMA LinedAppend ==
  ASSUME NEW n \in Nat, NEW lines, Lined(n, lines), NEW x \in Terms
  PROVE  Lined(n, Append(lines, [card |-> [id |-> 0, term |-> x], full |-> TRUE]))
<1> DEFINE e == [card |-> [id |-> 0, term |-> x], full |-> TRUE]
           new == Append(lines, e)
<1>1. e \in EditorRow /\ e.card.id = 0
  BY DeckAssumption DEF EditorRow, Card
<1> HIDE DEF e
<1>2. lines \in Seq(EditorRow) /\ Len(lines) \in Nat /\ DOMAIN lines = 1 .. Len(lines)
  BY LenProperties DEF Lined
<1>3. /\ new \in Seq(EditorRow) /\ Len(new) = Len(lines) + 1
      /\ \A i \in 1 .. Len(lines) : new[i] = lines[i]
      /\ new[Len(lines) + 1] = e
  BY <1>1, <1>2, AppendProperties
<1> HIDE DEF new
<1>4. DOMAIN new = 1 .. Len(lines) + 1
  BY <1>2, <1>3, LenProperties
<1>5. \A k \in DOMAIN new : k \in DOMAIN lines \/ k = Len(lines) + 1
  BY <1>2, <1>4
<1>6. \A k \in DOMAIN new : new[k].card.id <= n
  BY <1>1, <1>2, <1>3, <1>5 DEF Lined
<1>7. \A j, k \in DOMAIN new : new[j].card.id = new[k].card.id /\ new[k].card.id # 0 => j = k
  BY <1>1, <1>2, <1>3, <1>5 DEF Lined
<1>8. Lined(n, new)
  BY <1>3, <1>6, <1>7 DEF Lined
<1>9. QED
  BY <1>8 DEF new, e

LEMMA LinedRetyped ==
  ASSUME NEW n, NEW lines, Lined(n, lines), NEW k \in DOMAIN lines, NEW full \in BOOLEAN
  PROVE  Lined(n, [lines EXCEPT ![k].full = full])
<1> DEFINE e == [lines[k] EXCEPT !.full = full]
           new == [lines EXCEPT ![k] = e]
<1>1. [lines EXCEPT ![k].full = full] = new
  OBVIOUS
<1>2. lines \in Seq(EditorRow) /\ lines[k] \in EditorRow
  BY ElementOfSeq DEF Lined
<1>3. e \in EditorRow /\ e.card = lines[k].card
  BY <1>2 DEF EditorRow
<1> HIDE DEF e
<1>4. /\ new \in Seq(EditorRow) /\ DOMAIN new = DOMAIN lines
      /\ \A j \in DOMAIN lines : new[j] = IF j = k THEN e ELSE lines[j]
  BY <1>2, <1>3, ExceptSeq
<1> HIDE DEF new
<1>5. \A j \in DOMAIN lines : new[j].card = lines[j].card
  BY <1>3, <1>4
<1>6. Lined(n, new)
  BY <1>4, <1>5 DEF Lined
<1>7. QED
  BY <1>1, <1>6

\* What the editor saves of its rows.
LEMMA SentListed ==
  ASSUME NEW n, NEW lines, Lined(n, lines)
  PROVE  LET full == Picked(lines, {k \in DOMAIN lines : lines[k].full})
         IN  Listed(n, [k \in DOMAIN full |-> full[k].card])
<1> DEFINE full == Picked(lines, {k \in DOMAIN lines : lines[k].full})
           cards == [k \in DOMAIN full |-> full[k].card]
<1>1. lines \in Seq(EditorRow)
  BY DEF Lined
<1>2. Drawn(EditorRow, full, lines)
  BY <1>1, PickedDrawn
<1> HIDE DEF full
<1>3. Lined(n, full)
  BY <1>2, LinedDrawn
<1>4. full \in Seq(EditorRow) /\ Len(full) \in Nat /\ DOMAIN full = 1 .. Len(full)
  BY <1>3, LenProperties DEF Lined
<1>5. \A k \in 1 .. Len(full) : full[k].card \in Card
  <2>1. TAKE k \in 1 .. Len(full)
  <2>2. full[k] \in EditorRow
    BY <1>4, ElementOfSeq
  <2>3. QED
    BY <2>2 DEF EditorRow
<1>6. cards \in Seq(Card) /\ DOMAIN cards = DOMAIN full
  <2>1. cards \in [1 .. Len(full) -> Card]
    BY <1>4, <1>5
  <2>2. QED
    BY <1>4, <2>1, SeqDef
<1>7. Listed(n, cards)
  BY <1>3, <1>6 DEF Lined, Listed
<1>8. QED
  BY <1>7 DEF full

\* A save gives each card an id of its own.
LEMMA IdentifiedSound ==
  ASSUME minted \in Nat, Identifies(minted, deck), NEW sent, Listed(minted, sent),
         NEW new, new = {k \in DOMAIN sent : ~Known(sent[k])},
         minted + Cardinality(new) <= MaxIds
  PROVE  /\ Cardinality(new) \in Nat
         /\ Identifies(minted + Cardinality(new), Identified(sent))
<1> DEFINE c(k) == Cardinality(Upto(new, k))
           cards == Identified(sent)
<1>1. sent \in Seq(Card) /\ Len(sent) \in Nat /\ DOMAIN sent = 1 .. Len(sent) /\ MaxIds \in Nat
  BY LenProperties, DeckAssumption DEF Listed
<1>2. \A k \in DOMAIN sent : sent[k] \in Card /\ sent[k].id \in Nat /\ sent[k].id <= minted
  <2>1. TAKE k \in DOMAIN sent
  <2>2. sent[k] \in Card
    BY <1>1, ElementOfSeq
  <2>3. QED
    BY <2>2, CardFields DEF Listed
<1>3. new \subseteq 1 .. Len(sent)
  BY <1>1
<1>4. Cardinality(new) \in Nat
  <2>1. new \subseteq 0 .. Len(sent)
    BY <1>1
  <2>2. QED
    BY <1>1, <2>1, BoundedIsFinite
<1>5. cards = [k \in DOMAIN sent |-> IF Known(sent[k]) THEN sent[k]
                                     ELSE [sent[k] EXCEPT !.id = minted + c(k)]]
  <2>1. ASSUME NEW k \in DOMAIN sent
        PROVE  {j \in 1 .. k : ~Known(sent[j])} = Upto(new, k)
    BY <1>1 DEF Upto
  <2>2. QED
    BY <2>1 DEF Identified
<1>6. \A k \in DOMAIN sent : c(k) \in 0 .. Cardinality(new) /\ c(k) \in Nat
  <2>1. TAKE k \in DOMAIN sent
  <2>2. k \in Nat
    BY <1>1
  <2>3. c(k) \in 0 .. Cardinality(new)
    BY <1>1, <1>3, <2>2, UptoType
  <2>4. QED
    BY <1>4, <2>3
<1>7. \A k \in new, j \in DOMAIN sent : j < k => c(j) < c(k)
  <2>1. TAKE k \in new, j \in DOMAIN sent
  <2>2. j \in 0 .. Len(sent)
    BY <1>1
  <2>3. QED
    BY <1>1, <1>3, <2>2, UptoGrows
<1>8. \A k \in new : c(k) # 0
  <2>1. TAKE k \in new
  <2>2. Cardinality(Upto(new, 0)) < c(k)
    BY <1>1, <1>3, UptoGrows
  <2>3. Cardinality(Upto(new, 0)) \in 0 .. Cardinality(new)
    BY <1>1, <1>3, UptoType
  <2>4. k \in DOMAIN sent
    BY <1>1, <1>3
  <2>5. QED
    BY <1>4, <1>6, <2>2, <2>3, <2>4
<1>9. \A k \in DOMAIN sent : k \in new <=> ~Known(sent[k])
  OBVIOUS
<1>10. \A k \in DOMAIN sent : Known(sent[k]) => sent[k].id # 0
  BY DEF Known, IdsOf, Identifies
<1> HIDE DEF c, cards
<1>11. DOMAIN cards = DOMAIN sent
  BY <1>5
<1>12. \A k \in DOMAIN sent : k \notin new => cards[k] = sent[k] /\ cards[k].id # 0
  BY <1>5, <1>9, <1>10
<1>13. \A k \in DOMAIN sent : k \in new =>
         /\ cards[k] = [sent[k] EXCEPT !.id = minted + c(k)]
         /\ cards[k].id = minted + c(k) /\ cards[k] \in Card
  <2>1. TAKE k \in DOMAIN sent
  <2>2. HAVE k \in new
  <2>3. cards[k] = [sent[k] EXCEPT !.id = minted + c(k)]
    BY <1>5, <1>9, <2>2
  <2>4. minted + c(k) \in 0 .. MaxIds
    BY <1>1, <1>4, <1>6
  <2>5. QED
    BY <1>2, <2>3, <2>4 DEF Card
<1>a. \A k \in DOMAIN sent : k \in new =>
        /\ c(k) \in Nat /\ c(k) # 0 /\ c(k) <= Cardinality(new)
        /\ cards[k].id = minted + c(k)
  <2>1. TAKE k \in DOMAIN sent
  <2>2. HAVE k \in new
  <2>3. cards[k].id = minted + c(k) /\ c(k) # 0 /\ c(k) \in 0 .. Cardinality(new) /\ c(k) \in Nat
    BY <1>6, <1>8, <1>13, <2>2
  <2>4. c(k) <= Cardinality(new)
    BY <1>4, <2>3
  <2>5. QED
    BY <2>3, <2>4
<1>b. \A k \in DOMAIN sent : k \notin new => cards[k].id \in Nat /\ cards[k].id <= minted
  BY <1>2, <1>12
<1>14. \A k \in 1 .. Len(sent) : cards[k] \in Card
  BY <1>1, <1>2, <1>12, <1>13
<1>15. cards \in Seq(Card)
  <2>1. cards \in [1 .. Len(sent) -> Card]
    <3>1. cards = [k \in 1 .. Len(sent) |-> cards[k]]
      BY <1>1, <1>5
    <3>2. QED
      BY <1>14, <3>1
  <2>2. QED
    BY <1>1, <2>1, SeqDef
<1>16. \A k \in DOMAIN sent : cards[k].id <= minted + Cardinality(new) /\ cards[k].id # 0
  <2>1. TAKE k \in DOMAIN sent
  <2>2. CASE k \in new
    <3>1. PICK m \in Nat : m = Cardinality(new)
      BY <1>4
    <3>2. PICK n \in Nat : n # 0 /\ n <= m /\ cards[k].id = minted + n
      BY <1>a, <2>2, <3>1
    <3>3. minted + n # 0 /\ minted + n <= minted + m
      BY <3>2
    <3>4. QED
      BY <3>1, <3>2, <3>3
  <2>3. CASE k \notin new
    BY <1>2, <1>4, <1>12, <2>3
  <2>4. QED
    BY <2>2, <2>3
<1>17. \A j, k \in DOMAIN sent : cards[j].id = cards[k].id => j = k
  <2>1. TAKE j, k \in DOMAIN sent
  <2>2. HAVE cards[j].id = cards[k].id
  <2>3. CASE j \in new /\ k \in new
    <3>1. c(j) = c(k)
      BY <1>a, <2>2, <2>3
    <3>2. j \in Nat /\ k \in Nat /\ ~(j < k) /\ ~(k < j)
      BY <1>1, <1>6, <1>7, <2>3, <3>1
    <3>3. QED
      BY <3>2
  <2>4. CASE j \in new /\ k \notin new
    <3>1. PICK n \in Nat : n # 0 /\ cards[j].id = minted + n
      BY <1>a, <2>4
    <3>2. ~(minted + n <= minted)
      BY <3>1
    <3>3. QED
      BY <1>b, <2>2, <2>4, <3>1, <3>2
  <2>5. CASE j \notin new /\ k \in new
    BY <1>a, <1>b, <2>2, <2>5
  <2>6. CASE j \notin new /\ k \notin new
    BY <1>12, <2>2, <2>6 DEF Listed
  <2>7. QED
    BY <2>3, <2>4, <2>5, <2>6
<1>18. Identifies(minted + Cardinality(new), cards)
  BY <1>11, <1>15, <1>16, <1>17 DEF Identifies, Listed
<1>19. QED
  BY <1>4, <1>18 DEF cards

-----------------------------------------------------------------------------
(* The creation of the deck. *)

LEMMA NumberedSound ==
  ASSUME NEW terms \in Seq(Terms), Len(terms) <= MaxIds, minted = 0
  PROVE  Len(terms) \in 0 .. MaxIds /\ Identifies(Len(terms), Numbered(terms))
<1> DEFINE cards == Numbered(terms)
<1>1. Len(terms) \in Nat /\ DOMAIN terms = 1 .. Len(terms) /\ MaxIds \in Nat
  BY LenProperties, DeckAssumption
<1>2. cards = [k \in 1 .. Len(terms) |-> [id |-> k, term |-> terms[k]]]
  <2>1. \A k \in 1 .. Len(terms) : minted + k = k
    BY <1>1
  <2>2. QED
    BY <1>1, <2>1 DEF Numbered
<1> HIDE DEF cards
<1>3. \A k \in 1 .. Len(terms) : /\ cards[k] \in Card /\ cards[k].id = k
  <2>1. TAKE k \in 1 .. Len(terms)
  <2>2. terms[k] \in Terms /\ k \in 0 .. MaxIds
    BY <1>1, ElementOfSeq
  <2>3. QED
    BY <1>2, <2>2 DEF Card
<1>4. cards \in Seq(Card) /\ DOMAIN cards = 1 .. Len(terms)
  <2>1. cards \in [1 .. Len(terms) -> Card]
    BY <1>2, <1>3
  <2>2. QED
    BY <1>1, <2>1, SeqDef
<1>5. Identifies(Len(terms), cards)
  BY <1>1, <1>3, <1>4 DEF Identifies, Listed
<1>6. QED
  BY <1>1, <1>5 DEF cards

\* The parts of the invariant that are about the pages, for more ids than before.
LEMMA PagesLater ==
  ASSUME DeckInv, NEW m \in Nat, minted <= m
  PROVE  /\ \A t \in Tabs : ViewSound(m, page[t]) /\ CallSound(m, call[t])
         /\ CallSound(m, tool)
BY ViewLater, CallLater DEF DeckInv

LEMMA SpendKeeps ==
  ASSUME Bounded(bound), NEW f \in {"opens", "sessions", "grades", "edits", "reviews", "deaths"}, Spend(f)
  PROVE  Bounded(bound')
<1> DEFINE n == bound[f] - 1
<1>1. bound' = [bound EXCEPT ![f] = n] /\ bound[f] > 0
  BY DEF Spend
<1>2. bound[f] \in Nat /\ bound \in DeckScenario
  BY DEF Bounded, DeckScenario
<1>3. n \in Nat
  BY <1>1, <1>2
<1> HIDE DEF n
<1>4. [bound EXCEPT ![f] = n] \in DeckScenario /\ [bound EXCEPT ![f] = n].terms = bound.terms
  BY <1>2, <1>3 DEF DeckScenario
<1>5. QED
  BY <1>1, <1>4 DEF Bounded

LEMMA InsertArtifactKeeps ==
  ASSUME DeckInv, InsertArtifact
  PROVE  DeckInv'
<1>1. /\ maker = "artifact" /\ deck' = Numbered(bound.terms) /\ minted' = Len(bound.terms)
      /\ maker' = "clear" /\ UNCHANGED <<rows, srs, page, call, tool, bound>>
  BY DEF InsertArtifact
<1>2. minted = 0 /\ bound.terms \in Seq(Terms) /\ Len(bound.terms) <= MaxIds
  BY <1>1 DEF DeckInv, Bounded, DeckScenario
<1>3. minted' \in 0 .. MaxIds /\ Identifies(minted', deck')
  BY <1>1, <1>2, NumberedSound
<1>4. minted' \in Nat /\ minted <= minted'
  BY <1>2, <1>3
<1>5. /\ \A t \in Tabs : ViewSound(minted', page[t]) /\ CallSound(minted', call[t])
      /\ CallSound(minted', tool)
  BY <1>4, PagesLater
<1>6. QED
  BY <1>1, <1>3, <1>5 DEF DeckInv

LEMMA MakerKeeps ==
  ASSUME DeckInv, ClearRows \/ InsertRows \/ InsertStates \/ MakerDies
  PROVE  DeckInv'
<1>1. /\ UNCHANGED <<deck, minted, page, call, tool>>
      /\ maker # "artifact" /\ maker' \in {"rows", "states", "done", "dead"}
  BY DEF ClearRows, InsertRows, InsertStates, MakerDies
<1>2. Bounded(bound')
  <2>1. CASE MakerDies
    <3>1. Spend("deaths")
      BY <2>1 DEF MakerDies
    <3>2. QED
      BY <3>1, SpendKeeps DEF DeckInv
  <2>2. CASE ~MakerDies
    BY <2>2 DEF ClearRows, InsertRows, InsertStates, DeckInv
  <2>3. QED
    BY <2>1, <2>2
<1>3. RowsSound(rows, srs)
  BY DEF DeckInv
<1>4. RowsSound(rows', srs')
  <2>1. CASE ClearRows
    BY <2>1, <1>3 DEF ClearRows, RowsSound
  <2>2. CASE InsertRows
    <3>1. bound.terms \in Seq(Terms)
      BY DEF DeckInv, Bounded, DeckScenario
    <3>2. \A i \in DOMAIN bound.terms : bound.terms[i] \in Terms
      BY <3>1, ElementOfSeq, LenProperties
    <3>3. CASE Rows \cap DOMAIN bound.terms = {}
      <4>1. /\ rows' = [i \in Ids |-> IF i \in DOMAIN bound.terms THEN {bound.terms[i]} ELSE rows[i]]
            /\ srs' = srs
        BY <2>2, <3>3 DEF InsertRows
      <4>2. QED
        BY <1>3, <3>2, <4>1 DEF RowsSound
    <3>4. CASE Rows \cap DOMAIN bound.terms # {}
      BY <1>3, <2>2, <3>4 DEF InsertRows
    <3>5. QED
      BY <3>3, <3>4
  <2>3. CASE InsertStates
    <3>1. rows' = rows
      BY <2>3 DEF InsertStates
    <3>2. CASE \A i \in DOMAIN bound.terms : i \in Rows /\ srs[i] = 0
      <4>1. srs' = [i \in Ids |-> IF i \in DOMAIN bound.terms THEN 1 ELSE srs[i]]
        BY <2>3, <3>2 DEF InsertStates
      <4>2. QED
        BY <1>3, <3>1, <3>2, <4>1 DEF RowsSound, Rows
    <3>3. CASE ~\A i \in DOMAIN bound.terms : i \in Rows /\ srs[i] = 0
      BY <1>3, <2>3, <3>1, <3>3 DEF InsertStates
    <3>4. QED
      BY <3>2, <3>3
  <2>4. CASE MakerDies
    BY <1>3, <2>4 DEF MakerDies
  <2>5. QED
    BY <2>1, <2>2, <2>3, <2>4
<1>5. QED
  BY <1>1, <1>2, <1>4 DEF DeckInv

-----------------------------------------------------------------------------
(* One page's step. *)

LEMMA TabKeeps ==
  ASSUME DeckInv, NEW t \in Tabs,
         NEW v, ViewSound(minted, v), maker = "artifact" => Untouched(v), page' = [page EXCEPT ![t] = v],
         NEW c, CallSound(minted, c), call' = [call EXCEPT ![t] = c],
         UNCHANGED <<minted, maker>>, Identifies(minted, deck'), RowsSound(rows', srs'),
         Bounded(bound'), CallSound(minted, tool')
  PROVE  DeckInv'
<1>1. v \in View /\ c \in Call
  BY DEF ViewSound, CallSound
<1>2. page' \in [Tabs -> View] /\ call' \in [Tabs -> Call]
  BY <1>1 DEF DeckInv
<1>3. \A u \in Tabs : /\ page'[u] = IF u = t THEN v ELSE page[u]
                      /\ call'[u] = IF u = t THEN c ELSE call[u]
  BY DEF DeckInv
<1>4. \A u \in Tabs : ViewSound(minted', page'[u]) /\ CallSound(minted', call'[u])
  BY <1>3 DEF DeckInv
<1>5. maker' = "artifact" => minted' = 0 /\ \A u \in Tabs : Untouched(page'[u])
  BY <1>3 DEF DeckInv
<1>6. QED
  BY <1>2, <1>4, <1>5 DEF DeckInv

\* Only its call changes.
LEMMA CallKeeps ==
  ASSUME DeckInv, NEW t \in Tabs, NEW c, CallSound(minted, c), Calls(t, c),
         UNCHANGED <<minted, maker, page, tool>>,
         Identifies(minted, deck'), RowsSound(rows', srs'), Bounded(bound')
  PROVE  DeckInv'
<1>1. /\ page' = [page EXCEPT ![t] = page[t]] /\ call' = [call EXCEPT ![t] = c]
  BY DEF Calls, DeckInv
<1>2. ViewSound(minted, page[t]) /\ (maker = "artifact" => Untouched(page[t]))
  BY DEF DeckInv
<1>3. CallSound(minted, tool')
  BY DEF DeckInv
<1>4. QED
  BY <1>1, <1>2, <1>3, TabKeeps, Zenon

LEMMA NoCallSound ==
  ASSUME NEW n
  PROVE  CallSound(n, NoCall) /\ \A i \in Ids, x \in {"read-state", "write-state"} :
           CallSound(n, [NoCall EXCEPT !.next = x, !.id = i])
<1>1. NoCall \in Call
  BY DeckAssumption DEF NoCall, Call
<1>2. Ids \subseteq 0 .. MaxIds /\ \A i \in Ids : i # 0
  BY DeckAssumption DEF Ids
<1>3. \A i \in Ids, x \in {"read-state", "write-state"} : [NoCall EXCEPT !.next = x, !.id = i] \in Call
  BY <1>1, <1>2 DEF NoCall, Call
<1>4. QED
  BY <1>1, <1>2, <1>3, EmptyListed, Zenon DEF CallSound, NoCall

LEMMA NextSound ==
  ASSUME NEW n, NEW c, CallSound(n, c), NEW x \in {"write-deck", "read-rows", "delete", "each-card"}
  PROVE  CallSound(n, [c EXCEPT !.next = x])
<1>1. [c EXCEPT !.next = x] \in Call
  BY DEF CallSound, Call
<1>2. c \in Call
  BY DEF CallSound
<1>3. /\ [c EXCEPT !.next = x].next = x /\ [c EXCEPT !.next = x].sent = c.sent
      /\ [c EXCEPT !.next = x].cards = c.cards
  BY <1>2 DEF Call
<1>4. QED
  BY <1>1, <1>3 DEF CallSound

LEMMA WriteDeckKeeps ==
  ASSUME DeckInv, NEW t \in Tabs, WriteDeck(t)
  PROVE  DeckInv'
<1>1. /\ deck' = call[t].cards /\ Calls(t, [call[t] EXCEPT !.next = "read-rows"])
      /\ UNCHANGED <<rows, srs, minted, maker, page, tool, bound>>
  BY DEF WriteDeck
<1>2. CallSound(minted, call[t]) /\ RowsSound(rows', srs') /\ Bounded(bound')
  BY <1>1 DEF DeckInv
<1>3. Identifies(minted, deck')
  BY <1>1, <1>2 DEF CallSound
<1>4. QED
  BY <1>1, <1>2, <1>3, NextSound, CallKeeps

LEMMA ReadRowsKeeps ==
  ASSUME DeckInv, NEW t \in Tabs, ReadRows(t)
  PROVE  DeckInv'
<1>1. PICK x \in {"each-card", "delete"} :
        /\ Calls(t, [call[t] EXCEPT !.has = Rows, !.next = x])
        /\ UNCHANGED <<deck, rows, srs, minted, maker, page, tool, bound>>
  BY DEF ReadRows
<1>2. /\ CallSound(minted, call[t]) /\ RowsSound(rows', srs') /\ Bounded(bound')
      /\ Identifies(minted, deck')
  BY <1>1 DEF DeckInv
<1> DEFINE c == [call[t] EXCEPT !.has = Rows, !.next = x]
<1>3. CallSound(minted, c)
  <2>1. call[t] \in Call /\ Rows \subseteq Ids
    BY <1>2 DEF CallSound, Rows
  <2>2. c \in Call /\ c.next = x /\ c.sent = call[t].sent /\ c.cards = call[t].cards
    BY <2>1 DEF Call
  <2>3. QED
    BY <1>2, <2>2 DEF CallSound
<1> HIDE DEF c
<1>4. Calls(t, c)
  BY <1>1 DEF c
<1>5. QED
  BY <1>1, <1>2, <1>3, <1>4, CallKeeps

LEMMA DeleteRowsKeeps ==
  ASSUME DeckInv, NEW t \in Tabs, DeleteRows(t)
  PROVE  DeckInv'
<1>1. /\ rows' = [i \in Ids |-> IF i \in Removed(call[t]) THEN {} ELSE rows[i]]
      /\ srs' = [i \in Ids |-> IF i \in Removed(call[t]) THEN 0 ELSE srs[i]]
      /\ Calls(t, [call[t] EXCEPT !.next = "each-card"])
      /\ UNCHANGED <<deck, minted, maker, page, tool, bound>>
  BY DEF DeleteRows
<1>2. /\ CallSound(minted, call[t]) /\ RowsSound(rows, srs) /\ Bounded(bound')
      /\ Identifies(minted, deck')
  BY <1>1 DEF DeckInv
<1>3. RowsSound(rows', srs')
  BY <1>1, <1>2 DEF RowsSound
<1>4. QED
  BY <1>1, <1>2, <1>3, NextSound, CallKeeps

\* The call of a save after it is through with a card.
LEMMA PassedSound ==
  ASSUME NEW n, NEW c, CallSound(n, c), c.cards # <<>>, NEW x, x = c.next \/ x = "each-card", c.next # "state" \/ x # "state",
         c.next \notin {"read-state", "write-state"}
  PROVE  CallSound(n, [c EXCEPT !.next = x, !.cards = Tail(c.cards)])
<1>1. c \in Call /\ Identifies(n, Tail(c.cards))
  BY TailListed DEF CallSound
<1> DEFINE d == [c EXCEPT !.next = x, !.cards = Tail(c.cards)]
<1>2. Tail(c.cards) \in Seq(Card)
  BY <1>1 DEF Identifies, Listed
<1>3. x \in {"none", "write-deck", "read-rows", "delete", "each-card", "state",
             "read-state", "write-state"} /\ x # "state" /\ x \notin {"read-state", "write-state"}
  BY <1>1 DEF Call
<1>4. d \in Call /\ d.next = x /\ d.sent = c.sent /\ d.cards = Tail(c.cards)
  BY <1>1, <1>2, <1>3 DEF Call
<1> HIDE DEF d
<1>5. CallSound(n, d)
  BY <1>1, <1>3, <1>4 DEF CallSound
<1>6. QED
  BY <1>5 DEF d

LEMMA EachCardKeeps ==
  ASSUME DeckInv, NEW t \in Tabs, EachCard(t)
  PROVE  DeckInv'
<1> DEFINE c == call[t]
           h == Head(c.cards)
<1>1. /\ c.next = "each-card" /\ c.cards # <<>>
      /\ UNCHANGED <<deck, srs, minted, maker, page, tool, bound>>
  BY DEF EachCard
<1>2. /\ CallSound(minted, c) /\ RowsSound(rows, srs) /\ Bounded(bound')
      /\ Identifies(minted, deck')
  BY <1>1 DEF DeckInv
<1>3. h \in Card /\ h.id \in Ids /\ h.term \in Terms
  <2>1. h \in Card /\ h.id \in Ids
    BY <1>1, <1>2, TailListed DEF CallSound
  <2>2. QED
    BY <2>1, CardFields
<1>4. CASE h.id \in c.has
  <2>1. /\ rows' = [rows EXCEPT ![h.id] = IF rows[h.id] = {} THEN {} ELSE {h.term}]
        /\ Calls(t, [c EXCEPT !.cards = Tail(c.cards)])
    BY <1>4 DEF EachCard
  <2>2. RowsSound(rows', srs')
    BY <1>1, <1>2, <1>3, <2>1 DEF RowsSound
  <2>3. [c EXCEPT !.cards = Tail(c.cards)] = [c EXCEPT !.next = "each-card", !.cards = Tail(c.cards)]
    BY <1>1, <1>2 DEF CallSound, Call
  <2>4. CallSound(minted, [c EXCEPT !.cards = Tail(c.cards)])
    BY <1>1, <1>2, <2>3, PassedSound, Zenon
  <2>5. QED
    BY <1>1, <1>2, <2>1, <2>2, <2>4, CallKeeps
<1>5. CASE h.id \notin c.has /\ h.id \in Rows
  <2>1. Calls(t, NoCall) /\ rows' = rows
    BY <1>5 DEF EachCard
  <2>2. RowsSound(rows', srs')
    BY <1>1, <1>2, <2>1
  <2>3. QED
    BY <1>1, <1>2, <2>1, <2>2, NoCallSound, CallKeeps, Zenon
<1>6. CASE h.id \notin c.has /\ h.id \notin Rows
  <2>1. /\ rows' = [rows EXCEPT ![h.id] = {h.term}]
        /\ Calls(t, [c EXCEPT !.next = "state"])
    BY <1>6 DEF EachCard
  <2>2. RowsSound(rows', srs')
    BY <1>1, <1>2, <1>3, <2>1 DEF RowsSound
  <2>3. CallSound(minted, [c EXCEPT !.next = "state"])
    <3>1. c \in Call
      BY <1>2 DEF CallSound
    <3>2. /\ [c EXCEPT !.next = "state"] \in Call /\ [c EXCEPT !.next = "state"].next = "state"
          /\ [c EXCEPT !.next = "state"].sent = c.sent /\ [c EXCEPT !.next = "state"].cards = c.cards
      BY <3>1 DEF Call
    <3>3. QED
      BY <1>1, <1>2, <3>2 DEF CallSound
  <2>4. QED
    BY <1>1, <1>2, <2>1, <2>2, <2>3, CallKeeps
<1>7. QED
  BY <1>4, <1>5, <1>6

LEMMA InsertStateKeeps ==
  ASSUME DeckInv, NEW t \in Tabs, InsertState(t)
  PROVE  DeckInv'
<1> DEFINE c == call[t]
           i == Head(c.cards).id
<1>1. /\ c.next = "state" /\ UNCHANGED <<deck, rows, minted, maker, page, tool, bound>>
  BY DEF InsertState
<1>2. /\ CallSound(minted, c) /\ RowsSound(rows, srs) /\ Bounded(bound')
      /\ Identifies(minted, deck')
  BY <1>1 DEF DeckInv
<1>3. c.cards # <<>> /\ i \in Ids
  BY <1>1, <1>2, TailListed DEF CallSound
<1>4. CASE i \in Rows /\ srs[i] = 0
  <2>1. srs' = [srs EXCEPT ![i] = 1] /\ Calls(t, [c EXCEPT !.next = "each-card", !.cards = Tail(c.cards)])
    BY <1>4 DEF InsertState
  <2>2. RowsSound(rows', srs')
    BY <1>1, <1>2, <1>3, <1>4, <2>1 DEF RowsSound, Rows
  <2>3. CallSound(minted, [c EXCEPT !.next = "each-card", !.cards = Tail(c.cards)])
    BY <1>1, <1>2, <1>3, PassedSound, Zenon
  <2>4. QED
    BY <1>1, <1>2, <2>1, <2>2, <2>3, CallKeeps
<1>5. CASE ~(i \in Rows /\ srs[i] = 0)
  <2>1. Calls(t, NoCall) /\ srs' = srs
    BY <1>5 DEF InsertState
  <2>2. RowsSound(rows', srs')
    BY <1>1, <1>2, <2>1
  <2>3. QED
    BY <1>1, <1>2, <2>1, <2>2, NoCallSound, CallKeeps, Zenon
<1>6. QED
  BY <1>4, <1>5

\* A page after the server took up what it asked for first.
LEMMA AnsweredSound ==
  ASSUME DeckInv, NEW t \in Tabs, Asked(t), Answered(t)
  PROVE  \E v : /\ ViewSound(minted, v) /\ page' = [page EXCEPT ![t] = v]
                /\ maker # "artifact"
                /\ Head(page[t].asked) \in Errand /\ Listed(minted, Head(page[t].asked).cards)
<1> DEFINE p == page[t]
           v == [p EXCEPT !.asked = Tail(p.asked)]
<1>1. page' = [page EXCEPT ![t] = v] /\ p.asked # <<>>
  <2>1. page' = [page EXCEPT ![t].asked = Tail(p.asked)] /\ p.asked # <<>>
    BY DEF Answered, Asked
  <2>2. QED
    BY <2>1 DEF DeckInv
<1>2. ViewSound(minted, p) /\ maker # "artifact"
  BY <1>1 DEF DeckInv, Untouched
<1>3. p \in View /\ p.asked \in Seq(Errand)
  BY <1>2 DEF ViewSound, View
<1>4. /\ Tail(p.asked) \in Seq(Errand) /\ Len(p.asked) \in Nat /\ Len(Tail(p.asked)) = Len(p.asked) - 1
      /\ \A m \in 1 .. Len(Tail(p.asked)) : Tail(p.asked)[m] = p.asked[m + 1]
      /\ Head(p.asked) \in Errand
      /\ DOMAIN p.asked = 1 .. Len(p.asked) /\ Len(p.asked) # 0
  BY <1>1, <1>3, HeadTailProperties, LenProperties, EmptySeq
<1>5. DOMAIN Tail(p.asked) = 1 .. Len(p.asked) - 1
  BY <1>4, LenProperties
<1>6. \A m \in DOMAIN Tail(p.asked) : Listed(minted, Tail(p.asked)[m].cards)
  <2>1. TAKE m \in DOMAIN Tail(p.asked)
  <2>2. m + 1 \in DOMAIN p.asked /\ Tail(p.asked)[m] = p.asked[m + 1]
    BY <1>4, <1>5
  <2>3. QED
    BY <1>2, <2>2 DEF ViewSound
<1>7. Head(p.asked) = p.asked[1] /\ 1 \in DOMAIN p.asked
  BY <1>4
<1>8. Listed(minted, Head(p.asked).cards)
  BY <1>2, <1>7 DEF ViewSound
<1>9. /\ v \in View /\ v.cards = p.cards /\ v.rows = p.rows /\ v.asked = Tail(p.asked)
      /\ v.learn = p.learn
  BY <1>3, <1>4 DEF View
<1> HIDE DEF v
<1>10. ViewSound(minted, v)
  BY <1>2, <1>6, <1>9 DEF ViewSound
<1>11. QED
  BY <1>1, <1>2, <1>4, <1>8, <1>10

LEMMA ReadDeckKeeps ==
  ASSUME DeckInv, NEW t \in Tabs, ReadDeck(t)
  PROVE  DeckInv'
<1> DEFINE sent == Head(page[t].asked).cards
           new  == {k \in DOMAIN sent : ~Known(sent[k])}
           m    == minted + Cardinality(new)
           others == {u \in Tabs \ {t} : Saving(u)}
<1>1. /\ Asked(t) /\ Answered(t) /\ m <= MaxIds /\ minted' = m
      /\ UNCHANGED <<deck, rows, srs, maker, tool, bound>>
  BY ZenonT(60) DEF ReadDeck
<1>2. PICK alone \in BOOLEAN :
        call' = [u \in Tabs |->
          IF u = t THEN [NoCall EXCEPT !.next = "write-deck", !.sent = sent, !.cards = Identified(sent),
                           !.alone = alone]
          ELSE IF u \in others THEN [call[u] EXCEPT !.alone = FALSE] ELSE call[u]]
  BY Zenon DEF ReadDeck
<1>3. PICK v : /\ ViewSound(minted, v) /\ page' = [page EXCEPT ![t] = v]
               /\ maker # "artifact" /\ Listed(minted, sent)
  BY <1>1, AnsweredSound
<1>4. minted \in Nat /\ minted \in 0 .. MaxIds /\ MaxIds \in Nat /\ Identifies(minted, deck)
  BY DeckAssumption DEF DeckInv
<1>5. /\ Cardinality(new) \in Nat /\ Identifies(m, Identified(sent))
  BY <1>1, <1>3, <1>4, IdentifiedSound, Zenon
<1>6. m \in 0 .. MaxIds /\ m \in Nat /\ minted <= m
  BY <1>1, <1>4, <1>5, SMTT(30)
<1> HIDE DEF sent, new, m
<1>7. /\ \A u \in Tabs : ViewSound(m, page[u]) /\ CallSound(m, call[u])
      /\ CallSound(m, tool) /\ ViewSound(m, v) /\ Listed(m, sent) /\ Identifies(m, deck)
  <2>1. /\ \A u \in Tabs : ViewSound(m, page[u]) /\ CallSound(m, call[u])
        /\ CallSound(m, tool)
    BY <1>6, PagesLater
  <2>2. ViewSound(m, v)
    BY <1>3, <1>4, <1>6, ViewLater, Zenon
  <2>3. Listed(m, sent) /\ Identifies(m, deck)
    BY <1>3, <1>4, <1>6, ListedLater, SMTT(30)
  <2>4. QED
    BY <2>1, <2>2, <2>3
<1> DEFINE new2 == [NoCall EXCEPT !.next = "write-deck", !.sent = sent, !.cards = Identified(sent),
                      !.alone = alone]
<1>8. CallSound(m, new2)
  <2>1. sent \in Seq(Card) /\ Identified(sent) \in Seq(Card) /\ NoCall \in Call
    BY <1>5, <1>7, NoCallSound, Zenon DEF Identifies, Listed, CallSound
  <2>2. new2 \in Call /\ new2.next = "write-deck" /\ new2.sent = sent /\ new2.cards = Identified(sent)
    BY <2>1 DEF Call, NoCall
  <2>3. QED
    BY <1>5, <1>7, <2>2, ZenonT(60) DEF CallSound
<1>9. \A u \in Tabs : CallSound(m, [call[u] EXCEPT !.alone = FALSE])
  <2>1. TAKE u \in Tabs
  <2>2. CallSound(m, call[u]) /\ call[u] \in Call
    BY <1>7 DEF CallSound
  <2>3. /\ [call[u] EXCEPT !.alone = FALSE] \in Call
        /\ [call[u] EXCEPT !.alone = FALSE].next = call[u].next
        /\ [call[u] EXCEPT !.alone = FALSE].sent = call[u].sent
        /\ [call[u] EXCEPT !.alone = FALSE].cards = call[u].cards
        /\ [call[u] EXCEPT !.alone = FALSE].id = call[u].id
    BY <2>2 DEF Call
  <2>4. QED
    BY <2>2, <2>3 DEF CallSound
<1> HIDE DEF new2, others
<1>10. \A u \in Tabs : CallSound(m, call'[u])
  <2>1. TAKE u \in Tabs
  <2>2. call'[u] = new2 \/ call'[u] = [call[u] EXCEPT !.alone = FALSE] \/ call'[u] = call[u]
    BY <1>2 DEF new2
  <2>3. QED
    BY <1>7, <1>8, <1>9, <2>2
<1>11. call' \in [Tabs -> Call]
  <2>1. \A u \in Tabs : call'[u] \in Call
    BY <1>10 DEF CallSound
  <2>2. DOMAIN call' = Tabs /\ call' = [u \in Tabs |-> call'[u]]
    BY <1>2
  <2>3. QED
    BY <2>1, <2>2
<1>12. v \in View /\ page' \in [Tabs -> View] /\ \A u \in Tabs : ViewSound(m, page'[u])
  <2>1. v \in View
    BY <1>3 DEF ViewSound
  <2>2. page \in [Tabs -> View]
    BY DEF DeckInv
  <2>3. QED
    BY <1>3, <1>7, <2>1, <2>2
<1>13. /\ minted' = m /\ minted' \in 0 .. MaxIds /\ Identifies(minted', deck')
       /\ RowsSound(rows', srs') /\ maker' = maker /\ Bounded(bound') /\ CallSound(minted', tool')
  BY <1>1, <1>6, <1>7 DEF DeckInv
<1>14. QED
  BY <1>3, <1>10, <1>11, <1>12, <1>13 DEF DeckInv

LEMMA EndSaveKeeps ==
  ASSUME DeckInv, NEW t \in Tabs, EndSave(t)
  PROVE  DeckInv'
<1> DEFINE v == [page[t] EXCEPT !.cards = call[t].sent]
<1>1. /\ page' = [page EXCEPT ![t] = v] /\ call' = [call EXCEPT ![t] = NoCall]
      /\ UNCHANGED <<deck, rows, srs, minted, maker, tool, bound>>
  BY DEF EndSave, Calls, DeckInv
<1>2. /\ ViewSound(minted, page[t]) /\ CallSound(minted, call[t])
      /\ maker = "artifact" => Untouched(page[t])
  BY DEF DeckInv
<1>3. page[t] \in View /\ call[t].sent \in Seq(Card) /\ Listed(minted, call[t].sent)
  BY <1>2 DEF ViewSound, CallSound, Listed
<1>4. /\ v \in View /\ v.cards = call[t].sent /\ v.rows = page[t].rows /\ v.asked = page[t].asked
      /\ v.learn = page[t].learn /\ v.at = page[t].at
  BY <1>3 DEF View
<1> HIDE DEF v
<1>5. ViewSound(minted, v) /\ (maker = "artifact" => Untouched(v))
  BY <1>2, <1>3, <1>4 DEF ViewSound, Untouched
<1>6. /\ Identifies(minted, deck') /\ RowsSound(rows', srs') /\ Bounded(bound')
      /\ CallSound(minted, tool') /\ CallSound(minted, NoCall)
  BY <1>1, NoCallSound, Zenon DEF DeckInv
<1>7. QED
  BY <1>1, <1>5, <1>6, TabKeeps

LEMMA SaveDiesKeeps ==
  ASSUME DeckInv, NEW t \in Tabs, SaveDies(t)
  PROVE  DeckInv'
<1>1. /\ Calls(t, NoCall) /\ Spend("deaths") /\ UNCHANGED <<deck, rows, srs, minted, maker, page, tool>>
  BY DEF SaveDies
<1>2. Bounded(bound') /\ Identifies(minted, deck') /\ RowsSound(rows', srs') /\ CallSound(minted, NoCall)
  BY <1>1, SpendKeeps, NoCallSound, Zenon DEF DeckInv
<1>3. QED
  BY <1>1, <1>2, CallKeeps

-----------------------------------------------------------------------------
(* Grades and reviews. *)

LEMMA ReadCardKeeps ==
  ASSUME DeckInv, NEW t \in Tabs, ReadCard(t)
  PROVE  DeckInv'
<1>1. /\ Asked(t) /\ Answered(t) /\ UNCHANGED <<deck, rows, srs, minted, maker, tool, bound>>
  BY DEF ReadCard
<1>2. PICK c : CallSound(minted, c) /\ call' = [call EXCEPT ![t] = c]
  <2>1. Rows \subseteq Ids
    BY DEF Rows
  <2>2. QED
    BY <2>1, NoCallSound, Zenon DEF ReadCard, Calls
<1>3. PICK v : ViewSound(minted, v) /\ page' = [page EXCEPT ![t] = v] /\ maker # "artifact"
  BY <1>1, AnsweredSound
<1>4. /\ Identifies(minted, deck') /\ RowsSound(rows', srs') /\ Bounded(bound')
      /\ CallSound(minted, tool')
  BY <1>1 DEF DeckInv
<1>5. QED
  BY <1>1, <1>2, <1>3, <1>4, TabKeeps

LEMMA ReadStateKeeps ==
  ASSUME DeckInv, NEW t \in Tabs, ReadState(t)
  PROVE  DeckInv'
<1> DEFINE n == srs[call[t].id]
           c == [call[t] EXCEPT !.next = "write-state", !.read = n]
<1>1. /\ call[t].next = "read-state" /\ Calls(t, c)
      /\ UNCHANGED <<deck, rows, srs, minted, maker, page, tool, bound>>
  BY DEF ReadState
<1>2. /\ CallSound(minted, call[t]) /\ RowsSound(rows, srs) /\ Bounded(bound')
      /\ Identifies(minted, deck') /\ RowsSound(rows', srs')
  BY <1>1 DEF DeckInv
<1>3. call[t] \in Call /\ call[t].id # 0 /\ call[t].id \in 0 .. MaxIds
  BY <1>1, <1>2 DEF CallSound, Call
<1>4. n \in Nat
  <2>1. call[t].id \in Ids
    BY <1>3, DeckAssumption DEF Ids
  <2>2. QED
    BY <1>2, <2>1 DEF RowsSound
<1> HIDE DEF n
<1>5. /\ c \in Call /\ c.next = "write-state" /\ c.sent = call[t].sent /\ c.cards = call[t].cards
      /\ c.id = call[t].id
  BY <1>3, <1>4 DEF Call
<1> HIDE DEF c
<1>6. CallSound(minted, c)
  BY <1>2, <1>3, <1>5 DEF CallSound
<1>7. QED
  BY <1>1, <1>2, <1>6, CallKeeps

LEMMA ScheduleSound ==
  ASSUME NEW r, NEW s, RowsSound(r, s), NEW i, NEW n \in Nat, i \in Ids /\ n # 0 => r[i] # {}
  PROVE  RowsSound(r, [s EXCEPT ![i] = n])
<1> DEFINE new == [s EXCEPT ![i] = n]
<1>1. s \in [Ids -> Nat]
  BY DEF RowsSound
<1>2. new \in [Ids -> Nat] /\ \A j \in Ids : new[j] = IF j = i THEN n ELSE s[j]
  BY <1>1
<1> HIDE DEF new
<1>3. RowsSound(r, new)
  BY <1>2 DEF RowsSound
<1>4. QED
  BY <1>3 DEF new

LEMMA WriteStateKeeps ==
  ASSUME DeckInv, NEW t \in Tabs, WriteState(t)
  PROVE  DeckInv'
<1> DEFINE i == call[t].id
           c == call[t]
<1>1. /\ c.next = "write-state" /\ Calls(t, NoCall)
      /\ srs' = IF c.read # 0
                THEN [srs EXCEPT ![i] = IF srs[i] = 0 THEN 0 ELSE c.read + 1]
                ELSE [srs EXCEPT ![i] = IF srs[i] = 0 /\ i \in Rows THEN 2 ELSE srs[i]]
      /\ UNCHANGED <<deck, rows, minted, maker, page, tool, bound>>
  BY DEF WriteState
<1>2. /\ CallSound(minted, c) /\ RowsSound(rows, srs) /\ Bounded(bound')
      /\ Identifies(minted, deck')
  BY <1>1 DEF DeckInv
<1>3. c.read \in Nat
  BY <1>2 DEF CallSound, Call
<1>a. i \in Ids /\ srs[i] \in Nat /\ (srs[i] # 0 => rows[i] # {})
  <2>1. i \in 0 .. MaxIds /\ i # 0
    BY <1>1, <1>2 DEF CallSound, Call
  <2>2. i \in Ids
    BY <2>1, DeckAssumption DEF Ids
  <2>3. QED
    BY <1>2, <2>2 DEF RowsSound
<1> HIDE DEF i
<1>4. RowsSound(rows', srs')
  <2>1. PICK n \in Nat : srs' = [srs EXCEPT ![i] = n] /\ (n # 0 => rows[i] # {})
    <3>1. CASE c.read # 0
      <4>1. PICK n \in Nat : n = (IF srs[i] = 0 THEN 0 ELSE c.read + 1)
        BY <1>3
      <4>2. QED
        BY <1>1, <1>a, <3>1, <4>1
    <3>2. CASE c.read = 0
      <4>1. PICK n \in Nat : n = (IF srs[i] = 0 /\ i \in Rows THEN 2 ELSE srs[i])
        BY <1>a
      <4>2. n # 0 => rows[i] # {}
        BY <1>a, <4>1 DEF Rows
      <4>3. QED
        BY <1>1, <3>2, <4>1, <4>2
    <3>3. QED
      BY <3>1, <3>2
  <2>2. RowsSound(rows, [srs EXCEPT ![i] = n])
    BY <1>2, <2>1, ScheduleSound
  <2>3. QED
    BY <1>1, <2>1, <2>2
<1>5. QED
  BY <1>1, <1>2, <1>4, NoCallSound, CallKeeps, Zenon

LEMMA ToolKeeps ==
  ASSUME DeckInv, ToolWrites \/ \E i \in Ids : ToolReads(i)
  PROVE  DeckInv'
<1>1. /\ RowsSound(rows, srs) /\ CallSound(minted, tool)
      /\ UNCHANGED <<deck, rows, minted, maker, page, call>>
  BY Zenon DEF DeckInv, ToolWrites, ToolReads
<1>2. CASE ToolWrites
  <2>1. /\ srs' = [srs EXCEPT ![tool.id] = IF srs[tool.id] = 0 THEN 0 ELSE tool.read + 1]
        /\ tool' = NoCall /\ bound' = bound
    BY <1>2 DEF ToolWrites
  <2>2. tool.read \in Nat
    BY <1>1 DEF CallSound, Call
  <2>3. RowsSound(rows', srs')
    <3>1. PICK n \in Nat : n = (IF srs[tool.id] = 0 THEN 0 ELSE tool.read + 1)
      BY <2>2
    <3>2. tool.id \in Ids /\ n # 0 => rows[tool.id] # {}
      BY <1>1, <3>1 DEF RowsSound
    <3>3. RowsSound(rows, [srs EXCEPT ![tool.id] = n])
      BY <1>1, <3>2, ScheduleSound
    <3>4. QED
      BY <1>1, <2>1, <3>1, <3>3
  <2>4. CallSound(minted', tool') /\ Bounded(bound')
    BY <2>1, NoCallSound, Zenon DEF DeckInv
  <2>5. QED
    BY <1>1, <2>3, <2>4 DEF DeckInv
<1>3. ASSUME NEW i \in Ids, ToolReads(i) PROVE DeckInv'
  <2>1. /\ tool' = [NoCall EXCEPT !.next = "write-state", !.id = i, !.read = srs[i]]
        /\ srs' = srs /\ Spend("reviews")
    BY <1>3, Zenon DEF ToolReads
  <2>2. Bounded(bound')
    BY <2>1, SpendKeeps DEF DeckInv
  <2>3. CallSound(minted, tool')
    <3>1. PICK c : c = [NoCall EXCEPT !.next = "write-state", !.id = i]
      OBVIOUS
    <3>2. CallSound(minted, c) /\ srs[i] \in Nat
      BY <1>1, <3>1, NoCallSound, Zenon DEF RowsSound
    <3>3. tool' = [c EXCEPT !.read = srs[i]]
      BY <2>1, <3>1 DEF NoCall
    <3>4. c \in Call
      BY <3>2 DEF CallSound
    <3>5. /\ tool' \in Call /\ tool'.next = c.next /\ tool'.sent = c.sent
          /\ tool'.cards = c.cards /\ tool'.id = c.id
      BY <3>2, <3>3, <3>4 DEF Call
    <3>6. QED
      BY <3>2, <3>5 DEF CallSound
  <2>4. RowsSound(rows', srs')
    BY <1>1, <2>1
  <2>5. QED
    BY <1>1, <2>2, <2>3, <2>4 DEF DeckInv
<1>4. QED
  BY <1>2, <1>3

-----------------------------------------------------------------------------
(* What the student does on a page. *)

LEMMA PageKeeps ==
  ASSUME DeckInv, NEW t \in Tabs, NEW v, ViewSound(minted, v), ~Untouched(page[t]) \/ maker # "artifact",
         PageBecomes(t, v), Bounded(bound')
  PROVE  DeckInv'
<1>1. /\ page' = [page EXCEPT ![t] = v] /\ call' = [call EXCEPT ![t] = call[t]]
      /\ UNCHANGED <<deck, rows, srs, minted, maker, tool>>
  BY DEF PageBecomes, DeckInv
<1>2. maker # "artifact"
  BY DEF DeckInv
<1>3. /\ CallSound(minted, call[t]) /\ CallSound(minted, tool') /\ RowsSound(rows', srs')
      /\ Identifies(minted, deck')
  BY <1>1 DEF DeckInv
<1>4. QED
  BY <1>1, <1>2, <1>3, TabKeeps

LEMMA UnopenedSound ==
  ASSUME NEW n
  PROVE  ViewSound(n, Unopened) /\ Untouched(Unopened)
<1>1. NoSession \in Session /\ SessionSound(NoSession) /\ ~NoSession.on
  BY NoSessionSound DEF SessionSound, NoSession
<1>2. Unopened \in View
  BY <1>1 DEF Unopened, View
<1>3. QED
  BY <1>1, <1>2, EmptyListed DEF ViewSound, Unopened, Untouched

LEMMA OpenPageKeeps ==
  ASSUME DeckInv, NEW t \in Tabs, OpenPage(t)
  PROVE  DeckInv'
<1> DEFINE v == [Unopened EXCEPT !.at = "study", !.cards = deck]
<1>1. maker # "artifact" /\ Spend("opens") /\ PageBecomes(t, v)
  BY DEF OpenPage
<1>2. Identifies(minted, deck) /\ deck \in Seq(Card)
  BY DEF DeckInv, Identifies, Listed
<1>3. ViewSound(minted, Unopened) /\ Unopened \in View
  BY UnopenedSound DEF ViewSound
<1>4. /\ v \in View /\ v.cards = deck /\ v.rows = Unopened.rows /\ v.asked = Unopened.asked
      /\ v.learn = Unopened.learn
  BY <1>2, <1>3 DEF View
<1> HIDE DEF v
<1>5. ViewSound(minted, v)
  BY <1>2, <1>3, <1>4 DEF ViewSound, Identifies
<1>6. Bounded(bound')
  BY <1>1, SpendKeeps DEF DeckInv
<1>7. QED
  BY <1>1, <1>5, <1>6, PageKeeps

LEMMA LearnKeeps ==
  ASSUME DeckInv, NEW t \in Tabs, Learn(t)
  PROVE  DeckInv'
<1> DEFINE l == StartSession(page[t].cards)
           v == [page[t] EXCEPT !.learn = l]
<1>1. page[t].at = "study" /\ Spend("sessions") /\ PageBecomes(t, v)
  BY DEF Learn
<1>2. ViewSound(minted, page[t]) /\ page[t] \in View /\ page[t].cards \in Seq(Card)
  BY DEF DeckInv, ViewSound, View
<1>3. SessionSound(l) /\ l \in Session
  BY <1>2, StartSound DEF SessionSound
<1> HIDE DEF l
<1>4. /\ v \in View /\ v.learn = l /\ v.cards = page[t].cards /\ v.rows = page[t].rows
      /\ v.asked = page[t].asked
  BY <1>2, <1>3 DEF View
<1> HIDE DEF v
<1>5. ViewSound(minted, v)
  BY <1>2, <1>3, <1>4 DEF ViewSound
<1>6. Bounded(bound') /\ ~Untouched(page[t])
  BY <1>1, SpendKeeps DEF DeckInv, Untouched
<1>7. QED
  BY <1>1, <1>5, <1>6, PageKeeps

LEMMA StartEditingKeeps ==
  ASSUME DeckInv, NEW t \in Tabs, StartEditing(t)
  PROVE  DeckInv'
<1> DEFINE cards == page[t].cards
           new == [k \in DOMAIN cards |-> [card |-> cards[k], full |-> TRUE]]
           v == [page[t] EXCEPT !.at = "edit", !.learn = NoSession, !.rows = new]
<1>1. page[t].at = "study" /\ PageBecomes(t, v) /\ bound' = bound
  BY DEF StartEditing
<1>2. ViewSound(minted, page[t]) /\ page[t] \in View /\ Listed(minted, cards)
  BY DEF DeckInv, ViewSound
<1>3. cards \in Seq(Card) /\ Len(cards) \in Nat /\ DOMAIN cards = 1 .. Len(cards)
  BY <1>2, LenProperties DEF Listed
<1>4. \A k \in DOMAIN cards : new[k] \in EditorRow /\ new[k].card = cards[k]
  <2>1. TAKE k \in DOMAIN cards
  <2>2. cards[k] \in Card
    BY <1>3, ElementOfSeq
  <2>3. QED
    BY <2>2 DEF EditorRow
<1>5. Lined(minted, new)
  <2>1. new \in [1 .. Len(cards) -> EditorRow] /\ DOMAIN new = DOMAIN cards
    BY <1>3, <1>4
  <2>2. new \in Seq(EditorRow)
    BY <1>3, <2>1, SeqDef
  <2> HIDE DEF new
  <2>3. QED
    BY <1>2, <1>4, <2>1, <2>2 DEF Lined, Listed
<1>6. new \in Seq(EditorRow) /\ NoSession \in Session /\ SessionSound(NoSession)
  BY <1>5, NoSessionSound DEF Lined, SessionSound
<1> HIDE DEF new
<1>7. /\ v \in View /\ v.learn = NoSession /\ v.cards = page[t].cards /\ v.rows = new
      /\ v.asked = page[t].asked
  BY <1>2, <1>6 DEF View
<1> HIDE DEF v
<1>8. ViewSound(minted, v)
  BY <1>2, <1>5, <1>6, <1>7 DEF ViewSound
<1>9. Bounded(bound') /\ ~Untouched(page[t])
  BY <1>1 DEF DeckInv, Untouched
<1>10. QED
  BY <1>1, <1>8, <1>9, PageKeeps

LEMMA StopEditingKeeps ==
  ASSUME DeckInv, NEW t \in Tabs, StopEditing(t)
  PROVE  DeckInv'
<1> DEFINE v == [page[t] EXCEPT !.at = "study", !.rows = <<>>]
<1>1. page[t].at = "edit" /\ PageBecomes(t, v) /\ bound' = bound
  BY DEF StopEditing
<1>2. ViewSound(minted, page[t]) /\ page[t] \in View
  BY DEF DeckInv, ViewSound
<1>3. /\ v \in View /\ v.learn = page[t].learn /\ v.cards = page[t].cards /\ v.rows = <<>>
      /\ v.asked = page[t].asked
  <2>1. <<>> \in Seq(EditorRow)
    BY EmptySeq
  <2>2. QED
    BY <1>2, <2>1 DEF View
<1> HIDE DEF v
<1>4. ViewSound(minted, v)
  BY <1>2, <1>3, EmptyListed DEF ViewSound
<1>5. Bounded(bound') /\ ~Untouched(page[t])
  BY <1>1 DEF DeckInv, Untouched
<1>6. QED
  BY <1>1, <1>4, <1>5, PageKeeps

\* One more thing asked for.
LEMMA AskedMoreSound ==
  ASSUME NEW n, NEW asked \in Seq(Errand), \A m \in DOMAIN asked : Listed(n, asked[m].cards),
         NEW e \in Errand, Listed(n, e.cards)
  PROVE  /\ Append(asked, e) \in Seq(Errand)
         /\ \A m \in DOMAIN Append(asked, e) : Listed(n, Append(asked, e)[m].cards)
<1> DEFINE new == Append(asked, e)
<1>1. Len(asked) \in Nat /\ DOMAIN asked = 1 .. Len(asked)
  BY LenProperties
<1>2. /\ new \in Seq(Errand) /\ Len(new) = Len(asked) + 1
      /\ \A i \in 1 .. Len(asked) : new[i] = asked[i]
      /\ new[Len(asked) + 1] = e
  BY AppendProperties
<1> HIDE DEF new
<1>3. DOMAIN new = 1 .. Len(asked) + 1
  BY <1>1, <1>2, LenProperties
<1>4. \A m \in DOMAIN new : Listed(n, new[m].cards)
  BY <1>1, <1>2, <1>3
<1>5. QED
  BY <1>2, <1>4 DEF new

LEMMA SavesKeeps ==
  ASSUME DeckInv, NEW t \in Tabs, NEW new, Lined(minted, new), Saves(t, new)
  PROVE  DeckInv'
<1> DEFINE full == Picked(new, {k \in DOMAIN new : new[k].full})
           cards == [k \in DOMAIN full |-> full[k].card]
           e == [kind |-> "save", id |-> 0, cards |-> cards]
           asked == IF full = <<>> THEN page[t].asked ELSE Append(page[t].asked, e)
           v == [page[t] EXCEPT !.rows = new, !.asked = asked]
<1>1. page[t].at = "edit" /\ Spend("edits") /\ PageBecomes(t, v)
  BY DEF Saves
<1>2. ViewSound(minted, page[t]) /\ page[t] \in View /\ page[t].asked \in Seq(Errand)
  BY DEF DeckInv, ViewSound, View
<1>3. Listed(minted, cards) /\ cards \in Seq(Card)
  <2>1. Listed(minted, cards)
    BY SentListed
  <2>2. QED
    BY <2>1 DEF Listed
<1> HIDE DEF cards
<1>4. e \in Errand /\ e.cards = cards
  BY <1>3, DeckAssumption DEF Errand
<1> HIDE DEF e
<1>5. asked \in Seq(Errand) /\ \A m \in DOMAIN asked : Listed(minted, asked[m].cards)
  <2>1. \A m \in DOMAIN page[t].asked : Listed(minted, page[t].asked[m].cards)
    BY <1>2 DEF ViewSound
  <2>2. /\ Append(page[t].asked, e) \in Seq(Errand)
        /\ \A m \in DOMAIN Append(page[t].asked, e) : Listed(minted, Append(page[t].asked, e)[m].cards)
    BY <1>2, <1>3, <1>4, <2>1, AskedMoreSound
  <2>3. QED
    BY <1>2, <2>1, <2>2
<1> HIDE DEF asked
<1>6. new \in Seq(EditorRow)
  BY DEF Lined
<1>7. /\ v \in View /\ v.learn = page[t].learn /\ v.cards = page[t].cards /\ v.rows = new
      /\ v.asked = asked
  BY <1>2, <1>5, <1>6 DEF View
<1> HIDE DEF v
<1>8. ViewSound(minted, v)
  BY <1>2, <1>5, <1>7 DEF ViewSound
<1>9. Bounded(bound') /\ ~Untouched(page[t])
  BY <1>1, SpendKeeps DEF DeckInv, Untouched
<1>10. QED
  BY <1>1, <1>8, <1>9, PageKeeps

LEMMA EditorKeepsDeck ==
  ASSUME DeckInv, NEW t \in Tabs,
         \/ \E term \in Terms : AddTerm(t, term)
         \/ \E k \in DOMAIN page[t].rows :
              Retype(t, k, TRUE) \/ Retype(t, k, FALSE) \/ RemoveTerm(t, k) \/ MoveTerm(t, k)
  PROVE  DeckInv'
<1>1. Lined(minted, page[t].rows) /\ page[t].rows \in Seq(EditorRow) /\ minted \in Nat
  BY DeckAssumption DEF DeckInv, ViewSound, Lined
<1>2. ASSUME NEW term \in Terms, AddTerm(t, term) PROVE DeckInv'
  <2>1. Lined(minted, Append(page[t].rows, [card |-> [id |-> 0, term |-> term], full |-> TRUE]))
    BY <1>1, LinedAppend
  <2>2. QED
    BY <1>2, <2>1, SavesKeeps DEF AddTerm
<1>3. ASSUME NEW k \in DOMAIN page[t].rows, NEW full \in BOOLEAN, Retype(t, k, full) PROVE DeckInv'
  <2>1. Lined(minted, [page[t].rows EXCEPT ![k].full = full])
    BY <1>1, LinedRetyped
  <2>2. QED
    BY <1>3, <2>1, SavesKeeps DEF Retype
<1>4. ASSUME NEW k \in DOMAIN page[t].rows, RemoveTerm(t, k) PROVE DeckInv'
  <2>1. Lined(minted, RemoveAt(page[t].rows, k))
    BY <1>1, RemoveAtDrawn, LinedDrawn
  <2>2. QED
    BY <1>4, <2>1, SavesKeeps DEF RemoveTerm
<1>5. ASSUME NEW k \in DOMAIN page[t].rows, MoveTerm(t, k) PROVE DeckInv'
  <2>1. Lined(minted, <<page[t].rows[k]>> \o RemoveAt(page[t].rows, k))
    BY <1>1, ToTopDrawn, LinedDrawn
  <2>2. QED
    BY <1>5, <2>1, SavesKeeps DEF MoveTerm
<1>6. QED
  BY <1>2, <1>3, <1>4, <1>5

LEMMA GradeKeeps ==
  ASSUME DeckInv, NEW t \in Tabs, NEW g \in {"yes", "close", "no"}, Grade(t, g)
  PROVE  DeckInv'
<1> DEFINE s == page[t].learn
           c == s.queue[s.position]
           owed == [s.owed EXCEPT ![c] = s.owed[c] - 1 + Extra(g)]
           e == [kind |-> "grade", id |-> page[t].cards[c].id, cards |-> <<>>]
<1>1. /\ s.on /\ s.position <= Len(s.queue) /\ Spend("grades") /\ c \in DOMAIN page[t].cards
  BY ZenonT(60) DEF Grade
<1>2. PICK queue \in Requeued(s.queue, s.position + 1, c, g) :
        PageBecomes(t, [page[t] EXCEPT
          !.learn = [s EXCEPT !.queue = queue, !.position = s.position + 1, !.owed = owed],
          !.asked = Append(page[t].asked, e)])
  BY Zenon DEF Grade
<1> DEFINE l == [s EXCEPT !.queue = queue, !.position = s.position + 1, !.owed = owed]
           asked == Append(page[t].asked, e)
           v == [page[t] EXCEPT !.learn = l, !.asked = asked]
<1>3. /\ ViewSound(minted, page[t]) /\ page[t] \in View /\ page[t].asked \in Seq(Errand)
      /\ page[t].cards \in Seq(Card) /\ SessionSound(s)
  BY Zenon DEF DeckInv, ViewSound, View
<1>4. SessionSound(l) /\ l \in Session
  <2>1. SessionSound(l)
    BY <1>1, <1>3, GradedSound, Zenon
  <2>2. QED
    BY <2>1, ZenonT(60) DEF SessionSound
<1>5. e \in Errand /\ e.cards = <<>>
  <2>1. page[t].cards[c] \in Card
    BY <1>1, <1>3, ElementOfSeq, SMTT(30)
  <2>2. PICK i \in 0 .. MaxIds : page[t].cards[c].id = i
    BY <2>1, CardFields
  <2>3. <<>> \in Seq(Card)
    BY EmptySeq
  <2>4. [kind |-> "grade", id |-> i, cards |-> <<>>] \in Errand
    BY <2>3 DEF Errand
  <2>5. QED
    BY <2>2, <2>4
<1>6. asked \in Seq(Errand) /\ \A m \in DOMAIN asked : Listed(minted, asked[m].cards)
  <2>1. \A m \in DOMAIN page[t].asked : Listed(minted, page[t].asked[m].cards)
    BY <1>3, Zenon DEF ViewSound
  <2> HIDE DEF e
  <2>2. QED
    BY <1>3, <1>5, <2>1, EmptyListed, AskedMoreSound
<1>7. PageBecomes(t, v)
  BY <1>2, Zenon
<1>a. ~Untouched(page[t])
  BY <1>1 DEF Untouched
<1>b. Bounded(bound')
  BY <1>1, SpendKeeps DEF DeckInv
<1> HIDE DEF l, asked
<1>8. /\ v \in View /\ v.learn = l /\ v.cards = page[t].cards /\ v.rows = page[t].rows
      /\ v.asked = asked
  BY <1>3, <1>4, <1>6 DEF View
<1> HIDE DEF v
<1>9. ViewSound(minted, v)
  BY <1>3, <1>4, <1>6, <1>8 DEF ViewSound
<1>10. QED
  BY <1>7, <1>9, <1>a, <1>b, PageKeeps, Zenon

LEMMA InitDeckInv == DeckInit => DeckInv
<1> SUFFICES ASSUME DeckInit PROVE DeckInv
  OBVIOUS
<1>1. /\ bound \in Scenarios /\ deck = <<>> /\ minted = 0 /\ maker = "artifact" /\ tool = NoCall
      /\ rows = [i \in Ids |-> {}] /\ srs = [i \in Ids |-> 0]
      /\ page = [t \in Tabs |-> Unopened] /\ call = [t \in Tabs |-> NoCall]
  BY DEF DeckInit
<1>2. Bounded(bound) /\ minted \in 0 .. MaxIds
  BY <1>1, DeckAssumption DEF Bounded
<1>3. RowsSound(rows, srs)
  BY <1>1 DEF RowsSound
<1>4. ViewSound(minted, Unopened) /\ Unopened \in View /\ Untouched(Unopened)
  BY UnopenedSound, Zenon DEF ViewSound
<1>5. CallSound(minted, NoCall) /\ NoCall \in Call
  BY NoCallSound, Zenon DEF CallSound
<1>6. QED
  BY <1>1, <1>2, <1>3, <1>4, <1>5, EmptyListed DEF DeckInv

LEMMA StepDeckInv == DeckInv /\ [DeckNext]_deckVars => DeckInv'
<1> SUFFICES ASSUME DeckInv, [DeckNext]_deckVars PROVE DeckInv'
  OBVIOUS
<1>1. CASE InsertArtifact
  BY <1>1, InsertArtifactKeeps
<1>2. CASE ClearRows \/ InsertRows \/ InsertStates \/ MakerDies
  BY <1>2, MakerKeeps
<1>3. ASSUME NEW t \in Tabs, SaveStep(t) PROVE DeckInv'
  BY <1>3, ReadDeckKeeps, WriteDeckKeeps, ReadRowsKeeps, DeleteRowsKeeps, EachCardKeeps,
     InsertStateKeeps, EndSaveKeeps, SaveDiesKeeps DEF SaveStep
<1>4. ASSUME NEW t \in Tabs, ReadCard(t) \/ ReadState(t) \/ WriteState(t) PROVE DeckInv'
  BY <1>4, ReadCardKeeps, ReadStateKeeps, WriteStateKeeps
<1>5. ASSUME NEW t \in Tabs, OpenPage(t) \/ Learn(t) \/ StartEditing(t) \/ StopEditing(t) PROVE DeckInv'
  BY <1>5, OpenPageKeeps, LearnKeeps, StartEditingKeeps, StopEditingKeeps
<1>6. ASSUME NEW t \in Tabs, NEW g \in {"yes", "close", "no"}, Grade(t, g) PROVE DeckInv'
  BY <1>6, GradeKeeps
<1>7. ASSUME NEW t \in Tabs,
             \/ \E term \in Terms : AddTerm(t, term)
             \/ \E k \in DOMAIN page[t].rows :
                  Retype(t, k, TRUE) \/ Retype(t, k, FALSE) \/ RemoveTerm(t, k) \/ MoveTerm(t, k)
      PROVE  DeckInv'
  BY <1>7, EditorKeepsDeck
<1>8. CASE ToolWrites \/ \E i \in Ids : ToolReads(i)
  BY <1>8, ToolKeeps
<1>9. CASE UNCHANGED deckVars
  BY <1>9 DEF deckVars, DeckInv
<1>10. QED
  BY <1>1, <1>2, <1>3, <1>4, <1>5, <1>6, <1>7, <1>8, <1>9 DEF DeckNext

\* Distinct ids are as many as the cards.
LEMMA AsManyIds ==
  ASSUME NEW n, NEW cards, Identifies(n, cards)
  PROVE  Cardinality(IdsOf(cards)) = Len(cards)
<1> DEFINE f == [k \in 1 .. Len(cards) |-> cards[k].id]
<1>1. cards \in Seq(Card) /\ Len(cards) \in Nat /\ DOMAIN cards = 1 .. Len(cards)
  BY LenProperties DEF Identifies, Listed
<1>2. f \in [1 .. Len(cards) -> IdsOf(cards)]
  BY <1>1 DEF IdsOf
<1>3. \A j, k \in 1 .. Len(cards) : f[j] = f[k] => j = k
  BY <1>1 DEF Identifies, Listed
<1>4. \A y \in IdsOf(cards) : \E k \in 1 .. Len(cards) : f[k] = y
  BY <1>1 DEF IdsOf
<1>5. f \in Bijection(1 .. Len(cards), IdsOf(cards))
  <2> HIDE DEF f
  <2>1. QED
    BY <1>2, <1>3, <1>4 DEF Bijection, Injection, Surjection, IsInjective
<1>6. IsFiniteSet(1 .. Len(cards)) /\ Cardinality(1 .. Len(cards)) = Len(cards)
  <2>1. 1 \in Int /\ Len(cards) \in Int
    BY <1>1
  <2>2. /\ IsFiniteSet(1 .. Len(cards))
        /\ Cardinality(1 .. Len(cards)) = IF 1 > Len(cards) THEN 0 ELSE Len(cards) - 1 + 1
    BY <2>1, FS_Interval
  <2>3. QED
    BY <1>1, <2>2
<1>7. ExistsBijection(1 .. Len(cards), IdsOf(cards))
  BY <1>5 DEF ExistsBijection
<1>8. QED
  BY <1>6, <1>7, FS_Bijection

\* The deck's ids are distinct and what every page and every save remembers of it has
\* no id twice, whatever interleaves.
THEOREM DeckInvariant == DeckSpec => []DeckInv
<1>1. DeckInit => DeckInv
  BY InitDeckInv
<1>2. DeckInv /\ [DeckNext]_deckVars => DeckInv'
  BY StepDeckInv
<1>3. QED
  BY <1>1, <1>2, PTL DEF DeckSpec

\* Every reachable state of the deck, its tables and its pages is well typed: ids are
\* never shared by two cards of the payload, and only a card with a row is scheduled.
THEOREM DeckTypesCorrect == DeckSpec => []TypeOK
<1>1. ASSUME DeckInv PROVE TypeOK
  <2>1. /\ deck \in Seq(Card) /\ 0 \notin IdsOf(deck) /\ Cardinality(IdsOf(deck)) = Len(deck)
    <3>1. Identifies(minted, deck)
      BY <1>1 DEF DeckInv
    <3>2. Cardinality(IdsOf(deck)) = Len(deck)
      BY <3>1, AsManyIds
    <3>3. QED
      BY <3>1, <3>2 DEF Identifies, Listed, IdsOf
  <2>2. /\ rows \in [Ids -> SUBSET Terms] /\ \A i \in Ids : Cardinality(rows[i]) <= 1
        /\ srs \in [Ids -> Nat] /\ \A i \in Ids : srs[i] # 0 => i \in Rows
    <3>1. RowsSound(rows, srs)
      BY <1>1 DEF DeckInv
    <3>2. \A i \in Ids : Cardinality(rows[i]) <= 1
      <4>1. TAKE i \in Ids
      <4>2. rows[i] = {} \/ \E x \in Terms : rows[i] = {x}
        BY <3>1 DEF RowsSound
      <4>3. Cardinality(rows[i]) = 0 \/ Cardinality(rows[i]) = 1
        BY <4>2, FS_EmptySet, FS_Singleton
      <4>4. QED
        BY <4>3
    <3>3. QED
      BY <3>1, <3>2 DEF RowsSound, Rows
  <2>3. minted \in 0 .. MaxIds /\ maker \in {"artifact", "clear", "rows", "states", "done", "dead"}
    BY <1>1 DEF DeckInv
  <2>4. ASSUME NEW t \in Tabs
        PROVE  /\ page[t].at \in {"unopened", "study", "edit"} /\ page[t].cards \in Seq(Card)
               /\ page[t].learn \in Session
               /\ call[t].cards \in Seq(Card) /\ call[t].has \subseteq Ids
    <3>1. page[t] \in View /\ call[t] \in Call
      BY <1>1 DEF DeckInv
    <3>2. QED
      BY <3>1 DEF View, Call
  <2>5. QED
    BY <2>1, <2>2, <2>3, <2>4 DEF TypeOK
<1>2. QED
  BY <1>1, DeckInvariant, PTL

\* In a Learn session of any deck, each card has as many passes ahead as its grades
\* earned it, wherever missed cards are put back.
THEOREM MissedReturns == DeckSpec => []MissedComesBack
<1>1. ASSUME DeckInv PROVE MissedComesBack
  <2>1. ASSUME NEW t \in Tabs PROVE SessionSound(page[t].learn)
    BY <1>1 DEF DeckInv, ViewSound
  <2>2. QED
    BY <2>1 DEF MissedComesBack, SessionSound, Ahead
<1>2. QED
  BY <1>1, DeckInvariant, PTL

-----------------------------------------------------------------------------
(* FlashcardDeck: a save that nothing disturbs. *)

\* What a save at call c has done for deck d and rows r, with m cards through.
Mended(d, r, c, m) ==
  /\ m + Len(c.cards) = Len(d)
  /\ \A k \in 1 .. Len(c.cards) : c.cards[k] = d[m + k]
  /\ \A i \in Ids : r[i] # {} => i \in IdsOf(d)
  /\ \A k \in 1 .. m : r[d[k].id] = {d[k].term}
  /\ \A k \in m + 1 .. Len(d) :
       \/ c.next = "state" /\ k = m + 1
       \/ d[k].id \in c.has <=> r[d[k].id] # {}
  /\ c.next = "state" => r[d[m + 1].id] = {d[m + 1].term}

Mending(d, r, c) ==
  /\ c.next \in {"read-rows", "delete"} => c.cards = d
  /\ c.next = "delete" => \A i \in Ids : i \in c.has <=> r[i] # {}
  /\ c.next \in {"each-card", "state"} => \E m \in Nat : Mended(d, r, c, m)

\* While no other save and no creation goes on beside it, it is the only one to write
\* the deck and the rows.
RepairInv ==
  \A t \in Tabs : Saving(t) /\ call[t].alone =>
    /\ maker \in {"done", "dead"}
    /\ \A u \in Tabs \ {t} : ~Saving(u)
    /\ Mending(deck, rows, call[t])

\* Steps that touch neither the deck nor the rows, and start no save.
LEMMA AsideKeeps ==
  ASSUME RepairInv, UNCHANGED <<deck, rows, maker>>,
         \A t \in Tabs : call'[t] = call[t] \/ ~Saving(t)'
  PROVE  RepairInv'
<1> SUFFICES ASSUME NEW t \in Tabs, Saving(t)', call'[t].alone
             PROVE  /\ maker' \in {"done", "dead"}
                    /\ \A u \in Tabs \ {t} : ~Saving(u)'
                    /\ Mending(deck', rows', call'[t])
  BY DEF RepairInv
<1>1. call'[t] = call[t] /\ Saving(t)
  BY DEF Saving
<1>2. /\ maker \in {"done", "dead"} /\ \A u \in Tabs \ {t} : ~Saving(u)
      /\ Mending(deck, rows, call[t])
  BY <1>1 DEF RepairInv
<1>3. \A u \in Tabs \ {t} : ~Saving(u)'
  BY <1>2 DEF Saving
<1>4. QED
  BY <1>1, <1>2, <1>3

\* While the deck is being created, no save is alone.
LEMMA CreationKeeps ==
  ASSUME RepairInv, call' = call, maker \notin {"done", "dead"}
  PROVE  RepairInv'
BY DEF RepairInv, Saving

\* A step of a save: it disturbs any other, and goes on itself.
LEMMA SaverKeeps ==
  ASSUME DeckInv, RepairInv, NEW t \in Tabs, Saving(t), NEW c, Calls(t, c), c.alone => call[t].alone,
         UNCHANGED maker,
         call[t].alone /\ Mending(deck, rows, call[t]) => Mending(deck', rows', c)
  PROVE  RepairInv'
<1>1. \A u \in Tabs : call'[u] = IF u = t THEN c ELSE call[u]
  BY DEF Calls, DeckInv
<1> SUFFICES ASSUME NEW u \in Tabs, Saving(u)', call'[u].alone
             PROVE  /\ maker' \in {"done", "dead"}
                    /\ \A v \in Tabs \ {u} : ~Saving(v)'
                    /\ Mending(deck', rows', call'[u])
  BY DEF RepairInv
<1>2. CASE u = t
  <2>1. call[t].alone /\ call'[t] = c
    BY <1>1, <1>2
  <2>2. /\ maker \in {"done", "dead"} /\ \A v \in Tabs \ {t} : ~Saving(v)
        /\ Mending(deck, rows, call[t])
    BY <2>1 DEF RepairInv
  <2>3. \A v \in Tabs \ {t} : ~Saving(v)'
    BY <1>1, <2>2 DEF Saving
  <2>4. QED
    BY <1>2, <2>1, <2>2, <2>3
<1>3. CASE u # t
  <2>1. call'[u] = call[u] /\ Saving(u) /\ call[u].alone
    BY <1>1, <1>3 DEF Saving
  <2>2. ~Saving(t)
    BY <1>3, <2>1 DEF RepairInv
  <2>3. QED
    BY <2>2
<1>4. QED
  BY <1>2, <1>3

LEMMA ReadDeckRepairs ==
  ASSUME DeckInv, RepairInv, NEW t \in Tabs, ReadDeck(t)
  PROVE  RepairInv'
<1> DEFINE sent == Head(page[t].asked).cards
           others == {u \in Tabs \ {t} : Saving(u)}
           c == [NoCall EXCEPT !.next = "write-deck", !.sent = sent, !.cards = Identified(sent),
                   !.alone = others = {} /\ maker \in {"done", "dead"}]
<1>1. /\ call' = [u \in Tabs |-> IF u = t THEN c
                                  ELSE IF u \in others THEN [call[u] EXCEPT !.alone = FALSE] ELSE call[u]]
      /\ UNCHANGED maker
  BY Zenon DEF ReadDeck
<1>2. c.next = "write-deck" /\ c.alone = (others = {} /\ maker \in {"done", "dead"})
  BY DEF NoCall
<1> HIDE DEF c
<1>3. \A u \in Tabs : call[u] \in Call
  BY DEF DeckInv
<1>4. \A u \in Tabs \ {t} : u \in others => ~call'[u].alone
  BY <1>1, <1>3 DEF Call
<1>5. \A u \in Tabs \ {t} : u \notin others => call'[u] = call[u] /\ ~Saving(u)
  BY <1>1
<1>6. \A u \in Tabs \ {t} : u \notin others => ~Saving(u)'
  BY <1>5 DEF Saving
<1> SUFFICES ASSUME NEW u \in Tabs, Saving(u)', call'[u].alone
             PROVE  /\ maker' \in {"done", "dead"}
                    /\ \A v \in Tabs \ {u} : ~Saving(v)'
                    /\ Mending(deck', rows', call'[u])
  BY DEF RepairInv
<1>7. u = t /\ call'[t] = c
  BY <1>1, <1>4, <1>6
<1>8. others = {} /\ maker' \in {"done", "dead"}
  BY <1>1, <1>2, <1>7
<1>9. Mending(deck', rows', c)
  BY <1>2 DEF Mending
<1>10. QED
  BY <1>6, <1>7, <1>8, <1>9, Zenon

\* Ids of the deck's cards are ids, and differ.
LEMMA DeckIds ==
  ASSUME DeckInv
  PROVE  /\ Len(deck) \in Nat /\ DOMAIN deck = 1 .. Len(deck)
         /\ \A k \in 1 .. Len(deck) : deck[k].id \in Ids /\ deck[k].id \in IdsOf(deck)
         /\ \A j, k \in 1 .. Len(deck) : deck[j].id = deck[k].id => j = k
<1>1. Identifies(minted, deck) /\ deck \in Seq(Card)
  BY DEF DeckInv, Identifies, Listed
<1>2. Len(deck) \in Nat /\ DOMAIN deck = 1 .. Len(deck)
  BY <1>1, LenProperties
<1>3. \A k \in 1 .. Len(deck) : deck[k].id \in Ids /\ deck[k].id \in IdsOf(deck)
  <2>1. TAKE k \in 1 .. Len(deck)
  <2>2. deck[k] \in Card
    BY <1>1, ElementOfSeq
  <2>3. deck[k].id \in 0 .. MaxIds /\ deck[k].id # 0
    BY <1>1, <1>2, <2>2, CardFields DEF Identifies
  <2>4. QED
    BY <1>2, <2>3, DeckAssumption DEF Ids, IdsOf
<1>4. QED
  BY <1>1, <1>2, <1>3 DEF Identifies, Listed

LEMMA WriteDeckRepairs ==
  ASSUME DeckInv, RepairInv, NEW t \in Tabs, WriteDeck(t)
  PROVE  RepairInv'
<1> DEFINE c == [call[t] EXCEPT !.next = "read-rows"]
<1>1. deck' = call[t].cards /\ Calls(t, c) /\ UNCHANGED maker /\ Saving(t)
  BY DEF WriteDeck, Saving
<1>2. call[t] \in Call
  BY DEF DeckInv
<1>3. c.alone = call[t].alone /\ c.next = "read-rows" /\ c.cards = call[t].cards
  BY <1>2 DEF Call
<1> HIDE DEF c
<1>4. Mending(deck', rows', c)
  BY <1>1, <1>3 DEF Mending
<1>5. QED
  BY <1>1, <1>3, <1>4, SaverKeeps

LEMMA ReadRowsRepairs ==
  ASSUME DeckInv, RepairInv, NEW t \in Tabs, ReadRows(t)
  PROVE  RepairInv'
<1> DEFINE x == IF Rows \subseteq IdsOf(call[t].cards) THEN "each-card" ELSE "delete"
           c == [call[t] EXCEPT !.has = Rows, !.next = x]
<1>1. call[t].next = "read-rows" /\ Calls(t, c) /\ UNCHANGED <<deck, rows, maker>> /\ Saving(t)
  BY DEF ReadRows, Saving
<1>2. call[t] \in Call
  BY DEF DeckInv
<1>3. c.alone = call[t].alone /\ c.next = x /\ c.cards = call[t].cards /\ c.has = Rows
  BY <1>2 DEF Call
<1> HIDE DEF c
<1>4. ASSUME Mending(deck, rows, call[t]) PROVE Mending(deck, rows, c)
  <2>1. c.cards = deck
    BY <1>1, <1>3, <1>4 DEF Mending
  <2>2. \A i \in Ids : i \in c.has <=> rows[i] # {}
    BY <1>3 DEF Rows
  <2>3. ASSUME c.next = "each-card" PROVE Mended(deck, rows, c, 0)
    <3>1. Rows \subseteq IdsOf(deck)
      BY <1>3, <2>1, <2>3
    <3>2. \A i \in Ids : rows[i] # {} => i \in IdsOf(deck)
      BY <3>1 DEF Rows
    <3>3. 0 + Len(deck) = Len(deck) /\ \A k \in 1 .. Len(deck) : 0 + k = k
      BY DeckIds
    <3>4. QED
      BY <2>1, <2>2, <2>3, <3>2, <3>3, DeckIds DEF Mended
  <2>4. c.next \in {"each-card", "delete"}
    BY <1>3
  <2>5. QED
    BY <2>1, <2>2, <2>3, <2>4 DEF Mending
<1>5. QED
  BY <1>1, <1>3, <1>4, SaverKeeps

LEMMA DeleteRowsRepairs ==
  ASSUME DeckInv, RepairInv, NEW t \in Tabs, DeleteRows(t)
  PROVE  RepairInv'
<1> DEFINE c == [call[t] EXCEPT !.next = "each-card"]
<1>1. /\ call[t].next = "delete" /\ Calls(t, c) /\ UNCHANGED <<deck, maker>> /\ Saving(t)
      /\ rows' = [i \in Ids |-> IF i \in Removed(call[t]) THEN {} ELSE rows[i]]
  BY DEF DeleteRows, Saving
<1>2. call[t] \in Call
  BY DEF DeckInv
<1>3. c.alone = call[t].alone /\ c.next = "each-card" /\ c.cards = call[t].cards /\ c.has = call[t].has
  BY <1>2 DEF Call
<1> HIDE DEF c
<1>4. ASSUME Mending(deck, rows, call[t]) PROVE Mending(deck, rows', c)
  <2>1. /\ c.cards = deck /\ \A i \in Ids : i \in c.has <=> rows[i] # {}
    BY <1>1, <1>3, <1>4 DEF Mending
  <2>2. \A i \in Ids : rows'[i] = IF i \in c.has /\ i \notin IdsOf(deck) THEN {} ELSE rows[i]
    BY <1>1, <1>3, <2>1 DEF Removed
  <2>3. 0 + Len(deck) = Len(deck) /\ \A k \in 1 .. Len(deck) : 0 + k = k
    BY DeckIds
  <2>4. Mended(deck, rows', c, 0)
    BY <1>3, <2>1, <2>2, <2>3, DeckIds DEF Mended
  <2>5. QED
    BY <1>3, <2>4 DEF Mending
<1>5. QED
  BY <1>1, <1>3, <1>4, SaverKeeps

\* The save is through with one card more: its row was written, or had been.
LEMMA MendedOneMore ==
  ASSUME DeckInv, NEW c, Identifies(minted, c.cards), c.cards # <<>>,
         NEW m \in Nat, Mended(deck, rows, c, m),
         NEW d, d.next = "each-card", d.cards = Tail(c.cards), d.has = c.has,
         NEW r, r \in [Ids -> SUBSET Terms], r[Head(c.cards).id] = {Head(c.cards).term},
         \A i \in Ids : i # Head(c.cards).id => r[i] = rows[i]
  PROVE  Mended(deck, r, d, m + 1)
<1> DEFINE h == Head(c.cards)
<1>1. /\ h = c.cards[1] /\ Len(c.cards) \in Nat /\ Len(c.cards) # 0
      /\ Len(d.cards) = Len(c.cards) - 1
      /\ \A i \in 1 .. Len(c.cards) - 1 : d.cards[i] = c.cards[i + 1]
  BY TailListed
<1>2. m + Len(c.cards) = Len(deck) /\ Len(deck) \in Nat
  BY DeckIds DEF Mended
<1>3. h = deck[m + 1] /\ m + 1 \in 1 .. Len(deck)
  <2>1. 1 \in 1 .. Len(c.cards)
    BY <1>1
  <2>2. QED
    BY <1>1, <1>2, <2>1 DEF Mended
<1> HIDE DEF h
<1>4. r[h.id] = {h.term} /\ \A i \in Ids : i # h.id => r[i] = rows[i]
  BY DEF h
<1>5. (m + 1) + Len(d.cards) = Len(deck)
  <2>1. PICK n \in Nat : n = Len(c.cards) /\ n # 0
    BY <1>1
  <2>2. Len(d.cards) = n - 1 /\ m + n = Len(deck)
    BY <1>1, <1>2, <2>1
  <2>3. (m + 1) + (n - 1) = m + n
    <3>1. \A i, j \in Int : (i + 1) + (j - 1) = i + j
      OBVIOUS
    <3>2. m \in Int /\ n \in Int
      BY <2>1
    <3>3. QED
      BY <3>1, <3>2
  <2>4. QED
    BY <2>2, <2>3
<1>6. \A k \in 1 .. Len(d.cards) : d.cards[k] = deck[(m + 1) + k]
  <2>1. TAKE k \in 1 .. Len(d.cards)
  <2>2. k \in 1 .. Len(c.cards) - 1 /\ k + 1 \in 1 .. Len(c.cards) /\ m + (k + 1) = (m + 1) + k
    BY <1>1
  <2>3. QED
    BY <1>1, <2>2 DEF Mended
<1>7. \A i \in Ids : r[i] # {} => i \in IdsOf(deck)
  <2>1. TAKE i \in Ids
  <2>2. CASE i = h.id
    BY <1>3, <2>2, DeckIds
  <2>3. CASE i # h.id
    BY <1>4, <2>3 DEF Mended
  <2>4. QED
    BY <2>2, <2>3
<1>8. \A k \in 1 .. Len(deck) : k # m + 1 => r[deck[k].id] = rows[deck[k].id]
  <2>1. TAKE k \in 1 .. Len(deck)
  <2>2. HAVE k # m + 1
  <2>3. deck[k].id # h.id /\ deck[k].id \in Ids
    BY <1>3, <2>2, DeckIds
  <2>4. QED
    BY <1>4, <2>3
<1>9. \A k \in 1 .. m + 1 : r[deck[k].id] = {deck[k].term}
  <2>1. TAKE k \in 1 .. m + 1
  <2>2. CASE k = m + 1
    BY <1>3, <1>4, <2>2
  <2>3. CASE k # m + 1
    <3>1. k \in 1 .. m /\ k \in 1 .. Len(deck)
      BY <1>2, <1>3, <2>3
    <3>2. QED
      BY <1>8, <2>3, <3>1 DEF Mended
  <2>4. QED
    BY <2>2, <2>3
<1>10. \A k \in (m + 1) + 1 .. Len(deck) : deck[k].id \in d.has <=> r[deck[k].id] # {}
  <2>1. TAKE k \in (m + 1) + 1 .. Len(deck)
  <2>2. k \in m + 1 .. Len(deck) /\ k \in 1 .. Len(deck) /\ k # m + 1
    BY <1>2
  <2>3. deck[k].id \in c.has <=> rows[deck[k].id] # {}
    BY <2>2 DEF Mended
  <2>4. QED
    BY <1>8, <2>2, <2>3
<1>11. QED
  BY <1>5, <1>6, <1>7, <1>9, <1>10 DEF Mended

LEMMA EachCardRepairs ==
  ASSUME DeckInv, RepairInv, NEW t \in Tabs, EachCard(t)
  PROVE  RepairInv'
<1> DEFINE c == call[t]
           h == Head(c.cards)
<1>1. /\ c.next = "each-card" /\ c.cards # <<>> /\ UNCHANGED <<deck, maker>> /\ Saving(t)
      /\ c \in Call /\ CallSound(minted, c) /\ RowsSound(rows, srs)
  BY DEF EachCard, Saving, DeckInv
<1>2. Identifies(minted, c.cards) /\ h \in Card /\ h.id \in Ids /\ h = c.cards[1] /\ h.term \in Terms
  <2>1. Identifies(minted, c.cards) /\ h \in Card /\ h.id \in Ids /\ h = c.cards[1]
    BY <1>1, TailListed DEF CallSound
  <2>2. QED
    BY <2>1, CardFields
<1>3. rows \in [Ids -> SUBSET Terms]
  BY <1>1 DEF RowsSound
<1>a. ASSUME NEW m \in Nat, Mended(deck, rows, c, m)
      PROVE  /\ m + 1 \in 1 .. Len(deck) /\ h = deck[m + 1]
             /\ h.id \in c.has <=> rows[h.id] # {}
  <2>1. Len(c.cards) \in Nat /\ Len(c.cards) # 0 /\ Len(deck) \in Nat
    BY <1>1, <1>2, TailListed, DeckIds
  <2>2. m + 1 \in 1 .. Len(deck) /\ m + 1 \in m + 1 .. Len(deck) /\ 1 \in 1 .. Len(c.cards)
    BY <1>a, <2>1 DEF Mended
  <2>3. h = deck[m + 1]
    BY <1>2, <1>a, <2>2 DEF Mended
  <2>4. QED
    BY <1>1, <1>a, <2>2, <2>3 DEF Mended
<1> HIDE DEF h
<1>4. CASE h.id \in c.has
  <2> DEFINE d == [c EXCEPT !.cards = Tail(c.cards)]
  <2>1. /\ rows' = [rows EXCEPT ![h.id] = IF rows[h.id] = {} THEN {} ELSE {h.term}]
        /\ Calls(t, d)
    BY <1>4 DEF EachCard, h
  <2>2. d.next = "each-card" /\ d.cards = Tail(c.cards) /\ d.has = c.has /\ d.alone = c.alone
    BY <1>1 DEF Call
  <2> HIDE DEF d
  <2>3. ASSUME Mending(deck, rows, c) PROVE Mending(deck', rows', d)
    <3>1. PICK m \in Nat : Mended(deck, rows, c, m)
      BY <1>1, <2>3 DEF Mending
    <3>2. rows[h.id] # {}
      BY <1>4, <1>a, <3>1
    <3>3. /\ rows' \in [Ids -> SUBSET Terms] /\ rows'[h.id] = {h.term}
          /\ \A i \in Ids : i # h.id => rows'[i] = rows[i]
      BY <1>2, <1>3, <2>1, <3>2
    <3>4. Mended(deck, rows', d, m + 1)
      BY <1>1, <1>2, <2>2, <3>1, <3>3, MendedOneMore DEF h
    <3>5. m + 1 \in Nat
      OBVIOUS
    <3>6. QED
      BY <1>1, <2>2, <3>4, <3>5 DEF Mending
  <2>4. QED
    BY <1>1, <2>1, <2>2, <2>3, SaverKeeps
<1>5. CASE h.id \notin c.has /\ h.id \in Rows
  <2>1. Calls(t, NoCall) /\ UNCHANGED <<deck, rows, maker>>
    BY <1>5 DEF EachCard, h
  <2>2. \A u \in Tabs : call'[u] = call[u] \/ ~Saving(u)'
    BY <2>1 DEF Calls, DeckInv, Saving, NoCall
  <2>3. QED
    BY <2>1, <2>2, AsideKeeps
<1>6. CASE h.id \notin c.has /\ h.id \notin Rows
  <2> DEFINE d == [c EXCEPT !.next = "state"]
  <2>1. rows' = [rows EXCEPT ![h.id] = {h.term}] /\ Calls(t, d)
    BY <1>6 DEF EachCard, h
  <2>2. d.next = "state" /\ d.cards = c.cards /\ d.has = c.has /\ d.alone = c.alone
    BY <1>1 DEF Call
  <2> HIDE DEF d
  <2>3. ASSUME Mending(deck, rows, c) PROVE Mending(deck', rows', d)
    <3>1. PICK m \in Nat : Mended(deck, rows, c, m)
      BY <1>1, <2>3 DEF Mending
    <3>2. m + 1 \in 1 .. Len(deck) /\ h = deck[m + 1]
      BY <1>a, <3>1
    <3>3. rows'[h.id] = {h.term} /\ \A i \in Ids : i # h.id => rows'[i] = rows[i]
      BY <1>2, <1>3, <2>1
    <3>4. \A k \in 1 .. Len(deck) : k # m + 1 => rows'[deck[k].id] = rows[deck[k].id]
      BY <3>2, <3>3, DeckIds, Zenon
    <3>5. \A i \in Ids : rows'[i] # {} => i \in IdsOf(deck)
      BY <3>1, <3>2, <3>3, DeckIds, Zenon DEF Mended
    <3>6. \A k \in 1 .. m : rows'[deck[k].id] = {deck[k].term}
      <4>1. \A k \in 1 .. m : k \in 1 .. Len(deck) /\ k # m + 1
        BY <3>2
      <4>2. QED
        BY <3>1, <3>4, <4>1 DEF Mended
    <3>7. \A k \in m + 1 .. Len(deck) : k = m + 1 \/ (deck[k].id \in d.has <=> rows'[deck[k].id] # {})
      <4>1. \A k \in m + 1 .. Len(deck) : k \in 1 .. Len(deck)
        BY <3>2
      <4>2. QED
        BY <1>1, <2>2, <3>1, <3>4, <4>1 DEF Mended
    <3>8. Mended(deck, rows', d, m)
      BY <2>2, <3>1, <3>2, <3>3, <3>5, <3>6, <3>7 DEF Mended
    <3>9. QED
      BY <1>1, <2>2, <3>8 DEF Mending
  <2>4. QED
    BY <1>1, <2>1, <2>2, <2>3, SaverKeeps
<1>7. QED
  BY <1>4, <1>5, <1>6

LEMMA InsertStateRepairs ==
  ASSUME DeckInv, RepairInv, NEW t \in Tabs, InsertState(t)
  PROVE  RepairInv'
<1> DEFINE c == call[t]
           h == Head(c.cards)
<1>1. /\ c.next = "state" /\ UNCHANGED <<deck, rows, maker>> /\ Saving(t)
      /\ c \in Call /\ CallSound(minted, c) /\ RowsSound(rows, srs)
  BY DEF InsertState, Saving, DeckInv
<1>2. c.cards # <<>> /\ Identifies(minted, c.cards) /\ h = c.cards[1]
  BY <1>1, TailListed DEF CallSound
<1> HIDE DEF h
<1>3. CASE h.id \in Rows /\ srs[h.id] = 0
  <2> DEFINE d == [c EXCEPT !.next = "each-card", !.cards = Tail(c.cards)]
  <2>1. Calls(t, d)
    BY <1>3 DEF InsertState, h
  <2>2. d.next = "each-card" /\ d.cards = Tail(c.cards) /\ d.has = c.has /\ d.alone = c.alone
    BY <1>1 DEF Call
  <2> HIDE DEF d
  <2>3. ASSUME Mending(deck, rows, c) PROVE Mending(deck', rows', d)
    <3>1. PICK m \in Nat : Mended(deck, rows, c, m)
      BY <1>1, <2>3 DEF Mending
    <3>2. rows[h.id] = {h.term}
      <4>1. Len(c.cards) \in Nat /\ Len(c.cards) # 0
        BY <1>2, TailListed
      <4>2. 1 \in 1 .. Len(c.cards)
        BY <4>1
      <4>3. h = deck[m + 1]
        BY <1>2, <3>1, <4>2 DEF Mended
      <4>4. QED
        BY <1>1, <3>1, <4>3 DEF Mended
    <3>3. rows \in [Ids -> SUBSET Terms]
      BY <1>1 DEF RowsSound
    <3>4. Mended(deck, rows, d, m + 1)
      BY <1>2, <2>2, <3>1, <3>2, <3>3, MendedOneMore DEF h
    <3>5. m + 1 \in Nat
      OBVIOUS
    <3>6. QED
      BY <1>1, <2>2, <3>4, <3>5 DEF Mending
  <2>4. QED
    BY <1>1, <2>1, <2>2, <2>3, SaverKeeps
<1>4. CASE ~(h.id \in Rows /\ srs[h.id] = 0)
  <2>1. Calls(t, NoCall)
    BY <1>4 DEF InsertState, h
  <2>2. \A u \in Tabs : call'[u] = call[u] \/ ~Saving(u)'
    BY <2>1 DEF Calls, DeckInv, Saving, NoCall
  <2>3. QED
    BY <1>1, <2>2, AsideKeeps
<1>5. QED
  BY <1>3, <1>4

LEMMA InitRepairInv == DeckInit => RepairInv
BY DEF DeckInit, RepairInv, Saving, NoCall

LEMMA StepRepairInv == DeckInv /\ RepairInv /\ [DeckNext]_deckVars => RepairInv'
<1> SUFFICES ASSUME DeckInv, RepairInv, [DeckNext]_deckVars PROVE RepairInv'
  OBVIOUS
<1>1. CASE InsertArtifact \/ ClearRows \/ InsertRows \/ InsertStates \/ MakerDies
  <2>1. call' = call /\ maker \notin {"done", "dead"}
    BY <1>1 DEF InsertArtifact, ClearRows, InsertRows, InsertStates, MakerDies
  <2>2. QED
    BY <2>1, CreationKeeps
<1>2. ASSUME NEW t \in Tabs,
             EndSave(t) \/ SaveDies(t) \/ ReadCard(t) \/ ReadState(t) \/ WriteState(t)
      PROVE  RepairInv'
  <2>1. UNCHANGED <<deck, rows, maker>>
    BY <1>2 DEF EndSave, SaveDies, ReadCard, ReadState, WriteState
  <2>2. PICK c : Calls(t, c) /\ c.next \in {"none", "read-state", "write-state"}
    <3>1. CASE EndSave(t) \/ SaveDies(t) \/ WriteState(t)
      BY <3>1 DEF EndSave, SaveDies, WriteState, NoCall
    <3>2. CASE ReadCard(t)
      <4>1. \A i : [NoCall EXCEPT !.next = "read-state", !.id = i].next = "read-state"
        BY DEF NoCall
      <4>2. NoCall.next = "none"
        BY DEF NoCall
      <4>3. QED
        BY <3>2, <4>1, <4>2 DEF ReadCard
    <3>3. CASE ReadState(t)
      <4>1. call[t] \in Call
        BY DEF DeckInv
      <4>2. \A n : [call[t] EXCEPT !.next = "write-state", !.read = n].next = "write-state"
        BY <4>1 DEF Call
      <4>3. QED
        BY <3>3, <4>2 DEF ReadState
    <3>4. QED
      BY <1>2, <3>1, <3>2, <3>3
  <2>3. \A u \in Tabs : call'[u] = call[u] \/ ~Saving(u)'
    BY <2>2 DEF Calls, DeckInv, Saving
  <2>4. QED
    BY <2>1, <2>3, AsideKeeps
<1>3. ASSUME NEW t \in Tabs,
             \/ ReadDeck(t) \/ WriteDeck(t) \/ ReadRows(t) \/ DeleteRows(t) \/ EachCard(t)
             \/ InsertState(t)
      PROVE  RepairInv'
  BY <1>3, ReadDeckRepairs, WriteDeckRepairs, ReadRowsRepairs, DeleteRowsRepairs, EachCardRepairs,
     InsertStateRepairs
<1>4. ASSUME UNCHANGED <<deck, rows, maker, call>> PROVE RepairInv'
  BY <1>4, AsideKeeps
<1>5. ASSUME NEW t \in Tabs,
             OpenPage(t) \/ Learn(t) \/ StartEditing(t) \/ StopEditing(t)
      PROVE  RepairInv'
  BY <1>4, <1>5 DEF OpenPage, Learn, StartEditing, StopEditing, PageBecomes
<1>6. ASSUME NEW t \in Tabs, NEW g \in {"yes", "close", "no"}, Grade(t, g) PROVE RepairInv'
  BY <1>4, <1>6 DEF Grade, PageBecomes
<1>7. ASSUME NEW t \in Tabs, NEW new, Saves(t, new) PROVE RepairInv'
  BY <1>4, <1>7 DEF Saves, PageBecomes
<1>8. ASSUME NEW t \in Tabs,
             \/ \E term \in Terms : AddTerm(t, term)
             \/ \E k \in DOMAIN page[t].rows :
                  Retype(t, k, TRUE) \/ Retype(t, k, FALSE) \/ RemoveTerm(t, k) \/ MoveTerm(t, k)
      PROVE  RepairInv'
  BY <1>7, <1>8 DEF AddTerm, Retype, RemoveTerm, MoveTerm
<1>9. CASE ToolWrites \/ \E i \in Ids : ToolReads(i)
  BY <1>4, <1>9, Zenon DEF ToolWrites, ToolReads
<1>10. CASE UNCHANGED deckVars
  BY <1>4, <1>10 DEF deckVars
<1>11. QED
  BY <1>1, <1>2, <1>3, <1>5, <1>6, <1>8, <1>9, <1>10 DEF DeckNext, SaveStep

\* A save of the deck, alone from its first read on, leaves exactly the rows of the deck's
\* cards, whatever earlier saves, pages and the deck's creation left half done.
THEOREM SaveRepairs == DeckSpec => SavesRepair
<1> DEFINE Repaired ==
      \A t \in Tabs : EndSave(t) /\ call[t].alone =>
        Rows = IdsOf(deck) /\ \A k \in DOMAIN deck : rows[deck[k].id] = {deck[k].term}
<1>1. ASSUME DeckInv, RepairInv PROVE Repaired
  <2>1. SUFFICES ASSUME NEW t \in Tabs, EndSave(t), call[t].alone
                 PROVE  /\ Rows = IdsOf(deck)
                        /\ \A k \in DOMAIN deck : rows[deck[k].id] = {deck[k].term}
    OBVIOUS
  <2>2. call[t].next = "each-card" /\ call[t].cards = <<>> /\ Saving(t)
    BY <2>1 DEF EndSave, Saving
  <2>3. PICK m \in Nat : Mended(deck, rows, call[t], m)
    BY <1>1, <2>1, <2>2 DEF RepairInv, Mending
  <2>4. Len(deck) \in Nat /\ m = Len(deck) /\ DOMAIN deck = 1 .. Len(deck)
    <3>1. Len(call[t].cards) = 0
      BY <2>2
    <3>2. QED
      BY <1>1, <2>3, <3>1, DeckIds DEF Mended
  <2>5. \A k \in DOMAIN deck : rows[deck[k].id] = {deck[k].term}
    BY <2>3, <2>4 DEF Mended
  <2>6. Rows \subseteq IdsOf(deck)
    BY <2>3 DEF Mended, Rows
  <2>7. IdsOf(deck) \subseteq Rows
    <3>1. \A k \in DOMAIN deck : deck[k].id \in Ids /\ rows[deck[k].id] # {}
      BY <1>1, <2>4, <2>5, DeckIds
    <3>2. QED
      BY <3>1 DEF IdsOf, Rows
  <2>8. QED
    BY <2>5, <2>6, <2>7
<1>2. DeckInv /\ RepairInv /\ [DeckNext]_deckVars => [Repaired]_deckVars
  BY <1>1
<1>3. DeckInit => RepairInv
  BY InitRepairInv
<1>4. DeckInv /\ RepairInv /\ [DeckNext]_deckVars => RepairInv'
  BY StepRepairInv
<1>5. DeckSpec => []RepairInv
  BY <1>3, <1>4, DeckInvariant, PTL DEF DeckSpec
<1>6. QED
  BY <1>2, <1>5, DeckInvariant, PTL DEF DeckSpec, SavesRepair
=============================================================================
