---------------------------- MODULE WordCount_proofs ----------------------------
(***************************************************************************)
(* The word count, for every set of input files, every size of a chunk and *)
(* a block, and every number of descriptors: words are totally ordered, so *)
(* each file a run writes has one entry for a word, in order; no action    *)
(* loses or doubles an occurrence of a word on its way from the input to   *)
(* the output; and what a run leaves is the tally of Tally.                *)
(***************************************************************************)
EXTENDS WordCount, DataFacts

(* The order of strcmp, by the first place where two words differ.         *)
Parts(u, v, k) ==
  /\ k \in 0..Len(u) /\ k < Len(v) /\ \A i \in 1..k : u[i] = v[i]
  /\ k = Len(u) \/ (k < Len(u) /\ u[k + 1] < v[k + 1])

LEMMA SamePrefix ==
  ASSUME NEW u \in Seq(Int), NEW v \in Seq(Int),
         NEW k \in Nat, k <= Len(u), k <= Len(v)
  PROVE  SubSeq(u, 1, k) = SubSeq(v, 1, k) <=> \A i \in 1..k : u[i] = v[i]
<1> DEFINE p == SubSeq(u, 1, k)
           q == SubSeq(v, 1, k)
<1>1. /\ Len(u) \in Nat /\ Len(v) \in Nat /\ 1 \in Int /\ k \in Int
      /\ \A i \in 1..k : i \in 1..Len(u) /\ i \in 1..Len(v)
  OBVIOUS
<1>2. \A i \in 1..k : u[i] \in Int /\ v[i] \in Int
  BY <1>1
<1>3. /\ p \in Seq(Int) /\ Len(p) = k /\ \A i \in 1..k : p[i] = u[1 + i - 1]
  BY <1>1, <1>2, SubSeqProperties
<1>4. /\ q \in Seq(Int) /\ Len(q) = k /\ \A i \in 1..k : q[i] = v[1 + i - 1]
  BY <1>1, <1>2, SubSeqProperties
<1> HIDE DEF p, q
<1>5. \A i \in 1..k : p[i] = u[i] /\ q[i] = v[i]
  BY <1>3, <1>4, SMTT(30)
<1>6. p = q <=> \A i \in 1..k : p[i] = q[i]
  BY <1>3, <1>4, SeqEqual
<1> QED
  BY <1>5, <1>6 DEF p, q

LEMMA BeforeMeans ==
  ASSUME NEW u \in Seq(Int), NEW v \in Seq(Int)
  PROVE  Before(u, v) <=> \E k \in Nat : Parts(u, v, k)
<1>1. Len(u) \in Nat /\ Len(v) \in Nat
  OBVIOUS
<1>2. ASSUME NEW k \in 0..Len(u), k < Len(v)
      PROVE  SubSeq(u, 1, k) = SubSeq(v, 1, k) <=> \A i \in 1..k : u[i] = v[i]
  <2>1. k \in Nat /\ k <= Len(u) /\ k <= Len(v)
    BY <1>1, <1>2
  <2> QED
    BY <2>1, SamePrefix
<1> QED
  BY <1>1, <1>2 DEF Before, Parts

LEMMA BeforeIrreflexive ==
  ASSUME NEW u \in Seq(Int)
  PROVE  ~Before(u, u)
<1>1. ASSUME NEW k \in Nat, Parts(u, u, k) PROVE FALSE
  <2>1. k < Len(u) /\ Len(u) \in Nat /\ k + 1 \in 1..Len(u)
    BY <1>1 DEF Parts
  <2>2. u[k + 1] \in Int /\ u[k + 1] < u[k + 1]
    BY <1>1, <2>1 DEF Parts
  <2> QED
    BY <2>2
<1> QED
  BY <1>1, BeforeMeans

LEMMA BeforeTransitive ==
  ASSUME NEW u \in Seq(Int), NEW v \in Seq(Int), NEW w \in Seq(Int),
         Before(u, v), Before(v, w)
  PROVE  Before(u, w)
<1>1. PICK k \in Nat : Parts(u, v, k)
  BY BeforeMeans
<1>2. PICK m \in Nat : Parts(v, w, m)
  BY BeforeMeans
<1>3. /\ Len(u) \in Nat /\ Len(v) \in Nat /\ Len(w) \in Nat
      /\ k <= Len(u) /\ k < Len(v) /\ m <= Len(v) /\ m < Len(w)
  BY <1>1, <1>2 DEF Parts
<1>4. /\ \A i \in 1..Len(u) : u[i] \in Int
      /\ \A i \in 1..Len(v) : v[i] \in Int
      /\ \A i \in 1..Len(w) : w[i] \in Int
  OBVIOUS
<1>5. CASE k < m
  <2>1. \A i \in 1..k : u[i] = v[i] /\ v[i] = w[i]
    BY <1>1, <1>2, <1>5 DEF Parts
  <2>2. v[k + 1] = w[k + 1]
    <3>1. k + 1 \in 1..m
      BY <1>5
    <3> QED
      BY <1>2, <3>1 DEF Parts
  <2>3. Parts(u, w, k)
    BY <1>1, <1>3, <1>5, <2>1, <2>2 DEF Parts
  <2> QED
    BY <2>3, BeforeMeans
<1>6. CASE m < k
  <2>1. \A i \in 1..m : u[i] = v[i] /\ v[i] = w[i]
    <3>1. \A i \in 1..m : i \in 1..k
      BY <1>6
    <3> QED
      BY <1>1, <1>2, <3>1 DEF Parts
  <2>2. u[m + 1] = v[m + 1]
    <3>1. m + 1 \in 1..k
      BY <1>6
    <3> QED
      BY <1>1, <3>1 DEF Parts
  <2>3. m < Len(v) /\ v[m + 1] < w[m + 1]
    BY <1>2, <1>3, <1>6 DEF Parts
  <2>4. Parts(u, w, m)
    <3>1. m \in 0..Len(u) /\ m < Len(w) /\ m < Len(u)
      BY <1>3, <1>6
    <3>2. u[m + 1] < w[m + 1] /\ \A i \in 1..m : u[i] = w[i]
      BY <2>1, <2>2, <2>3
    <3> QED
      BY <3>1, <3>2 DEF Parts
  <2> QED
    BY <2>4, BeforeMeans
<1>7. CASE k = m
  <2>1. \A i \in 1..k : u[i] = v[i] /\ v[i] = w[i]
    BY <1>1, <1>2, <1>7 DEF Parts
  <2>2. v[k + 1] < w[k + 1]
    BY <1>2, <1>3, <1>7 DEF Parts
  <2>3. k = Len(u) \/ u[k + 1] < w[k + 1]
    <3> SUFFICES ASSUME k # Len(u) PROVE u[k + 1] < w[k + 1]
      OBVIOUS
    <3>1. u[k + 1] < v[k + 1]
      BY <1>1 DEF Parts
    <3>2. k + 1 \in 1..Len(u) /\ k + 1 \in 1..Len(v) /\ k + 1 \in 1..Len(w)
      BY <1>3, <1>7
    <3> QED
      BY <1>4, <2>2, <3>1, <3>2, SMTT(30)
  <2>4. Parts(u, w, k)
    BY <1>3, <1>7, <2>1, <2>3 DEF Parts
  <2> QED
    BY <2>4, BeforeMeans
<1> QED
  BY <1>5, <1>6, <1>7

LEMMA BeforeTotal ==
  ASSUME NEW u \in Seq(Int), NEW v \in Seq(Int), u # v
  PROVE  Before(u, v) \/ Before(v, u)
<1> DEFINE D == {k \in Nat : k = Len(u) \/ k = Len(v) \/ u[k + 1] # v[k + 1]}
<1>1. Len(u) \in Nat /\ Len(v) \in Nat
  OBVIOUS
<1>2. PICK k \in D : \A j \in D : k <= j
  <2>1. Len(u) \in D /\ D \in SUBSET Nat
    BY <1>1
  <2> HIDE DEF D
  <2>2. D # {}
    BY <2>1
  <2> QED
    BY <2>1, <2>2, Least
<1>3. k \in Nat /\ k <= Len(u) /\ k <= Len(v)
  <2>1. k \in Nat /\ Len(u) \in D /\ Len(v) \in D
    BY <1>1
  <2> HIDE DEF D
  <2> QED
    BY <1>2, <2>1
<1>4. \A i \in 1..k : u[i] = v[i]
  <2> SUFFICES ASSUME NEW i \in 1..k PROVE u[i] = v[i]
    OBVIOUS
  <2>1. i - 1 \in Nat /\ i - 1 < k /\ (i - 1) + 1 = i
    BY <1>3
  <2>2. i - 1 \notin D
    <3>1. k \in Nat /\ ~(k <= i - 1)
      BY <1>3, <2>1
    <3> HIDE DEF D
    <3> QED
      BY <1>2, <3>1
  <2> QED
    BY <2>1, <2>2
<1>5. CASE k = Len(u) /\ k = Len(v)
  <2>1. u = v
    BY <1>1, <1>4, <1>5, SeqEqual
  <2> QED
    BY <2>1
<1>6. CASE k = Len(u) /\ k # Len(v)
  <2>1. Parts(u, v, k)
    BY <1>1, <1>3, <1>4, <1>6 DEF Parts
  <2> QED
    BY <1>3, <2>1, BeforeMeans
<1>7. CASE k # Len(u) /\ k = Len(v)
  <2>1. Parts(v, u, k)
    BY <1>1, <1>3, <1>4, <1>7 DEF Parts
  <2> QED
    BY <1>3, <2>1, BeforeMeans
<1>8. CASE k # Len(u) /\ k # Len(v)
  <2>1. u[k + 1] # v[k + 1]
    BY <1>2, <1>8
  <2>2. k + 1 \in 1..Len(u) /\ k + 1 \in 1..Len(v)
    BY <1>1, <1>3, <1>8
  <2>3. u[k + 1] \in Int /\ v[k + 1] \in Int
    BY <2>2
  <2>4. u[k + 1] < v[k + 1] \/ v[k + 1] < u[k + 1]
    BY <2>1, <2>3
  <2>5. Parts(u, v, k) \/ Parts(v, u, k)
    BY <1>1, <1>3, <1>4, <1>8, <2>4 DEF Parts
  <2> QED
    BY <1>3, <2>5, BeforeMeans
<1> QED
  BY <1>5, <1>6, <1>7, <1>8

(* The order of words, and what follows for the words of a stream, in      *)
(* which equal ones may follow one another.                                *)
LEMMA WordOrder ==
  ASSUME NEW u \in Word, NEW v \in Word, NEW w \in Word
  PROVE  /\ ~Before(u, u)
         /\ Before(u, v) => ~Before(v, u)
         /\ Before(u, v) /\ Before(v, w) => Before(u, w)
         /\ ~Before(v, u) /\ u # v => Before(u, v)
         /\ ~Before(v, u) /\ ~Before(w, v) => ~Before(w, u)
         /\ Before(u, v) /\ ~Before(w, v) => Before(u, w)
         /\ ~Before(v, u) /\ Before(v, w) => Before(u, w)
<1>1. u \in Seq(Int) /\ v \in Seq(Int) /\ w \in Seq(Int)
  <2>1. Character \subseteq Int
    BY DEF Character
  <2>2. Seq(Character) \subseteq Seq(Int)
    BY <2>1, SeqMonotonic
  <2> QED
    BY <2>2 DEF Word
<1>2. ~Before(u, u) /\ ~Before(v, v) /\ ~Before(w, w)
  BY <1>1, BeforeIrreflexive
<1>3. \A x, y, z \in {u, v, w} : Before(x, y) /\ Before(y, z) => Before(x, z)
  BY <1>1, BeforeTransitive
<1>4. \A x, y \in {u, v, w} : x # y => Before(x, y) \/ Before(y, x)
  BY <1>1, BeforeTotal
<1> QED
  BY <1>2, <1>3, <1>4

-----------------------------------------------------------------------------
(* Where one_word finds the next word of a line: behind the blanks, as long *)
(* as there are letters, and not empty before the end of the line.         *)
LEMMA MinIsIn ==
  ASSUME NEW T \in SUBSET Nat, T # {}
  PROVE  Min(T) \in T /\ \A y \in T : Min(T) <= y
BY Least DEF Min

Found(line, i, b, e) ==
  /\ b \in i..End(line) /\ e \in b..End(line)
  /\ \A j \in i..(b - 1) : is_blank(line[j])
  /\ b = End(line) \/ ~is_blank(line[b])
  /\ e = b <=> b = End(line)
  /\ \/ \A j \in b..(e - 1) : is_letter(line[j])
     \/ e = b + 1 /\ ~is_letter(line[b])
  /\ e = End(line) \/ ~is_letter(line[e]) \/ (e = b + 1 /\ ~is_letter(line[b]))

LEMMA WordFound ==
  ASSUME NEW S, NEW line \in Seq(S), NEW i \in 1..End(line)
  PROVE  Found(line, i, word_begin(line, i), WordEnd(line, word_begin(line, i)))
<1> DEFINE n == End(line)
           T == {j \in i..n : j = n \/ ~is_blank(line[j])}
           b == word_begin(line, i)
           U == {j \in b..n : j = n \/ ~is_letter(line[j])}
           p == Stop(line, b)
           e == WordEnd(line, b)
<1>1. n \in Nat /\ i \in Nat /\ i <= n
  BY DEF End
<1>2. b \in T /\ \A j \in T : b <= j
  <2>1. b = Min(T)
    BY DEF word_begin
  <2>2. T \in SUBSET Nat /\ n \in T
    BY <1>1
  <2> HIDE DEF T, b, n
  <2> QED
    BY <2>1, <2>2, MinIsIn
<1>3. b \in i..n /\ b \in Nat /\ (b = n \/ ~is_blank(line[b]))
  <2> HIDE DEF b, n
  <2> QED
    BY <1>1, <1>2
<1>4. \A j \in i..(b - 1) : is_blank(line[j])
  <2> HIDE DEF b
  <2> SUFFICES ASSUME NEW j \in i..(b - 1) PROVE is_blank(line[j])
    OBVIOUS
  <2>1. j \in i..n /\ ~(b <= j)
    BY <1>1, <1>3
  <2> HIDE DEF n
  <2> QED
    BY <1>2, <2>1
<1>5. p \in U /\ \A j \in U : p <= j
  <2>1. p = Min(U)
    BY DEF Stop
  <2> HIDE DEF b, n
  <2>2. U \in SUBSET Nat /\ n \in U
    BY <1>1, <1>3
  <2> HIDE DEF U, p
  <2> QED
    BY <2>1, <2>2, MinIsIn
<1>6. p \in b..n /\ (p = n \/ ~is_letter(line[p]))
  <2> HIDE DEF b, p, n
  <2> QED
    BY <1>5
<1>7. \A j \in b..(p - 1) : is_letter(line[j])
  <2> HIDE DEF b, p, n
  <2> SUFFICES ASSUME NEW j \in b..(p - 1) PROVE is_letter(line[j])
    OBVIOUS
  <2>1. j \in b..n /\ ~(p <= j)
    BY <1>1, <1>3, <1>6
  <2> QED
    BY <1>5, <2>1
<1>8. e = IF p = b /\ b # n THEN b + 1 ELSE p
  BY DEF WordEnd
<1> HIDE DEF b, p, e, n
<1>9. Found(line, i, b, e)
  <2>1. CASE p = b /\ b # n
    <3>1. e = b + 1 /\ ~is_letter(line[b]) /\ e \in b..n /\ e # b
      BY <1>1, <1>3, <1>6, <1>8, <2>1
    <3> QED
      BY <1>3, <1>4, <2>1, <3>1 DEF Found, n
  <2>2. CASE ~(p = b /\ b # n)
    <3>1. e = p /\ (e = b <=> b = n)
      BY <1>1, <1>3, <1>6, <1>8, <2>2
    <3> QED
      BY <1>3, <1>4, <1>6, <1>7, <3>1 DEF Found, n
  <2> QED
    BY <2>1, <2>2
<1> QED
  BY <1>9 DEF b, e

(* The words from position i on. *)
Splits(words, line) ==
  \A i \in 1..End(line) :
    LET b == word_begin(line, i)
        e == WordEnd(line, b)
    IN  words[i] = IF e = b THEN << >> ELSE <<SubSeq(line, b, e - 1)>> \o words[e]

LEMMA LineSplits ==
  ASSUME NEW S, NEW line \in Seq(S)
  PROVE  \E words \in [1..End(line) -> Seq(Seq(S))] :
           Splits(words, line) /\ lineToMsa(line) = words[1]
<1> DEFINE D == 1..End(line)
           V == Seq(Seq(S))
           beg(i) == word_begin(line, i)
           end(i) == WordEnd(line, beg(i))
           mu == [i \in D |-> End(line) - i]
           One(i, g) ==
             IF end(i) = beg(i) THEN << >>
             ELSE <<SubSeq(line, beg(i), end(i) - 1)>> \o g[end(i)]
           step == [q \in D \X [D -> V] |-> One(q[1], q[2])]
           Rec(g) == g = [i \in D |-> One(i, g)]
<1>1. End(line) \in Nat /\ 1 \in D /\ End(line) = Len(line) + 1
  BY DEF End
<1>2. ASSUME NEW i \in D
      PROVE  /\ beg(i) \in i..End(line) /\ end(i) \in beg(i)..End(line) /\ end(i) \in D
             /\ end(i) # beg(i) => end(i) > i
  <2>1. Found(line, i, beg(i), end(i))
    BY WordFound
  <2> HIDE DEF beg, end
  <2> QED
    BY <1>1, <2>1 DEF Found
<1> HIDE DEF beg, end
<1>3. ASSUME NEW i \in D PROVE SubSeq(line, beg(i), end(i) - 1) \in Seq(S)
  <2> DEFINE n == End(line)
             x == beg(i)
             y == end(i)
  <2>0. x \in i..n /\ y \in x..n /\ n = Len(line) + 1 /\ Len(line) \in Nat /\ i \in 1..n
    BY <1>1, <1>2
  <2> HIDE DEF n, x, y
  <2>1. x \in Int /\ y - 1 \in Int /\ \A k \in x..(y - 1) : k \in 1..Len(line)
    BY <2>0
  <2> USE DEF n, x, y
  <2>2. \A k \in beg(i)..(end(i) - 1) : line[k] \in S
    BY <2>1
  <2> QED
    BY <2>1, <2>2, SubSeqProperties
<1>4. ASSUME NEW i \in D, NEW g \in [D -> V]
      PROVE  step[<<i, g>>] = One(i, g) /\ One(i, g) \in V
  <2>1. step[<<i, g>>] = One(i, g)
    OBVIOUS
  <2>2. g[end(i)] \in Seq(Seq(S))
    BY <1>2
  <2>3. <<SubSeq(line, beg(i), end(i) - 1)>> \in Seq(Seq(S))
    BY <1>3
  <2>4. <<SubSeq(line, beg(i), end(i) - 1)>> \o g[end(i)] \in Seq(Seq(S))
    BY <2>2, <2>3
  <2>5. << >> \in Seq(Seq(S))
    OBVIOUS
  <2> QED
    BY <2>1, <2>4, <2>5
<1>5. mu \in [D -> Nat]
  BY <1>1
<1>6. ASSUME NEW i \in D, NEW g \in [D -> V], NEW h \in [D -> V],
             \A y \in D : mu[y] < mu[i] => g[y] = h[y]
      PROVE  step[<<i, g>>] = step[<<i, h>>]
  <2>1. CASE end(i) = beg(i)
    BY <2>1
  <2>2. CASE end(i) # beg(i)
    <3>1. end(i) \in D /\ end(i) > i
      BY <1>2, <2>2
    <3>2. mu[end(i)] < mu[i]
      BY <1>1, <3>1
    <3>3. g[end(i)] = h[end(i)]
      BY <1>6, <3>1, <3>2
    <3>4. One(i, g) = One(i, h)
      BY <3>3
    <3> HIDE DEF step, One
    <3> QED
      BY <1>4, <3>4
  <2> QED
    BY <2>1, <2>2
<1>7. \E g \in [D -> V] : Rec(g)
  <2>1. PICK g \in [D -> V] : Solves(g, step, D)
    <3> HIDE DEF D, V, mu, step
    <3>1. V # {}
      <4>1. << >> \in Seq(Seq(S))
        OBVIOUS
      <4> QED
        BY <4>1 DEF V
    <3>2. step \in [D \X [D -> V] -> V]
      BY <1>4 DEF step
    <3>3. Recurs(step, mu, D, V)
      BY <1>5, <1>6, <3>1, <3>2, Zenon DEF Recurs
    <3> QED
      BY <3>3, Recursion
  <2>2. \A i \in D : g[i] = One(i, g)
    <3> HIDE DEF D, V, step, One
    <3> QED
      BY <1>4, <2>1 DEF Solves
  <2> HIDE DEF D, V, step, One
  <2> QED
    BY <2>1, <2>2
<1> DEFINE it == CHOOSE g : Rec(g)
<1>9. Rec(it)
  <2> HIDE DEF Rec
  <2> QED
    BY <1>7
<1>10. lineToMsa(line) = it[1]
  BY DEF lineToMsa, beg, end
<1> HIDE DEF it
<1>11. \A i \in D : it[i] = One(i, it)
  <2> HIDE DEF One
  <2> QED
    BY <1>9
<1> DEFINE H == {i \in D : it[i] \in V}
<1>12. ASSUME NEW i \in D, \A y \in D : mu[y] < mu[i] => y \in H
       PROVE  i \in H
  <2>1. CASE end(i) = beg(i)
    <3>1. it[i] = << >>
      BY <1>11, <2>1
    <3>2. it[i] \in Seq(Seq(S))
      BY <3>1
    <3> QED
      BY <3>2
  <2>2. CASE end(i) # beg(i)
    <3>1. end(i) \in D /\ end(i) > i
      BY <1>2, <2>2
    <3>2. mu[end(i)] < mu[i]
      BY <1>1, <3>1
    <3>3. it[end(i)] \in V
      BY <1>12, <3>1, <3>2
    <3>4. it[i] = <<SubSeq(line, beg(i), end(i) - 1)>> \o it[end(i)]
      BY <1>11, <2>2
    <3>5. <<SubSeq(line, beg(i), end(i) - 1)>> \in V
      BY <1>3
    <3> QED
      BY <3>3, <3>4, <3>5, ConcatProperties
  <2> QED
    BY <2>1, <2>2
<1>13. H = D
  <2> HIDE DEF mu, H, D
  <2>1. H \in SUBSET D
    BY DEF H
  <2> QED
    BY <1>5, <1>12, <2>1, MeasureInduction, SMTT(30)
<1>14. it \in [D -> V]
  <2> HIDE DEF One, V, D
  <2>1. it = [i \in D |-> it[i]]
    BY <1>9
  <2> QED
    BY <1>13, <2>1
<1>15. Splits(it, line)
  BY <1>11 DEF Splits, beg, end
<1> QED
  BY <1>10, <1>14, <1>15

-----------------------------------------------------------------------------
(* What the words of lines are made of. *)
LEMMA WordsType ==
  ASSUME NEW S, NEW s \in Seq(Seq(S))
  PROVE  WordsOf(s) \in Seq(Seq(S))
<1> DEFINE bs == [k \in DOMAIN s |-> lineToMsa(s[k])]
<1>1. DOMAIN s = 1..Len(s) /\ Len(s) \in Nat /\ \A k \in DOMAIN s : s[k] \in Seq(S)
  OBVIOUS
<1>2. ASSUME NEW line \in Seq(S) PROVE lineToMsa(line) \in Seq(Seq(S))
  <2>1. PICK words \in [1..End(line) -> Seq(Seq(S))] : lineToMsa(line) = words[1]
    BY LineSplits
  <2>2. 1 \in 1..End(line)
    BY DEF End
  <2> QED
    BY <2>1, <2>2
<1>3. bs \in Seq(Seq(Seq(S)))
  <2>1. bs \in [1..Len(s) -> Seq(Seq(S))]
    BY <1>1, <1>2
  <2> HIDE DEF bs
  <2> QED
    BY <1>1, <2>1, FunctionIsSequence
<1>4. FlattenSeq(bs) \in Seq(Seq(S))
  BY <1>3, FlattenConcat
<1> QED
  BY <1>4 DEF WordsOf

(* The words of the first n lines, and those of the others. *)
LEMMA WordsSplit ==
  ASSUME NEW S, NEW s \in Seq(Seq(S)), NEW n \in 0..Len(s)
  PROVE  WordsOf(s) = WordsOf(SubSeq(s, 1, n)) \o WordsOf(SubSeq(s, n + 1, Len(s)))
<1> DEFINE first == SubSeq(s, 1, n)
           rest == SubSeq(s, n + 1, Len(s))
           Split(t) == [k \in DOMAIN t |-> lineToMsa(t[k])]
<1>1. /\ first \in Seq(Seq(S)) /\ rest \in Seq(Seq(S)) /\ s = first \o rest
  BY SequenceSplit
<1> HIDE DEF first, rest
<1>2. ASSUME NEW line \in Seq(S) PROVE lineToMsa(line) \in Seq(Seq(S))
  <2>1. PICK words \in [1..End(line) -> Seq(Seq(S))] : lineToMsa(line) = words[1]
    BY LineSplits
  <2>2. 1 \in 1..End(line)
    BY DEF End
  <2> QED
    BY <2>1, <2>2
<1>3. ASSUME NEW t \in Seq(Seq(S))
      PROVE  Split(t) \in Seq(Seq(Seq(S))) /\ Len(Split(t)) = Len(t)
             /\ \A k \in 1..Len(t) : Split(t)[k] = lineToMsa(t[k])
  <2>1. DOMAIN t = 1..Len(t) /\ Len(t) \in Nat /\ \A k \in 1..Len(t) : t[k] \in Seq(S)
    OBVIOUS
  <2>2. Split(t) \in [1..Len(t) -> Seq(Seq(S))] /\ \A k \in 1..Len(t) : Split(t)[k] = lineToMsa(t[k])
    BY <1>2, <2>1
  <2>3. DOMAIN Split(t) = 1..Len(t)
    BY <2>1
  <2> HIDE DEF Split
  <2>4. Split(t) \in Seq(Seq(Seq(S)))
    BY <2>1, <2>2, FunctionIsSequence
  <2>5. Len(Split(t)) = Len(t)
    BY <2>1, <2>3, <2>4
  <2> QED
    BY <2>2, <2>4, <2>5
<1>4. Split(first \o rest) = Split(first) \o Split(rest)
  <2> DEFINE t == first \o rest
             m == Len(first)
  <2>1. /\ t \in Seq(Seq(S)) /\ Len(t) = m + Len(rest) /\ m \in Nat /\ Len(rest) \in Nat
        /\ \A k \in 1..Len(t) : t[k] = IF k <= m THEN first[k] ELSE rest[k - m]
    BY <1>1, ConcatProperties
  <2> HIDE DEF Split, t
  <2> DEFINE A == Split(first)
             B == Split(rest)
  <2>2. /\ Len(A) = m /\ Len(B) = Len(rest) /\ A \in Seq(Seq(Seq(S))) /\ B \in Seq(Seq(Seq(S)))
        /\ \A k \in 1..m : A[k] = lineToMsa(first[k])
        /\ \A k \in 1..Len(rest) : B[k] = lineToMsa(rest[k])
    BY <1>1, <1>3
  <2> HIDE DEF A, B, m
  <2>3. /\ A \o B \in Seq(Seq(Seq(S))) /\ Len(A \o B) = m + Len(rest)
        /\ \A k \in 1..(m + Len(rest)) : (A \o B)[k] = IF k <= m THEN A[k] ELSE B[k - m]
    BY <2>2, ConcatProperties
  <2>4. ASSUME NEW k \in 1..(m + Len(rest)) PROVE Split(t)[k] = (A \o B)[k]
    <3>1. Split(t)[k] = lineToMsa(t[k])
      BY <1>3, <2>1
    <3>2. CASE k <= m
      <4>1. k \in 1..m /\ t[k] = first[k] /\ (A \o B)[k] = A[k]
        BY <2>1, <2>3, <3>2
      <4> QED
        BY <2>2, <3>1, <4>1
    <3>3. CASE ~(k <= m)
      <4>1. k - m \in 1..Len(rest) /\ t[k] = rest[k - m] /\ (A \o B)[k] = B[k - m]
        BY <2>1, <2>3, <3>3, SMTT(30)
      <4> QED
        BY <2>2, <3>1, <4>1
    <3> QED
      BY <3>2, <3>3
  <2>5. Split(t) \in Seq(Seq(Seq(S))) /\ Len(Split(t)) = m + Len(rest)
    BY <1>3, <2>1
  <2>6. Split(t) = A \o B
    BY <2>3, <2>4, <2>5, SeqEqual
  <2> QED
    BY <2>6 DEF t, A, B
<1>5. /\ Split(first) \in Seq(Seq(Seq(S))) /\ Split(rest) \in Seq(Seq(Seq(S)))
  BY <1>1, <1>3
<1>6. FlattenSeq(Split(first) \o Split(rest)) = FlattenSeq(Split(first)) \o FlattenSeq(Split(rest))
  <2> HIDE DEF Split
  <2> QED
    BY <1>5, FlattenConcat
<1>7. FlattenSeq(Split(s)) = FlattenSeq(Split(first)) \o FlattenSeq(Split(rest))
  <2> HIDE DEF Split
  <2> QED
    BY <1>1, <1>4, <1>6
<1> QED
  BY <1>7 DEF WordsOf, first, rest

-----------------------------------------------------------------------------
(* The characters of the input files and of the files of an earlier run,   *)
(* the words that can be made of them, and the entries for such words.     *)
Used ==
  {x \in Character : \/ x = 97
                     \/ \E f \in Files : \E l \in DOMAIN Text[f] :
                          \E k \in DOMAIN Text[f][l] : Text[f][l][k] = x}

UsedWord == Seq(Used)

Entry == [w : UsedWord, n : Nat \ {0}]

LEMMA UsedIsCharacter ==
  /\ Used \subseteq Character
  /\ \A w \in UsedWord : w \in Word
  /\ \A e \in Entry : e \in WCKV /\ e.w \in UsedWord /\ e.n \in Nat \ {0} /\ e # NoWord
<1>1. Used \subseteq Character
  BY DEF Used
<1>2. \A w \in UsedWord : w \in Word
  BY <1>1, SeqMonotonic DEF UsedWord, Word
<1>3. \A e \in Entry : e.w \in UsedWord /\ e.n \in Nat \ {0} /\ e = [w |-> e.w, n |-> e.n]
  BY DEF Entry
<1>4. \A e \in Entry : e \in WCKV
  BY <1>2, <1>3 DEF WCKV
<1>5. \A e \in Entry : e # NoWord
  BY <1>3 DEF NoWord
<1> QED
  BY <1>1, <1>2, <1>3, <1>4, <1>5

LEMMA TextIsUsed ==
  ASSUME NEW f \in Files
  PROVE  Text[f] \in Seq(Seq(Used))
<1> DEFINE C == Character \ {10}
<1>1. Text[f] \in Seq(Seq(C))
  BY TextAssumption
<1>2. ASSUME NEW l \in 1..Len(Text[f]) PROVE Text[f][l] \in Seq(Used)
  <2>1. Text[f][l] \in Seq(C) /\ l \in DOMAIN Text[f]
    BY <1>1
  <2>2. ASSUME NEW k \in 1..Len(Text[f][l]) PROVE Text[f][l][k] \in Used
    BY <2>1 DEF Used
  <2>3. Text[f][l] \in [1..Len(Text[f][l]) -> Used] /\ Len(Text[f][l]) \in Nat
    BY <2>1, <2>2
  <2> QED
    BY <2>3, SeqDef
<1>3. Text[f] \in [1..Len(Text[f]) -> Seq(Used)] /\ Len(Text[f]) \in Nat
  BY <1>1, <1>2
<1> QED
  BY <1>3, SeqDef

-----------------------------------------------------------------------------
(* The inductive invariant.  First what there is: arrays and files hold    *)
(* words of the input, the temporary files of a run are numbered from 0,   *)
(* and an entry is being counted while one is written.                     *)
Types ==
  /\ phase \in Busy \cup Stopped \cup {"start"}
  /\ todo \subseteq Files
  /\ ifp \in [eol : BOOLEAN, rest : Seq(Seq(Used)), eof : BOOLEAN]
  /\ msa_arr \in [Threads -> Seq(UsedWord)]
  /\ pending \subseteq Threads
  /\ file_cnt \in 0..MaxTmpFiles /\ (phase = "start" => file_cnt = 0)
  /\ leaked \in 0..(OpenMax - 1) /\ leaked <= file_cnt
  /\ phase = "write" => file_cnt < MaxTmpFiles /\ word \in Entry
  /\ phase \notin {"write", "merge"} => word = NoWord
  /\ phase \notin {"merge", "done"} => fps = << >> /\ output = << >>

TmpTypes ==
  phase # "start" =>
    /\ phase \in Busy =>
         DOMAIN tmp = IF phase = "write" THEN 0..file_cnt ELSE 0..(file_cnt - 1)
    /\ DOMAIN tmp \subseteq 0..MaxTmpFiles
    /\ \A n \in DOMAIN tmp : tmp[n] \in Seq(Entry)

(* What an earlier run has left, before and after rm -rf.                  *)
OldFile == <<[w |-> <<97>>, n |-> 1]>>

OldFiles(files) ==
  DOMAIN files \subseteq {0, MaxTmpFiles} /\ \A n \in DOMAIN files : files[n] = OldFile

StaleTypes ==
  /\ phase = "start" => DOMAIN stale = {} /\ OldFiles(tmp)
  /\ OldFiles(stale)
  /\ phase # "start" => DOMAIN tmp \cap DOMAIN stale = {}

(* What the merge of the files reads and writes. *)
MergeTypes ==
  /\ IsFiniteSet(DOMAIN fps) /\ \A k \in DOMAIN fps : fps[k] \in Seq(Entry)
  /\ output \in Seq(Entry)
  /\ word \in Entry \cup {NoWord}

(* Words in the order of strcmp, equal ones next to each other. *)
Ordered(s) == \A j, k \in DOMAIN s : j < k => ~Before(s[k], s[j])

(* The entries of s are for words before w. *)
Below(s, w) == \A k \in DOMAIN s : Before(s[k].w, w)

(* A thread's array is in order once it has been sorted; what is written   *)
(* ascends, up to the entry being counted, and comes before the rest.      *)
ChunkInv ==
  /\ phase \in Busy => \A n \in DOMAIN tmp : Ascending(tmp[n])
  /\ phase = "sort" => \A i \in Threads \ pending : Ordered(msa_arr[i])
  /\ phase = "write" =>
       /\ Below(tmp[file_cnt], word.w)
       /\ Ordered(msa_arr[1])
       /\ \A k \in DOMAIN msa_arr[1] : ~Before(msa_arr[1][k], word.w)

(* Each stream ascends; so does what is written, the entry being counted   *)
(* included, and it comes before what is left in the streams.              *)
MergeInv ==
  phase \in {"merge", "done"} =>
    /\ \A i \in DOMAIN fps : Ascending(fps[i])
    /\ Ascending(output)
    /\ word # NoWord => Below(output, word.w)
    /\ \A i \in DOMAIN fps : \A k \in DOMAIN fps[i] :
         IF word = NoWord THEN Below(output, fps[i][k].w)
         ELSE ~Before(fps[i][k].w, word.w)

-----------------------------------------------------------------------------
(* Arrays and streams from which a word is taken. *)
LEMMA PoppedKeeps ==
  ASSUME NEW S, NEW seqs, \A k \in DOMAIN seqs : seqs[k] \in Seq(S),
         NEW i \in DOMAIN seqs, seqs[i] # << >>
  PROVE  /\ DOMAIN Popped(seqs, i) = DOMAIN seqs
         /\ Popped(seqs, i)[i] = Tail(seqs[i])
         /\ \A k \in DOMAIN seqs : k # i => Popped(seqs, i)[k] = seqs[k]
         /\ \A k \in DOMAIN seqs : Popped(seqs, i)[k] \in Seq(S)
         /\ Head(seqs[i]) \in S
         /\ Popped(seqs, i) = [k \in DOMAIN seqs |-> Popped(seqs, i)[k]]
<1>1. Head(seqs[i]) \in S /\ Tail(seqs[i]) \in Seq(S)
  BY HeadAndTail
<1>2. Popped(seqs, i) = [k \in DOMAIN seqs |-> IF k = i THEN Tail(seqs[i]) ELSE seqs[k]]
  BY DEF Popped
<1> QED
  BY <1>1, <1>2

LEMMA NothingInMemory ==
  /\ NoBlocks \in [Threads -> Seq(UsedWord)]
  /\ NoFile \in [eol : BOOLEAN, rest : Seq(Seq(Used)), eof : BOOLEAN]
BY DEF NoBlocks, NoFile

LEMMA InitTypes == Init => Types /\ TmpTypes
<1> SUFFICES ASSUME Init PROVE Types /\ TmpTypes
  OBVIOUS
<1>1. Types
  BY NothingInMemory, SizeAssumption DEF Init, Types
<1> QED
  BY <1>1 DEF Init, TmpTypes

LEMMA InitStale == Init => StaleTypes
<1> SUFFICES ASSUME Init PROVE StaleTypes
  OBVIOUS
<1>1. PICK old \in SUBSET {0, MaxTmpFiles} : tmp = [n \in old |-> OldFile]
  BY DEF Init, OldFile
<1>2. phase = "start" /\ stale = << >> /\ DOMAIN stale = {}
  BY DEF Init
<1> QED
  BY <1>1, <1>2 DEF StaleTypes, OldFiles

(* Whether or not ./wordcount-tmp could be cleared. *)
LEMMA BeginTypes ==
  ASSUME Types, TmpTypes, Begin \/ BeginUncleared
  PROVE  Types' /\ TmpTypes'
<1>1. Starts /\ tmp' = << >>
  BY DEF Begin, BeginUncleared, ClearedTmp
<1>2. DOMAIN tmp' = {} /\ phase' = "pick" /\ file_cnt' = 0 /\ 0..(file_cnt' - 1) = {}
  BY <1>1 DEF Starts, Types
<1> QED
  BY <1>1, <1>2, SizeAssumption DEF Starts, Types, TmpTypes, Busy, Stopped

LEMMA OpenFileTypes ==
  ASSUME Types, TmpTypes, NEW f \in Files, OpenFile(f)
  PROVE  Types' /\ TmpTypes'
<1>1. ifp' = [eol |-> f \notin NoFinalEOL, rest |-> Text[f], eof |-> FALSE]
  BY DEF OpenFile
<1>2. (f \notin NoFinalEOL) \in BOOLEAN /\ Text[f] \in Seq(Seq(Used))
  BY TextIsUsed
<1>3. ifp' \in [eol : BOOLEAN, rest : Seq(Seq(Used)), eof : BOOLEAN]
  BY <1>1, <1>2
<1> QED
  BY <1>3 DEF OpenFile, Types, TmpTypes, Busy

LEMMA ReadTypes ==
  ASSUME Types, TmpTypes, NEW i \in Threads, single_read_block(i)
  PROVE  Types' /\ TmpTypes'
<1>1. PICK n \in 0..Len(ifp.rest) :
        /\ msa_arr' = [msa_arr EXCEPT ![i] = WordsOf(SubSeq(ifp.rest, 1, n))]
        /\ ifp' = [ifp EXCEPT !.rest = SubSeq(@, n + 1, Len(@)), !.eof = HitsEOF(ifp, n)]
  BY DEF single_read_block
<1>2. ifp.rest \in Seq(Seq(Used))
  BY DEF Types
<1>3. /\ SubSeq(ifp.rest, 1, n) \in Seq(Seq(Used))
      /\ SubSeq(ifp.rest, n + 1, Len(ifp.rest)) \in Seq(Seq(Used))
  BY <1>2, SequenceSplit
<1>4. WordsOf(SubSeq(ifp.rest, 1, n)) \in Seq(UsedWord)
  BY <1>3, WordsType DEF UsedWord
<1>5. HitsEOF(ifp, n) \in BOOLEAN
  BY DEF HitsEOF
<1>6. ifp' \in [eol : BOOLEAN, rest : Seq(Seq(Used)), eof : BOOLEAN]
  BY <1>1, <1>3, <1>5 DEF Types
<1>7. msa_arr' \in [Threads -> Seq(UsedWord)]
  BY <1>1, <1>4 DEF Types
<1> QED
  BY <1>6, <1>7 DEF single_read_block, Types, TmpTypes, Busy

(* What sorting leaves in an array. *)
LEMMA SortedArray ==
  ASSUME Types, NEW i \in Threads, sort_one_msa(i)
  PROVE  \E t \in Seq(UsedWord) :
           SortsTo(msa_arr[i], t) /\ msa_arr' = [msa_arr EXCEPT ![i] = t]
<1>1. PICK t \in [DOMAIN msa_arr[i] -> ToSet(msa_arr[i])] :
        SortsTo(msa_arr[i], t) /\ msa_arr' = [msa_arr EXCEPT ![i] = t]
  BY DEF sort_one_msa
<1>2. msa_arr[i] \in Seq(UsedWord)
  BY DEF Types
<1>3. DOMAIN msa_arr[i] = 1..Len(msa_arr[i]) /\ Len(msa_arr[i]) \in Nat
  BY <1>2
<1>4. ToSet(msa_arr[i]) \subseteq UsedWord
  BY <1>2, <1>3 DEF ToSet
<1>5. t \in [1..Len(msa_arr[i]) -> UsedWord]
  BY <1>3, <1>4
<1>6. t \in Seq(UsedWord)
  BY <1>3, <1>5, FunctionIsSequence
<1> QED
  BY <1>1, <1>6

LEMMA SortTypes ==
  ASSUME Types, TmpTypes, NEW i \in Threads, sort_one_msa(i)
  PROVE  Types' /\ TmpTypes'
<1>1. PICK t \in Seq(UsedWord) : msa_arr' = [msa_arr EXCEPT ![i] = t]
  BY SortedArray
<1>2. msa_arr' \in [Threads -> Seq(UsedWord)]
  BY <1>1 DEF Types
<1> QED
  BY <1>2 DEF sort_one_msa, Types, TmpTypes, Busy

(* The directory with one more file in it. *)
LEMMA CreatedTypes ==
  ASSUME Types, TmpTypes, CanCreate
  PROVE  /\ DOMAIN Created = 0..file_cnt /\ Created[file_cnt] = << >>
         /\ \A n \in DOMAIN tmp : n # file_cnt /\ Created[n] = tmp[n]
         /\ DOMAIN tmp = 0..(file_cnt - 1)
         /\ \A n \in DOMAIN Created : Created[n] \in Seq(Entry)
         /\ file_cnt \in 0..(MaxTmpFiles - 1) /\ file_cnt + 1 \in 0..MaxTmpFiles
         /\ leaked + 1 \in 0..(OpenMax - 1)
<1>1. /\ phase = "sort" /\ file_cnt \in 0..MaxTmpFiles /\ file_cnt < MaxTmpFiles
      /\ DOMAIN tmp = 0..(file_cnt - 1) /\ \A n \in DOMAIN tmp : tmp[n] \in Seq(Entry)
      /\ leaked \in 0..(OpenMax - 1) /\ leaked + 1 < OpenMax
  BY DEF CanCreate, Types, TmpTypes, Busy
<1>2. file_cnt \in Nat /\ MaxTmpFiles \in Nat /\ OpenMax \in Nat
  BY <1>1, SizeAssumption
<1>3. /\ DOMAIN tmp \cup {file_cnt} = 0..file_cnt /\ file_cnt \notin DOMAIN tmp
      /\ file_cnt \in 0..(MaxTmpFiles - 1) /\ file_cnt + 1 \in 0..MaxTmpFiles
      /\ leaked + 1 \in 0..(OpenMax - 1)
  BY <1>1, <1>2
<1>4. << >> \in Seq(Entry)
  OBVIOUS
<1>5. Created = [n \in 0..file_cnt |-> IF n = file_cnt THEN << >> ELSE tmp[n]]
  BY <1>3 DEF Created
<1>6. ASSUME NEW n \in 0..file_cnt PROVE Created[n] \in Seq(Entry)
  <2>1. n = file_cnt \/ n \in DOMAIN tmp
    BY <1>3
  <2> QED
    BY <1>1, <1>4, <1>5, <2>1
<1> QED
  BY <1>1, <1>3, <1>5, <1>6

(* do_one_file goes on to the next chunk, or is done with the file. *)
LEMMA ChunkDoneMeans ==
  ASSUME ChunkDone
  PROVE  /\ file_cnt' = file_cnt + 1 /\ pending' \subseteq Threads
         /\ phase' \in {"pick", "read"} /\ phase' \in Busy
         /\ phase' = IF ifp.eof THEN "pick" ELSE "read"
BY DEF ChunkDone, Busy

LEMMA WriteNothingTypes ==
  ASSUME Types, TmpTypes, WriteNothing
  PROVE  Types' /\ TmpTypes'
<1>1. /\ CanCreate /\ tmp' = Created /\ leaked' = leaked + 1 /\ msa_arr' = NoBlocks
      /\ file_cnt' = file_cnt + 1 /\ pending' \subseteq Threads
      /\ phase' \in {"pick", "read"} /\ phase' \in Busy
      /\ UNCHANGED <<todo, ifp, word, fps, output>>
  BY ChunkDoneMeans DEF WriteNothing
<1>2. /\ DOMAIN tmp' = 0..file_cnt /\ \A n \in DOMAIN tmp' : tmp'[n] \in Seq(Entry)
      /\ file_cnt \in 0..(MaxTmpFiles - 1) /\ file_cnt + 1 \in 0..MaxTmpFiles
      /\ leaked + 1 \in 0..(OpenMax - 1)
  BY <1>1, CreatedTypes
<1>3. leaked + 1 <= file_cnt + 1
  BY <1>2 DEF Types
<1>4. 0..(file_cnt' - 1) = 0..file_cnt /\ 0..file_cnt \subseteq 0..MaxTmpFiles
  BY <1>1, <1>2, SizeAssumption
<1>5. phase = "sort"
  BY <1>1 DEF CanCreate
<1>6. Types'
  BY <1>1, <1>2, <1>3, <1>5, NothingInMemory DEF Types, Busy
<1>7. TmpTypes'
  BY <1>1, <1>2, <1>4 DEF TmpTypes
<1> QED
  BY <1>6, <1>7

LEMMA BeginWriteTypes ==
  ASSUME Types, TmpTypes, BeginWrite
  PROVE  Types' /\ TmpTypes'
<1>1. /\ CanCreate /\ tmp' = Created /\ word' = FirstEntry(Head(msa_arr[1]))
      /\ msa_arr[1] # << >> /\ msa_arr' = Popped(msa_arr, 1) /\ phase' = "write"
      /\ UNCHANGED <<todo, ifp, pending, file_cnt, leaked, fps, output>>
  BY DEF BeginWrite
<1>2. /\ DOMAIN tmp' = 0..file_cnt /\ \A n \in DOMAIN tmp' : tmp'[n] \in Seq(Entry)
      /\ file_cnt \in 0..(MaxTmpFiles - 1)
  BY <1>1, CreatedTypes
<1>3. 1 \in DOMAIN msa_arr /\ \A k \in DOMAIN msa_arr : msa_arr[k] \in Seq(UsedWord)
  BY SizeAssumption DEF Types, Threads
<1>4. Head(msa_arr[1]) \in UsedWord /\ msa_arr' \in [Threads -> Seq(UsedWord)]
  <2>1. DOMAIN msa_arr = Threads
    BY DEF Types
  <2> QED
    BY <1>1, <1>3, <2>1, PoppedKeeps
<1>5. word' \in Entry
  BY <1>1, <1>4 DEF FirstEntry, Entry
<1>6. 0..file_cnt \subseteq 0..MaxTmpFiles /\ file_cnt < MaxTmpFiles
  BY <1>2, SizeAssumption
<1>7. phase = "sort"
  BY <1>1 DEF CanCreate
<1>8. Types'
  BY <1>1, <1>4, <1>5, <1>6, <1>7 DEF Types, Busy
<1>9. TmpTypes'
  BY <1>1, <1>2, <1>6 DEF TmpTypes
<1> QED
  BY <1>8, <1>9

(* What a turn of the loop does to the entry being counted. *)
LEMMA WriteWordTypes ==
  ASSUME Types, TmpTypes, WriteWord
  PROVE  Types' /\ TmpTypes'
<1>1. PICK i \in Threads : /\ IsFirstMin(HeadWords(msa_arr), i)
                           /\ CountOrWrite(Head(msa_arr[i]))
                           /\ msa_arr' = Popped(msa_arr, i)
  BY DEF WriteWord
<1> DEFINE w == Head(msa_arr[i])
<1>2. /\ phase = "write" /\ phase' = "write"
      /\ UNCHANGED <<todo, ifp, pending, file_cnt, leaked, fps, output>>
  BY DEF WriteWord
<1>3. /\ DOMAIN msa_arr = Threads /\ \A k \in DOMAIN msa_arr : msa_arr[k] \in Seq(UsedWord)
      /\ word \in Entry /\ file_cnt \in 0..MaxTmpFiles /\ file_cnt < MaxTmpFiles
  BY <1>2 DEF Types
<1>4. msa_arr[i] # << >>
  BY <1>1 DEF IsFirstMin, HeadWords
<1>5. w \in UsedWord /\ msa_arr' \in [Threads -> Seq(UsedWord)]
  BY <1>1, <1>3, <1>4, PoppedKeeps
<1>6. /\ DOMAIN tmp = 0..file_cnt /\ \A n \in DOMAIN tmp : tmp[n] \in Seq(Entry)
      /\ 0..file_cnt \subseteq 0..MaxTmpFiles /\ file_cnt \in DOMAIN tmp
  BY <1>2, <1>3, SizeAssumption DEF TmpTypes, Busy
<1> HIDE DEF w
<1>7. /\ word' \in Entry /\ DOMAIN tmp' = DOMAIN tmp
      /\ \A n \in DOMAIN tmp : tmp'[n] \in Seq(Entry)
  <2>1. CASE w = word.w
    <3>1. word' = [word EXCEPT !.n = word.n + 1] /\ tmp' = tmp
      BY <1>1, <2>1 DEF CountOrWrite, w
    <3>2. word.n + 1 \in Nat \ {0} /\ word.w \in UsedWord
      BY <1>3 DEF Entry
    <3>3. word' = [w |-> word.w, n |-> word.n + 1]
      BY <1>3, <3>1 DEF Entry
    <3> QED
      BY <1>6, <3>1, <3>2, <3>3 DEF Entry
  <2>2. CASE w # word.w
    <3>1. /\ tmp' = [tmp EXCEPT ![file_cnt] = Append(@, word)]
          /\ word' = [w |-> w, n |-> 1]
      BY <1>1, <2>2 DEF CountOrWrite, w
    <3>2. Append(tmp[file_cnt], word) \in Seq(Entry)
      BY <1>3, <1>6
    <3>3. word' \in Entry
      BY <1>5, <3>1 DEF Entry
    <3> QED
      BY <1>6, <3>1, <3>2, <3>3
  <2> QED
    BY <2>1, <2>2
<1>8. Types'
  BY <1>2, <1>3, <1>5, <1>7 DEF Types, Busy
<1>9. TmpTypes'
  BY <1>2, <1>6, <1>7 DEF TmpTypes
<1> QED
  BY <1>8, <1>9

LEMMA CloseTmpTypes ==
  ASSUME Types, TmpTypes, CloseTmp
  PROVE  Types' /\ TmpTypes'
<1>1. /\ phase = "write" /\ word' = NoWord
      /\ tmp' = [tmp EXCEPT ![file_cnt] = @ \o <<word>>]
      /\ file_cnt' = file_cnt + 1 /\ pending' \subseteq Threads
      /\ phase' \in {"pick", "read"} /\ phase' \in Busy
      /\ UNCHANGED <<todo, ifp, msa_arr, leaked, fps, output>>
  BY ChunkDoneMeans DEF CloseTmp, LastEntry
<1>2. word \in Entry /\ file_cnt \in 0..MaxTmpFiles /\ file_cnt < MaxTmpFiles
  BY <1>1 DEF Types
<1>3. /\ DOMAIN tmp = 0..file_cnt /\ \A n \in DOMAIN tmp : tmp[n] \in Seq(Entry)
      /\ 0..file_cnt \subseteq 0..MaxTmpFiles /\ file_cnt \in DOMAIN tmp
  BY <1>1, <1>2, SizeAssumption DEF TmpTypes, Busy
<1>4. tmp[file_cnt] \o <<word>> \in Seq(Entry)
  BY <1>2, <1>3
<1>5. DOMAIN tmp' = DOMAIN tmp /\ \A n \in DOMAIN tmp : tmp'[n] \in Seq(Entry)
  BY <1>1, <1>3, <1>4
<1>6. file_cnt' \in 0..MaxTmpFiles /\ 0..(file_cnt' - 1) = 0..file_cnt
  BY <1>1, <1>2, SizeAssumption
<1>7. leaked <= file_cnt'
  BY <1>1, <1>2, SizeAssumption DEF Types
<1>8. Types'
  BY <1>1, <1>6, <1>7 DEF Types, Busy
<1>9. TmpTypes'
  BY <1>1, <1>3, <1>5, <1>6 DEF TmpTypes
<1> QED
  BY <1>8, <1>9

LEMMA MergeStepTypes ==
  ASSUME Types, TmpTypes,
         \/ merge_sort \/ TakeMin \/ AddEqual \/ FinishMerge
         \/ FailToOpen \/ FailToOpenOutput \/ UNCHANGED vars
  PROVE  Types' /\ TmpTypes'
<1>1. CASE merge_sort
  BY <1>1 DEF merge_sort, Types, TmpTypes, Busy
<1>2. CASE TakeMin
  BY <1>2 DEF TakeMin, Types, TmpTypes, Busy
<1>3. CASE AddEqual
  BY <1>3 DEF AddEqual, Types, TmpTypes, Busy
<1>4. CASE FinishMerge
  BY <1>4 DEF FinishMerge, Types, TmpTypes, Busy, Stopped
<1>5. CASE FailToOpen
  BY <1>5 DEF FailToOpen, Types, TmpTypes, Busy, Stopped
<1>6. CASE FailToOpenOutput
  BY <1>6 DEF FailToOpenOutput, Types, TmpTypes, Busy, Stopped
<1>7. CASE UNCHANGED vars
  BY <1>7 DEF vars, Types, TmpTypes
<1> QED
  BY <1>1, <1>2, <1>3, <1>4, <1>5, <1>6, <1>7

(* A new temporary file takes the place of what an earlier run left under  *)
(* its name.                                                               *)
LEMMA NextStale ==
  ASSUME Types, TmpTypes, StaleTypes, [Next]_vars
  PROVE  StaleTypes'
<1>1. CASE Begin \/ BeginUncleared
  <2>1. Starts /\ tmp' = << >> /\ DOMAIN tmp' = {}
    BY <1>1 DEF Begin, BeginUncleared, ClearedTmp
  <2>2. phase = "start" /\ phase' = "pick"
    BY <2>1 DEF Starts
  <2>3. OldFiles(stale')
    <3>1. CASE Begin
      BY <3>1 DEF Begin, OldFiles
    <3>2. CASE BeginUncleared
      <4>1. PICK left \in SUBSET DOMAIN tmp : stale' = [n \in left |-> tmp[n]]
        BY <3>2 DEF BeginUncleared
      <4>2. OldFiles(tmp)
        BY <2>2 DEF StaleTypes
      <4> QED
        BY <4>1, <4>2 DEF OldFiles
    <3> QED
      BY <1>1, <3>1, <3>2
  <2> QED
    BY <2>1, <2>2, <2>3 DEF StaleTypes, OldFiles
<1>2. CASE WriteNothing \/ BeginWrite
  <2>1. /\ CanCreate /\ tmp' = Created /\ stale' = StillStale /\ phase' # "start"
    BY <1>2, ChunkDoneMeans DEF WriteNothing, BeginWrite
  <2>2. phase = "sort" /\ DOMAIN stale' = DOMAIN stale \ {file_cnt}
    BY <2>1 DEF CanCreate, StillStale
  <2>3. OldFiles(stale')
    BY <2>1, <2>2 DEF StaleTypes, OldFiles, StillStale
  <2>4. DOMAIN tmp' = DOMAIN tmp \cup {file_cnt} /\ DOMAIN tmp \cap DOMAIN stale = {}
    BY <2>1, <2>2 DEF Created, StaleTypes
  <2> QED
    BY <2>1, <2>2, <2>3, <2>4 DEF StaleTypes, OldFiles
<1>3. CASE WriteWord \/ CloseTmp
  <2>1. stale' = stale /\ phase = "write" /\ phase' # "start"
    BY <1>3, ChunkDoneMeans DEF WriteWord, CloseTmp
  <2>2. DOMAIN tmp' = DOMAIN tmp
    BY <1>3 DEF WriteWord, CloseTmp, CountOrWrite
  <2> QED
    BY <2>1, <2>2 DEF StaleTypes, OldFiles
<1>4. CASE UNCHANGED <<tmp, stale>> /\ phase # "start" /\ phase' # "start"
  BY <1>4 DEF StaleTypes, OldFiles
<1>5. CASE UNCHANGED vars
  BY <1>5 DEF vars, StaleTypes, OldFiles
<1>6. CASE \E f \in Files : OpenFile(f)
  BY <1>4, <1>6 DEF OpenFile
<1>7. CASE \E i \in Threads : single_read_block(i) \/ sort_one_msa(i)
  BY <1>4, <1>7 DEF single_read_block, sort_one_msa
<1>8. CASE merge_sort \/ TakeMin \/ AddEqual \/ FinishMerge
           \/ FailToOpen \/ FailToOpenOutput
  BY <1>4, <1>8 DEF merge_sort, TakeMin, AddEqual, FinishMerge, FailToOpen, FailToOpenOutput
<1> QED
  BY <1>1, <1>2, <1>3, <1>5, <1>6, <1>7, <1>8 DEF Next, main, do_one_file

(* What the merge finds in ./wordcount-tmp. *)
LEMMA DirectoryTypes ==
  ASSUME Types, TmpTypes, StaleTypes, phase # "start"
  PROVE  /\ DOMAIN Directory = DOMAIN tmp \cup DOMAIN stale
         /\ DOMAIN Directory \subseteq 0..MaxTmpFiles
         /\ DOMAIN tmp \cap DOMAIN stale = {}
         /\ \A n \in DOMAIN tmp : Directory[n] = tmp[n]
         /\ \A n \in DOMAIN stale : Directory[n] = stale[n] /\ stale[n] = OldFile
         /\ \A n \in DOMAIN Directory : Directory[n] \in Seq(Entry)
         /\ OldFile \in Seq(Entry)
<1>1. OldFile \in Seq(Entry)
  <2>1. 97 \in Used
    BY DEF Used, Character
  <2>2. <<97>> \in UsedWord
    BY <2>1 DEF UsedWord
  <2> QED
    BY <2>2 DEF OldFile, Entry
<1>2. DOMAIN stale \subseteq 0..MaxTmpFiles /\ \A n \in DOMAIN stale : stale[n] = OldFile
  BY SizeAssumption DEF StaleTypes, OldFiles
<1> QED
  BY <1>1, <1>2 DEF Directory, TmpTypes, StaleTypes

LEMMA NextTypes ==
  ASSUME Types, TmpTypes, [Next]_vars
  PROVE  Types' /\ TmpTypes'
<1>1. CASE Begin \/ BeginUncleared
  BY <1>1, BeginTypes
<1>2. CASE \E f \in Files : OpenFile(f)
  BY <1>2, OpenFileTypes
<1>3. CASE \E i \in Threads : single_read_block(i)
  BY <1>3, ReadTypes
<1>4. CASE \E i \in Threads : sort_one_msa(i)
  BY <1>4, SortTypes
<1>5. CASE WriteNothing
  BY <1>5, WriteNothingTypes
<1>6. CASE BeginWrite
  BY <1>6, BeginWriteTypes
<1>7. CASE WriteWord
  BY <1>7, WriteWordTypes
<1>8. CASE CloseTmp
  BY <1>8, CloseTmpTypes
<1>9. CASE \/ merge_sort \/ TakeMin \/ AddEqual \/ FinishMerge
           \/ FailToOpen \/ FailToOpenOutput \/ UNCHANGED vars
  BY <1>9, MergeStepTypes
<1> QED
  BY <1>1, <1>2, <1>3, <1>4, <1>5, <1>6, <1>7, <1>8, <1>9
  DEF Next, main, do_one_file

-----------------------------------------------------------------------------
(* No character of the input is one that sscanf takes for blank space and  *)
(* is_blank does not.                                                      *)
PlainText == FormFeed \notin Used /\ VerticalTab \notin Used

(* Then a temporary file is read back as it was written. *)
LEMMA ScannedIs ==
  ASSUME PlainText, NEW s \in Seq(Entry)
  PROVE  Scanned(s) = s
<1> DEFINE V == Seq(Entry)
           Next1(r, e) == Append(r, lineToWCKV(e, IF r = << >> THEN 0 ELSE Last(r).n))
           step == [p \in V \X Entry |-> Next1(p[1], p[2])]
           Rec(f) == f = [T \in SUBSET (DOMAIN s) |->
                            IF T = {} THEN << >> ELSE Next1(f[T \ {Max(T)}], s[Max(T)])]
<1>0. Len(s) \in Nat /\ DOMAIN s = 1..Len(s) /\ \A k \in DOMAIN s : s[k] \in Entry
  OBVIOUS
<1>1. ASSUME NEW e \in Entry, NEW cnt PROVE lineToWCKV(e, cnt) = e
  <2>1. e.w \in Seq(Used)
    BY UsedIsCharacter DEF UsedWord
  <2>2. ASSUME NEW x, e.w = <<x>> PROVE x \in Used
    <3>1. Len(e.w) = 1 /\ 1 \in 1..Len(e.w) /\ e.w[1] = x
      BY <2>2
    <3> QED
      BY <2>1, <3>1
  <2>3. e.w # <<FormFeed>> /\ e.w # <<VerticalTab>>
    BY <2>2 DEF PlainText
  <2> QED
    BY <2>3 DEF lineToWCKV
<1>2. ASSUME NEW r, NEW e \in Entry PROVE Next1(r, e) = Append(r, e)
  BY <1>1
<1> HIDE DEF Next1
<1>3. step \in [V \X Entry -> V]
  <2>1. ASSUME NEW r \in V, NEW e \in Entry PROVE Next1(r, e) \in V
    BY <1>2
  <2> HIDE DEF V
  <2> QED
    BY <2>1
<1>4. \E f : Rec(f)
  <2>1. PICK f \in [SUBSET (DOMAIN s) -> V] : FoldsOver(f, step, << >>, s)
    <3>1. << >> \in V
      OBVIOUS
    <3> HIDE DEF V, step
    <3> QED
      BY <1>3, <3>1, FoldExists
  <2>2. ASSUME NEW T \in SUBSET (DOMAIN s), T # {}
        PROVE  f[T] = Next1(f[T \ {Max(T)}], s[Max(T)])
    <3>1. Max(T) \in T
      BY <1>0, <2>2, MaxIsIn
    <3>2. s[Max(T)] \in Entry /\ f[T \ {Max(T)}] \in V
      BY <1>0, <3>1
    <3>3. f[T] = step[<<f[T \ {Max(T)}], s[Max(T)]>>]
      BY <2>1, <2>2 DEF FoldsOver
    <3> HIDE DEF V
    <3> QED
      BY <3>2, <3>3
  <2>3. f[{}] = << >>
    BY <2>1 DEF FoldsOver
  <2>4. f = [T \in SUBSET (DOMAIN s) |->
               IF T = {} THEN << >> ELSE Next1(f[T \ {Max(T)}], s[Max(T)])]
    BY <2>2, <2>3
  <2> QED
    BY <2>4
<1> DEFINE it == CHOOSE f : Rec(f)
<1>5. Rec(it)
  <2> HIDE DEF Rec
  <2> QED
    BY <1>4
<1>6. Scanned(s) = it[DOMAIN s]
  BY DEF Scanned, FoldLeft, MapThenFoldSet, Next1
<1> HIDE DEF it
<1> DEFINE Good == {k \in Nat : k <= Len(s) => it[1..k] = SubSeq(s, 1, k)}
<1>7. 0 \in Good
  <2>1. 1..0 = {} /\ SubSeq(s, 1, 0) = << >>
    OBVIOUS
  <2> QED
    BY <1>5, <2>1
<1>8. ASSUME NEW k \in Nat, k \in Good PROVE k + 1 \in Good
  <2> SUFFICES ASSUME k + 1 <= Len(s) PROVE it[1..(k + 1)] = SubSeq(s, 1, k + 1)
    OBVIOUS
  <2> DEFINE T == 1..(k + 1)
  <2>1. it[1..k] = SubSeq(s, 1, k)
    BY <1>0, <1>8
  <2>2. s[k + 1] \in Entry /\ Append(SubSeq(s, 1, k), s[k + 1]) = SubSeq(s, 1, k + 1)
    <3>1. k \in 0..Len(s) /\ k + 1 \in 0..Len(s) /\ k + 1 \in 1..Len(s)
      BY <1>0
    <3>2. /\ SubSeq(s, 1, k) \in Seq(Entry) /\ Len(SubSeq(s, 1, k)) = k
          /\ SubSeq(s, 1, k + 1) \in Seq(Entry) /\ Len(SubSeq(s, 1, k + 1)) = k + 1
      BY <3>1, SequenceSplit
    <3> QED
      BY <1>0, <3>1, <3>2
  <2>3. /\ T \in SUBSET (1..Len(s)) /\ k + 1 \in T /\ T # {} /\ T \ {k + 1} = 1..k
        /\ \A y \in T : y \in Int /\ y <= k + 1
    <3>1. k + 1 \in T
      OBVIOUS
    <3>2. \A y \in T : y \in Int /\ y <= k + 1 /\ y \in 1..Len(s)
      BY <1>0
    <3>3. T \ {k + 1} = 1..k
      OBVIOUS
    <3> HIDE DEF T
    <3> QED
      BY <3>1, <3>2, <3>3
  <2>4. Max(T) = k + 1
    <3> HIDE DEF T
    <3>1. Max(T) \in T /\ k + 1 <= Max(T)
      BY <1>0, <2>3, MaxIsIn
    <3>2. Max(T) <= k + 1 /\ Max(T) \in Int
      BY <2>3, <3>1
    <3> HIDE DEF Max
    <3> QED
      BY <3>1, <3>2
  <2>5. it[T] = Next1(it[1..k], s[k + 1])
    <3> HIDE DEF T
    <3>1. it[T] = Next1(it[T \ {Max(T)}], s[Max(T)])
      BY <1>0, <1>5, <2>3
    <3> QED
      BY <2>3, <2>4, <3>1
  <2> QED
    BY <1>2, <2>1, <2>2, <2>5
<1>9. Nat \subseteq Good
  <2> HIDE DEF Good
  <2> QED
    BY <1>7, <1>8, SetInduction
<1>10. it[1..Len(s)] = SubSeq(s, 1, Len(s)) /\ SubSeq(s, 1, Len(s)) = s
  BY <1>0, <1>9
<1> QED
  BY <1>0, <1>6, <1>10

-----------------------------------------------------------------------------
(* The files of the run and one more of an earlier one, a descriptor       *)
(* leaked for each of the run's, and the one of the directory's stream.    *)
EnoughDescriptors == 2 * MaxTmpFiles + 1 < OpenMax

FileCount == Cardinality(DOMAIN Directory)

(* What merge_sort opens: some of the files found, each once, or all.      *)
Opened(order, m) ==
  /\ order \in [1..FileCount -> DOMAIN Directory]
  /\ IsFiniteSet(DOMAIN Directory) /\ FileCount \in Nat
  /\ \A j, k \in 1..FileCount : j # k => order[j] # order[k]
  /\ m \in 0..FileCount /\ (EnoughDescriptors => m = FileCount)
  /\ DOMAIN fps' = 1..m /\ \A k \in 1..m : fps'[k] = Directory[order[k]]

LEMMA StreamsOpened ==
  ASSUME PlainText, Types, TmpTypes, StaleTypes, merge_sort
  PROVE  \E order, m : Opened(order, m)
<1>1. /\ phase = "pick" /\ file_cnt \in 0..MaxTmpFiles
      /\ leaked \in 0..(OpenMax - 1) /\ leaked <= file_cnt
  BY DEF merge_sort, Types
<1>2. PICK order \in SetToSeqs(DOMAIN Directory) :
        fps' = [k \in 1..Max({0, Min({Len(order), OpenMax - leaked - 1})}) |->
                 Scanned(Directory[order[k]])]
  BY DEF merge_sort
<1> DEFINE n == FileCount
           d == OpenMax - leaked - 1
           m == Max({0, Min({Len(order), d})})
<1>3. IsFiniteSet(DOMAIN Directory) /\ n \in Nat /\ n <= MaxTmpFiles + 1
  <2>1. DOMAIN Directory \subseteq 0..MaxTmpFiles
    BY <1>1, DirectoryTypes
  <2>2. /\ IsFiniteSet(0..MaxTmpFiles)
        /\ Cardinality(0..MaxTmpFiles) = IF 0 > MaxTmpFiles THEN 0 ELSE MaxTmpFiles - 0 + 1
    BY SizeAssumption, FS_Interval
  <2>3. /\ IsFiniteSet(DOMAIN Directory)
        /\ Cardinality(DOMAIN Directory) <= Cardinality(0..MaxTmpFiles)
    BY <2>1, <2>2, FS_Subset
  <2>4. Cardinality(DOMAIN Directory) \in Nat
    BY <2>3, FS_CardinalityType
  <2> QED
    BY <2>2, <2>3, <2>4, SizeAssumption DEF FileCount
<1>4. /\ order \in [1..n -> DOMAIN Directory]
      /\ \A j, k \in 1..n : j # k => order[j] # order[k]
  BY DEF SetToSeqs, FileCount
<1> HIDE DEF n
<1>5. Len(order) = n
  BY <1>3, <1>4
<1>6. m \in 0..n /\ (EnoughDescriptors => m = n)
  <2>1. n \in Int /\ d \in Int /\ d >= 0
    BY <1>1, <1>3, SizeAssumption
  <2>2. EnoughDescriptors => n <= d
    BY <1>1, <1>3, SizeAssumption DEF EnoughDescriptors
  <2> HIDE DEF d
  <2>3. Min({n, d}) = IF n <= d THEN n ELSE d
    BY <2>1 DEF Min
  <2>4. Min({n, d}) \in Int /\ Min({n, d}) >= 0 /\ Min({n, d}) <= n
    BY <1>3, <2>1, <2>3
  <2> HIDE DEF Min
  <2> DEFINE q == Min({n, d})
  <2> HIDE DEF q
  <2>5. q \in Int /\ q >= 0 => Max({0, q}) = q
    BY DEF Max
  <2>6. Max({0, Min({n, d})}) = Min({n, d})
    BY <2>4, <2>5 DEF q
  <2> QED
    BY <1>3, <1>5, <2>1, <2>2, <2>3, <2>4, <2>6
<1> HIDE DEF m
<1>7. DOMAIN fps' = 1..m /\ \A k \in 1..m : fps'[k] = Scanned(Directory[order[k]])
  BY <1>2 DEF m
<1>8. ASSUME NEW k \in 1..m PROVE fps'[k] = Directory[order[k]]
  <2>1. k \in 1..n
    BY <1>3, <1>6
  <2>2. Directory[order[k]] \in Seq(Entry)
    BY <1>1, <1>4, <2>1, DirectoryTypes
  <2> QED
    BY <1>7, <2>2, ScannedIs
<1>9. Opened(order, m)
  BY <1>3, <1>4, <1>6, <1>7, <1>8 DEF Opened, n
<1> QED
  BY <1>9

(* The entry AddEqual writes. *)
Added == [word EXCEPT !.n = @ + SumFunction([i \in EqualHeads |-> Head(fps[i]).n])]

LEMMA AddedIsEntry ==
  ASSUME MergeTypes, word # NoWord
  PROVE  /\ word \in Entry /\ Added \in Entry /\ Added.w = word.w
         /\ Added.n = word.n + SumFunction([i \in EqualHeads |-> Head(fps[i]).n])
         /\ EqualHeads \subseteq DOMAIN fps /\ IsFiniteSet(EqualHeads)
         /\ \A i \in EqualHeads : /\ fps[i] # << >> /\ Head(fps[i]) \in Entry
                                  /\ Head(fps[i]).n \in Nat /\ Head(fps[i]).w = word.w
<1>1. word \in Entry /\ IsFiniteSet(DOMAIN fps) /\ \A k \in DOMAIN fps : fps[k] \in Seq(Entry)
  BY DEF MergeTypes
<1>2. EqualHeads \subseteq DOMAIN fps
  BY DEF EqualHeads
<1>3. IsFiniteSet(EqualHeads)
  BY <1>1, <1>2, FS_Subset
<1>4. ASSUME NEW i \in EqualHeads
      PROVE  /\ fps[i] # << >> /\ Head(fps[i]) \in Entry
             /\ Head(fps[i]).n \in Nat /\ Head(fps[i]).w = word.w
  <2>1. i \in DOMAIN fps /\ fps[i] # << >> /\ Head(fps[i]).w = word.w
    BY DEF EqualHeads
  <2>2. Head(fps[i]) \in Entry
    BY <1>1, <2>1, HeadAndTail
  <2> QED
    BY <2>1, <2>2 DEF Entry
<1> DEFINE F == [i \in EqualHeads |-> Head(fps[i]).n]
<1>5. SumFunction(F) \in Nat
  <2>1. DOMAIN F = EqualHeads /\ \A i \in EqualHeads : F[i] \in Nat
    BY <1>4
  <2> HIDE DEF F
  <2>2. SumFunctionOnSet(F, EqualHeads) \in Nat
    BY <1>3, <2>1, SumNatural
  <2> QED
    BY <2>1, <2>2 DEF SumFunction
<1> HIDE DEF F
<1>6. word.w \in UsedWord /\ word.n \in Nat \ {0} /\ word = [w |-> word.w, n |-> word.n]
  BY <1>1 DEF Entry
<1>7. Added = [w |-> word.w, n |-> word.n + SumFunction(F)]
  BY <1>6 DEF Added, F
<1>8. word.n + SumFunction(F) \in Nat \ {0}
  BY <1>5, <1>6
<1> QED
  BY <1>1, <1>2, <1>3, <1>4, <1>6, <1>7, <1>8 DEF Entry, F

LEMMA MergeSortMergeTypes ==
  ASSUME PlainText, Types, TmpTypes, StaleTypes, MergeTypes, merge_sort
  PROVE  MergeTypes'
<1>1. PICK order, m : Opened(order, m)
  BY StreamsOpened
<1>2. /\ phase = "pick" /\ word' = word /\ output' = output
      /\ \A n \in DOMAIN Directory : Directory[n] \in Seq(Entry)
  BY DirectoryTypes DEF merge_sort
<1>3. IsFiniteSet(DOMAIN fps')
  BY <1>1, FS_Interval DEF Opened
<1>4. ASSUME NEW k \in DOMAIN fps' PROVE fps'[k] \in Seq(Entry)
  <2>1. k \in 1..FileCount /\ fps'[k] = Directory[order[k]]
    BY <1>1 DEF Opened
  <2>2. order[k] \in DOMAIN Directory
    BY <1>1, <2>1 DEF Opened
  <2> QED
    BY <1>2, <2>1, <2>2
<1> QED
  BY <1>2, <1>3, <1>4 DEF MergeTypes

LEMMA TakeMinMergeTypes ==
  ASSUME MergeTypes, TakeMin
  PROVE  MergeTypes'
<1>1. PICK i \in DOMAIN fps : /\ IsFirstMin(HeadEntries(fps), i)
                              /\ word' = Head(fps[i]) /\ fps' = Popped(fps, i)
  BY DEF TakeMin
<1>2. \A k \in DOMAIN fps : fps[k] \in Seq(Entry)
  BY DEF MergeTypes
<1>3. fps[i] # << >>
  BY <1>1 DEF IsFirstMin, HeadEntries
<1>4. /\ DOMAIN fps' = DOMAIN fps /\ word' \in Entry
      /\ \A k \in DOMAIN fps : fps'[k] \in Seq(Entry)
  BY <1>1, <1>2, <1>3, PoppedKeeps
<1>5. output' = output
  BY DEF TakeMin
<1> QED
  BY <1>4, <1>5 DEF MergeTypes

LEMMA AddEqualMergeTypes ==
  ASSUME MergeTypes, AddEqual
  PROVE  MergeTypes'
<1>1. /\ word # NoWord /\ output' = Append(output, Added) /\ word' = NoWord
      /\ fps' = [i \in DOMAIN fps |-> IF i \in EqualHeads THEN Tail(fps[i]) ELSE fps[i]]
  BY DEF AddEqual, Added
<1>2. /\ \A k \in DOMAIN fps : fps[k] \in Seq(Entry) /\ output \in Seq(Entry)
      /\ IsFiniteSet(DOMAIN fps) /\ output \in Seq(Entry)
  BY DEF MergeTypes
<1>3. Added \in Entry /\ \A i \in EqualHeads : i \in DOMAIN fps /\ fps[i] # << >>
  BY <1>1, AddedIsEntry
<1>4. \A k \in EqualHeads : Tail(fps[k]) \in Seq(Entry)
  BY <1>2, <1>3, HeadAndTail
<1>5. DOMAIN fps' = DOMAIN fps /\ \A k \in DOMAIN fps : fps'[k] \in Seq(Entry)
  BY <1>1, <1>2, <1>4
<1>6. output' \in Seq(Entry)
  BY <1>1, <1>2, <1>3
<1> QED
  BY <1>1, <1>2, <1>5, <1>6 DEF MergeTypes

LEMMA NextMergeTypes ==
  ASSUME PlainText, Types, TmpTypes, StaleTypes, MergeTypes, [Next]_vars
  PROVE  MergeTypes'
<1>1. Types'
  BY NextTypes
<1>2. CASE /\ fps' = fps /\ output' = output
           /\ phase' # "merge" \/ word' = word
  BY <1>1, <1>2 DEF Types, MergeTypes
<1>3. CASE merge_sort
  BY <1>3, MergeSortMergeTypes
<1>4. CASE TakeMin
  BY <1>4, TakeMinMergeTypes
<1>5. CASE AddEqual
  BY <1>5, AddEqualMergeTypes
<1>6. CASE FinishMerge
  <2>1. word # NoWord => word \in Entry
    BY DEF MergeTypes
  <2> QED
    BY <1>6, <2>1 DEF FinishMerge, MergeTypes
<1>7. CASE Begin \/ BeginUncleared \/ (\E f \in Files : OpenFile(f)) \/ do_one_file
           \/ FailToOpen \/ FailToOpenOutput \/ UNCHANGED vars
  <2>1. /\ fps' = fps /\ output' = output
        /\ phase' # "merge" \/ word' = word
    BY <1>7 DEF Begin, BeginUncleared, Starts, OpenFile, do_one_file, single_read_block, sort_one_msa,
      WriteNothing, BeginWrite, WriteWord, CloseTmp, ChunkDone, FailToOpen,
      FailToOpenOutput, vars
  <2> QED
    BY <1>2, <2>1
<1> QED
  BY <1>3, <1>4, <1>5, <1>6, <1>7 DEF Next, main

LEMMA TypesInvariant ==
  Spec => [](Types /\ TmpTypes /\ StaleTypes)
<1> DEFINE J == Types /\ TmpTypes /\ StaleTypes
<1>1. Init => J
  BY InitTypes, InitStale
<1>2. J /\ [Next]_vars => J'
  BY NextTypes, NextStale
<1> QED
  BY <1>1, <1>2, PTL DEF Spec

LEMMA MergeTypesInvariant ==
  ASSUME PlainText
  PROVE  Spec => []MergeTypes
<1>1. Init => MergeTypes
  <2> SUFFICES ASSUME Init PROVE MergeTypes
    OBVIOUS
  <2>1. fps = << >> /\ output = << >> /\ word = NoWord /\ DOMAIN fps = {}
    BY DEF Init
  <2>2. IsFiniteSet({})
    BY FS_EmptySet
  <2> QED
    BY <2>1, <2>2 DEF MergeTypes
<1>2. Types /\ TmpTypes /\ StaleTypes /\ MergeTypes /\ [Next]_vars => MergeTypes'
  BY NextMergeTypes
<1> QED
  BY <1>1, <1>2, TypesInvariant, PTL DEF Spec

(* The arrays, the temporary files and the streams hold words of the       *)
(* input, and what is counted is counted at least once, through every      *)
(* chunk and every merge, whatever fails to open.                          *)
THEOREM CountsAreTyped ==
  ASSUME PlainText
  PROVE  Spec => []TypeOK
<1>1. Types /\ TmpTypes /\ StaleTypes /\ MergeTypes => TypeOK
  <2> SUFFICES ASSUME Types, TmpTypes, StaleTypes, MergeTypes PROVE TypeOK
    OBVIOUS
  <2>1. /\ Seq(Entry) \subseteq Seq(WCKV) /\ Seq(UsedWord) \subseteq Seq(Word)
        /\ Seq(Seq(Used)) \subseteq Seq(Seq(Character))
    <3>1. Entry \subseteq WCKV /\ UsedWord \subseteq Word /\ Used \subseteq Character
      BY UsedIsCharacter
    <3>2. Seq(Used) \subseteq Seq(Character)
      BY <3>1, SeqMonotonic
    <3> QED
      BY <3>1, <3>2, SeqMonotonic
  <2>2. ifp \in [eol : BOOLEAN, rest : Seq(Seq(Character)), eof : BOOLEAN]
    BY <2>1 DEF Types
  <2>3. \A n \in DOMAIN Directory : n \in Nat /\ Directory[n] \in Seq(WCKV)
    <3>1. CASE phase = "start"
      <4>1. OldFile \in Seq(WCKV)
        BY DEF OldFile, WCKV, Word, Character
      <4> QED
        BY <3>1, <4>1, SizeAssumption DEF StaleTypes, OldFiles, Directory
    <3>2. CASE phase # "start"
      BY <2>1, <3>2, DirectoryTypes, SizeAssumption
    <3> QED
      BY <3>1, <3>2
  <2>4. word \in WCKV /\ (phase = "write" => word.n > 0)
    <3>1. NoWord \in WCKV
      BY DEF NoWord, WCKV, Word
    <3>2. \A e \in Entry : e \in WCKV /\ e.n > 0
      BY UsedIsCharacter
    <3> QED
      BY <3>1, <3>2 DEF MergeTypes, Types
  <2>5. \A i \in Threads : msa_arr[i] \in Seq(Word)
    BY <2>1 DEF Types
  <2>6. output \in Seq(WCKV) /\ \A k \in DOMAIN fps : fps[k] \in Seq(WCKV)
    BY <2>1 DEF MergeTypes
  <2> QED
    BY <2>2, <2>3, <2>4, <2>5, <2>6 DEF Types, TypeOK
<1> QED
  BY <1>1, TypesInvariant, MergeTypesInvariant, PTL

-----------------------------------------------------------------------------
(* Ordered arrays and ascending files, as they are taken from and added to. *)
LEMMA OrderedTail ==
  ASSUME NEW s \in Seq(UsedWord), s # << >>, Ordered(s)
  PROVE  /\ Ordered(Tail(s)) /\ Head(s) \in UsedWord
         /\ \A k \in DOMAIN Tail(s) : ~Before(Tail(s)[k], Head(s))
<1>1. /\ Head(s) = s[1] /\ Head(s) \in UsedWord /\ Tail(s) \in Seq(UsedWord)
      /\ Len(s) \in Nat /\ Len(s) >= 1
      /\ \A k \in 1..Len(Tail(s)) : k + 1 \in 1..Len(s) /\ Tail(s)[k] = s[k + 1]
  BY HeadAndTail
<1>2. DOMAIN s = 1..Len(s) /\ DOMAIN Tail(s) = 1..Len(Tail(s)) /\ 1 \in DOMAIN s
  BY <1>1
<1> DEFINE t == Tail(s)
<1> HIDE DEF t
<1>3. ASSUME NEW j \in DOMAIN t, NEW k \in DOMAIN t, j < k PROVE ~Before(t[k], t[j])
  <2>1. j + 1 \in DOMAIN s /\ k + 1 \in DOMAIN s /\ j + 1 < k + 1
        /\ t[j] = s[j + 1] /\ t[k] = s[k + 1]
    BY <1>1, <1>2, <1>3 DEF t
  <2> QED
    BY <2>1 DEF Ordered
<1>4. ASSUME NEW k \in DOMAIN t PROVE ~Before(t[k], s[1])
  <2>1. k + 1 \in DOMAIN s /\ 1 < k + 1 /\ t[k] = s[k + 1]
    BY <1>1, <1>2 DEF t
  <2> QED
    BY <1>2, <2>1 DEF Ordered
<1> QED
  BY <1>1, <1>3, <1>4 DEF Ordered, t

LEMMA AscendingTail ==
  ASSUME NEW s \in Seq(Entry), s # << >>, Ascending(s)
  PROVE  /\ Ascending(Tail(s)) /\ Head(s) \in Entry /\ 1 \in DOMAIN s /\ s[1] = Head(s)
         /\ \A k \in DOMAIN Tail(s) : /\ Before(Head(s).w, Tail(s)[k].w)
                                      /\ k + 1 \in DOMAIN s /\ Tail(s)[k] = s[k + 1]
         /\ \A k \in DOMAIN s : s[k] = Head(s) \/ Before(Head(s).w, s[k].w)
<1>1. /\ Head(s) = s[1] /\ Head(s) \in Entry /\ Tail(s) \in Seq(Entry)
      /\ Len(s) \in Nat /\ Len(s) >= 1
      /\ \A k \in 1..Len(Tail(s)) : k + 1 \in 1..Len(s) /\ Tail(s)[k] = s[k + 1]
  BY HeadAndTail
<1>2. DOMAIN s = 1..Len(s) /\ DOMAIN Tail(s) = 1..Len(Tail(s)) /\ 1 \in DOMAIN s
  BY <1>1
<1> DEFINE t == Tail(s)
<1> HIDE DEF t
<1>3. ASSUME NEW j \in DOMAIN t, NEW k \in DOMAIN t, j < k PROVE Before(t[j].w, t[k].w)
  <2>1. j + 1 \in DOMAIN s /\ k + 1 \in DOMAIN s /\ j + 1 < k + 1
        /\ t[j] = s[j + 1] /\ t[k] = s[k + 1]
    BY <1>1, <1>2, <1>3 DEF t
  <2> QED
    BY <2>1 DEF Ascending
<1>4. ASSUME NEW k \in DOMAIN t
      PROVE  Before(s[1].w, t[k].w) /\ k + 1 \in DOMAIN s /\ t[k] = s[k + 1]
  <2>1. k + 1 \in DOMAIN s /\ 1 < k + 1 /\ t[k] = s[k + 1]
    BY <1>1, <1>2 DEF t
  <2> QED
    BY <1>2, <2>1 DEF Ascending
<1>5. ASSUME NEW k \in DOMAIN s PROVE s[k] = s[1] \/ Before(s[1].w, s[k].w)
  <2>1. k = 1 \/ 1 < k
    BY <1>1, <1>2
  <2> QED
    BY <1>2, <2>1 DEF Ascending
<1> QED
  BY <1>1, <1>2, <1>3, <1>4, <1>5 DEF Ascending, t

LEMMA AscendingAppend ==
  ASSUME NEW s \in Seq(Entry), Ascending(s), NEW e \in Entry, Below(s, e.w)
  PROVE  /\ Ascending(Append(s, e))
         /\ \A w \in Word : Before(e.w, w) => Below(Append(s, e), w)
<1> DEFINE t == Append(s, e)
<1>1. /\ Len(s) \in Nat /\ DOMAIN s = 1..Len(s) /\ DOMAIN t = 1..(Len(s) + 1)
      /\ \A k \in DOMAIN s : t[k] = s[k] /\ s[k] \in Entry
      /\ t[Len(s) + 1] = e
  OBVIOUS
<1> HIDE DEF t
<1>2. \A k \in DOMAIN t : k \in DOMAIN s \/ k = Len(s) + 1
  BY <1>1
<1>3. ASSUME NEW j \in DOMAIN t, NEW k \in DOMAIN t, j < k PROVE Before(t[j].w, t[k].w)
  <2>1. j \in DOMAIN s
    BY <1>1, <1>3
  <2> QED
    BY <1>1, <1>2, <1>3, <2>1 DEF Ascending, Below
<1>4. ASSUME NEW w \in Word, Before(e.w, w), NEW k \in DOMAIN t PROVE Before(t[k].w, w)
  <2>1. CASE k \in DOMAIN s
    <3>1. t[k] = s[k] /\ Before(s[k].w, e.w) /\ s[k] \in Entry
      BY <1>1, <2>1 DEF Below
    <3>2. s[k].w \in Word /\ e.w \in Word
      BY <3>1, UsedIsCharacter
    <3> QED
      BY <1>4, <3>1, <3>2, WordOrder
  <2>2. CASE k = Len(s) + 1
    BY <1>1, <1>4, <2>2
  <2> QED
    BY <1>2, <2>1, <2>2
<1> QED
  BY <1>3, <1>4 DEF Ascending, Below, t

-----------------------------------------------------------------------------
(* One block at a time: an array is the whole chunk.                       *)
OneThread == thread_cnt = 1

LEMMA OneArray ==
  ASSUME OneThread
  PROVE  Threads = {1}
BY DEF OneThread, Threads

LEMMA SortChunk ==
  ASSUME Types, ChunkInv, NEW i \in Threads, sort_one_msa(i)
  PROVE  ChunkInv'
<1>1. PICK t \in Seq(UsedWord) :
        SortsTo(msa_arr[i], t) /\ msa_arr' = [msa_arr EXCEPT ![i] = t]
  BY SortedArray
<1>2. /\ phase = "sort" /\ phase' = "sort" /\ tmp' = tmp /\ pending' = pending \ {i}
      /\ DOMAIN msa_arr = Threads
  BY DEF sort_one_msa, Types
<1>3. msa_arr'[i] = t /\ \A j \in Threads : j # i => msa_arr'[j] = msa_arr[j]
  BY <1>1, <1>2
<1>4. Ordered(t)
  BY <1>1 DEF SortsTo, Ordered
<1>5. \A j \in Threads \ pending' : Ordered(msa_arr'[j])
  BY <1>2, <1>3, <1>4 DEF ChunkInv
<1> QED
  BY <1>2, <1>5 DEF ChunkInv, Busy

LEMMA CreatedChunk ==
  ASSUME Types, TmpTypes, ChunkInv, CanCreate
  PROVE  \A n \in DOMAIN Created : Ascending(Created[n])
<1>1. phase = "sort" /\ pending = {} /\ \A n \in DOMAIN tmp : Ascending(tmp[n])
  BY DEF CanCreate, ChunkInv, Busy
<1>2. Ascending(<< >>)
  BY DEF Ascending
<1> QED
  BY <1>1, <1>2 DEF Created

LEMMA BeginWriteChunk ==
  ASSUME OneThread, Types, TmpTypes, ChunkInv, BeginWrite
  PROVE  ChunkInv'
<1>1. /\ CanCreate /\ tmp' = Created /\ word' = FirstEntry(Head(msa_arr[1]))
      /\ msa_arr[1] # << >> /\ msa_arr' = Popped(msa_arr, 1) /\ phase' = "write"
      /\ file_cnt' = file_cnt /\ phase = "sort" /\ pending = {}
  BY DEF BeginWrite, CanCreate
<1>2. 1 \in DOMAIN msa_arr /\ \A k \in DOMAIN msa_arr : msa_arr[k] \in Seq(UsedWord)
  BY SizeAssumption DEF Types, Threads
<1>3. Ordered(msa_arr[1])
  BY <1>1, OneArray DEF ChunkInv
<1>4. msa_arr'[1] = Tail(msa_arr[1])
  BY <1>1, <1>2, PoppedKeeps
<1>5. /\ Ordered(msa_arr'[1])
      /\ \A k \in DOMAIN msa_arr'[1] : ~Before(msa_arr'[1][k], word'.w)
  BY <1>1, <1>2, <1>3, <1>4, OrderedTail DEF FirstEntry
<1>6. Created[file_cnt] = << >>
  BY <1>1 DEF Created
<1>7. Below(tmp'[file_cnt'], word'.w)
  BY <1>1, <1>6 DEF Below
<1>8. \A n \in DOMAIN tmp' : Ascending(tmp'[n])
  BY <1>1, CreatedChunk
<1> QED
  BY <1>1, <1>5, <1>7, <1>8 DEF ChunkInv

LEMMA WriteWordChunk ==
  ASSUME OneThread, Types, TmpTypes, ChunkInv, WriteWord
  PROVE  ChunkInv'
<1> DEFINE w == Head(msa_arr[1])
<1>1. msa_arr[1] # << >> /\ CountOrWrite(w) /\ msa_arr' = Popped(msa_arr, 1)
  BY OneArray DEF WriteWord, IsFirstMin, HeadWords
<1>2. /\ phase = "write" /\ phase' = "write" /\ file_cnt' = file_cnt
      /\ Below(tmp[file_cnt], word.w) /\ Ordered(msa_arr[1])
      /\ \A k \in DOMAIN msa_arr[1] : ~Before(msa_arr[1][k], word.w)
      /\ \A n \in DOMAIN tmp : Ascending(tmp[n])
  BY DEF WriteWord, ChunkInv, Busy
<1>3. /\ 1 \in DOMAIN msa_arr /\ \A k \in DOMAIN msa_arr : msa_arr[k] \in Seq(UsedWord)
      /\ word \in Entry /\ file_cnt \in 0..MaxTmpFiles
  BY <1>2, SizeAssumption DEF Types, Threads
<1>4. msa_arr'[1] = Tail(msa_arr[1])
  BY <1>1, <1>3, PoppedKeeps
<1>5. /\ Ordered(msa_arr'[1]) /\ w \in UsedWord
      /\ \A k \in DOMAIN msa_arr'[1] : ~Before(msa_arr'[1][k], w)
  BY <1>1, <1>2, <1>3, <1>4, OrderedTail
<1>6. ~Before(w, word.w)
  <2>1. 1 \in DOMAIN msa_arr[1] /\ Head(msa_arr[1]) = msa_arr[1][1]
    BY <1>1, <1>3, HeadAndTail
  <2> QED
    BY <1>2, <2>1
<1>7. w \in Word /\ word.w \in Word
  BY <1>3, <1>5, UsedIsCharacter
<1>8. file_cnt \in DOMAIN tmp /\ tmp[file_cnt] \in Seq(Entry)
  BY <1>2, <1>3, SizeAssumption DEF TmpTypes, Busy
<1> HIDE DEF w
<1>9. CASE w = word.w
  <2>1. tmp' = tmp /\ word' = [word EXCEPT !.n = word.n + 1]
    BY <1>1, <1>9 DEF CountOrWrite, w
  <2>2. word'.w = w
    BY <1>3, <1>9, <2>1 DEF Entry
  <2> QED
    BY <1>2, <1>5, <1>9, <2>1, <2>2 DEF ChunkInv
<1>10. CASE w # word.w
  <2>1. tmp' = [tmp EXCEPT ![file_cnt] = Append(@, word)] /\ word' = [w |-> w, n |-> 1]
    BY <1>1, <1>10 DEF CountOrWrite, w
  <2>2. Before(word.w, w)
    BY <1>6, <1>7, <1>10, WordOrder
  <2>3. /\ Ascending(Append(tmp[file_cnt], word)) /\ Below(Append(tmp[file_cnt], word), w)
    BY <1>2, <1>3, <1>7, <1>8, <2>2, AscendingAppend
  <2>4. /\ tmp'[file_cnt] = Append(tmp[file_cnt], word) /\ DOMAIN tmp' = DOMAIN tmp
        /\ \A n \in DOMAIN tmp : n # file_cnt => tmp'[n] = tmp[n]
    BY <1>8, <2>1
  <2>5. \A n \in DOMAIN tmp' : Ascending(tmp'[n])
    BY <1>2, <2>3, <2>4
  <2>6. word'.w = w /\ Below(tmp'[file_cnt'], w)
    BY <1>2, <2>1, <2>3, <2>4
  <2> QED
    BY <1>2, <1>5, <2>5, <2>6 DEF ChunkInv
<1> QED
  BY <1>9, <1>10

LEMMA CloseTmpChunk ==
  ASSUME Types, TmpTypes, ChunkInv, CloseTmp
  PROVE  ChunkInv'
<1>1. /\ phase = "write" /\ phase' \in {"pick", "read"}
      /\ tmp' = [tmp EXCEPT ![file_cnt] = @ \o <<word>>]
  BY ChunkDoneMeans DEF CloseTmp, LastEntry
<1>2. /\ Below(tmp[file_cnt], word.w) /\ \A n \in DOMAIN tmp : Ascending(tmp[n])
  BY <1>1 DEF ChunkInv, Busy
<1>3. word \in Entry /\ file_cnt \in 0..MaxTmpFiles
  BY <1>1 DEF Types
<1>4. file_cnt \in DOMAIN tmp /\ tmp[file_cnt] \in Seq(Entry)
  BY <1>1, <1>3, SizeAssumption DEF TmpTypes, Busy
<1>5. tmp[file_cnt] \o <<word>> = Append(tmp[file_cnt], word)
  BY <1>3, <1>4, AppendIsConcat
<1>6. Ascending(Append(tmp[file_cnt], word))
  BY <1>2, <1>3, <1>4, AscendingAppend
<1>7. \A n \in DOMAIN tmp' : Ascending(tmp'[n])
  BY <1>1, <1>2, <1>4, <1>5, <1>6
<1> QED
  BY <1>1, <1>7 DEF ChunkInv

LEMMA NextChunk ==
  ASSUME OneThread, Types, TmpTypes, ChunkInv, [Next]_vars
  PROVE  ChunkInv'
<1>1. CASE Begin \/ BeginUncleared
  <2>1. DOMAIN tmp' = {} /\ phase' = "pick"
    BY <1>1 DEF Begin, BeginUncleared, Starts, ClearedTmp
  <2> QED
    BY <2>1 DEF ChunkInv
<1>2. CASE \E f \in Files : OpenFile(f)
  BY <1>2 DEF OpenFile, ChunkInv, Busy
<1>3. CASE \E i \in Threads : single_read_block(i)
  BY <1>3 DEF single_read_block, ChunkInv, Busy
<1>4. CASE \E i \in Threads : sort_one_msa(i)
  BY <1>4, SortChunk
<1>5. CASE WriteNothing
  <2>1. CanCreate /\ tmp' = Created /\ phase' \in {"pick", "read"}
    BY <1>5, ChunkDoneMeans DEF WriteNothing
  <2> QED
    BY <2>1, CreatedChunk DEF ChunkInv
<1>6. CASE BeginWrite
  BY <1>6, BeginWriteChunk
<1>7. CASE WriteWord
  BY <1>7, WriteWordChunk
<1>8. CASE CloseTmp
  BY <1>8, CloseTmpChunk
<1>9. CASE merge_sort \/ TakeMin \/ AddEqual \/ FinishMerge
  BY <1>9 DEF merge_sort, TakeMin, AddEqual, FinishMerge, ChunkInv, Busy
<1>10. CASE FailToOpen \/ FailToOpenOutput
  BY <1>10 DEF FailToOpen, FailToOpenOutput, ChunkInv, Busy
<1>11. CASE UNCHANGED vars
  BY <1>11 DEF vars, ChunkInv
<1> QED
  BY <1>1, <1>2, <1>3, <1>4, <1>5, <1>6, <1>7, <1>8, <1>9, <1>10, <1>11
  DEF Next, main, do_one_file

LEMMA ChunkInvariant ==
  ASSUME OneThread
  PROVE  Spec => []ChunkInv
<1>1. Init => ChunkInv
  BY DEF Init, ChunkInv, Busy
<1>2. Types /\ TmpTypes /\ ChunkInv /\ [Next]_vars => ChunkInv'
  BY NextChunk
<1> QED
  BY <1>1, <1>2, TypesInvariant, PTL DEF Spec

(* Each temporary file has one entry for a word, and its entries ascend in *)
(* the order of strcmp, for any files, any sizes of a chunk and a block    *)
(* and any number of files written so far.                                 *)
THEOREM TmpFilesHaveOneEntryPerWord ==
  ASSUME OneThread
  PROVE  Spec => []TmpFilesAscend
<1>1. ChunkInv => TmpFilesAscend
  <2> SUFFICES ASSUME ChunkInv PROVE TmpFilesAscend
    OBVIOUS
  <2> QED
    BY DEF ChunkInv, TmpFilesAscend
<1> QED
  BY <1>1, ChunkInvariant, PTL

-----------------------------------------------------------------------------
(* The merge of the files. *)
LEMMA MergeSortOrder ==
  ASSUME PlainText, Types, TmpTypes, StaleTypes, MergeTypes, ChunkInv, merge_sort
  PROVE  MergeInv'
<1>1. PICK order, m : Opened(order, m)
  BY StreamsOpened
<1>2. /\ phase = "pick" /\ word' = NoWord /\ output' = << >>
      /\ \A n \in DOMAIN Directory : Ascending(Directory[n])
  <2>1. /\ phase = "pick" /\ word' = NoWord /\ output' = << >>
        /\ \A n \in DOMAIN tmp : Ascending(tmp[n])
    BY DEF merge_sort, Types, ChunkInv, Busy
  <2>2. Ascending(OldFile)
    BY DEF Ascending, OldFile
  <2> QED
    BY <2>1, <2>2, DirectoryTypes
<1>3. ASSUME NEW k \in DOMAIN fps' PROVE Ascending(fps'[k])
  <2>1. k \in 1..FileCount /\ fps'[k] = Directory[order[k]]
    BY <1>1 DEF Opened
  <2>2. order[k] \in DOMAIN Directory
    BY <1>1, <2>1 DEF Opened
  <2> QED
    BY <1>2, <2>1, <2>2
<1>4. Ascending(output') /\ \A w : Below(output', w)
  BY <1>2 DEF Ascending, Below
<1> QED
  BY <1>2, <1>3, <1>4 DEF MergeInv

LEMMA TakeMinOrder ==
  ASSUME MergeTypes, MergeInv, TakeMin
  PROVE  MergeInv'
<1>1. PICK i \in DOMAIN fps : /\ IsFirstMin(HeadEntries(fps), i)
                              /\ word' = Head(fps[i]) /\ fps' = Popped(fps, i)
  BY DEF TakeMin
<1>2. /\ phase = "merge" /\ phase' = "merge" /\ word = NoWord /\ output' = output
      /\ \A k \in DOMAIN fps : fps[k] \in Seq(Entry) /\ Ascending(fps[k])
      /\ Ascending(output)
      /\ \A k \in DOMAIN fps : \A l \in DOMAIN fps[k] : Below(output, fps[k][l].w)
  BY DEF TakeMin, MergeTypes, MergeInv
<1>3. /\ fps[i] # << >>
      /\ \A j \in DOMAIN fps : fps[j] # << >> => ~Before(Head(fps[j]).w, Head(fps[i]).w)
  BY <1>1 DEF IsFirstMin, HeadEntries
<1>4. /\ DOMAIN fps' = DOMAIN fps /\ fps'[i] = Tail(fps[i])
      /\ \A k \in DOMAIN fps : k # i => fps'[k] = fps[k]
  BY <1>1, <1>2, <1>3, PoppedKeeps
<1>5. /\ Ascending(Tail(fps[i])) /\ word' \in Entry /\ 1 \in DOMAIN fps[i]
      /\ fps[i][1] = word'
      /\ \A k \in DOMAIN Tail(fps[i]) : Before(word'.w, Tail(fps[i])[k].w)
  BY <1>1, <1>2, <1>3, AscendingTail
<1>6. Below(output', word'.w) /\ word' # NoWord
  BY <1>2, <1>5, UsedIsCharacter
<1>7. \A k \in DOMAIN fps' : Ascending(fps'[k])
  BY <1>2, <1>4, <1>5
<1>8. ASSUME NEW j \in DOMAIN fps', NEW k \in DOMAIN fps'[j]
      PROVE  ~Before(fps'[j][k].w, word'.w)
  <2>0. word'.w \in Word
    BY <1>5, UsedIsCharacter
  <2>1. CASE j = i
    <3>1. k \in DOMAIN Tail(fps[i]) /\ fps'[j][k] = Tail(fps[i])[k]
      BY <1>4, <1>8, <2>1
    <3>2. Tail(fps[i]) \in Seq(Entry)
      BY <1>2, <1>3, HeadAndTail
    <3>3. Tail(fps[i])[k] \in Entry
      BY <3>1, <3>2
    <3>4. Tail(fps[i])[k].w \in Word
      BY <3>3, UsedIsCharacter
    <3> QED
      BY <1>5, <2>0, <3>1, <3>4, WordOrder
  <2>2. CASE j # i
    <3>1. /\ j \in DOMAIN fps /\ k \in DOMAIN fps[j] /\ fps'[j][k] = fps[j][k]
          /\ fps[j] \in Seq(Entry) /\ fps[j] # << >> /\ Ascending(fps[j])
      BY <1>2, <1>4, <1>8, <2>2
    <3>2. Head(fps[j]) \in Entry /\ fps[j][k] \in Entry
      BY <3>1, HeadAndTail
    <3>3. fps[j][k] = Head(fps[j]) \/ Before(Head(fps[j]).w, fps[j][k].w)
      BY <3>1, AscendingTail
    <3>4. Head(fps[j]).w \in Word /\ fps[j][k].w \in Word
      BY <3>2, UsedIsCharacter
    <3>5. ~Before(Head(fps[j]).w, word'.w)
      BY <1>1, <1>3, <3>1
    <3> QED
      BY <2>0, <3>1, <3>3, <3>4, <3>5, WordOrder
  <2> QED
    BY <2>1, <2>2
<1> QED
  BY <1>2, <1>6, <1>7, <1>8 DEF MergeInv

LEMMA AddEqualOrder ==
  ASSUME MergeTypes, MergeInv, AddEqual
  PROVE  MergeInv'
<1>1. /\ phase = "merge" /\ phase' = "merge" /\ word # NoWord /\ word' = NoWord
      /\ output' = Append(output, Added)
      /\ fps' = [i \in DOMAIN fps |-> IF i \in EqualHeads THEN Tail(fps[i]) ELSE fps[i]]
  BY DEF AddEqual, Added
<1>2. /\ word \in Entry /\ Added \in Entry /\ Added.w = word.w
      /\ \A i \in EqualHeads : i \in DOMAIN fps /\ fps[i] # << >> /\ Head(fps[i]).w = word.w
  BY <1>1, AddedIsEntry
<1>3. /\ \A k \in DOMAIN fps : fps[k] \in Seq(Entry) /\ Ascending(fps[k])
      /\ output \in Seq(Entry) /\ Ascending(output) /\ Below(output, word.w)
      /\ \A k \in DOMAIN fps : \A l \in DOMAIN fps[k] : ~Before(fps[k][l].w, word.w)
  BY <1>1 DEF MergeTypes, MergeInv
<1>4. /\ Ascending(output')
      /\ \A w \in Word : Before(word.w, w) => Below(output', w)
  BY <1>1, <1>2, <1>3, AscendingAppend
<1>5. ASSUME NEW j \in DOMAIN fps'
      PROVE  /\ Ascending(fps'[j])
             /\ \A k \in DOMAIN fps'[j] : /\ fps'[j][k].w \in Word
                                          /\ Before(word.w, fps'[j][k].w)
  <2>0. j \in DOMAIN fps /\ word.w \in Word
    BY <1>1, <1>2, UsedIsCharacter
  <2>1. CASE j \in EqualHeads
    <3>1. /\ fps'[j] = Tail(fps[j]) /\ fps[j] # << >> /\ fps[j] \in Seq(Entry)
          /\ Ascending(fps[j]) /\ Head(fps[j]).w = word.w
      BY <1>1, <1>2, <1>3, <2>0, <2>1
    <3>2. /\ Ascending(Tail(fps[j])) /\ Tail(fps[j]) \in Seq(Entry)
          /\ \A k \in DOMAIN Tail(fps[j]) : Before(Head(fps[j]).w, Tail(fps[j])[k].w)
      BY <3>1, AscendingTail, HeadAndTail
    <3>3. ASSUME NEW k \in DOMAIN Tail(fps[j]) PROVE Tail(fps[j])[k].w \in Word
      <4>1. Tail(fps[j])[k] \in Entry
        BY <3>2
      <4> QED
        BY <4>1, UsedIsCharacter
    <3> QED
      BY <3>1, <3>2, <3>3
  <2>2. CASE j \notin EqualHeads
    <3>1. fps'[j] = fps[j] /\ fps[j] \in Seq(Entry) /\ Ascending(fps[j])
      BY <1>1, <1>3, <2>0, <2>2
    <3>2. ASSUME NEW k \in DOMAIN fps[j]
          PROVE  fps[j][k].w \in Word /\ Before(word.w, fps[j][k].w)
      <4>1. fps[j] # << >> /\ fps[j][k] \in Entry
        BY <3>1
      <4>2. Head(fps[j]) \in Entry /\ 1 \in DOMAIN fps[j] /\ fps[j][1] = Head(fps[j])
        BY <3>1, <4>1, AscendingTail
      <4>3. fps[j][k] = Head(fps[j]) \/ Before(Head(fps[j]).w, fps[j][k].w)
        BY <3>1, <4>1, AscendingTail
      <4>4. Head(fps[j]).w # word.w /\ ~Before(Head(fps[j]).w, word.w)
        BY <1>3, <2>0, <2>2, <4>1, <4>2 DEF EqualHeads
      <4>5. Head(fps[j]).w \in Word /\ fps[j][k].w \in Word
        BY <4>1, <4>2, UsedIsCharacter
      <4>6. Before(word.w, Head(fps[j]).w)
        BY <2>0, <4>4, <4>5, WordOrder
      <4> QED
        BY <2>0, <4>3, <4>5, <4>6, WordOrder
    <3> QED
      BY <3>1, <3>2
  <2> QED
    BY <2>1, <2>2
<1>6. \A j \in DOMAIN fps' : \A k \in DOMAIN fps'[j] : Below(output', fps'[j][k].w)
  BY <1>4, <1>5
<1> QED
  BY <1>1, <1>4, <1>5, <1>6 DEF MergeInv

LEMMA FinishMergeOrder ==
  ASSUME MergeTypes, MergeInv, FinishMerge
  PROVE  MergeInv'
<1>1. /\ phase = "merge" /\ AllEmpty(fps) /\ fps' = fps /\ word' = NoWord
      /\ output' = IF word = NoWord THEN output ELSE Append(output, word)
  BY DEF FinishMerge
<1>2. /\ output \in Seq(Entry) /\ Ascending(output)
      /\ word # NoWord => word \in Entry /\ Below(output, word.w)
      /\ \A k \in DOMAIN fps : Ascending(fps[k])
  BY <1>1 DEF MergeTypes, MergeInv
<1>3. Ascending(output')
  BY <1>1, <1>2, AscendingAppend
<1>4. \A k \in DOMAIN fps' : DOMAIN fps'[k] = {}
  BY <1>1 DEF AllEmpty
<1> QED
  BY <1>1, <1>2, <1>3, <1>4 DEF MergeInv

LEMMA NextMerge ==
  ASSUME PlainText, Types, TmpTypes, StaleTypes, MergeTypes, ChunkInv, MergeInv, [Next]_vars
  PROVE  MergeInv'
<1>1. CASE phase' \notin {"merge", "done"}
  BY <1>1 DEF MergeInv
<1>2. CASE merge_sort
  BY <1>2, MergeSortOrder
<1>3. CASE TakeMin
  BY <1>3, TakeMinOrder
<1>4. CASE AddEqual
  BY <1>4, AddEqualOrder
<1>5. CASE FinishMerge
  BY <1>5, FinishMergeOrder
<1>6. CASE Begin \/ BeginUncleared \/ (\E f \in Files : OpenFile(f)) \/ do_one_file
           \/ FailToOpen \/ FailToOpenOutput
  <2>1. phase' \notin {"merge", "done"}
    BY <1>6 DEF Begin, BeginUncleared, Starts, OpenFile, do_one_file, single_read_block, sort_one_msa,
      WriteNothing, BeginWrite, WriteWord, CloseTmp, ChunkDone, FailToOpen, FailToOpenOutput
  <2> QED
    BY <1>1, <2>1
<1>7. CASE UNCHANGED vars
  BY <1>7 DEF vars, MergeInv
<1> QED
  BY <1>2, <1>3, <1>4, <1>5, <1>6, <1>7 DEF Next, main

LEMMA MergeInvariant ==
  ASSUME OneThread, PlainText
  PROVE  Spec => []MergeInv
<1>1. Init => MergeInv
  BY DEF Init, MergeInv
<1>2. Types /\ TmpTypes /\ StaleTypes /\ MergeTypes /\ ChunkInv /\ MergeInv /\ [Next]_vars
        => MergeInv'
  BY NextMerge
<1> QED
  BY <1>1, <1>2, TypesInvariant, MergeTypesInvariant, ChunkInvariant, PTL DEF Spec

(* No word gets a second line of output: all that is written comes before  *)
(* all that is left, whatever order the directory gives the files, and     *)
(* whatever descriptors are left to open them.                             *)
THEOREM OutputHasOneEntryPerWord ==
  ASSUME OneThread, PlainText
  PROVE  Spec => []OutputAscends
<1>1. MergeTypes /\ MergeInv => OutputAscends
  <2> SUFFICES ASSUME MergeTypes, MergeInv, phase = "merge"
               PROVE  /\ Ascending(output)
                      /\ output # << >> =>
                           \A i \in DOMAIN fps : fps[i] # << >> =>
                             Before(Last(output).w, Head(fps[i]).w)
    BY DEF OutputAscends
  <2>1. Ascending(output) /\ output \in Seq(Entry)
    BY DEF MergeTypes, MergeInv
  <2>2. ASSUME output # << >>, NEW i \in DOMAIN fps, fps[i] # << >>
        PROVE  Before(Last(output).w, Head(fps[i]).w)
    <3>1. /\ fps[i] \in Seq(Entry) /\ 1 \in DOMAIN fps[i] /\ fps[i][1] = Head(fps[i])
          /\ Head(fps[i]) \in Entry
      BY <2>2, AscendingTail DEF MergeTypes, MergeInv
    <3>2. Len(output) \in DOMAIN output /\ Last(output) = output[Len(output)]
      BY <2>1, <2>2 DEF Last
    <3>3. CASE word = NoWord
      BY <3>1, <3>2, <3>3 DEF MergeInv, Below
    <3>4. CASE word # NoWord
      <4>1. /\ word \in Entry /\ Below(output, word.w) /\ ~Before(Head(fps[i]).w, word.w)
        BY <3>1, <3>4 DEF MergeTypes, MergeInv
      <4>2. output[Len(output)] \in Entry
        BY <2>1, <3>2
      <4>3. /\ word.w \in Word /\ Head(fps[i]).w \in Word /\ Last(output).w \in Word
        BY <3>1, <3>2, <4>1, <4>2, UsedIsCharacter
      <4>4. Before(Last(output).w, word.w)
        BY <3>2, <4>1 DEF Below
      <4> QED
        BY <4>1, <4>3, <4>4, WordOrder
    <3> QED
      BY <3>3, <3>4
  <2> QED
    BY <2>1, <2>2
<1> QED
  BY <1>1, MergeTypesInvariant, MergeInvariant, PTL

-----------------------------------------------------------------------------
(* Occurrences in a sequence of words, *)
LEMMA OccFacts ==
  ASSUME NEW w
  PROVE  /\ \A s \in Seq(Word) : Occ(w, s) \in Nat
         /\ Occ(w, << >>) = 0
         /\ \A x : Occ(w, <<x>>) = IF x = w THEN 1 ELSE 0
         /\ \A s, t \in Seq(Word) : Occ(w, s \o t) = Occ(w, s) + Occ(w, t)
         /\ \A s \in Seq(Word) : s # << >> =>
              /\ Tail(s) \in Seq(Word)
              /\ Occ(w, s) = (IF Head(s) = w THEN 1 ELSE 0) + Occ(w, Tail(s))
<1>1. \A s : Occ(w, s) = Cardinality(Where(w, s))
  BY DEF Occ, Where
<1>2. \A s \in Seq(Word) : Occ(w, s) \in Nat
  BY <1>1, WhereIsFinite
<1>3. Occ(w, << >>) = 0 /\ \A x : Occ(w, <<x>>) = IF x = w THEN 1 ELSE 0
  BY <1>1, WhereSmall
<1>4. ASSUME NEW s \in Seq(Word), NEW t \in Seq(Word)
      PROVE  Occ(w, s \o t) = Occ(w, s) + Occ(w, t)
  <2>1. Cardinality(Where(w, s \o t)) = Cardinality(Where(w, s)) + Cardinality(Where(w, t))
    BY WhereConcat
  <2> QED
    BY <1>1, <2>1
<1>5. ASSUME NEW s \in Seq(Word), s # << >>
      PROVE  /\ Tail(s) \in Seq(Word)
             /\ Occ(w, s) = (IF Head(s) = w THEN 1 ELSE 0) + Occ(w, Tail(s))
  <2>1. Head(s) \in Word /\ Tail(s) \in Seq(Word) /\ s = <<Head(s)>> \o Tail(s)
    BY <1>5, HeadAndTail
  <2>2. <<Head(s)>> \in Seq(Word)
    BY <2>1
  <2>3. Occ(w, <<Head(s)>> \o Tail(s)) = Occ(w, <<Head(s)>>) + Occ(w, Tail(s))
    BY <1>4, <2>1, <2>2
  <2> QED
    BY <1>3, <2>1, <2>3
<1> QED
  BY <1>2, <1>3, <1>4, <1>5

LEMMA OccSorted ==
  ASSUME NEW s \in Seq(Word), NEW t \in [DOMAIN s -> ToSet(s)], SortsTo(s, t), NEW w
  PROVE  Occ(w, t) = Occ(w, s)
<1>1. ToSet(s) = {s[i] : i \in DOMAIN s}
  BY DEF ToSet
<1>2. CASE w \in ToSet(s)
  BY <1>2 DEF SortsTo
<1>3. CASE w \notin ToSet(s)
  <2>1. {i \in DOMAIN s : s[i] = w} = {}
    BY <1>1, <1>3
  <2>2. {i \in DOMAIN t : t[i] = w} = {}
    BY <1>3
  <2> QED
    BY <2>1, <2>2 DEF Occ
<1> QED
  BY <1>2, <1>3

(* and counts in a sequence of entries. *)
Weights(w, s) == [k \in DOMAIN s |-> IF s[k].w = w THEN s[k].n ELSE 0]

LEMMA CountedIs ==
  ASSUME NEW w, NEW s \in Seq(WCKV)
  PROVE  /\ Weights(w, s) \in Seq(Int) /\ Len(Weights(w, s)) = Len(s)
         /\ \A k \in 1..Len(s) : Weights(w, s)[k] = IF s[k].w = w THEN s[k].n ELSE 0
         /\ Counted(w, s) = Total(Weights(w, s)) /\ Counted(w, s) \in Int
<1> DEFINE c == Weights(w, s)
<1>1. /\ DOMAIN s = 1..Len(s) /\ Len(s) \in Nat
      /\ \A k \in 1..Len(s) : s[k] \in WCKV
  OBVIOUS
<1>2. \A k \in 1..Len(s) : s[k].n \in Int
  BY <1>1 DEF WCKV
<1>3. c \in [1..Len(s) -> Int]
  BY <1>1, <1>2 DEF Weights
<1>4. \A k \in 1..Len(s) : c[k] = IF s[k].w = w THEN s[k].n ELSE 0
  BY <1>1 DEF Weights
<1>5. c \in Seq(Int) /\ Len(c) = Len(s)
  <2> HIDE DEF c
  <2> QED
    BY <1>1, <1>3, FunctionIsSequence
<1>6. Counted(w, s) = SumFunctionOnSet(c, DOMAIN c)
  BY DEF Counted, SumFunction, Weights
<1> HIDE DEF c
<1>7. DOMAIN c = 1..Len(c)
  BY <1>5
<1>8. Counted(w, s) = Total(c) /\ Total(c) \in Int
  BY <1>5, <1>6, <1>7, TotalType DEF Total
<1> QED
  BY <1>4, <1>5, <1>8 DEF c

LEMMA CountedFacts ==
  ASSUME NEW w
  PROVE  /\ \A s \in Seq(WCKV) : Counted(w, s) \in Int
         /\ Counted(w, << >>) = 0
         /\ \A e \in WCKV : Counted(w, <<e>>) = IF e.w = w THEN e.n ELSE 0
         /\ \A s, t \in Seq(WCKV) : Counted(w, s \o t) = Counted(w, s) + Counted(w, t)
         /\ \A s \in Seq(WCKV), e \in WCKV :
              Counted(w, Append(s, e)) = Counted(w, s) + (IF e.w = w THEN e.n ELSE 0)
         /\ \A s \in Seq(WCKV) : s # << >> =>
              /\ Tail(s) \in Seq(WCKV) /\ Head(s) \in WCKV
              /\ Counted(w, s) = (IF Head(s).w = w THEN Head(s).n ELSE 0) + Counted(w, Tail(s))
<1>1. \A s \in Seq(WCKV) : Counted(w, s) \in Int
  BY CountedIs
<1>2. Counted(w, << >>) = 0
  <2> DEFINE s == << >>
  <2>1. s \in Seq(WCKV) /\ Len(s) = 0
    OBVIOUS
  <2> HIDE DEF s
  <2>2. /\ Weights(w, s) \in Seq(Int) /\ Len(Weights(w, s)) = 0
        /\ Counted(w, s) = Total(Weights(w, s))
    BY <2>1, CountedIs
  <2>3. Weights(w, s) = << >>
    BY <2>2
  <2> QED
    BY <2>2, <2>3, TotalSmall DEF s
<1>3. ASSUME NEW e \in WCKV PROVE Counted(w, <<e>>) = IF e.w = w THEN e.n ELSE 0
  <2> DEFINE x == IF e.w = w THEN e.n ELSE 0
             s == <<e>>
  <2>1. s \in Seq(WCKV) /\ Len(s) = 1 /\ s[1] = e /\ x \in Int
    BY DEF WCKV
  <2> HIDE DEF s
  <2>2. /\ Weights(w, s) \in Seq(Int) /\ Len(Weights(w, s)) = Len(s)
        /\ \A k \in 1..Len(s) : Weights(w, s)[k] = IF s[k].w = w THEN s[k].n ELSE 0
        /\ Counted(w, s) = Total(Weights(w, s))
    BY <2>1, CountedIs
  <2>3. Len(Weights(w, s)) = 1 /\ Weights(w, s)[1] = x
    BY <2>1, <2>2
  <2> HIDE DEF x
  <2>4. Weights(w, s) = <<x>>
    BY <2>1, <2>2, <2>3
  <2>5. Counted(w, s) = x
    BY <2>1, <2>2, <2>4, TotalSmall
  <2> QED
    BY <2>5 DEF s, x
<1>4. ASSUME NEW s \in Seq(WCKV), NEW t \in Seq(WCKV)
      PROVE  Counted(w, s \o t) = Counted(w, s) + Counted(w, t)
  <2> DEFINE a == Weights(w, s)
             b == Weights(w, t)
             c == Weights(w, s \o t)
  <2>1. /\ s \o t \in Seq(WCKV) /\ Len(s \o t) = Len(s) + Len(t)
        /\ Len(s) \in Nat /\ Len(t) \in Nat
        /\ \A k \in 1..(Len(s) + Len(t)) :
             (s \o t)[k] = IF k <= Len(s) THEN s[k] ELSE t[k - Len(s)]
    BY ConcatProperties
  <2>2. /\ a \in Seq(Int) /\ Len(a) = Len(s)
        /\ \A k \in 1..Len(s) : a[k] = IF s[k].w = w THEN s[k].n ELSE 0
        /\ Counted(w, s) = Total(a)
    BY CountedIs
  <2>3. /\ b \in Seq(Int) /\ Len(b) = Len(t)
        /\ \A k \in 1..Len(t) : b[k] = IF t[k].w = w THEN t[k].n ELSE 0
        /\ Counted(w, t) = Total(b)
    BY CountedIs
  <2>4. /\ c \in Seq(Int) /\ Len(c) = Len(s \o t)
        /\ \A k \in 1..Len(s \o t) :
             c[k] = IF (s \o t)[k].w = w THEN (s \o t)[k].n ELSE 0
        /\ Counted(w, s \o t) = Total(c)
    <3> DEFINE u == s \o t
    <3>1. u \in Seq(WCKV)
      BY <2>1
    <3> HIDE DEF u
    <3>2. /\ Weights(w, u) \in Seq(Int) /\ Len(Weights(w, u)) = Len(u)
          /\ \A k \in 1..Len(u) : Weights(w, u)[k] = IF u[k].w = w THEN u[k].n ELSE 0
          /\ Counted(w, u) = Total(Weights(w, u))
      BY <3>1, CountedIs
    <3> QED
      BY <3>2 DEF u
  <2> HIDE DEF a, b, c
  <2> DEFINE u == s \o t
             d == a \o b
  <2>5. /\ d \in Seq(Int) /\ Len(d) = Len(s) + Len(t)
        /\ \A k \in 1..(Len(s) + Len(t)) :
             d[k] = IF k <= Len(s) THEN a[k] ELSE b[k - Len(s)]
    <3>0. ASSUME NEW x \in Seq(Int), NEW y \in Seq(Int)
          PROVE  /\ x \o y \in Seq(Int) /\ Len(x \o y) = Len(x) + Len(y)
                 /\ \A k \in 1..(Len(x) + Len(y)) :
                      (x \o y)[k] = IF k <= Len(x) THEN x[k] ELSE y[k - Len(x)]
      BY ConcatProperties
    <3>1. /\ a \o b \in Seq(Int) /\ Len(a \o b) = Len(a) + Len(b)
          /\ \A k \in 1..(Len(a) + Len(b)) :
               (a \o b)[k] = IF k <= Len(a) THEN a[k] ELSE b[k - Len(a)]
      BY <2>2, <2>3, <3>0
    <3> QED
      BY <2>2, <2>3, <3>1
  <2> HIDE DEF u, d
  <2>6. ASSUME NEW k \in 1..Len(c) PROVE c[k] = d[k]
    <3>1. k \in 1..(Len(s) + Len(t))
      BY <2>1, <2>4
    <3>2. CASE k <= Len(s)
      <4>1. k \in 1..Len(s)
        BY <2>1, <3>1, <3>2
      <4> QED
        BY <2>1, <2>2, <2>4, <2>5, <3>1, <3>2, <4>1
    <3>3. CASE ~(k <= Len(s))
      <4>1. k - Len(s) \in 1..Len(t)
        BY <2>1, <3>1, <3>3
      <4> QED
        BY <2>1, <2>3, <2>4, <2>5, <3>1, <3>3, <4>1, ZenonT(60)
    <3> QED
      BY <3>2, <3>3
  <2>7. c = d
    BY <2>1, <2>4, <2>5, <2>6, SeqEqual
  <2>8. Total(d) = Total(a) + Total(b)
    BY <2>2, <2>3, TotalConcat DEF d
  <2> QED
    BY <2>2, <2>3, <2>4, <2>7, <2>8
<1>5. ASSUME NEW s \in Seq(WCKV), NEW e \in WCKV
      PROVE  Counted(w, Append(s, e)) = Counted(w, s) + (IF e.w = w THEN e.n ELSE 0)
  <2>1. Append(s, e) = s \o <<e>> /\ <<e>> \in Seq(WCKV)
    BY AppendIsConcat
  <2> QED
    BY <1>3, <1>4, <2>1
<1>6. ASSUME NEW s \in Seq(WCKV), s # << >>
      PROVE  /\ Tail(s) \in Seq(WCKV) /\ Head(s) \in WCKV
             /\ Counted(w, s) = (IF Head(s).w = w THEN Head(s).n ELSE 0) + Counted(w, Tail(s))
  <2>1. /\ Head(s) \in WCKV /\ Tail(s) \in Seq(WCKV) /\ s = <<Head(s)>> \o Tail(s)
    BY <1>6, HeadAndTail
  <2>2. <<Head(s)>> \in Seq(WCKV)
    BY <2>1
  <2>3. Counted(w, <<Head(s)>> \o Tail(s)) = Counted(w, <<Head(s)>>) + Counted(w, Tail(s))
    BY <1>4, <2>1, <2>2
  <2> QED
    BY <1>3, <2>1, <2>3
<1> QED
  BY <1>1, <1>2, <1>3, <1>4, <1>5, <1>6

-----------------------------------------------------------------------------
(* The occurrences in a family of arrays: in one that changes, with one    *)
(* array more, and in empty arrays.                                        *)
WordFamily(seqs) == IsFiniteSet(DOMAIN seqs) /\ \A k \in DOMAIN seqs : seqs[k] \in Seq(Word)

OccOf(w, seqs) == [k \in DOMAIN seqs |-> Occ(w, seqs[k])]

LEMMA OccFamilySum ==
  ASSUME NEW w, NEW seqs, WordFamily(seqs)
  PROVE  /\ DOMAIN OccOf(w, seqs) = DOMAIN seqs
         /\ \A k \in DOMAIN seqs : /\ OccOf(w, seqs)[k] = Occ(w, seqs[k])
                                   /\ Occ(w, seqs[k]) \in Int
         /\ IntOn(OccOf(w, seqs), DOMAIN OccOf(w, seqs))
         /\ OccAll(w, seqs) = SumFunction(OccOf(w, seqs)) /\ OccAll(w, seqs) \in Int
<1>1. /\ DOMAIN OccOf(w, seqs) = DOMAIN seqs
      /\ \A k \in DOMAIN seqs : OccOf(w, seqs)[k] = Occ(w, seqs[k])
      /\ OccAll(w, seqs) = SumFunction(OccOf(w, seqs))
  BY DEF OccOf, OccAll
<1>2. \A k \in DOMAIN seqs : Occ(w, seqs[k]) \in Int
  BY OccFacts, SMTT(30) DEF WordFamily
<1>3. IntOn(OccOf(w, seqs), DOMAIN seqs)
  BY <1>1, <1>2 DEF IntOn, WordFamily
<1>4. SumFunction(OccOf(w, seqs)) \in Int
  BY <1>1, <1>3, SumType DEF SumFunction
<1> QED
  BY <1>1, <1>2, <1>3, <1>4

LEMMA OccAllChange ==
  ASSUME NEW w, NEW seqs, WordFamily(seqs), NEW new, WordFamily(new), NEW k \in DOMAIN seqs,
         DOMAIN new = DOMAIN seqs, \A j \in DOMAIN seqs : j # k => new[j] = seqs[j]
  PROVE  OccAll(w, new) = OccAll(w, seqs) - Occ(w, seqs[k]) + Occ(w, new[k])
<1> DEFINE F == OccOf(w, seqs)
           G == OccOf(w, new)
<1>1. /\ DOMAIN F = DOMAIN seqs /\ IntOn(F, DOMAIN F) /\ OccAll(w, seqs) = SumFunction(F)
      /\ \A j \in DOMAIN seqs : F[j] = Occ(w, seqs[j])
  BY OccFamilySum
<1>2. /\ DOMAIN G = DOMAIN new /\ IntOn(G, DOMAIN G) /\ OccAll(w, new) = SumFunction(G)
      /\ \A j \in DOMAIN new : G[j] = Occ(w, new[j])
  BY OccFamilySum
<1> HIDE DEF F, G
<1>3. SumFunction(G) = SumFunction(F) - F[k] + G[k]
  BY <1>1, <1>2, SumChange
<1> QED
  BY <1>1, <1>2, <1>3

LEMMA OccAllJoin ==
  ASSUME NEW w, NEW seqs, WordFamily(seqs), NEW new, WordFamily(new), NEW k,
         DOMAIN new = DOMAIN seqs \cup {k}, k \notin DOMAIN seqs,
         \A j \in DOMAIN seqs : new[j] = seqs[j]
  PROVE  OccAll(w, new) = OccAll(w, seqs) + Occ(w, new[k])
<1> DEFINE F == OccOf(w, seqs)
           G == OccOf(w, new)
<1>1. /\ DOMAIN F = DOMAIN seqs /\ IntOn(F, DOMAIN F) /\ OccAll(w, seqs) = SumFunction(F)
      /\ \A j \in DOMAIN seqs : F[j] = Occ(w, seqs[j])
  BY OccFamilySum
<1>2. /\ DOMAIN G = DOMAIN new /\ IntOn(G, DOMAIN G) /\ OccAll(w, new) = SumFunction(G)
      /\ \A j \in DOMAIN new : G[j] = Occ(w, new[j])
  BY OccFamilySum
<1> HIDE DEF F, G
<1>3. \A j \in DOMAIN F : G[j] = F[j]
  BY <1>1, <1>2
<1>4. SumFunction(G) = SumFunction(F) + G[k]
  BY <1>1, <1>2, <1>3, SumJoin
<1> QED
  BY <1>1, <1>2, <1>4

LEMMA OccAllZero ==
  ASSUME NEW w, NEW seqs, IsFiniteSet(DOMAIN seqs),
         \A k \in DOMAIN seqs : seqs[k] = << >>
  PROVE  OccAll(w, seqs) = 0
<1> DEFINE F == OccOf(w, seqs)
<1>1. OccAll(w, seqs) = SumFunction(F) /\ DOMAIN F = DOMAIN seqs
  BY DEF OccAll, OccOf
<1>2. \A k \in DOMAIN F : F[k] = 0
  BY OccFacts DEF OccOf
<1> HIDE DEF F
<1> QED
  BY <1>1, <1>2, SumZero

(* The counts in a family of files or streams, likewise, *)
EntryFamily(seqs) == IsFiniteSet(DOMAIN seqs) /\ \A k \in DOMAIN seqs : seqs[k] \in Seq(WCKV)

CountsOf(w, seqs) == [k \in DOMAIN seqs |-> Counted(w, seqs[k])]

LEMMA CountedFamilySum ==
  ASSUME NEW w, NEW seqs, EntryFamily(seqs)
  PROVE  /\ DOMAIN CountsOf(w, seqs) = DOMAIN seqs
         /\ \A k \in DOMAIN seqs : /\ CountsOf(w, seqs)[k] = Counted(w, seqs[k])
                                   /\ Counted(w, seqs[k]) \in Int
         /\ IntOn(CountsOf(w, seqs), DOMAIN CountsOf(w, seqs))
         /\ CountedAll(w, seqs) = SumFunction(CountsOf(w, seqs)) /\ CountedAll(w, seqs) \in Int
<1>1. /\ DOMAIN CountsOf(w, seqs) = DOMAIN seqs
      /\ \A k \in DOMAIN seqs : CountsOf(w, seqs)[k] = Counted(w, seqs[k])
      /\ CountedAll(w, seqs) = SumFunction(CountsOf(w, seqs))
  BY DEF CountsOf, CountedAll
<1>2. \A k \in DOMAIN seqs : Counted(w, seqs[k]) \in Int
  BY CountedFacts DEF EntryFamily
<1>3. IntOn(CountsOf(w, seqs), DOMAIN seqs)
  BY <1>1, <1>2 DEF IntOn, EntryFamily
<1>4. SumFunction(CountsOf(w, seqs)) \in Int
  BY <1>1, <1>3, SumType DEF SumFunction
<1> QED
  BY <1>1, <1>2, <1>3, <1>4

LEMMA CountedAllChange ==
  ASSUME NEW w, NEW seqs, EntryFamily(seqs), NEW new, EntryFamily(new), NEW k \in DOMAIN seqs,
         DOMAIN new = DOMAIN seqs, \A j \in DOMAIN seqs : j # k => new[j] = seqs[j]
  PROVE  CountedAll(w, new) = CountedAll(w, seqs) - Counted(w, seqs[k]) + Counted(w, new[k])
<1> DEFINE F == CountsOf(w, seqs)
           G == CountsOf(w, new)
<1>1. /\ DOMAIN F = DOMAIN seqs /\ IntOn(F, DOMAIN F) /\ CountedAll(w, seqs) = SumFunction(F)
      /\ \A j \in DOMAIN seqs : F[j] = Counted(w, seqs[j])
  BY CountedFamilySum
<1>2. /\ DOMAIN G = DOMAIN new /\ IntOn(G, DOMAIN G) /\ CountedAll(w, new) = SumFunction(G)
      /\ \A j \in DOMAIN new : G[j] = Counted(w, new[j])
  BY CountedFamilySum
<1> HIDE DEF F, G
<1>3. SumFunction(G) = SumFunction(F) - F[k] + G[k]
  BY <1>1, <1>2, SumChange
<1> QED
  BY <1>1, <1>2, <1>3

LEMMA CountedAllJoin ==
  ASSUME NEW w, NEW seqs, EntryFamily(seqs), NEW new, EntryFamily(new), NEW k,
         DOMAIN new = DOMAIN seqs \cup {k}, k \notin DOMAIN seqs,
         \A j \in DOMAIN seqs : new[j] = seqs[j]
  PROVE  CountedAll(w, new) = CountedAll(w, seqs) + Counted(w, new[k])
<1> DEFINE F == CountsOf(w, seqs)
           G == CountsOf(w, new)
<1>1. /\ DOMAIN F = DOMAIN seqs /\ IntOn(F, DOMAIN F) /\ CountedAll(w, seqs) = SumFunction(F)
      /\ \A j \in DOMAIN seqs : F[j] = Counted(w, seqs[j])
  BY CountedFamilySum
<1>2. /\ DOMAIN G = DOMAIN new /\ IntOn(G, DOMAIN G) /\ CountedAll(w, new) = SumFunction(G)
      /\ \A j \in DOMAIN new : G[j] = Counted(w, new[j])
  BY CountedFamilySum
<1> HIDE DEF F, G
<1>3. \A j \in DOMAIN F : G[j] = F[j]
  BY <1>1, <1>2
<1>4. SumFunction(G) = SumFunction(F) + G[k]
  BY <1>1, <1>2, <1>3, SumJoin
<1> QED
  BY <1>1, <1>2, <1>4

LEMMA CountedAllZero ==
  ASSUME NEW w, NEW seqs, IsFiniteSet(DOMAIN seqs),
         \A k \in DOMAIN seqs : seqs[k] = << >>
  PROVE  CountedAll(w, seqs) = 0
<1> DEFINE F == CountsOf(w, seqs)
<1>1. CountedAll(w, seqs) = SumFunction(F) /\ DOMAIN F = DOMAIN seqs
  BY DEF CountedAll, CountsOf
<1>2. \A k \in DOMAIN F : F[k] = 0
  BY CountedFacts DEF CountsOf
<1> HIDE DEF F
<1> QED
  BY <1>1, <1>2, SumZero

(* in the families of two disjoint sets of files taken together,           *)
LEMMA CountedAllUnion ==
  ASSUME NEW w, NEW a, EntryFamily(a), NEW b, EntryFamily(b), DOMAIN a \cap DOMAIN b = {},
         NEW ab, DOMAIN ab = DOMAIN a \cup DOMAIN b,
         \A n \in DOMAIN a : ab[n] = a[n], \A n \in DOMAIN b : ab[n] = b[n]
  PROVE  /\ EntryFamily(ab)
         /\ CountedAll(w, ab) = CountedAll(w, a) + CountedAll(w, b)
<1> DEFINE S == DOMAIN a
           T == DOMAIN b
           F == CountsOf(w, a)
           G == CountsOf(w, b)
           D == CountsOf(w, ab)
<1>1. EntryFamily(ab)
  <2>1. IsFiniteSet(S \cup T)
    BY FS_Union DEF EntryFamily
  <2> QED
    BY <2>1 DEF EntryFamily
<1>2. /\ IntOn(F, S) /\ CountedAll(w, a) = SumFunctionOnSet(F, S)
      /\ IntOn(G, T) /\ CountedAll(w, b) = SumFunctionOnSet(G, T)
      /\ CountedAll(w, ab) = SumFunctionOnSet(D, S \cup T)
  <2>1. /\ DOMAIN F = S /\ IntOn(F, DOMAIN F) /\ CountedAll(w, a) = SumFunction(F)
        /\ DOMAIN G = T /\ IntOn(G, DOMAIN G) /\ CountedAll(w, b) = SumFunction(G)
        /\ DOMAIN D = DOMAIN ab /\ CountedAll(w, ab) = SumFunction(D)
    BY <1>1, CountedFamilySum
  <2> HIDE DEF F, G, D, S, T
  <2>2. DOMAIN ab = S \cup T
    BY DEF S, T
  <2> QED
    BY <2>1, <2>2 DEF SumFunction
<1>3. (\A n \in S : F[n] = D[n]) /\ (\A n \in T : G[n] = D[n])
  BY DEF CountsOf
<1> HIDE DEF D, F, G
<1>4. S \cap T = {}
  OBVIOUS
<1> HIDE DEF S, T
<1>5. /\ SumFunctionOnSet(F, S) = SumFunctionOnSet(D, S)
      /\ SumFunctionOnSet(G, T) = SumFunctionOnSet(D, T)
  BY <1>2, <1>3, SumSame
<1>6. IntOn(D, S) /\ IntOn(D, T)
  BY <1>2, <1>3 DEF IntOn
<1>7. SumFunctionOnSet(D, S \cup T) = SumFunctionOnSet(D, S) + SumFunctionOnSet(D, T)
  BY <1>4, <1>6, SumUnion
<1> QED
  BY <1>1, <1>2, <1>5, <1>7

(* and in the same family under other names: a directory in another order. *)
LEMMA CountedAllReordered ==
  ASSUME NEW w, NEW seqs, EntryFamily(seqs), NEW new,
         NEW b \in Bijection(DOMAIN seqs, DOMAIN new),
         \A k \in DOMAIN seqs : new[b[k]] = seqs[k]
  PROVE  EntryFamily(new) /\ CountedAll(w, new) = CountedAll(w, seqs)
<1> DEFINE F == CountsOf(w, seqs)
           G == CountsOf(w, new)
<1>1. /\ b \in [DOMAIN seqs -> DOMAIN new] /\ b \in Surjection(DOMAIN seqs, DOMAIN new)
      /\ \A z \in DOMAIN new : \E x \in DOMAIN seqs : b[x] = z
  BY DEF Bijection, Surjection
<1>2. EntryFamily(new)
  <2>1. IsFiniteSet(DOMAIN new)
    BY <1>1, FS_Surjection DEF EntryFamily
  <2> QED
    BY <1>1, <2>1 DEF EntryFamily
<1>3. /\ DOMAIN F = DOMAIN seqs /\ IntOn(F, DOMAIN F) /\ CountedAll(w, seqs) = SumFunction(F)
      /\ \A j \in DOMAIN seqs : F[j] = Counted(w, seqs[j])
  BY CountedFamilySum
<1>4. /\ DOMAIN G = DOMAIN new /\ IntOn(G, DOMAIN G) /\ CountedAll(w, new) = SumFunction(G)
      /\ \A j \in DOMAIN new : G[j] = Counted(w, new[j])
  BY <1>2, CountedFamilySum
<1> HIDE DEF F, G
<1>5. \A k \in DOMAIN F : G[b[k]] = F[k]
  BY <1>1, <1>3, <1>4
<1>6. Renames(b, F, DOMAIN F, G, DOMAIN G)
  BY <1>3, <1>4, <1>5 DEF Renames
<1>7. SumFunctionOnSet(F, DOMAIN F) = SumFunctionOnSet(G, DOMAIN G)
  BY <1>3, <1>6, SumRenamed
<1> QED
  BY <1>2, <1>3, <1>4, <1>7 DEF SumFunction

-----------------------------------------------------------------------------
(* What has been read before the end of a file is written before the next  *)
(* file is opened, and every file has been read when the merge begins.     *)
NothingHeld == ifp.rest = << >> /\ \A i \in Threads : msa_arr[i] = << >>

InputInv ==
  /\ ifp.eof => ifp.rest = << >>
  /\ phase \in {"start", "pick", "merge", "done"} => NothingHeld
  /\ phase = "read" => \A i \in pending : msa_arr[i] = << >>
  /\ phase \in {"merge", "done"} => todo = {}

LEMMA ReadToTheEnd ==
  ASSUME Types, InputInv, NEW n \in 0..Len(ifp.rest), ReadsBlock(ifp.rest, n),
         HitsEOF(ifp, n)
  PROVE  SubSeq(ifp.rest, n + 1, Len(ifp.rest)) = << >>
<1>1. ifp.rest \in Seq(Seq(Used)) /\ Len(ifp.rest) \in Nat
  BY DEF Types
<1>2. n = Len(ifp.rest)
  <2>1. CASE ifp.eof
    <3>1. ifp.rest = << >>
      BY <2>1 DEF InputInv
    <3>2. Len(ifp.rest) = 0
      BY <3>1
    <3> QED
      BY <3>2
  <2>2. CASE ~BlockFull(SubSeq(ifp.rest, 1, n))
    BY <2>2 DEF ReadsBlock
  <2>3. CASE n = Len(ifp.rest)
    BY <2>3
  <2> QED
    BY <2>1, <2>2, <2>3 DEF HitsEOF
<1> DEFINE rest == SubSeq(ifp.rest, n + 1, Len(ifp.rest))
<1>3. rest \in Seq(Seq(Used)) /\ Len(rest) = Len(ifp.rest) - n
  BY <1>1, SequenceSplit
<1> HIDE DEF rest
<1>4. Len(rest) = 0
  BY <1>1, <1>2, <1>3
<1> QED
  BY <1>3, <1>4 DEF rest

LEMMA ReadInput ==
  ASSUME Types, InputInv, NEW i \in Threads, single_read_block(i)
  PROVE  InputInv'
<1>1. PICK n \in 0..Len(ifp.rest) :
        /\ ReadsBlock(ifp.rest, n)
        /\ msa_arr' = [msa_arr EXCEPT ![i] = WordsOf(SubSeq(ifp.rest, 1, n))]
        /\ ifp' = [ifp EXCEPT !.rest = SubSeq(@, n + 1, Len(@)), !.eof = HitsEOF(ifp, n)]
  BY DEF single_read_block
<1>2. /\ phase = "read" /\ i \in pending /\ phase' \in {"read", "sort"}
      /\ phase' = "read" => pending' = pending \ {i}
  BY DEF single_read_block
<1>3. /\ ifp'.eof = HitsEOF(ifp, n)
      /\ ifp'.rest = SubSeq(ifp.rest, n + 1, Len(ifp.rest))
  BY <1>1 DEF Types
<1>4. ifp'.eof => ifp'.rest = << >>
  BY <1>1, <1>3, ReadToTheEnd
<1>5. \A j \in Threads : j # i => msa_arr'[j] = msa_arr[j]
  BY <1>1 DEF Types
<1>6. phase' = "read" => \A j \in pending' : msa_arr'[j] = << >>
  BY <1>2, <1>5 DEF InputInv, Types
<1> QED
  BY <1>2, <1>4, <1>6 DEF InputInv

LEMMA NextInput ==
  ASSUME OneThread, Types, InputInv, [Next]_vars
  PROVE  InputInv'
<1>1. CASE Begin \/ BeginUncleared
  BY <1>1 DEF Begin, BeginUncleared, Starts, InputInv, NothingHeld
<1>2. CASE \E f \in Files : OpenFile(f)
  BY <1>2 DEF OpenFile, InputInv, NothingHeld
<1>3. CASE \E i \in Threads : single_read_block(i)
  BY <1>3, ReadInput
<1>4. CASE (\E i \in Threads : sort_one_msa(i)) \/ BeginWrite \/ WriteWord
  <2>1. ifp' = ifp /\ phase' \in {"sort", "write"}
    BY <1>4 DEF sort_one_msa, BeginWrite, WriteWord
  <2> QED
    BY <2>1 DEF InputInv
<1>5. CASE WriteNothing
  BY <1>5 DEF WriteNothing, ChunkDone, NoBlocks, InputInv, NothingHeld
<1>6. CASE CloseTmp
  <2>1. /\ ifp' = ifp /\ msa_arr' = msa_arr /\ \A i \in Threads : msa_arr[i] = << >>
        /\ phase' = IF ifp.eof THEN "pick" ELSE "read"
    BY <1>6 DEF CloseTmp, ChunkDone, AllEmpty, Types
  <2>2. pending' \subseteq Threads
    BY <1>6 DEF CloseTmp, ChunkDone
  <2> QED
    BY <2>1, <2>2 DEF InputInv, NothingHeld
<1>7. CASE merge_sort \/ TakeMin \/ AddEqual \/ FinishMerge
  <2>1. /\ ifp' = ifp /\ msa_arr' = msa_arr /\ todo' = todo
        /\ phase' \in {"merge", "done"} /\ phase \in {"pick", "merge"}
        /\ phase = "pick" => todo = {}
    BY <1>7 DEF merge_sort, TakeMin, AddEqual, FinishMerge
  <2> QED
    BY <2>1 DEF InputInv, NothingHeld
<1>8. CASE FailToOpen \/ FailToOpenOutput
  BY <1>8 DEF FailToOpen, FailToOpenOutput, InputInv
<1>9. CASE UNCHANGED vars
  BY <1>9 DEF vars, InputInv, NothingHeld
<1> QED
  BY <1>1, <1>2, <1>3, <1>4, <1>5, <1>6, <1>7, <1>8, <1>9 DEF Next, main, do_one_file

-----------------------------------------------------------------------------
(* Every word is somewhere, once: on its way as InFlight has it.           *)
Conserved ==
  phase \in Busy \cup {"done"} =>
    \A w \in Word : InFlight(w) = OccAll(w, WordsIn(Files)) + Extra(w)

Unread(w) == Occ(w, WordsOf(ifp.rest))

Counting(w) == Counted(w, <<word>>)

Stored(w) ==
  IF phase \in {"merge", "done"} THEN Counted(w, output) + CountedAll(w, fps)
  ELSE CountedAll(w, tmp)

LEMMA WordsOfFiles ==
  ASSUME NEW S \in SUBSET Files
  PROVE  /\ WordFamily(WordsIn(S)) /\ DOMAIN WordsIn(S) = S
         /\ \A f \in S : WordsIn(S)[f] = Words(f) /\ Words(f) \in Seq(UsedWord)
<1>1. IsFiniteSet(S)
  BY TextAssumption, FS_Subset
<1>2. ASSUME NEW f \in S PROVE Words(f) \in Seq(UsedWord) /\ Words(f) \in Seq(Word)
  <2>1. Text[f] \in Seq(Seq(Used))
    BY TextIsUsed
  <2>2. Words(f) \in Seq(UsedWord)
    BY <2>1, WordsType DEF Words, UsedWord
  <2>3. Seq(UsedWord) \subseteq Seq(Word)
    BY UsedIsCharacter, SeqMonotonic
  <2> QED
    BY <2>2, <2>3
<1> QED
  BY <1>1, <1>2 DEF WordFamily, WordsIn

LEMMA HeldFamilies ==
  ASSUME Types, TmpTypes, StaleTypes, MergeTypes
  PROVE  /\ WordFamily(msa_arr) /\ DOMAIN msa_arr = Threads
         /\ WordsOf(ifp.rest) \in Seq(Word)
         /\ phase # "start" => EntryFamily(tmp) /\ EntryFamily(stale)
         /\ EntryFamily(fps)
<1>1. Seq(UsedWord) \subseteq Seq(Word) /\ Seq(Entry) \subseteq Seq(WCKV)
  <2>1. UsedWord \subseteq Word /\ Entry \subseteq WCKV
    BY UsedIsCharacter
  <2> QED
    BY <2>1, SeqMonotonic
<1>2. IsFiniteSet(Threads)
  BY SizeAssumption, FS_Interval DEF Threads
<1>3. WordFamily(msa_arr) /\ DOMAIN msa_arr = Threads
  BY <1>1, <1>2 DEF WordFamily, Types
<1>4. WordsOf(ifp.rest) \in Seq(UsedWord)
  BY WordsType DEF Types, UsedWord
<1>5. ASSUME phase # "start" PROVE EntryFamily(tmp) /\ EntryFamily(stale)
  <2>1. IsFiniteSet(0..MaxTmpFiles)
    BY SizeAssumption, FS_Interval
  <2>2. IsFiniteSet(DOMAIN tmp)
    BY <1>5, <2>1, FS_Subset DEF TmpTypes
  <2>3. EntryFamily(tmp)
    BY <1>1, <1>5, <2>2 DEF EntryFamily, TmpTypes
  <2>4. DOMAIN stale \subseteq 0..MaxTmpFiles
    BY SizeAssumption DEF StaleTypes, OldFiles
  <2>5. IsFiniteSet(DOMAIN stale)
    BY <2>1, <2>4, FS_Subset
  <2>6. \A n \in DOMAIN stale : stale[n] \in Seq(WCKV)
    BY <1>1, <1>5, DirectoryTypes
  <2> QED
    BY <2>3, <2>5, <2>6 DEF EntryFamily
<1>6. EntryFamily(fps)
  BY <1>1 DEF EntryFamily, MergeTypes
<1> QED
  BY <1>1, <1>3, <1>4, <1>5, <1>6

LEMMA NoWords == WordsOf(<< >>) = << >>
<1> DEFINE bs == [k \in DOMAIN << >> |-> lineToMsa(<< >>[k])]
           e == << >>
<1>1. bs = e /\ e \in Seq(Seq(Word)) /\ Len(e) = 0
  OBVIOUS
<1>2. WordsOf(<< >>) = FlattenSeq(bs)
  BY DEF WordsOf
<1> HIDE DEF bs, e
<1>3. PICK g : Flattens(g, e, Word) /\ FlattenSeq(e) = g[Len(e)]
  BY <1>1, FlattenExists
<1> QED
  BY <1>1, <1>2, <1>3 DEF Flattens

LEMMA InFlightParts ==
  ASSUME Types, TmpTypes, StaleTypes, MergeTypes, NEW w
  PROVE  /\ Unread(w) \in Int /\ OccAll(w, WordsIn(todo)) \in Int
         /\ OccAll(w, msa_arr) \in Int
         /\ Counting(w) = IF word.w = w THEN word.n ELSE 0
         /\ Counting(w) \in Int /\ (word = NoWord => Counting(w) = 0)
         /\ phase # "start" => CountedAll(w, tmp) \in Int
         /\ CountedAll(w, fps) \in Int /\ Counted(w, output) \in Int
<1>1. Unread(w) \in Int
  <2>1. WordsOf(ifp.rest) \in Seq(Word)
    BY HeldFamilies
  <2>2. Occ(w, WordsOf(ifp.rest)) \in Nat
    BY <2>1, OccFacts
  <2> QED
    BY <2>2 DEF Unread
<1>2. OccAll(w, WordsIn(todo)) \in Int
  <2>1. WordFamily(WordsIn(todo))
    BY WordsOfFiles DEF Types
  <2> QED
    BY <2>1, OccFamilySum
<1>3. OccAll(w, msa_arr) \in Int
  BY HeldFamilies, OccFamilySum
<1>4. word \in WCKV
  <2>1. NoWord \in WCKV
    BY DEF NoWord, WCKV, Word
  <2>2. \A e \in Entry : e \in WCKV
    BY UsedIsCharacter
  <2> QED
    BY <2>1, <2>2 DEF MergeTypes
<1>5. Counting(w) = IF word.w = w THEN word.n ELSE 0
  BY <1>4, CountedFacts DEF Counting
<1>6. word.n \in Int /\ (word = NoWord => word.n = 0)
  BY <1>4 DEF WCKV, NoWord
<1>7. phase # "start" => CountedAll(w, tmp) \in Int
  BY HeldFamilies, CountedFamilySum
<1>8. CountedAll(w, fps) \in Int
  BY HeldFamilies, CountedFamilySum
<1>9. Counted(w, output) \in Int
  <2>1. output \in Seq(WCKV)
    <3>1. Entry \subseteq WCKV
      BY UsedIsCharacter
    <3>2. Seq(Entry) \subseteq Seq(WCKV)
      BY <3>1, SeqMonotonic
    <3> QED
      BY <3>2 DEF MergeTypes
  <2> QED
    BY <2>1, CountedFacts
<1> QED
  BY <1>1, <1>2, <1>3, <1>5, <1>6, <1>7, <1>8, <1>9

(* What the steps of the program are shown to do, all but the one that     *)
(* opens the files of an earlier run.                                      *)
Keeps == \A w \in Word : InFlight(w)' = InFlight(w)

LEMMA KeepsConserves ==
  ASSUME Conserved, Keeps, phase \in Busy \cup {"done"},
         \A w \in Word : Extra(w)' = Extra(w)
  PROVE  Conserved'
BY DEF Conserved, Keeps

Typed == Types /\ TmpTypes /\ StaleTypes /\ MergeTypes

(* Its sum, before and after a step. *)
LEMMA InFlightSums ==
  ASSUME NEW w
  PROVE  /\ InFlight(w) = Unread(w) + OccAll(w, WordsIn(todo)) + OccAll(w, msa_arr)
                            + Counting(w) + Stored(w)
         /\ InFlight(w)' = Unread(w)' + OccAll(w, WordsIn(todo))' + OccAll(w, msa_arr)'
                             + Counting(w)' + Stored(w)'
BY DEF InFlight, Unread, Counting, Stored

LEMMA BeginConserves ==
  ASSUME Typed, InputInv, Begin \/ BeginUncleared
  PROVE  Conserved'
<1>1. /\ phase = "start" /\ phase' = "pick" /\ todo' = Files /\ tmp' = << >>
      /\ UNCHANGED <<ifp, msa_arr, word>> /\ word = NoWord
      /\ ifp.rest = << >> /\ \A i \in Threads : msa_arr[i] = << >>
  BY DEF Begin, BeginUncleared, Starts, ClearedTmp, InputInv, NothingHeld, Typed, Types
<1> SUFFICES ASSUME NEW w \in Word
             PROVE  InFlight(w)' = OccAll(w, WordsIn(Files)) + Extra(w)'
  BY <1>1 DEF Conserved
<1>8. Extra(w)' = 0
  BY <1>1 DEF Extra
<1>2. Counting(w) = 0
  BY <1>1, InFlightParts DEF Typed
<1>3. Unread(w) = 0
  <2>1. WordsOf(<< >>) = << >>
    BY NoWords
  <2> QED
    BY <1>1, <2>1, OccFacts DEF Unread
<1>4. OccAll(w, msa_arr) = 0
  <2>1. IsFiniteSet(DOMAIN msa_arr) /\ DOMAIN msa_arr = Threads
    BY HeldFamilies DEF WordFamily, Typed
  <2> QED
    BY <1>1, <2>1, OccAllZero
<1>5. CountedAll(w, tmp') = 0
  <2> DEFINE none == << >>
  <2>1. DOMAIN none = {}
    OBVIOUS
  <2>2. IsFiniteSet({})
    BY FS_EmptySet
  <2> HIDE DEF none
  <2>3. CountedAll(w, none) = 0
    BY <2>1, <2>2, CountedAllZero
  <2> QED
    BY <1>1, <2>3 DEF none
<1>6. OccAll(w, WordsIn(Files)) \in Int
  BY WordsOfFiles, OccFamilySum
<1>7. InFlight(w)' = 0 + OccAll(w, WordsIn(Files)) + 0 + 0 + 0
  <2>1. Unread(w)' = Unread(w) /\ Counting(w)' = Counting(w)
    BY <1>1 DEF Unread, Counting
  <2>2. OccAll(w, WordsIn(todo))' = OccAll(w, WordsIn(Files))
    BY <1>1
  <2>3. OccAll(w, msa_arr)' = OccAll(w, msa_arr)
    BY <1>1
  <2>4. Stored(w)' = CountedAll(w, tmp')
    BY <1>1 DEF Stored
  <2> QED
    BY <1>2, <1>3, <1>4, <1>5, <2>1, <2>2, <2>3, <2>4, InFlightSums
<1> QED
  BY <1>6, <1>7, <1>8

LEMMA OpenFileKeeps ==
  ASSUME Typed, InputInv, NEW f \in Files, OpenFile(f)
  PROVE  Keeps
<1>1. /\ phase = "pick" /\ phase' = "read" /\ f \in todo /\ todo' = todo \ {f}
      /\ ifp'.rest = Text[f] /\ ifp.rest = << >>
      /\ UNCHANGED <<msa_arr, tmp, word>>
  BY DEF OpenFile, InputInv, NothingHeld
<1> SUFFICES ASSUME NEW w \in Word PROVE InFlight(w)' = InFlight(w)
  BY DEF Keeps
<1>2. /\ OccAll(w, WordsIn(todo)) \in Int /\ OccAll(w, WordsIn(todo \ {f})) \in Int
      /\ OccAll(w, WordsIn(todo)) = OccAll(w, WordsIn(todo \ {f})) + Occ(w, Words(f))
  <2>1. todo \in SUBSET Files /\ todo \ {f} \in SUBSET Files
    BY DEF Typed, Types
  <2>2. /\ WordFamily(WordsIn(todo)) /\ DOMAIN WordsIn(todo) = todo
        /\ \A g \in todo : WordsIn(todo)[g] = Words(g)
    BY <2>1, WordsOfFiles
  <2>3. /\ WordFamily(WordsIn(todo \ {f})) /\ DOMAIN WordsIn(todo \ {f}) = todo \ {f}
        /\ \A g \in todo \ {f} : WordsIn(todo \ {f})[g] = Words(g)
    BY <2>1, WordsOfFiles
  <2> DEFINE a == WordsIn(todo)
             b == WordsIn(todo \ {f})
  <2>4. /\ WordFamily(a) /\ DOMAIN a = todo /\ \A g \in todo : a[g] = Words(g)
        /\ WordFamily(b) /\ DOMAIN b = todo \ {f} /\ \A g \in todo \ {f} : b[g] = Words(g)
    BY <2>2, <2>3
  <2> HIDE DEF a, b
  <2>5. /\ DOMAIN a = DOMAIN b \cup {f} /\ f \notin DOMAIN b
        /\ \A j \in DOMAIN b : a[j] = b[j]
    BY <1>1, <2>4
  <2>6. OccAll(w, a) = OccAll(w, b) + Occ(w, a[f])
    BY <2>4, <2>5, OccAllJoin
  <2>7. OccAll(w, a) \in Int /\ OccAll(w, b) \in Int
    BY <2>4, OccFamilySum
  <2> QED
    BY <1>1, <2>4, <2>6, <2>7 DEF a, b
<1>3. Unread(w)' = Occ(w, Words(f)) /\ Occ(w, Words(f)) \in Int
  <2>1. Words(f) \in Seq(Word)
    <3>1. WordFamily(WordsIn(Files)) /\ DOMAIN WordsIn(Files) = Files
          /\ WordsIn(Files)[f] = Words(f)
      BY WordsOfFiles
    <3> QED
      BY <3>1 DEF WordFamily
  <2>2. Occ(w, Words(f)) \in Nat
    BY <2>1, OccFacts
  <2>3. Unread(w)' = Occ(w, WordsOf(ifp'.rest))
    BY DEF Unread
  <2> QED
    BY <1>1, <2>2, <2>3 DEF Words
<1>4. Unread(w) = 0
  <2>1. WordsOf(<< >>) = << >>
    BY NoWords
  <2> QED
    BY <1>1, <2>1, OccFacts DEF Unread
<1>5. /\ OccAll(w, msa_arr)' = OccAll(w, msa_arr) /\ OccAll(w, msa_arr) \in Int
      /\ Counting(w)' = Counting(w) /\ Counting(w) \in Int
      /\ Stored(w)' = Stored(w) /\ Stored(w) \in Int
      /\ OccAll(w, WordsIn(todo))' = OccAll(w, WordsIn(todo \ {f}))
  BY <1>1, InFlightParts DEF Counting, Stored, Typed
<1> QED
  BY <1>2, <1>3, <1>4, <1>5, InFlightSums

(* A word taken from an array, an entry from a stream. *)
LEMMA ArrayPopped ==
  ASSUME NEW w, NEW seqs, WordFamily(seqs), NEW i \in DOMAIN seqs, seqs[i] # << >>
  PROVE  /\ WordFamily(Popped(seqs, i)) /\ OccAll(w, seqs) \in Int
         /\ OccAll(w, Popped(seqs, i)) = OccAll(w, seqs) - (IF Head(seqs[i]) = w THEN 1 ELSE 0)
<1> DEFINE new == Popped(seqs, i)
<1>1. \A k \in DOMAIN seqs : seqs[k] \in Seq(Word)
  BY DEF WordFamily
<1>2. /\ DOMAIN new = DOMAIN seqs /\ new[i] = Tail(seqs[i])
      /\ \A k \in DOMAIN seqs : k # i => new[k] = seqs[k]
      /\ \A k \in DOMAIN seqs : new[k] \in Seq(Word)
  BY <1>1, PoppedKeeps
<1> HIDE DEF new
<1>3. WordFamily(new)
  BY <1>2 DEF WordFamily
<1>4. OccAll(w, new) = OccAll(w, seqs) - Occ(w, seqs[i]) + Occ(w, new[i])
  <2>1. DOMAIN new = DOMAIN seqs /\ \A j \in DOMAIN seqs : j # i => new[j] = seqs[j]
    BY <1>2
  <2> QED
    BY <1>3, <2>1, OccAllChange
<1>5. /\ Occ(w, seqs[i]) = (IF Head(seqs[i]) = w THEN 1 ELSE 0) + Occ(w, Tail(seqs[i]))
      /\ Tail(seqs[i]) \in Seq(Word)
  BY <1>1, OccFacts
<1>6. Occ(w, Tail(seqs[i])) \in Nat
  BY <1>5, OccFacts
<1>7. OccAll(w, seqs) \in Int
  BY OccFamilySum
<1>8. OccAll(w, new) = OccAll(w, seqs) - (IF Head(seqs[i]) = w THEN 1 ELSE 0)
  BY <1>2, <1>4, <1>5, <1>6, <1>7
<1> QED
  BY <1>3, <1>7, <1>8 DEF new

LEMMA StreamPopped ==
  ASSUME NEW w, NEW seqs, EntryFamily(seqs), NEW i \in DOMAIN seqs, seqs[i] # << >>
  PROVE  /\ EntryFamily(Popped(seqs, i)) /\ CountedAll(w, seqs) \in Int
         /\ Head(seqs[i]) \in WCKV
         /\ CountedAll(w, Popped(seqs, i))
              = CountedAll(w, seqs) - (IF Head(seqs[i]).w = w THEN Head(seqs[i]).n ELSE 0)
<1> DEFINE new == Popped(seqs, i)
           x == IF Head(seqs[i]).w = w THEN Head(seqs[i]).n ELSE 0
<1>1. \A k \in DOMAIN seqs : seqs[k] \in Seq(WCKV)
  BY DEF EntryFamily
<1>2. /\ DOMAIN new = DOMAIN seqs /\ new[i] = Tail(seqs[i])
      /\ \A k \in DOMAIN seqs : k # i => new[k] = seqs[k]
      /\ \A k \in DOMAIN seqs : new[k] \in Seq(WCKV)
  BY <1>1, PoppedKeeps
<1> HIDE DEF new
<1>3. EntryFamily(new)
  BY <1>2 DEF EntryFamily
<1>4. CountedAll(w, new) = CountedAll(w, seqs) - Counted(w, seqs[i]) + Counted(w, new[i])
  <2>1. DOMAIN new = DOMAIN seqs /\ \A j \in DOMAIN seqs : j # i => new[j] = seqs[j]
    BY <1>2
  <2> QED
    BY <1>3, <2>1, CountedAllChange
<1>5. /\ Counted(w, seqs[i]) = x + Counted(w, Tail(seqs[i]))
      /\ Tail(seqs[i]) \in Seq(WCKV) /\ Head(seqs[i]) \in WCKV
  BY <1>1, CountedFacts
<1>6. Counted(w, Tail(seqs[i])) \in Int /\ x \in Int
  <2>1. x \in Int
    BY <1>5 DEF WCKV
  <2>2. Counted(w, Tail(seqs[i])) \in Int
    BY <1>5, CountedFacts
  <2> QED
    BY <2>1, <2>2
<1>7. CountedAll(w, seqs) \in Int
  BY CountedFamilySum
<1> HIDE DEF x
<1>8. CountedAll(w, new) = CountedAll(w, seqs) - x
  BY <1>2, <1>4, <1>5, <1>6, <1>7
<1> QED
  BY <1>3, <1>5, <1>7, <1>8 DEF new, x

LEMMA ReadKeeps ==
  ASSUME Typed, InputInv, NEW i \in Threads, single_read_block(i)
  PROVE  Keeps
<1>1. PICK n \in 0..Len(ifp.rest) :
        /\ msa_arr' = [msa_arr EXCEPT ![i] = WordsOf(SubSeq(ifp.rest, 1, n))]
        /\ ifp' = [ifp EXCEPT !.rest = SubSeq(@, n + 1, Len(@)), !.eof = HitsEOF(ifp, n)]
  BY DEF single_read_block
<1> DEFINE first == WordsOf(SubSeq(ifp.rest, 1, n))
           rest == WordsOf(SubSeq(ifp.rest, n + 1, Len(ifp.rest)))
<1>2. /\ phase = "read" /\ phase' \in {"read", "sort"} /\ msa_arr[i] = << >>
      /\ UNCHANGED <<todo, tmp, word>>
  BY DEF single_read_block, InputInv
<1>3. /\ ifp'.rest = SubSeq(ifp.rest, n + 1, Len(ifp.rest))
      /\ ifp.rest \in Seq(Seq(Used))
  BY <1>1 DEF Typed, Types
<1>4. WordsOf(ifp.rest) = first \o rest /\ first \in Seq(Word) /\ rest \in Seq(Word)
  <2>1. WordsOf(ifp.rest) = first \o rest
    BY <1>3, WordsSplit
  <2>2. /\ SubSeq(ifp.rest, 1, n) \in Seq(Seq(Used))
        /\ SubSeq(ifp.rest, n + 1, Len(ifp.rest)) \in Seq(Seq(Used))
    BY <1>3, SequenceSplit
  <2>3. first \in Seq(UsedWord) /\ rest \in Seq(UsedWord)
    BY <2>2, WordsType DEF UsedWord
  <2>4. Seq(UsedWord) \subseteq Seq(Word)
    BY UsedIsCharacter, SeqMonotonic
  <2> HIDE DEF first, rest
  <2> QED
    BY <2>1, <2>3, <2>4
<1>5. msa_arr' = [msa_arr EXCEPT ![i] = first]
  BY <1>1
<1>6. WordFamily(msa_arr) /\ DOMAIN msa_arr = Threads
  BY HeldFamilies DEF Typed
<1> SUFFICES ASSUME NEW w \in Word PROVE InFlight(w)' = InFlight(w)
  BY DEF Keeps
<1>7. Unread(w)' = Occ(w, rest) /\ Unread(w) = Occ(w, WordsOf(ifp.rest))
  BY <1>3 DEF Unread
<1> HIDE DEF first, rest
<1>8. /\ Unread(w) = Occ(w, first) + Occ(w, rest)
      /\ Occ(w, first) \in Nat /\ Occ(w, rest) \in Nat
  <2>1. Occ(w, first \o rest) = Occ(w, first) + Occ(w, rest)
    BY <1>4, OccFacts
  <2>2. Occ(w, first) \in Nat /\ Occ(w, rest) \in Nat
    BY <1>4, OccFacts
  <2> QED
    BY <1>4, <1>7, <2>1, <2>2
<1>9. OccAll(w, msa_arr') = OccAll(w, msa_arr) + Occ(w, first)
  <2>1. /\ DOMAIN msa_arr' = DOMAIN msa_arr /\ msa_arr'[i] = first /\ i \in DOMAIN msa_arr
        /\ \A j \in DOMAIN msa_arr : j # i => msa_arr'[j] = msa_arr[j]
    BY <1>5, <1>6
  <2>2. WordFamily(msa_arr')
    BY <1>4, <1>6, <2>1 DEF WordFamily
  <2>3. OccAll(w, msa_arr') = OccAll(w, msa_arr) - Occ(w, msa_arr[i]) + Occ(w, msa_arr'[i])
    BY <1>6, <2>1, <2>2, OccAllChange
  <2>4. Occ(w, msa_arr[i]) = 0
    BY <1>2, OccFacts
  <2>5. OccAll(w, msa_arr) \in Int
    BY <1>6, OccFamilySum
  <2> QED
    BY <1>8, <2>1, <2>3, <2>4, <2>5
<1>10. /\ OccAll(w, WordsIn(todo))' = OccAll(w, WordsIn(todo))
       /\ OccAll(w, WordsIn(todo)) \in Int /\ OccAll(w, msa_arr) \in Int
       /\ Counting(w)' = Counting(w) /\ Counting(w) \in Int
       /\ Stored(w)' = Stored(w) /\ Stored(w) \in Int
  BY <1>2, InFlightParts DEF Counting, Stored, Typed
<1> QED
  BY <1>7, <1>8, <1>9, <1>10, InFlightSums

LEMMA SortKeeps ==
  ASSUME Typed, NEW i \in Threads, sort_one_msa(i)
  PROVE  Keeps
<1>1. PICK t \in [DOMAIN msa_arr[i] -> ToSet(msa_arr[i])] :
        SortsTo(msa_arr[i], t) /\ msa_arr' = [msa_arr EXCEPT ![i] = t]
  BY DEF sort_one_msa
<1>2. /\ phase = "sort" /\ phase' = "sort" /\ UNCHANGED <<ifp, todo, tmp, word>>
      /\ WordFamily(msa_arr) /\ DOMAIN msa_arr = Threads
  BY HeldFamilies DEF sort_one_msa, Typed
<1> SUFFICES ASSUME NEW w \in Word PROVE InFlight(w)' = InFlight(w)
  BY DEF Keeps
<1>3. msa_arr[i] \in Seq(Word)
  BY <1>2 DEF WordFamily
<1>4. Occ(w, t) = Occ(w, msa_arr[i])
  BY <1>1, <1>3, OccSorted
<1>5. t \in Seq(Word)
  <2>1. DOMAIN msa_arr[i] = 1..Len(msa_arr[i]) /\ Len(msa_arr[i]) \in Nat
    BY <1>3
  <2>2. ToSet(msa_arr[i]) \subseteq Word
    BY <1>3, <2>1 DEF ToSet
  <2>3. t \in [1..Len(msa_arr[i]) -> Word]
    BY <2>1, <2>2
  <2> QED
    BY <2>1, <2>3, FunctionIsSequence
<1>6. OccAll(w, msa_arr') = OccAll(w, msa_arr)
  <2>1. /\ DOMAIN msa_arr' = DOMAIN msa_arr /\ msa_arr'[i] = t /\ i \in DOMAIN msa_arr
        /\ \A j \in DOMAIN msa_arr : j # i => msa_arr'[j] = msa_arr[j]
    BY <1>1, <1>2
  <2>2. WordFamily(msa_arr')
    BY <1>2, <1>5, <2>1 DEF WordFamily
  <2>3. OccAll(w, msa_arr') = OccAll(w, msa_arr) - Occ(w, msa_arr[i]) + Occ(w, msa_arr'[i])
    BY <1>2, <2>1, <2>2, OccAllChange
  <2>4. OccAll(w, msa_arr) \in Int /\ Occ(w, msa_arr[i]) \in Nat
    BY <1>2, <1>3, OccFamilySum, OccFacts
  <2> QED
    BY <1>4, <2>1, <2>3, <2>4
<1>7. /\ Unread(w)' = Unread(w) /\ OccAll(w, WordsIn(todo))' = OccAll(w, WordsIn(todo))
      /\ Counting(w)' = Counting(w) /\ Stored(w)' = Stored(w)
  BY <1>2 DEF Unread, Counting, Stored
<1> QED
  BY <1>6, <1>7, InFlightSums

(* The new file holds nothing yet. *)
LEMMA CreatedCounts ==
  ASSUME Typed, CanCreate, NEW w
  PROVE  CountedAll(w, Created) = CountedAll(w, tmp) /\ CountedAll(w, tmp) \in Int
<1>1. /\ DOMAIN Created = 0..file_cnt /\ Created[file_cnt] = << >>
      /\ \A n \in DOMAIN tmp : Created[n] = tmp[n]
      /\ DOMAIN tmp = 0..(file_cnt - 1) /\ file_cnt \in Nat
      /\ \A n \in DOMAIN Created : Created[n] \in Seq(Entry)
  <2>1. file_cnt \in Nat
    BY SizeAssumption DEF Typed, Types
  <2> QED
    BY <2>1, CreatedTypes DEF Typed
<1>2. EntryFamily(tmp)
  BY HeldFamilies DEF CanCreate, Typed
<1>3. EntryFamily(Created)
  <2>1. Entry \subseteq WCKV
    BY UsedIsCharacter
  <2>2. Seq(Entry) \subseteq Seq(WCKV)
    BY <2>1, SeqMonotonic
  <2>3. IsFiniteSet(0..file_cnt)
    BY <1>1, FS_Interval
  <2> QED
    BY <1>1, <2>2, <2>3 DEF EntryFamily
<1>4. DOMAIN Created = DOMAIN tmp \cup {file_cnt} /\ file_cnt \notin DOMAIN tmp
  BY <1>1
<1>5. CountedAll(w, Created) = CountedAll(w, tmp) + Counted(w, Created[file_cnt])
  BY <1>1, <1>2, <1>3, <1>4, CountedAllJoin
<1>6. Counted(w, << >>) = 0 /\ CountedAll(w, tmp) \in Int
  BY <1>2, CountedFacts, CountedFamilySum
<1> QED
  BY <1>1, <1>5, <1>6

LEMMA WriteNothingKeeps ==
  ASSUME OneThread, Typed, WriteNothing
  PROVE  Keeps
<1>1. /\ CanCreate /\ phase = "sort" /\ msa_arr[1] = << >> /\ tmp' = Created
      /\ phase' \in {"pick", "read"} /\ msa_arr' = NoBlocks /\ UNCHANGED <<ifp, todo, word>>
  BY ChunkDoneMeans DEF WriteNothing, CanCreate
<1> SUFFICES ASSUME NEW w \in Word PROVE InFlight(w)' = InFlight(w)
  BY DEF Keeps
<1>2. OccAll(w, msa_arr') = OccAll(w, msa_arr)
  <2>1. WordFamily(msa_arr) /\ DOMAIN msa_arr = Threads /\ DOMAIN msa_arr' = Threads
    BY <1>1, HeldFamilies DEF NoBlocks, Typed
  <2>2. \A i \in Threads : msa_arr[i] = << >> /\ msa_arr'[i] = << >>
    BY <1>1, OneArray DEF NoBlocks
  <2> QED
    BY <2>1, <2>2, OccAllZero DEF WordFamily
<1>3. CountedAll(w, tmp') = CountedAll(w, tmp)
  BY <1>1, CreatedCounts
<1>4. /\ Unread(w)' = Unread(w) /\ OccAll(w, WordsIn(todo))' = OccAll(w, WordsIn(todo))
      /\ Counting(w)' = Counting(w) /\ Stored(w)' = Stored(w)
  BY <1>1, <1>3 DEF Unread, Counting, Stored
<1> QED
  BY <1>2, <1>4, InFlightSums

LEMMA CountingNext ==
  ASSUME NEW w, word' \in WCKV
  PROVE  Counting(w)' = (IF word'.w = w THEN word'.n ELSE 0) /\ Counting(w)' \in Int
<1>1. Counting(w)' = Counted(w, <<word'>>)
  BY DEF Counting
<1>2. Counted(w, <<word'>>) = IF word'.w = w THEN word'.n ELSE 0
  BY CountedFacts
<1>3. word'.n \in Int
  BY DEF WCKV
<1> QED
  BY <1>1, <1>2, <1>3

LEMMA BeginWriteKeeps ==
  ASSUME OneThread, Typed, BeginWrite
  PROVE  Keeps
<1>1. /\ CanCreate /\ phase = "sort" /\ msa_arr[1] # << >> /\ tmp' = Created
      /\ phase' = "write" /\ msa_arr' = Popped(msa_arr, 1)
      /\ word' = [w |-> Head(msa_arr[1]), n |-> 1]
      /\ UNCHANGED <<ifp, todo>> /\ word = NoWord
  BY DEF BeginWrite, CanCreate, FirstEntry, Typed, Types
<1>2. WordFamily(msa_arr) /\ 1 \in DOMAIN msa_arr
  BY HeldFamilies, OneArray DEF Typed
<1>3. Head(msa_arr[1]) \in Word
  <2>1. msa_arr[1] \in Seq(Word)
    BY <1>2 DEF WordFamily
  <2> QED
    BY <1>1, <2>1, HeadAndTail
<1>4. word' \in WCKV /\ word'.w = Head(msa_arr[1]) /\ word'.n = 1
  BY <1>1, <1>3 DEF WCKV
<1> SUFFICES ASSUME NEW w \in Word PROVE InFlight(w)' = InFlight(w)
  BY DEF Keeps
<1>5. /\ OccAll(w, msa_arr') = OccAll(w, msa_arr) - (IF Head(msa_arr[1]) = w THEN 1 ELSE 0)
      /\ OccAll(w, msa_arr) \in Int
  BY <1>1, <1>2, ArrayPopped
<1>6. Counting(w)' = IF Head(msa_arr[1]) = w THEN 1 ELSE 0
  BY <1>4, CountingNext
<1>7. Counting(w) = 0
  BY <1>1, InFlightParts DEF Typed
<1>8. Stored(w)' = Stored(w) /\ Stored(w) \in Int
  <2>1. CountedAll(w, tmp') = CountedAll(w, tmp) /\ CountedAll(w, tmp) \in Int
    BY <1>1, CreatedCounts
  <2> QED
    BY <1>1, <2>1 DEF Stored
<1>9. /\ Unread(w)' = Unread(w) /\ Unread(w) \in Int
      /\ OccAll(w, WordsIn(todo))' = OccAll(w, WordsIn(todo)) /\ OccAll(w, WordsIn(todo)) \in Int
  BY <1>1, InFlightParts DEF Unread, Typed
<1> QED
  BY <1>5, <1>6, <1>7, <1>8, <1>9, InFlightSums

(* An entry written to the current file. *)
LEMMA EntryWritten ==
  ASSUME Typed, phase = "write", tmp' = [tmp EXCEPT ![file_cnt] = Append(@, word)], NEW w
  PROVE  /\ CountedAll(w, tmp') = CountedAll(w, tmp) + Counting(w)
         /\ CountedAll(w, tmp) \in Int /\ Counting(w) \in Int
<1>1. /\ DOMAIN tmp = 0..file_cnt /\ file_cnt \in DOMAIN tmp /\ word \in WCKV
  <2>1. DOMAIN tmp = 0..file_cnt /\ file_cnt \in Nat /\ word \in Entry
    BY SizeAssumption DEF Typed, Types, TmpTypes, Busy
  <2> QED
    BY <2>1, UsedIsCharacter
<1>2. EntryFamily(tmp)
  BY HeldFamilies DEF Typed
<1>3. tmp[file_cnt] \in Seq(WCKV) /\ Append(tmp[file_cnt], word) \in Seq(WCKV)
  <2>1. tmp[file_cnt] \in Seq(WCKV)
    BY <1>1, <1>2 DEF EntryFamily
  <2> QED
    BY <1>1, <2>1
<1>4. /\ DOMAIN tmp' = DOMAIN tmp /\ tmp'[file_cnt] = Append(tmp[file_cnt], word)
      /\ \A j \in DOMAIN tmp : j # file_cnt => tmp'[j] = tmp[j]
  BY <1>1
<1>5. EntryFamily(tmp')
  BY <1>2, <1>3, <1>4 DEF EntryFamily
<1>6. CountedAll(w, tmp') = CountedAll(w, tmp) - Counted(w, tmp[file_cnt]) + Counted(w, tmp'[file_cnt])
  <2>1. DOMAIN tmp' = DOMAIN tmp /\ \A j \in DOMAIN tmp : j # file_cnt => tmp'[j] = tmp[j]
    BY <1>4
  <2>2. file_cnt \in DOMAIN tmp
    BY <1>1
  <2> DEFINE new == tmp'
  <2>3. /\ EntryFamily(new) /\ DOMAIN new = DOMAIN tmp
        /\ \A j \in DOMAIN tmp : j # file_cnt => new[j] = tmp[j]
    BY <1>5, <2>1
  <2> HIDE DEF new
  <2>4. CountedAll(w, new) = CountedAll(w, tmp) - Counted(w, tmp[file_cnt]) + Counted(w, new[file_cnt])
    BY <1>2, <2>2, <2>3, CountedAllChange
  <2> QED
    BY <2>4 DEF new
<1>7. Counted(w, Append(tmp[file_cnt], word))
        = Counted(w, tmp[file_cnt]) + (IF word.w = w THEN word.n ELSE 0)
  <2> DEFINE s == tmp[file_cnt]
  <2>1. s \in Seq(WCKV) /\ word \in WCKV
    BY <1>1, <1>3
  <2> HIDE DEF s
  <2>2. \A t \in Seq(WCKV), e \in WCKV :
          Counted(w, Append(t, e)) = Counted(w, t) + (IF e.w = w THEN e.n ELSE 0)
    BY CountedFacts
  <2>3. Counted(w, Append(s, word)) = Counted(w, s) + (IF word.w = w THEN word.n ELSE 0)
    BY <2>1, <2>2
  <2> QED
    BY <2>3 DEF s
<1>8. Counted(w, tmp[file_cnt]) \in Int
  BY <1>3, CountedFacts
<1>9. /\ CountedAll(w, tmp) \in Int /\ Counting(w) \in Int
      /\ Counting(w) = IF word.w = w THEN word.n ELSE 0
  BY <1>1, InFlightParts DEF Typed
<1> QED
  BY <1>4, <1>6, <1>7, <1>8, <1>9

LEMMA WriteWordKeeps ==
  ASSUME Typed, WriteWord
  PROVE  Keeps
<1>1. /\ phase = "write" /\ phase' = "write" /\ UNCHANGED <<ifp, todo, file_cnt>>
      /\ \E i \in Threads : /\ IsFirstMin(HeadWords(msa_arr), i)
                            /\ CountOrWrite(Head(msa_arr[i]))
                            /\ msa_arr' = Popped(msa_arr, i)
  BY DEF WriteWord
<1>2. PICK i \in Threads : /\ IsFirstMin(HeadWords(msa_arr), i)
                           /\ CountOrWrite(Head(msa_arr[i]))
                           /\ msa_arr' = Popped(msa_arr, i)
  BY <1>1
<1>3. i \in DOMAIN msa_arr /\ msa_arr[i] # << >> /\ WordFamily(msa_arr)
  BY <1>2, HeldFamilies DEF IsFirstMin, HeadWords, Typed
<1> DEFINE v == Head(msa_arr[i])
           x(w) == IF v = w THEN 1 ELSE 0
<1>4. v \in Word
  <2>1. msa_arr[i] \in Seq(Word)
    BY <1>3 DEF WordFamily
  <2> QED
    BY <1>3, <2>1, HeadAndTail
<1>5. word \in WCKV
  <2>1. word \in Entry
    BY <1>1 DEF Typed, Types
  <2> QED
    BY <2>1, UsedIsCharacter
<1> SUFFICES ASSUME NEW w \in Word PROVE InFlight(w)' = InFlight(w)
  BY DEF Keeps
<1>6. /\ OccAll(w, msa_arr') = OccAll(w, msa_arr) - x(w)
      /\ OccAll(w, msa_arr) \in Int /\ x(w) \in Int
  BY <1>2, <1>3, ArrayPopped
<1>7. /\ Counting(w) = IF word.w = w THEN word.n ELSE 0
      /\ Counting(w) \in Int /\ CountedAll(w, tmp) \in Int
  BY <1>1, InFlightParts DEF Typed
<1> HIDE DEF v, x
<1>8. Counting(w)' + CountedAll(w, tmp')
        = Counting(w) + CountedAll(w, tmp) + x(w)
  <2>1. CASE v = word.w
    <3>1. word' = [word EXCEPT !.n = @ + 1] /\ tmp' = tmp
      BY <1>2, <2>1 DEF CountOrWrite, v
    <3>2. word' \in WCKV /\ word'.w = v /\ word'.n = word.n + 1 /\ word.n \in Int
      BY <1>5, <2>1, <3>1 DEF WCKV
    <3>3. Counting(w)' = IF word'.w = w THEN word'.n ELSE 0
      BY <3>2, CountingNext
    <3> QED
      BY <1>7, <2>1, <3>1, <3>2, <3>3 DEF x
  <2>2. CASE v # word.w
    <3>1. word' = [w |-> v, n |-> 1] /\ tmp' = [tmp EXCEPT ![file_cnt] = Append(@, word)]
      BY <1>2, <2>2 DEF CountOrWrite, v
    <3>2. word' \in WCKV /\ word'.w = v /\ word'.n = 1
      BY <1>4, <3>1 DEF WCKV
    <3>3. Counting(w)' = IF v = w THEN 1 ELSE 0
      BY <3>2, CountingNext
    <3>4. CountedAll(w, tmp') = CountedAll(w, tmp) + Counting(w)
      BY <1>1, <3>1, EntryWritten
    <3> QED
      BY <1>7, <3>3, <3>4 DEF x
  <2> QED
    BY <2>1, <2>2
<1>9. Stored(w)' = CountedAll(w, tmp') /\ Stored(w) = CountedAll(w, tmp)
  BY <1>1 DEF Stored
<1>10. Counting(w)' \in Int /\ CountedAll(w, tmp') \in Int
  <2>1. Types' /\ TmpTypes'
    BY WriteWordTypes DEF Typed
  <2>2. word' \in WCKV
    <3>1. word' \in Entry
      BY <1>1, <2>1 DEF Types
    <3> QED
      BY <3>1, UsedIsCharacter
  <2>3. Counting(w)' \in Int
    BY <2>2, CountingNext
  <2>4. CountedAll(w, tmp') \in Int
    <3>1. tmp' = tmp \/ tmp' = [tmp EXCEPT ![file_cnt] = Append(@, word)]
      BY <1>2 DEF CountOrWrite
    <3>2. CASE tmp' = tmp
      BY <1>7, <3>2
    <3>3. CASE tmp' = [tmp EXCEPT ![file_cnt] = Append(@, word)]
      <4>1. CountedAll(w, tmp') = CountedAll(w, tmp) + Counting(w)
        BY <1>1, <3>3, EntryWritten
      <4> QED
        BY <1>7, <4>1
    <3> QED
      BY <3>1, <3>2, <3>3
  <2> QED
    BY <2>3, <2>4
<1>11. /\ Unread(w)' = Unread(w) /\ Unread(w) \in Int
       /\ OccAll(w, WordsIn(todo))' = OccAll(w, WordsIn(todo)) /\ OccAll(w, WordsIn(todo)) \in Int
  BY <1>1, InFlightParts DEF Unread, Typed
<1> QED
  BY <1>6, <1>7, <1>8, <1>9, <1>10, <1>11, InFlightSums

LEMMA CloseTmpKeeps ==
  ASSUME Typed, CloseTmp
  PROVE  Keeps
<1>1. /\ phase = "write" /\ phase' \in {"pick", "read"}
      /\ tmp' = [tmp EXCEPT ![file_cnt] = @ \o <<word>>]
      /\ word' = NoWord /\ UNCHANGED <<ifp, todo, msa_arr>>
  BY ChunkDoneMeans DEF CloseTmp, LastEntry
<1>2. tmp' = [tmp EXCEPT ![file_cnt] = Append(@, word)]
  <2>1. /\ DOMAIN tmp = 0..file_cnt /\ file_cnt \in DOMAIN tmp /\ word \in Entry
        /\ tmp[file_cnt] \in Seq(Entry)
    <3>1. DOMAIN tmp = 0..file_cnt /\ \A n \in DOMAIN tmp : tmp[n] \in Seq(Entry)
      BY <1>1 DEF Typed, TmpTypes, Busy
    <3>2. file_cnt \in Nat /\ word \in Entry
      BY <1>1, SizeAssumption DEF Typed, Types
    <3> QED
      BY <3>1, <3>2
  <2>2. \A s \in Seq(Entry), e \in Entry : Append(s, e) = s \o <<e>>
    BY AppendIsConcat
  <2> QED
    BY <1>1, <2>1, <2>2
<1> SUFFICES ASSUME NEW w \in Word PROVE InFlight(w)' = InFlight(w)
  BY DEF Keeps
<1>3. /\ CountedAll(w, tmp') = CountedAll(w, tmp) + Counting(w)
      /\ CountedAll(w, tmp) \in Int /\ Counting(w) \in Int
  BY <1>1, <1>2, EntryWritten
<1>4. Counting(w)' = 0
  <2>1. word' \in WCKV /\ word'.n = 0
    BY <1>1 DEF NoWord, WCKV, Word
  <2> QED
    BY <2>1, CountingNext
<1>5. Stored(w)' = CountedAll(w, tmp') /\ Stored(w) = CountedAll(w, tmp)
  BY <1>1 DEF Stored
<1>6. /\ Unread(w)' = Unread(w) /\ Unread(w) \in Int
      /\ OccAll(w, WordsIn(todo))' = OccAll(w, WordsIn(todo)) /\ OccAll(w, WordsIn(todo)) \in Int
      /\ OccAll(w, msa_arr)' = OccAll(w, msa_arr) /\ OccAll(w, msa_arr) \in Int
  BY <1>1, InFlightParts DEF Unread, Typed
<1> QED
  BY <1>3, <1>4, <1>5, <1>6, InFlightSums

(* The streams hold what the run has counted and what an earlier one left. *)
LEMMA MergeSortConserves ==
  ASSUME PlainText, EnoughDescriptors, Typed, Conserved, merge_sort
  PROVE  Conserved'
<1>1. /\ phase = "pick" /\ phase' = "merge" /\ UNCHANGED <<ifp, todo, msa_arr, stale, word, output>>
      /\ output = << >>
  BY DEF merge_sort, Typed, Types
<1>2. PICK order, m : Opened(order, m)
  BY StreamsOpened DEF Typed
<1> DEFINE n == FileCount
           new == fps'
           all == Directory
<1>3. /\ order \in [1..n -> DOMAIN all]
      /\ \A j, k \in 1..n : j # k => order[j] # order[k]
      /\ DOMAIN new = 1..n /\ \A k \in 1..n : new[k] = all[order[k]]
      /\ n \in Nat /\ IsFiniteSet(DOMAIN all) /\ n = Cardinality(DOMAIN all)
  BY <1>2 DEF Opened, FileCount
<1>12. /\ EntryFamily(tmp) /\ EntryFamily(stale) /\ DOMAIN tmp \cap DOMAIN stale = {}
       /\ DOMAIN all = DOMAIN tmp \cup DOMAIN stale
       /\ \A z \in DOMAIN tmp : all[z] = tmp[z]
       /\ \A z \in DOMAIN stale : all[z] = stale[z]
  BY <1>1, HeldFamilies, DirectoryTypes DEF Typed
<1> HIDE DEF n, new, all
<1>4. \A z \in DOMAIN all : \E k \in 1..n : order[k] = z
  <2>1. IsFiniteSet(1..n) /\ Cardinality(1..n) = n
    BY <1>3, FS_CountingElements, FS_Interval
  <2>2. IsFiniteSet(DOMAIN all) /\ Cardinality(DOMAIN all) = n
    BY <1>3
  <2>3. order \in Injection(1..n, DOMAIN all)
    BY <1>3 DEF Injection, IsInjective
  <2>4. order \in Surjection(1..n, DOMAIN all)
    BY <2>1, <2>2, <2>3, FS_Injection
  <2> QED
    BY <2>4 DEF Surjection
<1> DEFINE b == [z \in DOMAIN all |-> CHOOSE k \in 1..n : order[k] = z]
<1>5. \A z \in DOMAIN all : b[z] \in 1..n /\ order[b[z]] = z
  BY <1>4
<1>6. b \in [DOMAIN all -> 1..n]
  BY <1>5
<1> HIDE DEF b
<1>7. b \in Bijection(DOMAIN all, DOMAIN new)
  <2>1. \A y, z \in DOMAIN all : b[y] = b[z] => y = z
    BY <1>5
  <2>2. ASSUME NEW k \in 1..n PROVE \E z \in DOMAIN all : b[z] = k
    <3>1. order[k] \in DOMAIN all
      BY <1>3
    <3>2. b[order[k]] \in 1..n /\ order[b[order[k]]] = order[k]
      BY <1>5, <3>1
    <3>3. b[order[k]] = k
      BY <1>3, <3>2
    <3> QED
      BY <3>1, <3>3
  <2> QED
    BY <1>3, <1>6, <2>1, <2>2 DEF Bijection, Injection, Surjection, IsInjective
<1>8. \A z \in DOMAIN all : new[b[z]] = all[z]
  BY <1>3, <1>5
<1> SUFFICES ASSUME NEW w \in Word
             PROVE  InFlight(w)' = OccAll(w, WordsIn(Files)) + Extra(w)'
  BY <1>1 DEF Conserved
<1>9. /\ CountedAll(w, new) = CountedAll(w, tmp) + CountedAll(w, stale)
      /\ CountedAll(w, tmp) \in Int /\ CountedAll(w, stale) \in Int
  <2>1. EntryFamily(all) /\ CountedAll(w, all) = CountedAll(w, tmp) + CountedAll(w, stale)
    BY <1>12, CountedAllUnion, ZenonT(60)
  <2>2. CountedAll(w, new) = CountedAll(w, all)
    BY <1>7, <1>8, <2>1, CountedAllReordered
  <2> QED
    BY <1>12, <2>1, <2>2, CountedFamilySum
<1>10. Stored(w)' = Stored(w) + CountedAll(w, stale) /\ Stored(w) \in Int
  <2>1. Counted(w, << >>) = 0
    BY CountedFacts
  <2>2. Stored(w)' = Counted(w, output') + CountedAll(w, new) /\ Stored(w) = CountedAll(w, tmp)
    BY <1>1 DEF Stored, new
  <2> QED
    BY <1>1, <1>9, <2>1, <2>2
<1>11. /\ Unread(w)' = Unread(w) /\ OccAll(w, WordsIn(todo))' = OccAll(w, WordsIn(todo))
       /\ OccAll(w, msa_arr)' = OccAll(w, msa_arr) /\ Counting(w)' = Counting(w)
       /\ Unread(w) \in Int /\ OccAll(w, WordsIn(todo)) \in Int
       /\ OccAll(w, msa_arr) \in Int /\ Counting(w) \in Int
  BY <1>1, InFlightParts DEF Unread, Counting, Typed
<1>13. Extra(w) = 0 /\ Extra(w)' = CountedAll(w, stale)
  BY <1>1 DEF Extra
<1>14. InFlight(w) = OccAll(w, WordsIn(Files)) + 0 /\ OccAll(w, WordsIn(Files)) \in Int
  BY <1>1, <1>13, WordsOfFiles, OccFamilySum DEF Conserved, Busy
<1> QED
  BY <1>9, <1>10, <1>11, <1>13, <1>14, InFlightSums

LEMMA TakeMinKeeps ==
  ASSUME Typed, TakeMin
  PROVE  Keeps
<1>1. /\ phase = "merge" /\ phase' = "merge" /\ word = NoWord
      /\ UNCHANGED <<ifp, todo, msa_arr, output>>
  BY DEF TakeMin
<1>2. PICK i \in DOMAIN fps : /\ IsFirstMin(HeadEntries(fps), i)
                              /\ word' = Head(fps[i]) /\ fps' = Popped(fps, i)
  BY DEF TakeMin
<1>3. fps[i] # << >> /\ EntryFamily(fps)
  BY <1>2, HeldFamilies DEF IsFirstMin, HeadEntries, Typed
<1> SUFFICES ASSUME NEW w \in Word PROVE InFlight(w)' = InFlight(w)
  BY DEF Keeps
<1> DEFINE x == IF Head(fps[i]).w = w THEN Head(fps[i]).n ELSE 0
<1>4. /\ CountedAll(w, fps') = CountedAll(w, fps) - x /\ Head(fps[i]) \in WCKV
  BY <1>2, <1>3, StreamPopped
<1>5. Counting(w)' = x /\ Counting(w)' \in Int
  BY <1>2, <1>4, CountingNext
<1> HIDE DEF x
<1>6. /\ Counting(w) = 0 /\ CountedAll(w, fps) \in Int /\ Counted(w, output) \in Int
      /\ Unread(w) \in Int /\ OccAll(w, WordsIn(todo)) \in Int /\ OccAll(w, msa_arr) \in Int
  BY <1>1, InFlightParts DEF Typed
<1>7. /\ Stored(w)' = Counted(w, output) + CountedAll(w, fps')
      /\ Stored(w) = Counted(w, output) + CountedAll(w, fps)
  BY <1>1 DEF Stored
<1>8. /\ Unread(w)' = Unread(w) /\ OccAll(w, WordsIn(todo))' = OccAll(w, WordsIn(todo))
      /\ OccAll(w, msa_arr)' = OccAll(w, msa_arr)
  BY <1>1 DEF Unread
<1> QED
  BY <1>4, <1>5, <1>6, <1>7, <1>8, InFlightSums

(* What the pass over the streams takes from them. *)
LEMMA EqualHeadsTaken ==
  ASSUME MergeTypes, word # NoWord, NEW new, NEW w,
         new = [i \in DOMAIN fps |-> IF i \in EqualHeads THEN Tail(fps[i]) ELSE fps[i]]
  PROVE  CountedAll(w, fps)
           = CountedAll(w, new)
             + (IF word.w = w THEN SumFunction([i \in EqualHeads |-> Head(fps[i]).n]) ELSE 0)
<1> DEFINE E == EqualHeads
           D == DOMAIN fps
           T == [i \in E |-> Head(fps[i]).n]
           H == [i \in D |-> IF i \in E /\ word.w = w THEN Head(fps[i]).n ELSE 0]
<1>1. /\ E \subseteq D /\ IsFiniteSet(E) /\ IsFiniteSet(D)
      /\ \A i \in E : /\ fps[i] # << >> /\ Head(fps[i]).n \in Nat /\ Head(fps[i]).w = word.w
      /\ \A i \in D : fps[i] \in Seq(WCKV)
  <2>1. Entry \subseteq WCKV
    BY UsedIsCharacter
  <2>2. Seq(Entry) \subseteq Seq(WCKV)
    BY <2>1, SeqMonotonic
  <2> QED
    BY <2>2, AddedIsEntry DEF MergeTypes
<1>2. /\ DOMAIN new = D
      /\ \A i \in D : new[i] = IF i \in E THEN Tail(fps[i]) ELSE fps[i]
  OBVIOUS
<1>3. /\ DOMAIN T = E /\ \A i \in E : T[i] = Head(fps[i]).n
      /\ \A i \in D : H[i] = IF i \in E /\ word.w = w THEN Head(fps[i]).n ELSE 0
  OBVIOUS
<1> HIDE DEF E, D, T, H
<1>4. EntryFamily(fps) /\ EntryFamily(new)
  <2>1. \A i \in D : new[i] \in Seq(WCKV)
    BY <1>1, <1>2, CountedFacts
  <2> QED
    BY <1>1, <1>2, <2>1 DEF EntryFamily, D
<1> DEFINE F == CountsOf(w, new)
           G == CountsOf(w, fps)
<1>5. /\ DOMAIN F = D /\ IntOn(F, D) /\ CountedAll(w, new) = SumFunctionOnSet(F, D)
      /\ \A i \in D : F[i] = Counted(w, new[i]) /\ F[i] \in Int
  <2>1. /\ DOMAIN F = DOMAIN new /\ IntOn(F, DOMAIN F) /\ CountedAll(w, new) = SumFunction(F)
        /\ \A i \in DOMAIN new : F[i] = Counted(w, new[i]) /\ Counted(w, new[i]) \in Int
    BY <1>4, CountedFamilySum, ZenonT(60)
  <2> HIDE DEF F
  <2> QED
    BY <1>2, <2>1 DEF SumFunction
<1>6. /\ DOMAIN G = D /\ IntOn(G, D) /\ CountedAll(w, fps) = SumFunctionOnSet(G, D)
      /\ \A i \in D : G[i] = Counted(w, fps[i])
  <2>1. D = DOMAIN fps
    BY DEF D
  <2> QED
    BY <1>4, <2>1, CountedFamilySum DEF SumFunction
<1> HIDE DEF F, G
<1>7. \A i \in D : H[i] \in Int
  BY <1>1, <1>3
<1>8. IntOn(H, D)
  BY <1>1, <1>7 DEF IntOn
<1>9. ASSUME NEW i \in D PROVE G[i] = F[i] + H[i]
  <2>1. CASE i \in E
    <3>1. fps[i] \in Seq(WCKV) /\ fps[i] # << >> /\ new[i] = Tail(fps[i])
      BY <1>1, <1>2, <2>1
    <3>2. Counted(w, fps[i]) = (IF Head(fps[i]).w = w THEN Head(fps[i]).n ELSE 0)
                                 + Counted(w, Tail(fps[i]))
      BY <3>1, CountedFacts
    <3>3. H[i] = IF Head(fps[i]).w = w THEN Head(fps[i]).n ELSE 0
      BY <1>1, <1>3, <2>1
    <3>4. G[i] = Counted(w, fps[i]) /\ F[i] = Counted(w, Tail(fps[i])) /\ F[i] \in Int
      BY <1>5, <1>6, <3>1
    <3>5. G[i] = H[i] + F[i] /\ H[i] \in Int
      BY <1>7, <3>2, <3>3, <3>4
    <3> QED
      BY <3>4, <3>5
  <2>2. CASE i \notin E
    BY <1>2, <1>3, <1>5, <1>6, <2>2
  <2> QED
    BY <2>1, <2>2
<1>10. SumFunctionOnSet(G, D) = SumFunctionOnSet(F, D) + SumFunctionOnSet(H, D)
  BY <1>5, <1>8, <1>9, SumAdd, ZenonT(60)
<1>11. SumFunctionOnSet(H, D) = IF word.w = w THEN SumFunction(T) ELSE 0
  <2>1. CASE word.w = w
    <3>1. \A i \in D \ E : H[i] = 0
      BY <1>3
    <3>2. IntOn(H, E) /\ SumFunctionOnSet(H, D) = SumFunctionOnSet(H, E)
      BY <1>1, <1>8, <3>1, SumPart
    <3>3. \A i \in E : H[i] = T[i]
      BY <1>1, <1>3, <2>1
    <3>4. SumFunctionOnSet(H, E) = SumFunctionOnSet(T, E)
      BY <3>2, <3>3, SumSame
    <3> QED
      BY <1>3, <2>1, <3>2, <3>4 DEF SumFunction
  <2>2. CASE word.w # w
    <3>1. \A i \in D : H[i] = 0
      BY <1>3, <2>2
    <3>2. DOMAIN H = D
      BY DEF H
    <3>3. SumFunction(H) = 0
      BY <1>1, <3>1, <3>2, SumZero
    <3> QED
      BY <2>2, <3>2, <3>3 DEF SumFunction
  <2> QED
    BY <2>1, <2>2
<1> QED
  BY <1>5, <1>6, <1>10, <1>11 DEF T, E

LEMMA AddEqualKeeps ==
  ASSUME Typed, AddEqual
  PROVE  Keeps
<1>1. /\ phase = "merge" /\ phase' = "merge" /\ word # NoWord /\ word' = NoWord
      /\ output' = Append(output, Added)
      /\ UNCHANGED <<ifp, todo, msa_arr>>
  BY DEF AddEqual, Added
<1>2. fps' = [i \in DOMAIN fps |-> IF i \in EqualHeads THEN Tail(fps[i]) ELSE fps[i]]
  BY DEF AddEqual
<1> SUFFICES ASSUME NEW w \in Word PROVE InFlight(w)' = InFlight(w)
  BY DEF Keeps
<1> DEFINE sum == SumFunction([i \in EqualHeads |-> Head(fps[i]).n])
           x == IF word.w = w THEN sum ELSE 0
<1>3. /\ Added \in WCKV /\ Added.w = word.w /\ Added.n = word.n + sum
      /\ word.n \in Int /\ Added.n \in Int /\ output \in Seq(WCKV)
  <2>1. /\ word \in Entry /\ Added \in Entry /\ Added.w = word.w
        /\ Added.n = word.n + sum
    BY <1>1, AddedIsEntry DEF Typed
  <2>2. output \in Seq(Entry) /\ Entry \subseteq WCKV
    BY UsedIsCharacter DEF Typed, MergeTypes
  <2>3. Seq(Entry) \subseteq Seq(WCKV)
    BY <2>2, SeqMonotonic
  <2>4. word.n \in Int /\ Added.n \in Int
    BY <2>1 DEF Entry
  <2> HIDE DEF sum
  <2> QED
    BY <2>1, <2>2, <2>3, <2>4
<1>4. sum \in Int
  <2> DEFINE T == [i \in EqualHeads |-> Head(fps[i]).n]
  <2>1. IsFiniteSet(EqualHeads) /\ \A i \in EqualHeads : Head(fps[i]).n \in Int
    BY <1>1, AddedIsEntry DEF Typed
  <2>2. DOMAIN T = EqualHeads /\ IntOn(T, EqualHeads)
    BY <2>1 DEF IntOn
  <2> HIDE DEF T
  <2>3. SumFunctionOnSet(T, DOMAIN T) \in Int
    BY <2>2, SumType
  <2> QED
    BY <2>3 DEF T, SumFunction
<1>5. CountedAll(w, fps) = CountedAll(w, fps') + x
  BY <1>1, <1>2, EqualHeadsTaken DEF Typed
<1>6. CountedAll(w, fps') \in Int
  <2>1. MergeTypes'
    BY AddEqualMergeTypes DEF Typed
  <2>2. EntryFamily(fps')
    <3>1. Entry \subseteq WCKV
      BY UsedIsCharacter
    <3>2. Seq(Entry) \subseteq Seq(WCKV)
      BY <3>1, SeqMonotonic
    <3> QED
      BY <2>1, <3>2 DEF MergeTypes, EntryFamily
  <2> QED
    BY <2>2, CountedFamilySum
<1>7. Counting(w)' = 0
  <2>1. word' \in WCKV /\ word'.n = 0
    BY <1>1 DEF NoWord, WCKV, Word
  <2> QED
    BY <2>1, CountingNext
<1>8. /\ Counting(w) = IF word.w = w THEN word.n ELSE 0
      /\ CountedAll(w, fps) \in Int /\ Counted(w, output) \in Int
      /\ Unread(w) \in Int /\ OccAll(w, WordsIn(todo)) \in Int /\ OccAll(w, msa_arr) \in Int
  BY <1>1, InFlightParts DEF Typed
<1> HIDE DEF sum
<1>9. Counted(w, output') = Counted(w, output) + (Counting(w) + x)
  <2>1. Counted(w, output') = Counted(w, output) + (IF Added.w = w THEN Added.n ELSE 0)
    BY <1>1, <1>3, CountedFacts, ZenonT(60)
  <2> QED
    BY <1>3, <1>8, <2>1
<1>10. /\ Stored(w)' = Counted(w, output') + CountedAll(w, fps')
      /\ Stored(w) = Counted(w, output) + CountedAll(w, fps)
  BY <1>1 DEF Stored
<1>11. /\ Unread(w)' = Unread(w) /\ OccAll(w, WordsIn(todo))' = OccAll(w, WordsIn(todo))
       /\ OccAll(w, msa_arr)' = OccAll(w, msa_arr)
  BY <1>1 DEF Unread
<1>12. x \in Int /\ Counting(w) \in Int
  BY <1>3, <1>8, <1>4
<1> HIDE DEF x
<1>13. Stored(w)' = Stored(w) + Counting(w)
  BY <1>5, <1>6, <1>8, <1>9, <1>10, <1>12
<1>14. Stored(w) \in Int
  BY <1>8, <1>10
<1> QED
  BY <1>7, <1>8, <1>11, <1>12, <1>13, <1>14, InFlightSums

LEMMA FinishMergeKeeps ==
  ASSUME Typed, FinishMerge
  PROVE  Keeps
<1>1. /\ phase = "merge" /\ phase' = "done" /\ word' = NoWord
      /\ output' = IF word = NoWord THEN output ELSE Append(output, word)
      /\ UNCHANGED <<ifp, todo, msa_arr, fps>>
  BY DEF FinishMerge
<1> SUFFICES ASSUME NEW w \in Word PROVE InFlight(w)' = InFlight(w)
  BY DEF Keeps
<1>2. /\ Counting(w) = IF word.w = w THEN word.n ELSE 0
      /\ Counting(w) \in Int /\ (word = NoWord => Counting(w) = 0)
      /\ CountedAll(w, fps) \in Int /\ Counted(w, output) \in Int
      /\ Unread(w) \in Int /\ OccAll(w, WordsIn(todo)) \in Int /\ OccAll(w, msa_arr) \in Int
  BY <1>1, InFlightParts DEF Typed
<1>3. Counting(w)' = 0
  <2>1. word' \in WCKV /\ word'.n = 0
    BY <1>1 DEF NoWord, WCKV, Word
  <2> QED
    BY <2>1, CountingNext
<1>4. Counted(w, output') = Counted(w, output) + Counting(w)
  <2>1. CASE word = NoWord
    BY <1>1, <1>2, <2>1
  <2>2. CASE word # NoWord
    <3>1. output \in Seq(Entry) /\ Entry \subseteq WCKV /\ word \in Entry
      BY <2>2, UsedIsCharacter DEF Typed, MergeTypes
    <3>2. Seq(Entry) \subseteq Seq(WCKV)
      BY <3>1, SeqMonotonic
    <3>3. output' = Append(output, word) /\ output \in Seq(WCKV) /\ word \in WCKV
      BY <1>1, <2>2, <3>1, <3>2
    <3>4. Counted(w, Append(output, word)) = Counted(w, output) + (IF word.w = w THEN word.n ELSE 0)
      BY <3>3, CountedFacts
    <3> QED
      BY <1>2, <3>3, <3>4
  <2> QED
    BY <2>1, <2>2
<1>5. /\ Stored(w)' = Counted(w, output') + CountedAll(w, fps)
      /\ Stored(w) = Counted(w, output) + CountedAll(w, fps)
  BY <1>1 DEF Stored
<1>6. /\ Unread(w)' = Unread(w) /\ OccAll(w, WordsIn(todo))' = OccAll(w, WordsIn(todo))
      /\ OccAll(w, msa_arr)' = OccAll(w, msa_arr)
  BY <1>1 DEF Unread
<1> QED
  BY <1>2, <1>3, <1>4, <1>5, <1>6, InFlightSums

LEMMA NextConserves ==
  ASSUME OneThread, PlainText, EnoughDescriptors, Typed, InputInv, Conserved, [Next]_vars
  PROVE  Conserved'
<1>1. CASE Begin \/ BeginUncleared
  BY <1>1, BeginConserves
<1>2. CASE UNCHANGED vars
  BY <1>2 DEF vars, Conserved, InFlight, Extra
<1>3. CASE FailToOpen \/ FailToOpenOutput
  BY <1>3 DEF FailToOpen, FailToOpenOutput, Conserved, Busy
<1>4. CASE \/ \E f \in Files : OpenFile(f)
           \/ do_one_file \/ TakeMin \/ AddEqual \/ FinishMerge
  <2>1. phase \in Busy
    BY <1>4 DEF OpenFile, do_one_file, single_read_block, sort_one_msa, WriteNothing,
      BeginWrite, CanCreate, WriteWord, CloseTmp, TakeMin, AddEqual, FinishMerge, Busy
  <2>2. Keeps
    <3>1. CASE \E f \in Files : OpenFile(f)
      BY <3>1, OpenFileKeeps
    <3>2. CASE \E i \in Threads : single_read_block(i) \/ sort_one_msa(i)
      BY <3>2, ReadKeeps, SortKeeps
    <3>3. CASE WriteNothing \/ BeginWrite \/ WriteWord \/ CloseTmp
      BY <3>3, WriteNothingKeeps, BeginWriteKeeps, WriteWordKeeps, CloseTmpKeeps
    <3>4. CASE TakeMin \/ AddEqual \/ FinishMerge
      BY <3>4, TakeMinKeeps, AddEqualKeeps, FinishMergeKeeps
    <3> QED
      BY <1>4, <3>1, <3>2, <3>3, <3>4 DEF do_one_file
  <2>3. ASSUME NEW w \in Word PROVE Extra(w)' = Extra(w)
    <3>1. CASE (\E f \in Files : OpenFile(f)) \/ do_one_file
      <4>1. phase \notin {"merge", "done"} /\ phase' \notin {"merge", "done"}
        BY <3>1, ChunkDoneMeans DEF OpenFile, do_one_file, single_read_block, sort_one_msa,
          WriteNothing, BeginWrite, CanCreate, WriteWord, CloseTmp
      <4> QED
        BY <4>1 DEF Extra
    <3>2. CASE TakeMin \/ AddEqual \/ FinishMerge
      <4>1. /\ phase \in {"merge", "done"} /\ phase' \in {"merge", "done"} /\ stale' = stale
        BY <3>2 DEF TakeMin, AddEqual, FinishMerge
      <4> QED
        BY <4>1 DEF Extra
    <3> QED
      BY <1>4, <3>1, <3>2
  <2> QED
    BY <2>1, <2>2, <2>3, KeepsConserves
<1>5. CASE merge_sort
  BY <1>5, MergeSortConserves
<1> QED
  BY <1>1, <1>2, <1>3, <1>4, <1>5 DEF Next, main

LEMMA ConservedInvariant ==
  ASSUME OneThread, PlainText, EnoughDescriptors
  PROVE  Spec => [](InputInv /\ Conserved)
<1>1. Init => InputInv /\ Conserved
  BY DEF Init, InputInv, NothingHeld, NoFile, NoBlocks, Conserved, Busy
<1>2. Types /\ TmpTypes /\ StaleTypes /\ MergeTypes /\ InputInv /\ Conserved /\ [Next]_vars
        => InputInv' /\ Conserved'
  BY NextInput, NextConserves DEF Typed
<1> QED
  BY <1>1, <1>2, TypesInvariant, MergeTypesInvariant, PTL DEF Spec

(* Every occurrence of a word is counted once, at every stage, whatever    *)
(* the files, the sizes of the chunks and blocks, and the order of the     *)
(* directories: none is dropped at the end of a chunk or of a file, none   *)
(* is counted again, and what is counted beside them is in a file that     *)
(* rm -rf has left.                                                        *)
THEOREM EveryWordIsCounted ==
  ASSUME OneThread, PlainText, EnoughDescriptors
  PROVE  Spec => []EveryWordCounted
<1>1. AllWords \subseteq Word
  <2> SUFFICES ASSUME NEW f \in Files PROVE ToSet(Words(f)) \subseteq Word
    BY DEF AllWords
  <2>1. Words(f) \in Seq(Word)
    <3>1. WordFamily(WordsIn(Files)) /\ DOMAIN WordsIn(Files) = Files
          /\ WordsIn(Files)[f] = Words(f)
      BY WordsOfFiles
    <3> QED
      BY <3>1 DEF WordFamily
  <2> QED
    BY <2>1 DEF ToSet
<1>2. Conserved => EveryWordCounted
  BY <1>1 DEF Conserved, EveryWordCounted
<1> QED
  BY <1>2, ConservedInvariant, PTL

-----------------------------------------------------------------------------
(* The refinement of the tally.  The letters of its words are those of     *)
(* is_letter when no character of the input is one that only a signed char *)
(* makes a letter.                                                         *)
KnownLetters == CharIsSigned \/ \A c \in Used : c < 128

AllLetters == AsciiLetters \cup 128..255

LEMMA LettersAre ==
  ASSUME KnownLetters, NEW c \in Used
  PROVE  /\ is_letter(c) <=> c \in AllLetters
         /\ is_blank(c) <=> c \in Blanks
         /\ ~(c \in AllLetters /\ c \in Blanks)
<1>1. c \in Int /\ c <= 255
  BY UsedIsCharacter DEF Character
<1>2. c \in AllLetters <=> c \in AsciiLetters \/ c >= 128
  BY <1>1 DEF AllLetters
<1>3. c >= 128 => CharIsSigned
  BY <1>1 DEF KnownLetters
<1>4. is_letter(c) <=> c \in AllLetters
  BY <1>2, <1>3 DEF is_letter
<1>5. is_blank(c) <=> c \in Blanks
  BY DEF is_blank
<1>6. ~(c \in AllLetters /\ c \in Blanks)
  BY <1>2 DEF AsciiLetters, Blanks
<1> QED
  BY <1>4, <1>5, <1>6

(* A place where one_word may begin to look: not within a run of letters.  *)
Outside(line, i) ==
  i = 1 \/ i = End(line) \/ ~(is_letter(line[i - 1]) /\ is_letter(line[i]))

(* The words of the tally from i on that are w. *)
WordsAt(line, w, i) ==
  {p \in (i..Len(line)) \X (1..Len(line)) :
     Abstract!IsWord(line, p[1], p[2]) /\ SubSeq(line, p[1], p[2]) = w}

LEMMA TallyWord ==
  ASSUME KnownLetters, NEW line \in Seq(Used), NEW b \in 1..Len(line), NEW e \in 1..Len(line)
  PROVE  Abstract!IsWord(line, b, e) <=>
           \/ /\ b <= e /\ \A i \in b..e : is_letter(line[i])
              /\ b = 1 \/ ~is_letter(line[b - 1])
              /\ e = Len(line) \/ ~is_letter(line[e + 1])
           \/ b = e /\ ~is_letter(line[b]) /\ ~is_blank(line[b])
<1>1. \A i \in 1..Len(line) : line[i] \in Used
  OBVIOUS
<1>2. \A i \in 1..Len(line) : /\ is_letter(line[i]) <=> line[i] \in AllLetters
                              /\ is_blank(line[i]) <=> line[i] \in Blanks
  BY <1>1, LettersAre
<1>3. /\ b \in Nat /\ e \in Nat /\ Len(line) \in Nat
      /\ \A i \in b..e : i \in 1..Len(line)
      /\ b # 1 => b - 1 \in 1..Len(line)
      /\ e # Len(line) => e + 1 \in 1..Len(line)
  OBVIOUS
<1>4. Abstract!IsWord(line, b, e) <=>
        \/ /\ b <= e /\ \A i \in b..e : line[i] \in AllLetters
           /\ b = 1 \/ line[b - 1] \notin AllLetters
           /\ e = Len(line) \/ line[e + 1] \notin AllLetters
        \/ b = e /\ line[b] \notin AllLetters \cup Blanks
  BY DEF Abstract!IsWord, AllLetters
<1> HIDE DEF AllLetters
<1>5. (\A i \in b..e : line[i] \in AllLetters) <=> \A i \in b..e : is_letter(line[i])
  BY <1>2, <1>3
<1>6. /\ b # 1 => (line[b - 1] \in AllLetters <=> is_letter(line[b - 1]))
      /\ e # Len(line) => (line[e + 1] \in AllLetters <=> is_letter(line[e + 1]))
  BY <1>2, <1>3
<1>7. line[b] \notin AllLetters \cup Blanks <=> ~is_letter(line[b]) /\ ~is_blank(line[b])
  BY <1>2
<1> QED
  BY <1>4, <1>5, <1>6, <1>7

(* No word of the tally begins behind the last character that is no blank. *)
LEMMA NoMoreWords ==
  ASSUME KnownLetters, NEW line \in Seq(Used), NEW i \in 1..End(line),
         NEW b, b = End(line), Found(line, i, b, b), NEW w
  PROVE  WordsAt(line, w, i) = {}
<1>1. End(line) = Len(line) + 1 /\ Len(line) \in Nat
  BY DEF End
<1> SUFFICES ASSUME NEW p \in (i..Len(line)) \X (1..Len(line)),
                    Abstract!IsWord(line, p[1], p[2])
             PROVE  FALSE
  BY DEF WordsAt
<1> DEFINE c == p[1]
           d == p[2]
<1>2. c \in 1..Len(line) /\ d \in 1..Len(line) /\ c \in i..(b - 1)
  BY <1>1
<1>3. is_blank(line[c]) /\ line[c] \in Used
  BY <1>2 DEF Found
<1>4. ~is_letter(line[c])
  BY <1>3, LettersAre
<1>5. Abstract!IsWord(line, c, d)
  OBVIOUS
<1> HIDE DEF c, d
<1>6. c <= d /\ is_letter(line[c])
  <2>1. \/ c <= d /\ \A j \in c..d : is_letter(line[j])
        \/ ~is_blank(line[c])
    BY <1>2, <1>5, TallyWord
  <2> QED
    BY <1>2, <1>3, <2>1
<1> QED
  BY <1>4, <1>6

(* The next word of one_word is the next word of the tally. *)
LEMMA NextWord ==
  ASSUME KnownLetters, NEW line \in Seq(Used), NEW i \in 1..End(line), Outside(line, i),
         NEW b, NEW e, Found(line, i, b, e), e # b
  PROVE  /\ Outside(line, e) /\ e \in (i + 1)..End(line)
         /\ b \in i..Len(line) /\ e - 1 \in b..Len(line)
         /\ Abstract!IsWord(line, b, e - 1)
         /\ \A c \in i..Len(line), d \in 1..Len(line) :
              Abstract!IsWord(line, c, d) /\ c < e => c = b /\ d = e - 1
<1>1. End(line) = Len(line) + 1 /\ Len(line) \in Nat /\ i \in Nat
  BY DEF End
<1>2. /\ b \in i..End(line) /\ e \in b..End(line) /\ b # End(line)
      /\ \A j \in i..(b - 1) : is_blank(line[j])
      /\ ~is_blank(line[b])
      /\ \/ \A j \in b..(e - 1) : is_letter(line[j])
         \/ e = b + 1 /\ ~is_letter(line[b])
      /\ e = End(line) \/ ~is_letter(line[e]) \/ (e = b + 1 /\ ~is_letter(line[b]))
  BY DEF Found
<1>3. /\ b \in i..Len(line) /\ e - 1 \in b..Len(line) /\ e \in (i + 1)..End(line)
      /\ b \in 1..Len(line) /\ e - 1 \in 1..Len(line)
  BY <1>1, <1>2
<1>4. ASSUME NEW j \in i..(b - 1) PROVE is_blank(line[j]) /\ ~is_letter(line[j])
  <2>1. j \in 1..Len(line)
    BY <1>1, <1>3
  <2>2. line[j] \in Used /\ is_blank(line[j])
    BY <1>2, <2>1
  <2> QED
    BY <2>2, LettersAre
<1>5. b = 1 \/ ~is_letter(line[b - 1]) \/ ~is_letter(line[b])
  <2>1. CASE b = i
    BY <1>1, <1>2, <2>1 DEF Outside
  <2>2. CASE b # i
    <3>1. b - 1 \in i..(b - 1)
      BY <1>1, <1>3, <2>2
    <3> QED
      BY <1>4, <3>1
  <2> QED
    BY <2>1, <2>2
<1>6. Outside(line, e)
  <2>1. CASE e = b + 1 /\ ~is_letter(line[b])
    BY <1>3, <2>1 DEF Outside
  <2>2. CASE ~(e = b + 1 /\ ~is_letter(line[b]))
    BY <1>2, <2>2 DEF Outside
  <2> QED
    BY <2>1, <2>2
<1>7. CASE is_letter(line[b])
  <2>1. /\ \A j \in b..(e - 1) : is_letter(line[j])
        /\ e = End(line) \/ ~is_letter(line[e])
        /\ b = 1 \/ ~is_letter(line[b - 1])
    BY <1>2, <1>5, <1>7
  <2>2. Abstract!IsWord(line, b, e - 1)
    <3>1. e - 1 = Len(line) \/ ~is_letter(line[(e - 1) + 1])
      BY <1>1, <1>3, <2>1
    <3>2. b <= e - 1
      BY <1>3
    <3> DEFINE z == e - 1
    <3>3. /\ b <= z /\ \A j \in b..z : is_letter(line[j])
          /\ b = 1 \/ ~is_letter(line[b - 1])
          /\ z = Len(line) \/ ~is_letter(line[z + 1])
          /\ z \in 1..Len(line)
      BY <1>3, <2>1, <3>1, <3>2
    <3> HIDE DEF z
    <3>4. Abstract!IsWord(line, b, z)
      BY <1>3, <3>3, TallyWord
    <3> QED
      BY <3>4 DEF z
  <2>3. ASSUME NEW c \in i..Len(line), NEW d \in 1..Len(line),
               Abstract!IsWord(line, c, d), c < e
        PROVE  c = b /\ d = e - 1
    <3>1. c \in 1..Len(line) /\ c \in Nat /\ d \in Nat
      BY <1>1
    <3>2. \/ /\ c <= d /\ \A j \in c..d : is_letter(line[j])
             /\ c = 1 \/ ~is_letter(line[c - 1])
             /\ d = Len(line) \/ ~is_letter(line[d + 1])
          \/ c = d /\ ~is_letter(line[c]) /\ ~is_blank(line[c])
      BY <2>3, <3>1, TallyWord
    <3>3. ~(c < b)
      <4> SUFFICES ASSUME c < b PROVE FALSE
        OBVIOUS
      <4>1. c \in i..(b - 1)
        BY <1>1, <1>3, <3>1
      <4>2. is_blank(line[c]) /\ ~is_letter(line[c])
        BY <1>4, <4>1
      <4> QED
        BY <3>1, <3>2, <4>2
    <3>4. is_letter(line[c])
      <4>1. c \in b..(e - 1)
        BY <1>1, <1>3, <2>3, <3>1, <3>3
      <4> QED
        BY <2>1, <4>1
    <3>5. /\ c <= d /\ \A j \in c..d : is_letter(line[j])
          /\ c = 1 \/ ~is_letter(line[c - 1])
          /\ d = Len(line) \/ ~is_letter(line[d + 1])
      BY <3>2, <3>4
    <3>6. c = b
      <4> SUFFICES ASSUME c # b PROVE FALSE
        OBVIOUS
      <4>1. c - 1 \in b..(e - 1) /\ c # 1
        BY <1>1, <1>3, <2>3, <3>1, <3>3
      <4> QED
        BY <2>1, <3>5, <4>1
    <3>7. ~(d < e - 1)
      <4> SUFFICES ASSUME d < e - 1 PROVE FALSE
        OBVIOUS
      <4>1. d + 1 \in b..(e - 1) /\ d # Len(line)
        BY <1>1, <1>3, <3>1, <3>5, <3>6
      <4> QED
        BY <2>1, <3>5, <4>1
    <3>8. ~(d > e - 1)
      <4> SUFFICES ASSUME d > e - 1 PROVE FALSE
        OBVIOUS
      <4>1. e \in c..d /\ e # End(line)
        BY <1>1, <1>3, <3>1, <3>6
      <4> QED
        BY <2>1, <3>5, <4>1
    <3> QED
      BY <1>3, <3>1, <3>6, <3>7, <3>8
  <2> QED
    BY <1>3, <1>6, <2>2, <2>3
<1>8. CASE ~is_letter(line[b])
  <2>1. e = b + 1
    <3>1. \/ \A j \in b..(e - 1) : is_letter(line[j])
          \/ e = b + 1
      BY <1>2
    <3>2. b \in b..(e - 1)
      BY <1>3
    <3> QED
      BY <1>8, <3>1, <3>2
  <2>2. Abstract!IsWord(line, b, e - 1)
    <3>1. e - 1 = b
      BY <1>3, <2>1
    <3>2. Abstract!IsWord(line, b, b)
      BY <1>2, <1>3, <1>8, TallyWord
    <3> QED
      BY <3>1, <3>2
  <2>3. ASSUME NEW c \in i..Len(line), NEW d \in 1..Len(line),
               Abstract!IsWord(line, c, d), c < e
        PROVE  c = b /\ d = e - 1
    <3>1. c \in 1..Len(line) /\ c \in Nat /\ d \in Nat
      BY <1>1
    <3>2. \/ c <= d /\ \A j \in c..d : is_letter(line[j])
          \/ c = d /\ ~is_letter(line[c]) /\ ~is_blank(line[c])
      BY <2>3, <3>1, TallyWord
    <3>3. ~(c < b)
      <4> SUFFICES ASSUME c < b PROVE FALSE
        OBVIOUS
      <4>1. c \in i..(b - 1)
        BY <1>1, <1>3, <3>1
      <4>2. is_blank(line[c]) /\ ~is_letter(line[c])
        BY <1>4, <4>1
      <4> QED
        BY <3>1, <3>2, <4>2
    <3>4. c = b
      BY <1>3, <2>1, <2>3, <3>1, <3>3
    <3> QED
      BY <1>3, <1>8, <2>1, <3>1, <3>2, <3>4
  <2> QED
    BY <1>3, <1>6, <2>2, <2>3
<1> QED
  BY <1>7, <1>8

(* How often a word occurs in a line. *)
LEMMA WordsInLine ==
  ASSUME KnownLetters, NEW line \in Seq(Used), NEW w
  PROVE  /\ IsFiniteSet(WordsAt(line, w, 1))
         /\ Occ(w, lineToMsa(line)) = Cardinality(WordsAt(line, w, 1))
<1>1. PICK words \in [1..End(line) -> Seq(Seq(Used))] :
        Splits(words, line) /\ lineToMsa(line) = words[1]
  BY LineSplits
<1>2. End(line) = Len(line) + 1 /\ Len(line) \in Nat
  BY DEF End
<1> DEFINE D == 1..End(line)
           mu == [i \in D |-> End(line) - i]
           Right(i) == /\ IsFiniteSet(WordsAt(line, w, i))
                       /\ Occ(w, words[i]) = Cardinality(WordsAt(line, w, i))
           H == {i \in D : Outside(line, i) => Right(i)}
<1>3. mu \in [D -> Nat] /\ \A i \in D : mu[i] = End(line) - i
  BY <1>2
<1>4. ASSUME NEW i \in D, \A j \in D : mu[j] < mu[i] => j \in H
      PROVE  i \in H
  <2> SUFFICES ASSUME Outside(line, i) PROVE Right(i)
    OBVIOUS
  <2> DEFINE b == word_begin(line, i)
             e == WordEnd(line, b)
  <2>1. Found(line, i, b, e)
    BY WordFound
  <2>2. words[i] = IF e = b THEN << >> ELSE <<SubSeq(line, b, e - 1)>> \o words[e]
    BY <1>1 DEF Splits
  <2> HIDE DEF b, e
  <2>3. CASE e = b
    <3>1. b = End(line)
      BY <2>1, <2>3 DEF Found
    <3>2. WordsAt(line, w, i) = {}
      BY <2>1, <2>3, <3>1, NoMoreWords
    <3>3. Occ(w, words[i]) = 0
      BY <2>2, <2>3, OccFacts
    <3>4. IsFiniteSet({}) /\ Cardinality({}) = 0
      BY FS_EmptySet
    <3> QED
      BY <3>2, <3>3, <3>4
  <2>4. CASE e # b
    <3>1. /\ Outside(line, e) /\ e \in (i + 1)..End(line)
          /\ b \in i..Len(line) /\ e - 1 \in b..Len(line)
          /\ Abstract!IsWord(line, b, e - 1)
          /\ \A c \in i..Len(line), d \in 1..Len(line) :
               Abstract!IsWord(line, c, d) /\ c < e => c = b /\ d = e - 1
      BY <2>1, <2>4, NextWord
    <3>2. Right(e)
      <4>1. e \in D /\ mu[e] < mu[i]
        BY <1>2, <1>3, <3>1
      <4>2. e \in H
        BY <1>4, <4>1
      <4> QED
        BY <3>1, <4>2
    <3> DEFINE v == SubSeq(line, b, e - 1)
               p == <<b, e - 1>>
               A == WordsAt(line, w, e)
    <3>3. Occ(w, words[i]) = (IF v = w THEN 1 ELSE 0) + Occ(w, words[e])
      <4>1. v \in Seq(Used)
        <5>1. b \in 1..(Len(line) + 1) /\ e - 1 \in (b - 1)..Len(line)
          BY <1>2, <3>1
        <5> QED
          BY <5>1, SubSeqProperties
      <4>2. words[e] \in Seq(Seq(Used)) /\ words[e] \in Seq(Word) /\ <<v>> \in Seq(Word)
        <5>1. e \in D
          BY <1>2, <3>1
        <5>2. Seq(Used) \subseteq Word
          BY UsedIsCharacter DEF UsedWord
        <5>3. Seq(Seq(Used)) \subseteq Seq(Word)
          BY <5>2, SeqMonotonic
        <5>4. v \in Word
          BY <4>1, <5>2
        <5> HIDE DEF v
        <5> QED
          BY <1>1, <5>1, <5>3, <5>4
      <4>3. words[i] = <<v>> \o words[e]
        BY <2>2, <2>4
      <4> HIDE DEF v
      <4>4. Occ(w, <<v>> \o words[e]) = Occ(w, <<v>>) + Occ(w, words[e])
        BY <4>2, OccFacts
      <4>5. Occ(w, <<v>>) = IF v = w THEN 1 ELSE 0
        BY OccFacts
      <4> QED
        BY <4>3, <4>4, <4>5
    <3>4. p \notin A
      BY <1>2, <3>1 DEF WordsAt
    <3>5. WordsAt(line, w, i) = A \cup (IF v = w THEN {p} ELSE {})
      <4>1. ASSUME NEW q \in WordsAt(line, w, i) PROVE q \in A \cup (IF v = w THEN {p} ELSE {})
        <5>1. PICK c \in i..Len(line), d \in 1..Len(line) :
                /\ q = <<c, d>> /\ Abstract!IsWord(line, c, d) /\ SubSeq(line, c, d) = w
          <6>1. /\ q \in (i..Len(line)) \X (1..Len(line))
                /\ Abstract!IsWord(line, q[1], q[2]) /\ SubSeq(line, q[1], q[2]) = w
            BY DEF WordsAt
          <6>2. q = <<q[1], q[2]>> /\ q[1] \in i..Len(line) /\ q[2] \in 1..Len(line)
            BY <6>1
          <6> QED
            BY <6>1, <6>2
        <5>2. CASE c < e
          <6>1. c = b /\ d = e - 1
            BY <3>1, <5>1, <5>2
          <6> QED
            BY <5>1, <6>1
        <5>3. CASE ~(c < e)
          <6>1. c \in e..Len(line)
            BY <1>2, <3>1, <5>3
          <6> QED
            BY <5>1, <6>1 DEF WordsAt
        <5> QED
          BY <5>2, <5>3
      <4>2. ASSUME NEW q \in A PROVE q \in WordsAt(line, w, i)
        <5>1. \A c \in e..Len(line) : c \in i..Len(line)
          BY <1>2, <3>1
        <5> QED
          BY <5>1 DEF WordsAt
      <4>3. ASSUME v = w PROVE p \in WordsAt(line, w, i)
        <5>1. b \in i..Len(line) /\ e - 1 \in 1..Len(line)
          BY <1>2, <3>1
        <5> QED
          BY <3>1, <4>3, <5>1 DEF WordsAt
      <4> HIDE DEF p, v, A
      <4> QED
        BY <4>1, <4>2, <4>3
    <3> HIDE DEF p, v, A
    <3>6. IsFiniteSet(A) /\ Cardinality(A) = Occ(w, words[e]) /\ Cardinality(A) \in Nat
      BY <3>2, FS_CardinalityType DEF A
    <3>7. IsFiniteSet(A \cup {p}) /\ Cardinality(A \cup {p}) = Cardinality(A) + 1
      BY <3>4, <3>6, FS_AddElement
    <3>8. CASE v = w
      BY <3>3, <3>5, <3>6, <3>7, <3>8
    <3>9. CASE v # w
      BY <3>3, <3>5, <3>6, <3>9
    <3> QED
      BY <3>8, <3>9
  <2> QED
    BY <2>3, <2>4
<1>5. H = D
  <2> HIDE DEF mu, H, D
  <2>1. H \in SUBSET D
    BY DEF H
  <2>2. mu \in [D -> Nat]
    BY <1>3
  <2> QED
    BY <1>4, <2>1, <2>2, MeasureInduction
<1> HIDE DEF Right
<1>6. 1 \in D /\ Outside(line, 1)
  BY <1>2 DEF Outside
<1>7. Right(1)
  BY <1>5, <1>6
<1> QED
  BY <1>1, <1>7 DEF Right

(* How often it occurs in a file, *)
LinePlaces(f, w) == [l \in 1..Len(Text[f]) |-> WordsAt(Text[f][l], w, 1)]

PlacesOf(f, w) == Tagged(1..Len(Text[f]), LinePlaces(f, w))

LEMMA WordsInFile ==
  ASSUME KnownLetters, NEW f \in Files, NEW w
  PROVE  /\ IsFiniteSet(PlacesOf(f, w))
         /\ Occ(w, Words(f)) = Cardinality(PlacesOf(f, w))
<1> DEFINE s == Text[f]
           n == Len(s)
           bs == [k \in DOMAIN s |-> lineToMsa(s[k])]
<1>1. /\ n \in Nat /\ DOMAIN s = 1..n /\ \A l \in 1..n : s[l] \in Seq(Used)
  BY TextIsUsed
<1>2. ASSUME NEW line \in Seq(Used) PROVE lineToMsa(line) \in Seq(Seq(Used))
  <2>1. PICK words \in [1..End(line) -> Seq(Seq(Used))] : lineToMsa(line) = words[1]
    BY LineSplits
  <2>2. 1 \in 1..End(line)
    BY DEF End
  <2> QED
    BY <2>1, <2>2
<1>3. bs \in [1..n -> Seq(Seq(Used))] /\ \A l \in 1..n : bs[l] = lineToMsa(s[l])
  BY <1>1, <1>2
<1>4. Words(f) = FlattenSeq(bs)
  BY DEF Words, WordsOf
<1> HIDE DEF n, bs, s
<1>5. bs \in Seq(Seq(Seq(Used))) /\ Len(bs) = n
  BY <1>1, <1>3, FunctionIsSequence
<1>6. PICK g : Flattens(g, bs, Seq(Used)) /\ FlattenSeq(bs) = g[n]
  BY <1>5, FlattenExists
<1>7. /\ g[0] = << >> /\ \A k \in 0..n : g[k] \in Seq(Seq(Used))
      /\ \A k \in 0..(n - 1) : g[k + 1] = g[k] \o bs[k + 1]
  BY <1>5, <1>6 DEF Flattens
<1>8. \A x \in Seq(Seq(Used)) : x \in Seq(Word)
  <2>1. Seq(Used) \subseteq Word
    BY UsedIsCharacter DEF UsedWord
  <2> QED
    BY <2>1, SeqMonotonic
<1> DEFINE S == LinePlaces(f, w)
           C == [l \in 1..n |-> Occ(w, bs[l])]
<1>9. \A l \in 1..n : S[l] = WordsAt(s[l], w, 1)
  BY DEF LinePlaces, s, n
<1>10. \A l \in 1..n : C[l] = Occ(w, bs[l])
  OBVIOUS
<1> HIDE DEF S, C
<1>11. \A l \in 1..n : IsFiniteSet(S[l]) /\ C[l] = Cardinality(S[l])
  BY <1>1, <1>3, <1>9, <1>10, WordsInLine
<1>12. IsFiniteSet(1..n)
  BY <1>1, FS_Interval
<1>13. /\ IntOn(C, 1..n) /\ IsFiniteSet(Tagged(1..n, S))
       /\ Cardinality(Tagged(1..n, S)) = SumFunctionOnSet(C, 1..n)
  BY <1>11, <1>12, TaggedSize
<1> DEFINE P == {k \in Nat : k <= n => Occ(w, g[k]) = SumFunctionOnSet(C, 1..k)}
<1>14. 0 \in P
  <2>1. 1..0 = {}
    OBVIOUS
  <2> QED
    BY <1>7, <2>1, SumEmpty, OccFacts
<1>15. ASSUME NEW k \in Nat, k \in P PROVE k + 1 \in P
  <2> SUFFICES ASSUME k + 1 <= n PROVE Occ(w, g[k + 1]) = SumFunctionOnSet(C, 1..(k + 1))
    OBVIOUS
  <2>1. k \in 0..(n - 1) /\ k \in 0..n /\ k + 1 \in 1..n /\ k <= n
    BY <1>1
  <2>2. Occ(w, g[k]) = SumFunctionOnSet(C, 1..k)
    BY <1>15, <2>1
  <2>3. g[k + 1] = g[k] \o bs[k + 1] /\ g[k] \in Seq(Word) /\ bs[k + 1] \in Seq(Word)
    BY <1>3, <1>7, <1>8, <2>1
  <2>4. Occ(w, g[k] \o bs[k + 1]) = Occ(w, g[k]) + Occ(w, bs[k + 1])
    BY <2>3, OccFacts
  <2>5. IntOn(C, 1..(k + 1))
    <3>1. 1..(k + 1) \subseteq 1..n
      BY <1>1, <2>1
    <3> QED
      BY <1>13, <3>1, FS_Subset DEF IntOn
  <2>6. (1..(k + 1)) \ {k + 1} = 1..k /\ k + 1 \in 1..(k + 1)
    OBVIOUS
  <2>7. SumFunctionOnSet(C, 1..(k + 1)) = C[k + 1] + SumFunctionOnSet(C, 1..k)
    BY <2>5, <2>6, SumRemove
  <2>8. Occ(w, g[k]) \in Nat /\ Occ(w, bs[k + 1]) \in Nat
    BY <2>3, OccFacts
  <2> QED
    BY <1>10, <2>1, <2>2, <2>3, <2>4, <2>7, <2>8
<1>16. n \in P
  <2>1. Nat \subseteq P
    <3>1. \A k \in Nat : k \in P => k + 1 \in P
      BY <1>15
    <3> HIDE DEF P
    <3> QED
      BY <1>14, <3>1, SetInduction
  <2> QED
    BY <1>1, <2>1
<1>17. Occ(w, g[n]) = SumFunctionOnSet(C, 1..n)
  BY <1>1, <1>16
<1>18. PlacesOf(f, w) = Tagged(1..n, S)
  BY DEF PlacesOf, S, n, s
<1> QED
  BY <1>4, <1>6, <1>13, <1>17, <1>18

(* and in all files. *)
Everywhere(w) == Tagged(Files, [f \in Files |-> PlacesOf(f, w)])

LEMMA WordsInFiles ==
  ASSUME KnownLetters, NEW w
  PROVE  /\ IsFiniteSet(Everywhere(w))
         /\ OccAll(w, WordsIn(Files)) = Cardinality(Everywhere(w))
<1> DEFINE S == [f \in Files |-> PlacesOf(f, w)]
           C == OccOf(w, WordsIn(Files))
<1>1. /\ WordFamily(WordsIn(Files)) /\ DOMAIN WordsIn(Files) = Files
      /\ \A f \in Files : WordsIn(Files)[f] = Words(f)
  BY WordsOfFiles
<1>2. /\ DOMAIN C = Files /\ OccAll(w, WordsIn(Files)) = SumFunction(C)
      /\ \A f \in Files : C[f] = Occ(w, WordsIn(Files)[f])
  BY <1>1, OccFamilySum
<1>3. \A f \in Files : S[f] = PlacesOf(f, w)
  OBVIOUS
<1> HIDE DEF S, C
<1>4. \A f \in Files : IsFiniteSet(S[f]) /\ C[f] = Cardinality(S[f])
  BY <1>1, <1>2, <1>3, WordsInFile
<1>5. IsFiniteSet(Files)
  BY TextAssumption
<1>6. /\ IsFiniteSet(Tagged(Files, S))
      /\ Cardinality(Tagged(Files, S)) = SumFunctionOnSet(C, Files)
  BY <1>4, <1>5, TaggedSize
<1> QED
  BY <1>2, <1>6 DEF Everywhere, S, SumFunction

(* The occurrences of the tally are these.                                 *)
At(f, l, b, e, w) ==
  /\ f \in Files /\ l \in 1..Len(Text[f])
  /\ b \in 1..Len(Text[f][l]) /\ e \in 1..Len(Text[f][l])
  /\ Abstract!IsWord(Text[f][l], b, e) /\ SubSeq(Text[f][l], b, e) = w

OccurrencesOf(w) ==
  {o \in Abstract!Occurrences : Abstract!WordAt(Text[o[1]], o[2]) = w}

LEMMA EverywhereIs ==
  ASSUME NEW w, NEW t
  PROVE  t \in Everywhere(w) <=>
           \E f, l, b, e : t = <<f, <<l, <<b, e>>>>>> /\ At(f, l, b, e, w)
<1>1. ASSUME t \in Everywhere(w)
      PROVE  \E f, l, b, e : t = <<f, <<l, <<b, e>>>>>> /\ At(f, l, b, e, w)
  <2>1. PICK f, p : t = <<f, p>> /\ f \in Files /\ p \in PlacesOf(f, w)
    BY <1>1 DEF Everywhere, Tagged
  <2>2. PICK l, q : /\ p = <<l, q>> /\ l \in 1..Len(Text[f])
                    /\ q \in WordsAt(Text[f][l], w, 1)
    BY <2>1 DEF PlacesOf, LinePlaces, Tagged
  <2>3. /\ q \in (1..Len(Text[f][l])) \X (1..Len(Text[f][l]))
        /\ Abstract!IsWord(Text[f][l], q[1], q[2]) /\ SubSeq(Text[f][l], q[1], q[2]) = w
    BY <2>2 DEF WordsAt
  <2>4. q = <<q[1], q[2]>>
    BY <2>3
  <2>5. At(f, l, q[1], q[2], w)
    BY <2>1, <2>2, <2>3 DEF At
  <2> QED
    BY <2>1, <2>2, <2>4, <2>5
<1>2. ASSUME NEW f, NEW l, NEW b, NEW e, t = <<f, <<l, <<b, e>>>>>>, At(f, l, b, e, w)
      PROVE  t \in Everywhere(w)
  <2>1. <<b, e>> \in WordsAt(Text[f][l], w, 1) /\ f \in Files /\ l \in 1..Len(Text[f])
    BY <1>2 DEF At, WordsAt
  <2>2. <<l, <<b, e>>>> \in PlacesOf(f, w)
    BY <2>1 DEF PlacesOf, LinePlaces, Tagged
  <2> QED
    BY <1>2, <2>1, <2>2 DEF Everywhere, Tagged
<1> QED
  BY <1>1, <1>2

LEMMA OccurrencesAre ==
  ASSUME NEW w, NEW o
  PROVE  o \in OccurrencesOf(w) <=>
           \E f, l, b, e : o = <<f, <<l, b, e>>>> /\ At(f, l, b, e, w)
<1>0. /\ DOMAIN Text = Files
      /\ \A f \in Files : DOMAIN Text[f] = 1..Len(Text[f])
      /\ \A f \in Files : \A l \in 1..Len(Text[f]) : DOMAIN Text[f][l] = 1..Len(Text[f][l])
  <2>1. DOMAIN Text = Files
    BY TextAssumption
  <2>2. ASSUME NEW f \in Files
        PROVE  /\ DOMAIN Text[f] = 1..Len(Text[f])
               /\ \A l \in 1..Len(Text[f]) : DOMAIN Text[f][l] = 1..Len(Text[f][l])
    <3>1. Text[f] \in Seq(Seq(Used))
      BY TextIsUsed
    <3>2. \A l \in 1..Len(Text[f]) : Text[f][l] \in Seq(Used)
      BY <3>1
    <3> QED
      BY <3>1, <3>2
  <2> QED
    BY <2>1, <2>2
<1>1. ASSUME o \in OccurrencesOf(w)
      PROVE  \E f, l, b, e : o = <<f, <<l, b, e>>>> /\ At(f, l, b, e, w)
  <2>1. o \in Abstract!Occurrences /\ Abstract!WordAt(Text[o[1]], o[2]) = w
    BY <1>1 DEF OccurrencesOf
  <2>2. PICK f \in DOMAIN Text :
          \E q \in Abstract!Places(Text[f]) :
            o = <<f, q>> /\ Abstract!IsWord(Text[f][q[1]], q[2], q[3])
    BY <2>1 DEF Abstract!Occurrences
  <2>3. PICK q \in Abstract!Places(Text[f]) :
          o = <<f, q>> /\ Abstract!IsWord(Text[f][q[1]], q[2], q[3])
    BY <2>2
  <2>4. PICK l \in DOMAIN Text[f] :
          q \in {<<l, b, e>> : b \in DOMAIN Text[f][l], e \in DOMAIN Text[f][l]}
    BY <2>3 DEF Abstract!Places
  <2>5. PICK b, e : q = <<l, b, e>> /\ b \in DOMAIN Text[f][l] /\ e \in DOMAIN Text[f][l]
    BY <2>4
  <2>6. Abstract!WordAt(Text[f], q) = w /\ Abstract!WordAt(Text[f], q) = SubSeq(Text[f][l], b, e)
    BY <2>1, <2>3, <2>5 DEF Abstract!WordAt
  <2>7. Abstract!IsWord(Text[f][l], b, e)
    BY <2>3, <2>5
  <2>8. At(f, l, b, e, w)
    BY <1>0, <2>2, <2>5, <2>6, <2>7, <2>4 DEF At
  <2> QED
    BY <2>3, <2>5, <2>8
<1>2. ASSUME NEW f, NEW l, NEW b, NEW e, o = <<f, <<l, b, e>>>>, At(f, l, b, e, w)
      PROVE  o \in OccurrencesOf(w)
  <2> DEFINE q == <<l, b, e>>
  <2>1. /\ f \in DOMAIN Text /\ l \in DOMAIN Text[f] /\ b \in DOMAIN Text[f][l]
        /\ e \in DOMAIN Text[f][l]
        /\ Abstract!IsWord(Text[f][l], b, e) /\ SubSeq(Text[f][l], b, e) = w
    BY <1>0, <1>2 DEF At
  <2>2. q \in Abstract!Places(Text[f])
    BY <2>1 DEF Abstract!Places
  <2>3. Abstract!IsWord(Text[f][q[1]], q[2], q[3])
    BY <2>1
  <2>4. Abstract!WordAt(Text[f], q) = w
    BY <2>1 DEF Abstract!WordAt
  <2>5. o = <<f, q>>
    BY <1>2
  <2> HIDE DEF q
  <2>6. o \in Abstract!Occurrences
    BY <2>1, <2>2, <2>3, <2>5 DEF Abstract!Occurrences
  <2>7. Abstract!WordAt(Text[o[1]], o[2]) = w
    BY <2>4, <2>5
  <2> QED
    BY <2>6, <2>7 DEF OccurrencesOf
<1> QED
  BY <1>1, <1>2

LEMMA SameCardinality == \A S : Abstract!Cardinality(S) = Cardinality(S)
BY Zenon DEF Abstract!Cardinality, Cardinality

LEMMA TallyCounts ==
  ASSUME KnownLetters, NEW w
  PROVE  /\ IsFiniteSet(OccurrencesOf(w))
         /\ Abstract!CountOf(w) = Cardinality(OccurrencesOf(w))
         /\ OccAll(w, WordsIn(Files)) = Abstract!CountOf(w)
<1>1. Abstract!CountOf(w) = Cardinality(OccurrencesOf(w))
  BY SameCardinality, Zenon DEF Abstract!CountOf, OccurrencesOf
<1> DEFINE h == [t \in Everywhere(w) |-> <<t[1], <<t[2][1], t[2][2][1], t[2][2][2]>>>>]
<1>2. ASSUME NEW f, NEW l, NEW b, NEW e, At(f, l, b, e, w)
      PROVE  h[<<f, <<l, <<b, e>>>>>>] = <<f, <<l, b, e>>>>
  <2>1. <<f, <<l, <<b, e>>>>>> \in Everywhere(w)
    BY <1>2, EverywhereIs
  <2> QED
    BY <2>1
<1>3. ASSUME NEW t \in Everywhere(w)
      PROVE  h[t] \in OccurrencesOf(w)
  <2>1. PICK f, l, b, e : t = <<f, <<l, <<b, e>>>>>> /\ At(f, l, b, e, w)
    BY EverywhereIs
  <2>2. h[t] = <<f, <<l, b, e>>>>
    BY <1>2, <2>1
  <2> HIDE DEF h
  <2> QED
    BY <2>1, <2>2, OccurrencesAre
<1>4. ASSUME NEW t \in Everywhere(w), NEW u \in Everywhere(w), h[t] = h[u]
      PROVE  t = u
  <2>1. PICK f, l, b, e : t = <<f, <<l, <<b, e>>>>>> /\ At(f, l, b, e, w)
    BY EverywhereIs
  <2>2. PICK g, m, c, d : u = <<g, <<m, <<c, d>>>>>> /\ At(g, m, c, d, w)
    BY EverywhereIs
  <2>3. h[t] = <<f, <<l, b, e>>>> /\ h[u] = <<g, <<m, c, d>>>>
    BY <1>2, <2>1, <2>2
  <2>4. f = g /\ l = m /\ b = c /\ e = d
    BY <1>4, <2>3
  <2> QED
    BY <2>1, <2>2, <2>4
<1>5. ASSUME NEW o \in OccurrencesOf(w)
      PROVE  \E t \in Everywhere(w) : h[t] = o
  <2>1. PICK f, l, b, e : o = <<f, <<l, b, e>>>> /\ At(f, l, b, e, w)
    BY OccurrencesAre
  <2>2. <<f, <<l, <<b, e>>>>>> \in Everywhere(w)
    BY <2>1, EverywhereIs
  <2> QED
    BY <1>2, <2>1, <2>2
<1>6. h \in Bijection(Everywhere(w), OccurrencesOf(w))
  <2>1. h \in [Everywhere(w) -> OccurrencesOf(w)]
    BY <1>3
  <2> HIDE DEF h
  <2> QED
    BY <1>4, <1>5, <2>1 DEF Bijection, Injection, Surjection, IsInjective
<1>7. IsFiniteSet(Everywhere(w)) /\ OccAll(w, WordsIn(Files)) = Cardinality(Everywhere(w))
  BY WordsInFiles
<1>8. ExistsBijection(Everywhere(w), OccurrencesOf(w))
  BY <1>6 DEF ExistsBijection
<1>9. /\ IsFiniteSet(OccurrencesOf(w))
      /\ Cardinality(OccurrencesOf(w)) = Cardinality(Everywhere(w))
  BY <1>7, <1>8, FS_Bijection
<1> QED
  BY <1>1, <1>7, <1>9

(* The count of a word in ascending entries is that of its entry. *)
LEMMA CountedOne ==
  ASSUME NEW s \in Seq(Entry), Ascending(s), NEW w
  PROVE  /\ \A i \in DOMAIN s : s[i].w = w => Counted(w, s) = s[i].n
         /\ (\A i \in DOMAIN s : s[i].w # w) => Counted(w, s) = 0
<1> DEFINE n == Len(s)
           c == Weights(w, s)
<1>1. /\ s \in Seq(WCKV) /\ n \in Nat /\ DOMAIN s = 1..n
      /\ \A i \in 1..n : s[i] \in Entry /\ s[i].w \in Word /\ s[i].n \in Nat
  <2>1. Entry \subseteq WCKV
    BY UsedIsCharacter
  <2>2. s \in Seq(WCKV)
    BY <2>1, SeqMonotonic
  <2>3. \A i \in 1..n : s[i] \in Entry
    OBVIOUS
  <2>4. \A i \in 1..n : s[i].w \in Word /\ s[i].n \in Nat
    BY <2>3, UsedIsCharacter
  <2> QED
    BY <2>2, <2>3, <2>4
<1>2. /\ c \in Seq(Int) /\ Len(c) = n /\ Counted(w, s) = Total(c)
      /\ \A k \in 1..n : c[k] = IF s[k].w = w THEN s[k].n ELSE 0
  BY <1>1, CountedIs
<1> HIDE DEF c, n
<1>3. IntOn(c, 1..n) /\ Counted(w, s) = SumFunctionOnSet(c, 1..n) /\ DOMAIN c = 1..n
  BY <1>2, TotalType DEF Total
<1>4. ASSUME NEW i \in DOMAIN s, s[i].w = w PROVE Counted(w, s) = s[i].n
  <2>1. ASSUME NEW j \in (1..n) \ {i} PROVE c[j] = 0
    <3>1. s[j].w # w
      <4>1. j < i \/ i < j
        BY <1>1
      <4>2. Before(s[j].w, s[i].w) \/ Before(s[i].w, s[j].w)
        BY <1>1, <4>1 DEF Ascending
      <4>3. s[i].w \in Word /\ s[j].w \in Word
        BY <1>1
      <4> QED
        BY <1>4, <4>2, <4>3, WordOrder
    <3> QED
      BY <1>2, <3>1
  <2>2. {i} \in SUBSET (1..n)
    BY <1>1
  <2>3. IntOn(c, {i}) /\ SumFunctionOnSet(c, 1..n) = SumFunctionOnSet(c, {i})
    BY <1>3, <2>1, <2>2, SumPart, ZenonT(60)
  <2>4. SumFunctionOnSet(c, {i}) = c[i] + SumFunctionOnSet(c, {i} \ {i})
    BY <2>3, SumRemove
  <2>5. {i} \ {i} = {} /\ SumFunctionOnSet(c, {}) = 0
    BY SumEmpty
  <2>6. c[i] = s[i].n /\ c[i] \in Int
    BY <1>1, <1>2, <1>4
  <2>7. SumFunctionOnSet(c, {i}) = c[i] + 0
    BY <2>4, <2>5
  <2> QED
    BY <1>3, <2>3, <2>6, <2>7
<1>5. ASSUME \A i \in DOMAIN s : s[i].w # w PROVE Counted(w, s) = 0
  <2>1. \A k \in DOMAIN c : c[k] = 0
    BY <1>1, <1>2, <1>3, <1>5
  <2>2. IsFiniteSet(DOMAIN c)
    BY <1>3 DEF IntOn
  <2>3. SumFunction(c) = 0
    BY <2>1, <2>2, SumZero
  <2> QED
    BY <1>3, <2>3 DEF SumFunction
<1> QED
  BY <1>4, <1>5

(* A word of the tally is a word of the input, and occurs.                 *)
LEMMA TallyWords ==
  ASSUME KnownLetters
  PROVE  /\ \A o \in Abstract!Occurrences :
              /\ Abstract!WordAt(Text[o[1]], o[2]) \in Word
              /\ Abstract!CountOf(Abstract!WordAt(Text[o[1]], o[2])) # 0
         /\ \A w : Abstract!CountOf(w) # 0 =>
              \E o \in Abstract!Occurrences : Abstract!WordAt(Text[o[1]], o[2]) = w
<1>1. ASSUME NEW o \in Abstract!Occurrences
      PROVE  /\ Abstract!WordAt(Text[o[1]], o[2]) \in Word
             /\ Abstract!CountOf(Abstract!WordAt(Text[o[1]], o[2])) # 0
  <2> DEFINE w == Abstract!WordAt(Text[o[1]], o[2])
  <2>1. o \in OccurrencesOf(w)
    BY DEF OccurrencesOf
  <2> HIDE DEF w
  <2>2. PICK f, l, b, e : At(f, l, b, e, w)
    BY <2>1, OccurrencesAre
  <2> DEFINE line == Text[f][l]
  <2>3. /\ line \in Seq(Used) /\ b \in 1..Len(line) /\ e \in 1..Len(line)
        /\ Abstract!IsWord(line, b, e) /\ SubSeq(line, b, e) = w
    <3>1. Text[f] \in Seq(Seq(Used))
      BY <2>2, TextIsUsed DEF At
    <3> QED
      BY <2>2, <3>1 DEF At
  <2> HIDE DEF line
  <2>4. b <= e /\ Len(line) \in Nat
    BY <2>3, TallyWord
  <2>5. w \in Seq(Used)
    <3>1. b \in 1..(Len(line) + 1) /\ e \in (b - 1)..Len(line)
      BY <2>3, <2>4
    <3>2. line \in Seq(Used)
      BY <2>3
    <3>3. SubSeq(line, b, e) \in Seq(Used)
      BY <3>1, <3>2, SubSeqProperties
    <3> QED
      BY <2>3, <3>3
  <2>6. w \in Word
    BY <2>5, UsedIsCharacter DEF UsedWord
  <2>7. Abstract!CountOf(w) # 0
    <3>1. IsFiniteSet(OccurrencesOf(w)) /\ Abstract!CountOf(w) = Cardinality(OccurrencesOf(w))
      BY TallyCounts
    <3> QED
      BY <2>1, <3>1, FS_EmptySet
  <2> QED
    BY <2>6, <2>7 DEF w
<1>2. ASSUME NEW w, Abstract!CountOf(w) # 0
      PROVE  \E o \in Abstract!Occurrences : Abstract!WordAt(Text[o[1]], o[2]) = w
  <2>1. IsFiniteSet(OccurrencesOf(w)) /\ Abstract!CountOf(w) = Cardinality(OccurrencesOf(w))
    BY TallyCounts
  <2>2. OccurrencesOf(w) # {}
    BY <1>2, <2>1, FS_EmptySet
  <2> QED
    BY <2>2 DEF OccurrencesOf
<1> QED
  BY <1>1, <1>2

(* The streams are at their ends when the program is. *)
AtTheEnds == phase = "done" => AllEmpty(fps)

LEMMA NextAtTheEnds ==
  ASSUME AtTheEnds, [Next]_vars
  PROVE  AtTheEnds'
<1>1. CASE FinishMerge
  BY <1>1 DEF FinishMerge, AtTheEnds, AllEmpty
<1>2. CASE UNCHANGED vars
  BY <1>2 DEF vars, AtTheEnds, AllEmpty
<1>3. CASE \/ Begin \/ BeginUncleared \/ (\E f \in Files : OpenFile(f)) \/ do_one_file
           \/ merge_sort \/ TakeMin \/ AddEqual \/ FailToOpen \/ FailToOpenOutput
  <2>1. phase' # "done"
    BY <1>3 DEF Begin, BeginUncleared, Starts, OpenFile, do_one_file, single_read_block, sort_one_msa, WriteNothing,
      BeginWrite, CanCreate, WriteWord, CloseTmp, ChunkDone, merge_sort, TakeMin, AddEqual,
      FailToOpen, FailToOpenOutput
  <2> QED
    BY <2>1 DEF AtTheEnds
<1> QED
  BY <1>1, <1>2, <1>3 DEF Next, main

LEMMA OutputCounts ==
  ASSUME KnownLetters, Typed, InputInv, Conserved, AtTheEnds, Finished, NEW w \in Word
  PROVE  Counted(w, output) = Abstract!CountOf(w)
<1>1. /\ ifp.rest = << >> /\ \A i \in Threads : msa_arr[i] = << >>
      /\ todo = {} /\ word = NoWord /\ AllEmpty(fps)
  BY DEF Finished, InputInv, NothingHeld, AtTheEnds, Typed, Types
<1>2. InFlight(w) = OccAll(w, WordsIn(Files)) + 0 /\ OccAll(w, WordsIn(Files)) \in Int
  <2>1. DOMAIN stale = {} /\ IsFiniteSet({})
    BY FS_EmptySet DEF Finished, Cleared
  <2>2. CountedAll(w, stale) = 0
    BY <2>1, CountedAllZero
  <2>3. Extra(w) = 0
    BY <2>2 DEF Extra
  <2> QED
    BY <2>3, WordsOfFiles, OccFamilySum DEF Finished, Conserved
<1>3. Unread(w) = 0
  <2>1. WordsOf(<< >>) = << >>
    BY NoWords
  <2> QED
    BY <1>1, <2>1, OccFacts DEF Unread
<1>4. OccAll(w, WordsIn(todo)) = 0
  <2>1. DOMAIN WordsIn(todo) = {}
    BY <1>1 DEF WordsIn
  <2>2. IsFiniteSet({})
    BY FS_EmptySet
  <2> QED
    BY <2>1, <2>2, OccAllZero
<1>5. OccAll(w, msa_arr) = 0
  <2>1. IsFiniteSet(DOMAIN msa_arr) /\ DOMAIN msa_arr = Threads
    BY HeldFamilies DEF WordFamily, Typed
  <2> QED
    BY <1>1, <2>1, OccAllZero
<1>6. Counting(w) = 0 /\ Counted(w, output) \in Int
  BY <1>1, InFlightParts DEF Typed
<1>7. CountedAll(w, fps) = 0
  <2>1. IsFiniteSet(DOMAIN fps)
    BY DEF Typed, MergeTypes
  <2> QED
    BY <1>1, <2>1, CountedAllZero DEF AllEmpty
<1>8. Stored(w) = Counted(w, output) + 0
  BY <1>7 DEF Stored, Finished
<1>9. InFlight(w) = Counted(w, output)
  BY <1>3, <1>4, <1>5, <1>6, <1>8, InFlightSums
<1>10. OccAll(w, WordsIn(Files)) = Abstract!CountOf(w)
  BY TallyCounts
<1> QED
  BY <1>2, <1>9, <1>10

LEMMA OutputIsTally ==
  ASSUME KnownLetters, Typed, MergeInv, InputInv, Conserved, AtTheEnds, Finished
  PROVE  Abstract!IsTally(output)
<1>1. /\ output \in Seq(Entry) /\ Ascending(output)
      /\ \A i \in DOMAIN output : output[i] \in Entry
  BY DEF Finished, Typed, MergeTypes, MergeInv
<1>2. \A i \in DOMAIN output : /\ output[i].w \in Word /\ output[i].n \in Nat \ {0}
                               /\ output[i] = [w |-> output[i].w, n |-> output[i].n]
  <2>1. ASSUME NEW x \in Entry
        PROVE  x.w \in Word /\ x.n \in Nat \ {0} /\ x = [w |-> x.w, n |-> x.n]
    <3>1. x.w \in Word /\ x.n \in Nat \ {0}
      BY UsedIsCharacter
    <3>2. x = [w |-> x.w, n |-> x.n]
      BY DEF Entry
    <3> QED
      BY <3>1, <3>2
  <2> QED
    BY <1>1, <2>1
<1> DEFINE found == {Abstract!WordAt(Text[o[1]], o[2]) : o \in Abstract!Occurrences}
           tally == {[w |-> w, n |-> Abstract!CountOf(w)] : w \in found}
           out == {output[i] : i \in DOMAIN output}
<1>3. \A w \in Word : Counted(w, output) = Abstract!CountOf(w)
  BY OutputCounts
<1>4. ASSUME NEW i \in DOMAIN output PROVE output[i] \in tally
  <2> DEFINE w == output[i].w
  <2>1. Abstract!CountOf(w) = output[i].n
    BY <1>1, <1>2, <1>3, CountedOne
  <2>2. w \in found
    BY <1>2, <2>1, TallyWords
  <2>3. output[i] = [w |-> w, n |-> Abstract!CountOf(w)]
    BY <1>2, <2>1
  <2> HIDE DEF w, found
  <2> QED
    BY <2>2, <2>3
<1>5. ASSUME NEW w \in found PROVE [w |-> w, n |-> Abstract!CountOf(w)] \in out
  <2>1. w \in Word /\ Abstract!CountOf(w) # 0
    BY TallyWords
  <2>2. Counted(w, output) # 0
    BY <1>3, <2>1
  <2>3. PICK i \in DOMAIN output : output[i].w = w
    BY <1>1, <2>2, CountedOne
  <2>4. output[i].n = Abstract!CountOf(w)
    BY <1>1, <1>3, <2>1, <2>3, CountedOne
  <2> HIDE DEF found
  <2> QED
    BY <1>2, <2>3, <2>4
<1>6. out = tally
  <2> HIDE DEF found
  <2> QED
    BY <1>4, <1>5
<1> QED
  BY <1>1, <1>6 DEF Abstract!IsTally, Ascending

(* The output of a run that ends after ./wordcount-tmp was cleared is the  *)
(* number of occurrences of each word of the input files taken as one big  *)
(* file, in the order of strcmp.                                           *)
THEOREM TheTallyOfOneBigFile ==
  ASSUME OneThread, PlainText, EnoughDescriptors, KnownLetters
  PROVE  Spec => []OneBigFile
<1>1. Init => AtTheEnds
  BY DEF Init, AtTheEnds
<1>2. AtTheEnds /\ [Next]_vars => AtTheEnds'
  BY NextAtTheEnds
<1>3. /\ Types /\ TmpTypes /\ StaleTypes /\ MergeTypes /\ MergeInv /\ InputInv /\ Conserved
      /\ AtTheEnds
      => OneBigFile
  BY OutputIsTally DEF OneBigFile, Typed
<1> QED
  BY <1>1, <1>2, <1>3, TypesInvariant, MergeTypesInvariant, MergeInvariant,
     ConservedInvariant, PTL DEF Spec

(* Reading, sorting, writing and merging are steps the tally does not see, *)
(* and the end of the merge is its one step.                               *)
THEOREM WordCountImplementsTally ==
  ASSUME OneThread, PlainText, EnoughDescriptors, KnownLetters
  PROVE  Spec => ImplementsTally
<1>1. Init => Abstract!Init
  BY DEF Init, Finished, Abstract!Init
<1>2. OneBigFile' /\ [Next]_vars
        => [Abstract!Finish]_<<Finished, IF Finished THEN output ELSE << >>>>
  <2> SUFFICES ASSUME OneBigFile', [Next]_vars
               PROVE  [Abstract!Finish]_<<Finished, IF Finished THEN output ELSE << >>>>
    OBVIOUS
  <2>1. CASE phase = "done"
    <3>1. UNCHANGED vars
      BY <2>1 DEF Next, main, Begin, BeginUncleared, Starts, OpenFile, do_one_file, single_read_block, sort_one_msa,
        WriteNothing, BeginWrite, CanCreate, WriteWord, CloseTmp, merge_sort, TakeMin,
        AddEqual, FinishMerge, FailToOpen, FailToOpenOutput
    <3> QED
      BY <3>1 DEF vars, Finished, Cleared
  <2>2. CASE phase # "done" /\ Finished'
    BY <2>2 DEF OneBigFile, Finished, Abstract!Finish
  <2>3. CASE phase # "done" /\ ~Finished'
    BY <2>3 DEF Finished
  <2> QED
    BY <2>1, <2>2, <2>3
<1> QED
  BY <1>1, <1>2, TheTallyOfOneBigFile, PTL DEF Spec, ImplementsTally, Abstract!Spec
=============================================================================
