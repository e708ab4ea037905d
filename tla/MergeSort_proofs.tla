-------------------------- MODULE MergeSort_proofs --------------------------
(***************************************************************************)
(* The merge sort of a block, proved for every block: the arrays keep      *)
(* their bounds, each pass its runs, and the block ends in order with      *)
(* equal lines as they stood.                                              *)
(***************************************************************************)
EXTENDS MergeSort, DataFacts

Line == [key : Keys, at : Nat \ {0}]

Ordered(r) == \A x, y \in 1..Len(r) : x < y => Before(r[x], r[y])

Members(r) == {r[x] : x \in 1..Len(r)}

(* One line put before lines that it precedes. *)
LEMMA Prepend ==
  ASSUME NEW e \in Line, NEW r \in Seq(Line), Ordered(r), \A z \in Members(r) : Before(e, z)
  PROVE  /\ <<e>> \o r \in Seq(Line) /\ Len(<<e>> \o r) = 1 + Len(r)
         /\ Members(<<e>> \o r) = {e} \cup Members(r) /\ Ordered(<<e>> \o r)
<1> DEFINE c == <<e>> \o r
<1>1. c \in Seq(Line) /\ Len(c) = 1 + Len(r) /\ Len(r) \in Nat
  OBVIOUS
<1>2. c[1] = e
  OBVIOUS
<1>3. \A x \in 1..Len(r) : c[x + 1] = r[x]
  OBVIOUS
<1>4. \A x \in 1..(1 + Len(r)) : x = 1 \/ (x - 1 \in 1..Len(r) /\ c[x] = r[x - 1])
  OBVIOUS
<1> HIDE DEF c
<1>5. Members(c) = {e} \cup Members(r)
  <2>1. \A x \in 1..Len(c) : c[x] \in {e} \cup Members(r)
    BY <1>1, <1>2, <1>4 DEF Members
  <2>2. e \in Members(c)
    BY <1>1, <1>2 DEF Members
  <2>3. \A x \in 1..Len(r) : r[x] \in Members(c)
    <3> SUFFICES ASSUME NEW x \in 1..Len(r) PROVE r[x] \in Members(c)
      OBVIOUS
    <3>1. x + 1 \in 1..Len(c)
      BY <1>1
    <3> QED
      BY <1>3, <3>1 DEF Members
  <2> QED
    BY <2>1, <2>2, <2>3 DEF Members
<1>6. Ordered(c)
  <2> SUFFICES ASSUME NEW x \in 1..(1 + Len(r)), NEW y \in 1..(1 + Len(r)), x < y
               PROVE  Before(c[x], c[y])
    BY <1>1 DEF Ordered
  <2>1. y - 1 \in 1..Len(r) /\ c[y] = r[y - 1] /\ c[y] \in Members(r)
    BY <1>1, <1>4 DEF Members
  <2>2. CASE x = 1
    BY <1>2, <2>1, <2>2
  <2>3. CASE x # 1
    <3>1. x - 1 \in 1..Len(r) /\ c[x] = r[x - 1] /\ x - 1 < y - 1
      BY <1>1, <1>4, <2>1, <2>3
    <3> QED
      BY <2>1, <3>1 DEF Ordered
  <2> QED
    BY <2>2, <2>3
<1> QED
  BY <1>1, <1>5, <1>6 DEF c

-----------------------------------------------------------------------------
(* Two runs of s that can be merged: both in order, and every line of the  *)
(* left one read before every line of the right one.                       *)
TwoRuns(s, t, m, last) ==
  /\ \A x, y \in t..m : x < y => Before(s[x], s[y])
  /\ \A x, y \in (m + 1)..last : x < y => Before(s[x], s[y])
  /\ \A x \in t..m, y \in (m + 1)..last : s[x].at < s[y].at

Rest(s, i, m, j, last) == {s[x] : x \in i..m} \cup {s[x] : x \in j..last}

Merges(r, s, i, m, j, last) ==
  /\ r \in Seq(Line) /\ Len(r) = (m + 1 - i) + (last + 1 - j)
  /\ Members(r) = Rest(s, i, m, j, last) /\ Ordered(r)

Bounds(s, t, m, last) ==
  /\ s \in Seq(Line) /\ t \in 1..(m + 1) /\ m \in Nat
  /\ last \in m..Len(s)

(* A part of a sequence. *)
LEMMA Part ==
  ASSUME NEW s \in Seq(Line), NEW a \in Nat \ {0}, NEW b \in Nat, b <= Len(s), a <= b + 1,
         \A x, y \in a..b : x < y => Before(s[x], s[y])
  PROVE  /\ SubSeq(s, a, b) \in Seq(Line) /\ Len(SubSeq(s, a, b)) = b + 1 - a
         /\ Members(SubSeq(s, a, b)) = {s[x] : x \in a..b}
         /\ Ordered(SubSeq(s, a, b))
<1> DEFINE r == SubSeq(s, a, b)
<1>0. Len(s) \in Nat
  OBVIOUS
<1>1. r \in Seq(Line) /\ Len(r) = b + 1 - a /\ \A x \in 1..(b + 1 - a) : r[x] = s[a + x - 1]
  <2>1. \A x \in a..b : x \in 1..Len(s)
    BY <1>0
  <2>2. \A x \in a..b : s[x] \in Line
    BY <2>1
  <2>3. r \in Seq(Line) /\ Len(r) = IF a <= b THEN b - a + 1 ELSE 0
    BY <2>2, SubSeqProperties
  <2>4. \A x \in 1..(b - a + 1) : r[x] = s[a + x - 1]
    BY SubSeqProperties
  <2> HIDE DEF r
  <2>5. b - a + 1 = b + 1 - a /\ (~(a <= b) => b + 1 - a = 0)
    OBVIOUS
  <2> QED
    BY <2>3, <2>4, <2>5
<1> HIDE DEF r
<1>2. \A x \in 1..(b + 1 - a) : a + x - 1 \in a..b
  OBVIOUS
<1>3. \A x \in a..b : x - a + 1 \in 1..(b + 1 - a) /\ a + (x - a + 1) - 1 = x
  OBVIOUS
<1>4. Members(r) = {s[x] : x \in a..b}
  <2>1. \A x \in 1..(b + 1 - a) : r[x] \in {s[z] : z \in a..b}
    BY <1>1, <1>2
  <2>2. ASSUME NEW x \in a..b PROVE \E z \in 1..(b + 1 - a) : r[z] = s[x]
    <3>1. r[x - a + 1] = s[x]
      BY <1>1, <1>3
    <3> QED
      BY <1>3, <3>1
  <2> QED
    BY <1>1, <2>1, <2>2 DEF Members
<1>5. Ordered(r)
  <2> SUFFICES ASSUME NEW x \in 1..(b + 1 - a), NEW y \in 1..(b + 1 - a), x < y
               PROVE  Before(r[x], r[y])
    BY <1>1 DEF Ordered
  <2>1. a + x - 1 < a + y - 1
    OBVIOUS
  <2> QED
    BY <1>1, <1>2, <2>1
<1> QED
  BY <1>1, <1>4, <1>5 DEF r

-----------------------------------------------------------------------------
(* The line that mergeMsa takes precedes what is left of both runs. *)
LEMMA Precedes ==
  ASSUME NEW a \in Line, NEW b \in Line, NEW c \in Line
  PROVE  /\ LeftFirst(a, b) /\ (c = b \/ Before(b, c)) /\ a.at < c.at => Before(a, c)
         /\ ~LeftFirst(a, b) /\ (c = a \/ Before(a, c)) => Before(b, c)
<1>1. a.key \in Nat /\ b.key \in Nat /\ c.key \in Nat
  BY KeysAssumption DEF Line
<1> QED
  BY <1>1 DEF Before, LeftFirst

(* mergeMsa merges two runs into one.  Its recursive function has a value  *)
(* everywhere, as each call leaves one line fewer to merge.                *)
LEMMA MergeOfRuns ==
  ASSUME NEW s, NEW t, NEW m, NEW last, Bounds(s, t, m, last), TwoRuns(s, t, m, last)
  PROVE  Merges(mergeMsa(s, t, m, last), s, t, m, m + 1, last)
<1> DEFINE Rec(g) ==
      g = [rest \in (t..(m + 1)) \X ((m + 1)..(last + 1)) |->
             IF rest[1] > m THEN SubSeq(s, rest[2], last)
             ELSE IF rest[2] > last THEN SubSeq(s, rest[1], m)
             ELSE IF LeftFirst(s[rest[1]], s[rest[2]])
                  THEN <<s[rest[1]]>> \o g[<<rest[1] + 1, rest[2]>>]
             ELSE <<s[rest[2]]>> \o g[<<rest[1], rest[2] + 1>>]]
           D == (t..(m + 1)) \X ((m + 1)..(last + 1))
           V == Seq(Line)
           mu == [p \in D |-> (m + 1 - p[1]) + (last + 1 - p[2])]
           One(p, g) ==
             IF p[1] > m THEN SubSeq(s, p[2], last)
             ELSE IF p[2] > last THEN SubSeq(s, p[1], m)
             ELSE IF LeftFirst(s[p[1]], s[p[2]]) THEN <<s[p[1]]>> \o g[<<p[1] + 1, p[2]>>]
             ELSE <<s[p[2]]>> \o g[<<p[1], p[2] + 1>>]
           step == [q \in D \X [D -> V] |-> One(q[1], q[2])]
<1>1. /\ s \in Seq(Line) /\ t \in Nat \ {0} /\ m \in Nat /\ last \in Nat /\ Len(s) \in Nat
      /\ t <= m + 1 /\ m <= last /\ last <= Len(s)
  BY DEF Bounds
<1>2. ASSUME NEW i \in t..(m + 1), NEW j \in (m + 1)..(last + 1)
      PROVE  /\ i \in Nat \ {0} /\ j \in Nat \ {0}
             /\ SubSeq(s, j, last) \in V /\ SubSeq(s, i, m) \in V
             /\ i <= m => s[i] \in Line /\ i + 1 \in t..(m + 1)
             /\ j <= last => s[j] \in Line /\ j + 1 \in (m + 1)..(last + 1)
  <2>1. /\ i \in Nat \ {0} /\ j \in Nat \ {0}
        /\ i <= m => i \in 1..Len(s) /\ i + 1 \in t..(m + 1)
        /\ j <= last => j \in 1..Len(s) /\ j + 1 \in (m + 1)..(last + 1)
    BY <1>1
  <2>2. \A x \in i..m : x \in 1..Len(s)
    BY <1>1, <2>1
  <2>3. \A x \in j..last : x \in 1..Len(s)
    BY <1>1, <2>1
  <2>4. \A x \in 1..Len(s) : s[x] \in Line
    BY <1>1
  <2>5. SubSeq(s, j, last) \in V
    BY <1>1, <2>1, <2>3, <2>4, SubSeqProperties
  <2>6. SubSeq(s, i, m) \in V
    BY <1>1, <2>1, <2>2, <2>4, SubSeqProperties
  <2> QED
    BY <2>1, <2>4, <2>5, <2>6
<1>3. mu \in [D -> Nat]
  <2> SUFFICES ASSUME NEW i \in t..(m + 1), NEW j \in (m + 1)..(last + 1)
               PROVE  (m + 1 - i) + (last + 1 - j) \in Nat
    OBVIOUS
  <2> QED
    BY <1>1
<1>4. \A i \in t..(m + 1), j \in (m + 1)..(last + 1) :
        <<i, j>> \in D /\ mu[<<i, j>>] = (m + 1 - i) + (last + 1 - j)
  OBVIOUS
<1>5. \A p \in D : \E i \in t..(m + 1), j \in (m + 1)..(last + 1) : p = <<i, j>>
  OBVIOUS
<1>6. ASSUME NEW p \in D, NEW g \in [D -> V]
      PROVE  step[<<p, g>>] = One(p, g) /\ One(p, g) \in V
  <2>1. PICK i \in t..(m + 1), j \in (m + 1)..(last + 1) : p = <<i, j>>
    BY <1>5
  <2>2. p[1] = i /\ p[2] = j
    BY <2>1
  <2>3. step[<<p, g>>] = One(p, g)
    OBVIOUS
  <2>4. CASE i > m
    BY <1>2, <2>2, <2>4
  <2>5. CASE ~(i > m) /\ j > last
    BY <1>2, <2>2, <2>5
  <2>6. CASE ~(i > m) /\ ~(j > last)
    <3>0. i <= m /\ j <= last
      BY <1>1, <2>6
    <3>1. <<i + 1, j>> \in D /\ <<i, j + 1>> \in D /\ s[i] \in Line /\ s[j] \in Line
      BY <1>2, <1>4, <3>0
    <3>2. g[<<i + 1, j>>] \in V /\ g[<<i, j + 1>>] \in V
      BY <3>1
    <3>3. <<s[i]>> \o g[<<i + 1, j>>] \in V
      BY <3>1, <3>2
    <3>4. <<s[j]>> \o g[<<i, j + 1>>] \in V
      BY <3>1, <3>2
    <3> HIDE DEF V, D, step
    <3> QED
      BY <2>2, <2>3, <2>6, <3>3, <3>4
  <2> HIDE DEF step, One
  <2> QED
    BY <2>3, <2>4, <2>5, <2>6
<1>7. \A p \in D : \A g, h \in [D -> V] :
        (\A y \in D : mu[y] < mu[p] => g[y] = h[y]) => step[<<p, g>>] = step[<<p, h>>]
  <2> SUFFICES ASSUME NEW p \in D, NEW g \in [D -> V], NEW h \in [D -> V],
                      \A y \in D : mu[y] < mu[p] => g[y] = h[y]
               PROVE  One(p, g) = One(p, h)
    <3> HIDE DEF D, V, step, One, mu
    <3> QED
      BY <1>6
  <2>1. PICK i \in t..(m + 1), j \in (m + 1)..(last + 1) : p = <<i, j>>
    BY <1>5
  <2>2. p[1] = i /\ p[2] = j
    BY <2>1
  <2>3. CASE i > m
    BY <2>2, <2>3
  <2>4. CASE ~(i > m) /\ j > last
    BY <2>2, <2>4
  <2>5. CASE ~(i > m) /\ ~(j > last)
    <3>0. i <= m /\ j <= last
      BY <1>1, <2>5
    <3>1. <<i + 1, j>> \in D /\ <<i, j + 1>> \in D
      BY <1>2, <1>4, <3>0
    <3>2. mu[<<i + 1, j>>] < mu[p] /\ mu[<<i, j + 1>>] < mu[p]
      <4>1. i + 1 \in t..(m + 1) /\ j + 1 \in (m + 1)..(last + 1)
        BY <1>2, <3>0
      <4>2. /\ mu[<<i + 1, j>>] = (m + 1 - (i + 1)) + (last + 1 - j)
            /\ mu[<<i, j + 1>>] = (m + 1 - i) + (last + 1 - (j + 1))
            /\ mu[p] = (m + 1 - i) + (last + 1 - j)
        BY <1>4, <2>1, <4>1
      <4>3. i \in Nat /\ j \in Nat
        BY <1>2
      <4> HIDE DEF mu, D, V, step, One
      <4>4. m \in Int /\ last \in Int
        BY <1>1
      <4> QED
        BY <4>2, <4>3, <4>4
    <3>3. g[<<i + 1, j>>] = h[<<i + 1, j>>] /\ g[<<i, j + 1>>] = h[<<i, j + 1>>]
      BY <3>1, <3>2
    <3> HIDE DEF D, V, mu
    <3> QED
      BY <2>2, <3>3
  <2> QED
    BY <2>3, <2>4, <2>5
<1>8. \E g : Rec(g)
  <2>1. PICK g \in [D -> V] : Solves(g, step, D)
    <3> HIDE DEF D, V, mu, step
    <3>1. V # {}
      <4>1. << >> \in Seq(Line)
        OBVIOUS
      <4> QED
        BY <4>1 DEF V
    <3>2. step \in [D \X [D -> V] -> V]
      BY <1>6 DEF step
    <3>3. Recurs(step, mu, D, V)
      BY <1>3, <1>7, <3>1, <3>2, Zenon DEF Recurs
    <3> QED
      BY <3>3, Recursion
  <2>2. \A p \in D : g[p] = One(p, g)
    <3> HIDE DEF D, V, step, One
    <3> QED
      BY <1>6, <2>1 DEF Solves
  <2>3. g = [p \in D |-> One(p, g)]
    <3> HIDE DEF D, V, step, One
    <3> QED
      BY <2>1, <2>2
  <2> QED
    BY <2>3
<1> DEFINE it == CHOOSE g : Rec(g)
<1>9. Rec(it)
  <2> HIDE DEF Rec
  <2> QED
    BY <1>8
<1>10. mergeMsa(s, t, m, last) = it[<<t, m + 1>>]
  BY DEF mergeMsa
<1> HIDE DEF it
<1>11. ASSUME NEW i \in t..(m + 1), NEW j \in (m + 1)..(last + 1)
       PROVE  it[<<i, j>>] = IF i > m THEN SubSeq(s, j, last)
                             ELSE IF j > last THEN SubSeq(s, i, m)
                             ELSE IF LeftFirst(s[i], s[j]) THEN <<s[i]>> \o it[<<i + 1, j>>]
                             ELSE <<s[j]>> \o it[<<i, j + 1>>]
  BY <1>9
<1> DEFINE H == {p \in D : Merges(it[p], s, p[1], m, p[2], last)}
<1>12. ASSUME NEW p \in D, \A y \in D : mu[y] < mu[p] => y \in H PROVE p \in H
  <2>1. PICK i \in t..(m + 1), j \in (m + 1)..(last + 1) : p = <<i, j>>
    BY <1>5
  <2>2. i \in Nat \ {0} /\ j \in Nat \ {0} /\ t <= i /\ m + 1 <= j /\ j <= last + 1
    BY <1>1, <1>2
  <2>3. /\ \A x, y \in i..m : x < y => Before(s[x], s[y])
        /\ \A x, y \in j..last : x < y => Before(s[x], s[y])
        /\ \A x \in i..m, y \in j..last : s[x].at < s[y].at
    <3>1. \A x \in i..m : x \in t..m
      BY <1>1, <2>2
    <3>2. \A x \in j..last : x \in (m + 1)..last
      BY <1>1, <2>2
    <3> QED
      BY <3>1, <3>2 DEF TwoRuns
  <2>4. CASE i > m
    <3>1. i..m = {} /\ i = m + 1
      BY <1>1, <2>2, <2>4
    <3>2. /\ SubSeq(s, j, last) \in Seq(Line) /\ Len(SubSeq(s, j, last)) = last + 1 - j
          /\ Members(SubSeq(s, j, last)) = {s[x] : x \in j..last}
          /\ Ordered(SubSeq(s, j, last))
      BY <1>1, <2>2, <2>3, Part
    <3>3. it[<<i, j>>] = SubSeq(s, j, last)
      BY <1>11, <2>4
    <3>4. (m + 1 - i) + (last + 1 - j) = last + 1 - j
      BY <1>1, <2>2, <3>1
    <3>5. Merges(it[<<i, j>>], s, i, m, j, last)
      BY <3>1, <3>2, <3>3, <3>4 DEF Merges, Rest
    <3> QED
      BY <2>1, <3>5
  <2>5. CASE ~(i > m) /\ j > last
    <3>1. j..last = {} /\ j = last + 1 /\ i <= m + 1 /\ m <= Len(s)
      BY <1>1, <2>2, <2>5
    <3>2. /\ SubSeq(s, i, m) \in Seq(Line) /\ Len(SubSeq(s, i, m)) = m + 1 - i
          /\ Members(SubSeq(s, i, m)) = {s[x] : x \in i..m}
          /\ Ordered(SubSeq(s, i, m))
      BY <1>1, <2>2, <2>3, <3>1, Part
    <3>3. it[<<i, j>>] = SubSeq(s, i, m)
      BY <1>11, <2>5
    <3>4. (m + 1 - i) + (last + 1 - j) = m + 1 - i
      BY <1>1, <2>2, <3>1
    <3>5. Merges(it[<<i, j>>], s, i, m, j, last)
      BY <3>1, <3>2, <3>3, <3>4 DEF Merges, Rest
    <3> QED
      BY <2>1, <3>5
  <2>6. CASE ~(i > m) /\ ~(j > last)
    <3>0. i <= m /\ j <= last
      BY <1>1, <2>2, <2>6
    <3>1. s[i] \in Line /\ s[j] \in Line /\ i + 1 \in t..(m + 1) /\ j + 1 \in (m + 1)..(last + 1)
      BY <1>2, <3>0
    <3>2. mu[<<i + 1, j>>] < mu[p] /\ mu[<<i, j + 1>>] < mu[p]
      <4>1. /\ mu[<<i + 1, j>>] = (m + 1 - (i + 1)) + (last + 1 - j)
            /\ mu[<<i, j + 1>>] = (m + 1 - i) + (last + 1 - (j + 1))
            /\ mu[p] = (m + 1 - i) + (last + 1 - j)
        BY <1>4, <2>1, <3>1
      <4> HIDE DEF mu
      <4> QED
        BY <1>1, <2>2, <4>1
    <3>3. <<i + 1, j>> \in H /\ <<i, j + 1>> \in H
      BY <1>4, <1>12, <3>1, <3>2
    <3>4. /\ Merges(it[<<i + 1, j>>], s, i + 1, m, j, last)
          /\ Merges(it[<<i, j + 1>>], s, i, m, j + 1, last)
      BY <3>3
    <3> HIDE DEF H, D, mu, V, step
    <3>5. i..m = {i} \cup ((i + 1)..m) /\ j..last = {j} \cup ((j + 1)..last)
      BY <1>1, <2>2, <3>0
    <3>6. \A x \in i..m : s[x] \in Line /\ (x = i \/ Before(s[i], s[x]))
      <4>1. \A x \in i..m : x \in 1..Len(s) /\ i \in i..m /\ (x = i \/ i < x)
        BY <1>1, <2>2, <3>0
      <4> QED
        BY <1>1, <2>3, <4>1
    <3>7. \A x \in j..last : s[x] \in Line /\ (x = j \/ Before(s[j], s[x]))
      <4>1. \A x \in j..last : x \in 1..Len(s) /\ j \in j..last /\ (x = j \/ j < x)
        BY <1>1, <2>2, <3>0
      <4> QED
        BY <1>1, <2>3, <4>1
    <3>8. \A x \in i..m, y \in j..last : s[x].at < s[y].at
      BY <2>3
    <3>9. i \in i..m /\ j \in j..last
      BY <1>1, <2>2, <3>0
    <3>10. CASE LeftFirst(s[i], s[j])
      <4> DEFINE r == it[<<i + 1, j>>]
      <4>1. it[<<i, j>>] = <<s[i]>> \o r
        BY <1>11, <2>6, <3>10
      <4>2. \A z \in Members(r) : Before(s[i], z)
        <5>1. \A x \in (i + 1)..m : x \in i..m /\ x # i
          BY <1>1, <2>2
        <5>2. \A x \in (i + 1)..m : Before(s[i], s[x])
          BY <3>6, <5>1
        <5>3. \A x \in j..last : Before(s[i], s[x])
          <6> SUFFICES ASSUME NEW x \in j..last PROVE Before(s[i], s[x])
            OBVIOUS
          <6>1. s[x] \in Line /\ (s[x] = s[j] \/ Before(s[j], s[x])) /\ s[i].at < s[x].at
            BY <3>7, <3>8, <3>9
          <6> QED
            BY <3>1, <3>10, <6>1, Precedes
        <5> QED
          BY <3>4, <5>2, <5>3 DEF Merges, Rest
      <4>3. Rest(s, i, m, j, last) = {s[i]} \cup Rest(s, i + 1, m, j, last)
        BY <3>5 DEF Rest
      <4>4. r \in Seq(Line) /\ Ordered(r) /\ Members(r) = Rest(s, i + 1, m, j, last)
            /\ Len(r) = (m + 1 - (i + 1)) + (last + 1 - j)
        BY <3>4 DEF Merges
      <4> HIDE DEF r
      <4>5. /\ <<s[i]>> \o r \in Seq(Line) /\ Len(<<s[i]>> \o r) = 1 + Len(r)
            /\ Members(<<s[i]>> \o r) = {s[i]} \cup Members(r) /\ Ordered(<<s[i]>> \o r)
        BY <3>1, <4>2, <4>4, Prepend
      <4>6. Len(<<s[i]>> \o r) = (m + 1 - i) + (last + 1 - j)
        <5>1. Len(<<s[i]>> \o r) = 1 + Len(r) /\ Len(r) = (m + 1 - (i + 1)) + (last + 1 - j)
          BY <4>4, <4>5
        <5> QED
          BY <1>1, <2>2, <5>1
      <4>7. Members(<<s[i]>> \o r) = Rest(s, i, m, j, last)
        BY <4>3, <4>4, <4>5
      <4> DEFINE c == <<s[i]>> \o r
      <4>8. Merges(c, s, i, m, j, last)
        BY <4>5, <4>6, <4>7 DEF Merges
      <4> HIDE DEF c
      <4> QED
        BY <2>1, <4>1, <4>8 DEF c, H
    <3>11. CASE ~LeftFirst(s[i], s[j])
      <4> DEFINE r == it[<<i, j + 1>>]
      <4>1. it[<<i, j>>] = <<s[j]>> \o r
        BY <1>11, <2>6, <3>11
      <4>2. \A z \in Members(r) : Before(s[j], z)
        <5>1. \A x \in (j + 1)..last : x \in j..last /\ x # j
          BY <1>1, <2>2
        <5>2. \A x \in (j + 1)..last : Before(s[j], s[x])
          BY <3>7, <5>1
        <5>3. \A x \in i..m : Before(s[j], s[x])
          <6> SUFFICES ASSUME NEW x \in i..m PROVE Before(s[j], s[x])
            OBVIOUS
          <6>1. s[x] \in Line /\ (s[x] = s[i] \/ Before(s[i], s[x]))
            BY <3>6
          <6> QED
            BY <3>1, <3>11, <6>1, Precedes
        <5> QED
          BY <3>4, <5>2, <5>3 DEF Merges, Rest
      <4>3. Rest(s, i, m, j, last) = {s[j]} \cup Rest(s, i, m, j + 1, last)
        BY <3>5 DEF Rest
      <4>4. r \in Seq(Line) /\ Ordered(r) /\ Members(r) = Rest(s, i, m, j + 1, last)
            /\ Len(r) = (m + 1 - i) + (last + 1 - (j + 1))
        BY <3>4 DEF Merges
      <4> HIDE DEF r
      <4>5. /\ <<s[j]>> \o r \in Seq(Line) /\ Len(<<s[j]>> \o r) = 1 + Len(r)
            /\ Members(<<s[j]>> \o r) = {s[j]} \cup Members(r) /\ Ordered(<<s[j]>> \o r)
        BY <3>1, <4>2, <4>4, Prepend
      <4>6. Len(<<s[j]>> \o r) = (m + 1 - i) + (last + 1 - j)
        <5>1. Len(<<s[j]>> \o r) = 1 + Len(r) /\ Len(r) = (m + 1 - i) + (last + 1 - (j + 1))
          BY <4>4, <4>5
        <5> QED
          BY <1>1, <2>2, <5>1
      <4>7. Members(<<s[j]>> \o r) = Rest(s, i, m, j, last)
        BY <4>3, <4>4, <4>5
      <4> DEFINE c == <<s[j]>> \o r
      <4>8. Merges(c, s, i, m, j, last)
        BY <4>5, <4>6, <4>7 DEF Merges
      <4> HIDE DEF c
      <4> QED
        BY <2>1, <4>1, <4>8 DEF c, H
    <3> QED
      BY <3>10, <3>11, Zenon
  <2> QED
    BY <2>4, <2>5, <2>6
<1>13. H = D
  <2>1. H \in SUBSET D
    OBVIOUS
  <2> HIDE DEF H, D, mu
  <2> QED
    BY <1>3, <1>12, <2>1, MeasureInduction
<1>14. <<t, m + 1>> \in D
  BY <1>1, <1>4
<1>15. Merges(it[<<t, m + 1>>], s, t, m, m + 1, last)
  BY <1>13, <1>14
<1> QED
  BY <1>10, <1>15

-----------------------------------------------------------------------------
(* A string with room for its text and the zero after it, and the arrays   *)
(* of such strings, of which some are in use.                              *)
Roomy ==
  {x \in [text : Line \cup {NoLine}, capacity : Nat] : TextLength(x.text) < x.capacity}

Arrays ==
  UNION {[arr : [1..c -> Roomy], capacity : {c}, size : 0..c] : c \in Nat \ (0..3)}

(* What it is to be one of these arrays. *)
LEMMA ArrayShape ==
  ASSUME NEW a \in Arrays
  PROVE  /\ a.capacity \in Nat /\ a.capacity >= 4 /\ a.size \in 0..a.capacity
         /\ a.arr \in [1..a.capacity -> Roomy]
         /\ a = [arr |-> a.arr, capacity |-> a.capacity, size |-> a.size]
<1>1. PICK c \in Nat \ (0..3) : a \in [arr : [1..c -> Roomy], capacity : {c}, size : 0..c]
  BY DEF Arrays
<1>2. c \in Nat /\ c >= 4 /\ a.capacity = c
  BY <1>1
<1>3. a.arr \in [1..c -> Roomy] /\ a.size \in 0..c
  BY <1>1
<1>4. a = [arr |-> a.arr, capacity |-> a.capacity, size |-> a.size]
  BY <1>1
<1> QED
  BY <1>2, <1>3, <1>4

(* And to become one. *)
LEMMA ArrayMade ==
  ASSUME NEW c \in Nat, c >= 4, NEW z \in 0..c, NEW f \in [1..c -> Roomy]
  PROVE  [arr |-> f, capacity |-> c, size |-> z] \in Arrays
<1>1. c \in Nat \ (0..3)
  OBVIOUS
<1>2. [arr |-> f, capacity |-> c, size |-> z] \in [arr : [1..c -> Roomy], capacity : {c}, size : 0..c]
  OBVIOUS
<1> QED
  BY <1>1, <1>2 DEF Arrays

(* The lengths of texts. *)
LEMMA TextLengths ==
  /\ \A x \in Line \cup {NoLine} : TextLength(x) \in Nat
  /\ TextLength(NoLine) = 0
<1>1. \A x \in Line : x.key \in Keys /\ LineLength[x.key] \in Nat
  BY KeysAssumption DEF Line
<1> QED
  BY <1>1 DEF TextLength

(* A new string has room, and a text copied over another has. *)
LEMMA CopyHasRoom ==
  /\ Strings!conMyString \in Roomy
  /\ \A x \in Roomy, text \in Line \cup {NoLine} :
       Strings!cpyMyString(x, text) \in Roomy /\ Strings!cpyMyString(x, text).text = text
<1>1. Strings!conMyString \in Roomy
  BY TextLengths DEF Roomy, Strings!conMyString
<1>2. ASSUME NEW x \in Roomy, NEW text \in Line \cup {NoLine}
      PROVE  Strings!cpyMyString(x, text) \in Roomy /\ Strings!cpyMyString(x, text).text = text
  <2> DEFINE c == IF x.capacity <= TextLength(text) + 1 THEN TextLength(text) + 2
                  ELSE x.capacity
  <2>1. x.capacity \in Nat /\ TextLength(text) \in Nat
    BY TextLengths DEF Roomy
  <2>2. c \in Nat /\ TextLength(text) < c
    BY <2>1
  <2>3. Strings!cpyMyString(x, text) = [text |-> text, capacity |-> c]
    BY DEF Strings!cpyMyString
  <2> HIDE DEF c
  <2> QED
    BY <2>2, <2>3 DEF Roomy
<1> QED
  BY <1>1, <1>2

(* An array made larger keeps its texts. *)
LEMMA ResizedKeeps ==
  ASSUME NEW a \in Arrays, NEW cap \in Nat, cap >= 4, a.size <= cap
  PROVE  /\ Strings!Resized(a, cap) \in Arrays
         /\ Strings!Resized(a, cap).capacity = cap /\ Strings!Resized(a, cap).size = a.size
         /\ \A k \in 1..a.size : Strings!Resized(a, cap).arr[k].text = a.arr[k].text
<1> DEFINE f == [k \in 1..cap |->
                   IF k <= a.size THEN Strings!cpyMyString(Strings!conMyString, a.arr[k].text)
                   ELSE Strings!conMyString]
<1>1. /\ a.capacity \in Nat /\ a.size \in 0..a.capacity /\ a.arr \in [1..a.capacity -> Roomy]
  BY ArrayShape
<1>2. ASSUME NEW k \in 1..cap, k <= a.size
      PROVE  a.arr[k].text \in Line \cup {NoLine}
  <2>1. k \in 1..a.capacity
    BY <1>1, <1>2
  <2>2. a.arr[k] \in Roomy
    BY <1>1, <2>1
  <2> QED
    BY <2>2 DEF Roomy
<1>3. f \in [1..cap -> Roomy] /\ \A k \in 1..cap : k <= a.size => f[k].text = a.arr[k].text
  BY <1>2, CopyHasRoom
<1>4. Strings!Resized(a, cap) = [arr |-> f, capacity |-> cap, size |-> a.size]
  BY DEF Strings!Resized
<1>5. a.size \in 0..cap /\ \A k \in 1..a.size : k \in 1..cap /\ k <= a.size
  BY <1>1
<1> HIDE DEF f
<1> QED
  BY <1>3, <1>4, <1>5, ArrayMade

(* A push puts one more text at the end. *)
LEMMA PushKeeps ==
  ASSUME NEW a \in Arrays, NEW text \in Line
  PROVE  /\ Strings!pushMyStringArr(a, text) \in Arrays
         /\ Strings!pushMyStringArr(a, text).size = a.size + 1
         /\ Strings!pushMyStringArr(a, text).arr[a.size + 1].text = text
         /\ \A k \in 1..a.size :
              Strings!pushMyStringArr(a, text).arr[k].text = a.arr[k].text
<1> DEFINE e == Strings!expandMyStringArr(a)
           f == [e.arr EXCEPT ![e.size + 1] = Strings!cpyMyString(@, text)]
<1>1. a.capacity \in Nat /\ a.capacity >= 4 /\ a.size \in 0..a.capacity
  BY ArrayShape
<1>2. /\ e \in Arrays /\ e.size = a.size /\ a.size + 1 <= e.capacity
      /\ \A k \in 1..a.size : e.arr[k].text = a.arr[k].text
  <2>1. CASE a.size <= a.capacity - 2
    BY <1>1, <2>1 DEF Strings!expandMyStringArr
  <2>2. CASE ~(a.size <= a.capacity - 2)
    <3>1. e = Strings!Resized(a, 2 * a.capacity)
      BY <2>2 DEF Strings!expandMyStringArr
    <3>2. 2 * a.capacity \in Nat /\ 2 * a.capacity >= 4 /\ a.size + 1 <= 2 * a.capacity
          /\ a.size <= 2 * a.capacity
      BY <1>1
    <3> HIDE DEF e
    <3> QED
      BY <3>1, <3>2, ResizedKeeps
  <2> QED
    BY <2>1, <2>2
<1>3. Strings!pushMyStringArr(a, text)
        = [arr |-> f, capacity |-> e.capacity, size |-> e.size + 1]
  BY DEF Strings!pushMyStringArr
<1> HIDE DEF e
<1>4. /\ e.capacity \in Nat /\ e.capacity >= 4
      /\ e.arr \in [1..e.capacity -> Roomy]
  BY <1>2, ArrayShape
<1>5. e.size + 1 \in 1..e.capacity /\ e.size + 1 \in 0..e.capacity
  BY <1>1, <1>2, <1>4
<1>6. /\ f \in [1..e.capacity -> Roomy] /\ f[e.size + 1].text = text
      /\ \A k \in 1..e.capacity : k # e.size + 1 => f[k] = e.arr[k]
  BY <1>4, <1>5, CopyHasRoom
<1>7. \A k \in 1..a.size : k \in 1..e.capacity /\ k # e.size + 1
  BY <1>1, <1>2, <1>4
<1> HIDE DEF f
<1>8. [arr |-> f, capacity |-> e.capacity, size |-> e.size + 1] \in Arrays
  BY <1>4, <1>5, <1>6, ArrayMade
<1> QED
  BY <1>2, <1>3, <1>6, <1>7, <1>8

-----------------------------------------------------------------------------
(* A block is read into the cleared array, line by line. *)
ReadResult(r, lines, k) ==
  /\ r.ms \in Roomy /\ r.msa \in Arrays /\ r.msa.size = k
  /\ \A i \in 1..k : r.msa.arr[i].text = lines[i]

LEMMA BlockIsRead ==
  ASSUME NEW x \in Roomy, NEW a \in Arrays, NEW lines \in Seq(Line)
  PROVE  ReadResult(FoldLeft(read_one_line_to_msa,
                             [ms |-> x, msa |-> Strings!clearMyStringArr(a)], lines),
                    lines, Len(lines))
<1> DEFINE V == [ms : Roomy, msa : Arrays]
           base == [ms |-> x, msa |-> Strings!clearMyStringArr(a)]
           step == [p \in V \X Line |-> read_one_line_to_msa(p[1], p[2])]
           Rec(f) == f = [T \in SUBSET (DOMAIN lines) |->
                            IF T = {} THEN base
                            ELSE read_one_line_to_msa(f[T \ {Max(T)}], lines[Max(T)])]
<1>0. Len(lines) \in Nat /\ DOMAIN lines = 1..Len(lines)
  OBVIOUS
<1>1. base \in V /\ base.msa.size = 0
  <2>1. /\ a.capacity \in Nat /\ a.capacity >= 4 /\ a.arr \in [1..a.capacity -> Roomy]
        /\ a = [arr |-> a.arr, capacity |-> a.capacity, size |-> a.size]
    BY ArrayShape
  <2>2. Strings!clearMyStringArr(a) = [arr |-> a.arr, capacity |-> a.capacity, size |-> 0]
    BY <2>1 DEF Strings!clearMyStringArr
  <2>3. 0 \in 0..a.capacity
    BY <2>1
  <2> QED
    BY <2>1, <2>2, <2>3, ArrayMade
<1>2. ASSUME NEW r \in V, NEW line \in Line
      PROVE  /\ step[<<r, line>>] = read_one_line_to_msa(r, line)
             /\ read_one_line_to_msa(r, line)
                  = [ms |-> Strings!appendnMyString(r.ms, line),
                     msa |-> Strings!pushMyStringArr(r.msa, line)]
             /\ read_one_line_to_msa(r, line) \in V
  <2>1. Strings!appendnMyString(r.ms, line) \in Roomy
    BY CopyHasRoom DEF Strings!appendnMyString
  <2>2. Strings!pushMyStringArr(r.msa, line) \in Arrays
    BY PushKeeps
  <2>3. step[<<r, line>>] = read_one_line_to_msa(r, line)
    OBVIOUS
  <2> QED
    BY <2>1, <2>2, <2>3 DEF read_one_line_to_msa
<1>3. step \in [V \X Line -> V]
  <2> HIDE DEF V
  <2> QED
    BY <1>2
<1> HIDE DEF V, base, step
<1>4. \E f : Rec(f)
  <2>1. PICK f \in [SUBSET (DOMAIN lines) -> V] : FoldsOver(f, step, base, lines)
    BY <1>1, <1>3, FoldExists
  <2>2. ASSUME NEW T \in SUBSET (DOMAIN lines), T # {}
        PROVE  f[T] = read_one_line_to_msa(f[T \ {Max(T)}], lines[Max(T)])
    <3>1. Max(T) \in T
      BY <1>0, <2>2, MaxIsIn
    <3>2. lines[Max(T)] \in Line /\ f[T \ {Max(T)}] \in V
      BY <1>0, <3>1
    <3>3. f[T] = step[<<f[T \ {Max(T)}], lines[Max(T)]>>]
      BY <2>1, <2>2 DEF FoldsOver
    <3> QED
      BY <1>2, <3>2, <3>3
  <2>3. f[{}] = base
    BY <2>1 DEF FoldsOver
  <2>4. f = [T \in SUBSET (DOMAIN lines) |->
               IF T = {} THEN base
               ELSE read_one_line_to_msa(f[T \ {Max(T)}], lines[Max(T)])]
    BY <2>2, <2>3
  <2> QED
    BY <2>4
<1> DEFINE it == CHOOSE f : Rec(f)
<1>5. Rec(it)
  <2> HIDE DEF Rec
  <2> QED
    BY <1>4
<1>6. FoldLeft(read_one_line_to_msa, base, lines) = it[DOMAIN lines]
  BY DEF FoldLeft, MapThenFoldSet
<1> HIDE DEF it
<1> DEFINE Good == {k \in Nat : k <= Len(lines) =>
                      it[1..k] \in V /\ ReadResult(it[1..k], lines, k)}
<1>7. 0 \in Good
  <2>1. it[1..0] = base
    <3>1. 1..0 = {}
      OBVIOUS
    <3> QED
      BY <1>5, <3>1
  <2>2. base.ms \in Roomy /\ base.msa \in Arrays
    BY <1>1 DEF V
  <2> QED
    BY <1>1, <2>1, <2>2 DEF ReadResult
<1>8. ASSUME NEW k \in Nat, k \in Good PROVE k + 1 \in Good
  <2> SUFFICES ASSUME k + 1 <= Len(lines)
               PROVE  it[1..(k + 1)] \in V /\ ReadResult(it[1..(k + 1)], lines, k + 1)
    OBVIOUS
  <2> DEFINE r == it[1..k]
             line == lines[k + 1]
             T == 1..(k + 1)
  <2>1. r \in V /\ ReadResult(r, lines, k)
    BY <1>0, <1>8
  <2>2. line \in Line
    BY <1>0
  <2>3. /\ T \in SUBSET (1..Len(lines)) /\ k + 1 \in T /\ T # {} /\ T \ {k + 1} = 1..k
        /\ \A y \in T : y \in Int /\ y <= k + 1
    <3>1. k + 1 \in T
      OBVIOUS
    <3>2. \A y \in T : y \in Int /\ y <= k + 1 /\ y \in 1..Len(lines)
      BY <1>0
    <3>3. T \ {k + 1} = 1..k
      OBVIOUS
    <3> HIDE DEF T
    <3> QED
      BY <3>1, <3>2, <3>3
  <2>4. Max(T) = k + 1
    <3> HIDE DEF T
    <3>1. Max(T) \in T /\ k + 1 <= Max(T)
      BY <1>0, <2>3, MaxIsIn
    <3>2. Max(T) <= k + 1 /\ Max(T) \in Int
      BY <2>3, <3>1
    <3> HIDE DEF Max
    <3> QED
      BY <3>1, <3>2
  <2>5. it[T] = read_one_line_to_msa(r, line)
    <3> HIDE DEF T
    <3>1. it[T] = read_one_line_to_msa(it[T \ {Max(T)}], lines[Max(T)])
      BY <1>0, <1>5, <2>3
    <3> QED
      BY <2>3, <2>4, <3>1
  <2> HIDE DEF r, line, Good, T
  <2>6. /\ it[T] = [ms |-> Strings!appendnMyString(r.ms, line),
                    msa |-> Strings!pushMyStringArr(r.msa, line)]
        /\ it[T] \in V
    BY <1>2, <2>1, <2>2, <2>5
  <2> DEFINE b == Strings!pushMyStringArr(r.msa, line)
  <2>7. /\ r.msa \in Arrays /\ r.msa.size = k
        /\ \A i \in 1..k : r.msa.arr[i].text = lines[i]
    BY <2>1 DEF ReadResult
  <2>8. /\ b \in Arrays /\ b.size = k + 1 /\ b.arr[k + 1].text = line
        /\ \A i \in 1..k : b.arr[i].text = r.msa.arr[i].text
    BY <2>2, <2>7, PushKeeps
  <2>9. it[T].msa = b /\ it[T].ms \in Roomy
    BY <2>6 DEF V
  <2> HIDE DEF b
  <2>10. \A i \in 1..(k + 1) : b.arr[i].text = lines[i]
    <3> SUFFICES ASSUME NEW i \in 1..(k + 1) PROVE b.arr[i].text = lines[i]
      OBVIOUS
    <3>1. i \in 1..k \/ i = k + 1
      OBVIOUS
    <3> QED
      BY <2>7, <2>8, <3>1 DEF line
  <2> QED
    BY <2>6, <2>8, <2>9, <2>10 DEF ReadResult, T
<1>9. Nat \subseteq Good
  <2> HIDE DEF Good
  <2> QED
    BY <1>7, <1>8, SetInduction
<1> QED
  BY <1>0, <1>6, <1>9 DEF base

-----------------------------------------------------------------------------
(* Every line of an earlier run was read before every line of a later one. *)
Earlier(s, size, end) ==
  \A i, k \in 1..end : (i - 1) \div size < (k - 1) \div size => s[i].at < s[k].at

(* The first p elements are q pairs of runs. *)
Pairs(p, q, l) == p = q * (2 * l)

(* The run that an element is in. *)
LEMMA RunOf ==
  ASSUME NEW d \in Nat \ {0}, NEW q \in Nat, NEW k \in Nat \ {0}
  PROVE  /\ (k - 1) \div d \in Nat
         /\ k <= q * d => (k - 1) \div d < q
         /\ q * d < k => q <= (k - 1) \div d
         /\ q * d < k /\ k <= q * d + d => (k - 1) \div d = q
<1> DEFINE x == (k - 1) \div d
<1>1. k - 1 \in Nat
  OBVIOUS
<1>2. x \in Nat /\ d * x <= k - 1 /\ k - 1 < d * x + d
  BY <1>1
<1> HIDE DEF x
<1>3. k <= q * d => x < q
  BY <1>2
<1>4. q * d < k => q <= x
  BY <1>2
<1>5. k <= q * d + d => x <= q
  BY <1>2
<1> QED
  BY <1>2, <1>3, <1>4, <1>5 DEF x

(* U is the target T with a run stored behind its first p elements, the    *)
(* lines of the next 2 * l elements at most of the source S.               *)
Stored(N, l, q, p, run, r, S, T, U) ==
  /\ N \in Nat /\ l \in Nat \ {0} /\ q \in Nat /\ p \in Nat /\ Pairs(p, q, l)
  /\ run \in Seq(Line) /\ r \in Nat /\ r = p + Len(run) /\ r <= N /\ r <= p + 2 * l
  /\ S \in [1..N -> Line] /\ Earlier(S, l, N)
  /\ Members(run) = {S[x] : x \in (p + 1)..r} /\ Ordered(run)
  /\ SameLines(T, S, p) /\ RunsInOrder(T, 2 * l, p) /\ Earlier(T, 2 * l, p)
  /\ \A k \in 1..p : U[k] = T[k]
  /\ \A k \in (p + 1)..r : U[k] = run[k - p]

(* With it the target has grown by a sorted run. *)
LEMMA PassGrows ==
  ASSUME NEW N, NEW l, NEW q, NEW p, NEW run, NEW r, NEW S, NEW T, NEW U,
         Stored(N, l, q, p, run, r, S, T, U)
  PROVE  SameLines(U, S, r) /\ RunsInOrder(U, 2 * l, r) /\ Earlier(U, 2 * l, r)
<1>0. /\ N \in Nat /\ l \in Nat \ {0} /\ q \in Nat /\ p \in Nat /\ Pairs(p, q, l)
      /\ run \in Seq(Line) /\ r \in Nat /\ r = p + Len(run) /\ r <= N /\ r <= p + 2 * l
      /\ S \in [1..N -> Line] /\ Earlier(S, l, N)
      /\ Members(run) = {S[x] : x \in (p + 1)..r} /\ Ordered(run)
      /\ SameLines(T, S, p) /\ RunsInOrder(T, 2 * l, p) /\ Earlier(T, 2 * l, p)
      /\ \A k \in 1..p : U[k] = T[k]
      /\ \A k \in (p + 1)..r : U[k] = run[k - p]
  BY DEF Stored
<1> USE <1>0
<1> DEFINE d == 2 * l
<1>1. Len(run) \in Nat /\ d \in Nat \ {0} /\ p <= r
  OBVIOUS
<1>2. \A k \in 1..r : k \in Nat \ {0} /\ (k \in 1..p \/ k \in (p + 1)..r)
  OBVIOUS
<1>3. \A k \in (p + 1)..r : k \in 1..r /\ k - p \in 1..Len(run) /\ U[k] \in Members(run)
  <2>1. \A k \in (p + 1)..r : k \in 1..r /\ k - p \in 1..Len(run)
    BY <1>1
  <2> QED
    BY <2>1 DEF Members
<1>4. \A k \in 1..p : k \in 1..r /\ U[k] \in {S[x] : x \in 1..p}
  <2>1. \A k \in 1..p : k \in 1..r
    BY <1>1
  <2> QED
    BY <2>1 DEF SameLines
<1>5. ASSUME NEW k \in 1..p PROVE (k - 1) \div d \in Nat /\ (k - 1) \div d < q
  <2>1. k \in Nat \ {0} /\ k <= q * d
    BY DEF Pairs
  <2> HIDE DEF d
  <2> QED
    BY <1>1, <2>1, RunOf
<1>6. ASSUME NEW k \in (p + 1)..r PROVE (k - 1) \div d = q
  <2>0. p = q * d /\ k <= p + d /\ p < k
    BY DEF Pairs
  <2>1. k \in Nat \ {0} /\ q * d < k /\ k <= q * d + d
    <3>1. k \in Nat \ {0}
      OBVIOUS
    <3> QED
      BY <2>0, <3>1, Zenon
  <2> HIDE DEF d
  <2> QED
    BY <1>1, <2>1, RunOf
<1>7. \A x \in 1..p, y \in (p + 1)..r : S[x].at < S[y].at
  <2> SUFFICES ASSUME NEW x \in 1..p, NEW y \in (p + 1)..r PROVE S[x].at < S[y].at
    OBVIOUS
  <2>1. x \in 1..N /\ y \in 1..N /\ x \in Nat \ {0} /\ y \in Nat \ {0}
    BY <1>1
  <2>2. 2 * q \in Nat /\ x <= (2 * q) * l /\ (2 * q) * l < y
    <3>1. q * (2 * l) = (2 * q) * l
      OBVIOUS
    <3> QED
      BY <3>1 DEF Pairs
  <2>3. (x - 1) \div l \in Nat /\ (x - 1) \div l < 2 * q
    BY <2>1, <2>2, RunOf
  <2>4. (y - 1) \div l \in Nat /\ 2 * q <= (y - 1) \div l
    BY <2>1, <2>2, RunOf
  <2>5. (x - 1) \div l < (y - 1) \div l
    BY <2>2, <2>3, <2>4
  <2> QED
    BY <2>1, <2>5 DEF Earlier
<1>8. SameLines(U, S, r)
  <2>1. ASSUME NEW k \in 1..r PROVE U[k] \in {S[x] : x \in 1..r}
    <3>1. CASE k \in 1..p
      BY <1>1, <1>4, <3>1
    <3>2. CASE k \in (p + 1)..r
      BY <1>1, <1>3, <3>2
    <3> QED
      BY <1>2, <3>1, <3>2
  <2>2. ASSUME NEW x \in 1..r PROVE S[x] \in {U[k] : k \in 1..r}
    <3>1. CASE x \in 1..p
      <4>1. S[x] \in {T[k] : k \in 1..p}
        <5>1. S[x] \in {S[i] : i \in 1..p}
          BY <3>1
        <5> QED
          BY <5>1 DEF SameLines
      <4> QED
        BY <1>4, <4>1
    <3>2. CASE x \in (p + 1)..r
      <4>0. S[x] \in Members(run)
        BY <3>2
      <4>1. PICK z \in 1..Len(run) : run[z] = S[x]
        BY <4>0 DEF Members
      <4>2. z + p \in (p + 1)..r /\ (z + p) - p = z
        BY <1>1
      <4>3. U[z + p] = S[x] /\ z + p \in 1..r
        BY <1>3, <4>1, <4>2
      <4> QED
        BY <4>3
    <3> QED
      BY <1>2, <3>1, <3>2
  <2>3. {U[k] : k \in 1..r} = {S[x] : x \in 1..r}
    <3>1. ASSUME NEW z \in {U[k] : k \in 1..r} PROVE z \in {S[x] : x \in 1..r}
      <4>1. PICK k \in 1..r : z = U[k]
        OBVIOUS
      <4> QED
        BY <2>1, <4>1, Zenon
    <3>2. ASSUME NEW z \in {S[x] : x \in 1..r} PROVE z \in {U[k] : k \in 1..r}
      <4>1. PICK x \in 1..r : z = S[x]
        OBVIOUS
      <4> QED
        BY <2>2, <4>1, Zenon
    <3> QED
      BY <3>1, <3>2
  <2> QED
    BY <2>3 DEF SameLines
<1>9. RunsInOrder(U, d, r)
  <2> SUFFICES ASSUME NEW i \in 1..r, NEW k \in 1..r, i < k, (i - 1) \div d = (k - 1) \div d
               PROVE  Before(U[i], U[k])
    BY DEF RunsInOrder
  <2>1. CASE k \in 1..p
    <3>1. i \in 1..p
      BY <1>2, <2>1
    <3>2. Before(T[i], T[k])
      BY <2>1, <3>1 DEF RunsInOrder
    <3> QED
      BY <2>1, <3>1, <3>2
  <2>2. CASE k \in (p + 1)..r
    <3>1. i \in (p + 1)..r
      <4> SUFFICES ASSUME i \in 1..p PROVE FALSE
        BY <1>2
      <4>1. (i - 1) \div d < q /\ (k - 1) \div d = q /\ (i - 1) \div d \in Nat
        BY <1>5, <1>6, <2>2
      <4> HIDE DEF d
      <4> QED
        BY <4>1
    <3>2. i - p < k - p /\ i - p \in 1..Len(run) /\ k - p \in 1..Len(run)
      BY SMTT(30), <1>3, <2>2, <3>1
    <3>3. Before(run[i - p], run[k - p])
      BY <3>2 DEF Ordered
    <3> QED
      BY <2>2, <3>1, <3>3
  <2> QED
    BY <1>2, <2>1, <2>2
<1>10. Earlier(U, d, r)
  <2> SUFFICES ASSUME NEW i \in 1..r, NEW k \in 1..r, (i - 1) \div d < (k - 1) \div d
               PROVE  U[i].at < U[k].at
    BY DEF Earlier
  <2>1. CASE k \in 1..p
    <3>1. i \in 1..p
      <4> SUFFICES ASSUME i \in (p + 1)..r PROVE FALSE
        BY <1>2
      <4>1. (k - 1) \div d < q /\ (i - 1) \div d = q /\ (k - 1) \div d \in Nat
        BY <1>5, <1>6, <2>1
      <4> HIDE DEF d
      <4> QED
        BY <4>1
    <3>2. T[i].at < T[k].at
      BY <2>1, <3>1 DEF Earlier
    <3> QED
      BY <2>1, <3>1, <3>2
  <2>2. CASE k \in (p + 1)..r
    <3>1. i \in 1..p
      <4> SUFFICES ASSUME i \in (p + 1)..r PROVE FALSE
        BY <1>2
      <4>1. (k - 1) \div d = q /\ (i - 1) \div d = q
        BY <1>6, <2>2
      <4> HIDE DEF d
      <4> QED
        BY <4>1
    <3>2. PICK x \in 1..p : U[i] = S[x]
      BY <1>4, <3>1
    <3>3. PICK y \in (p + 1)..r : U[k] = S[y]
      BY <1>3, <2>2
    <3> QED
      BY <1>7, <3>2, <3>3
  <2> QED
    BY <1>2, <2>1, <2>2
<1> QED
  BY <1>8, <1>9, <1>10

(* The lines from p + 1 on, two runs of the source. *)
LEMMA RunsToMerge ==
  ASSUME NEW N \in Nat, NEW l \in Nat \ {0}, NEW q \in Nat, NEW p \in Nat, Pairs(p, q, l),
         NEW r \in p..N, r <= p + 2 * l,
         NEW S \in [1..N -> Line], RunsInOrder(S, l, N), Earlier(S, l, N)
  PROVE  /\ \A x, y \in (p + 1)..(p + l) : x < y /\ y <= r => Before(S[x], S[y])
         /\ p + l <= r => TwoRuns(S, p + 1, p + l, r)
<1>1. 2 * q \in Nat /\ 2 * q + 1 \in Nat /\ p = (2 * q) * l /\ p + l = (2 * q + 1) * l
  BY DEF Pairs
<1>2. ASSUME NEW x \in (p + 1)..(p + l) PROVE x \in Nat \ {0} /\ (x - 1) \div l = 2 * q
  <2>1. x \in Nat \ {0} /\ (2 * q) * l < x /\ x <= (2 * q) * l + l
    BY <1>1
  <2> QED
    BY <1>1, <2>1, RunOf
<1>3. ASSUME NEW x \in (p + l + 1)..r PROVE x \in Nat \ {0} /\ (x - 1) \div l = 2 * q + 1
  <2>1. x \in Nat \ {0} /\ (2 * q + 1) * l < x /\ x <= (2 * q + 1) * l + l
    BY <1>1
  <2> QED
    BY <1>1, <2>1, RunOf
<1>4. \A x, y \in (p + 1)..(p + l) : x < y /\ y <= r => Before(S[x], S[y])
  <2> SUFFICES ASSUME NEW x \in (p + 1)..(p + l), NEW y \in (p + 1)..(p + l), x < y, y <= r
               PROVE  Before(S[x], S[y])
    OBVIOUS
  <2>1. x \in 1..N /\ y \in 1..N
    OBVIOUS
  <2> QED
    BY <1>2, <2>1 DEF RunsInOrder
<1>5. ASSUME p + l <= r PROVE TwoRuns(S, p + 1, p + l, r)
  <2>1. \A x, y \in (p + 1)..(p + l) : x < y => Before(S[x], S[y])
    <3>1. \A y \in (p + 1)..(p + l) : y <= r
      BY <1>5
    <3> QED
      BY <1>4, <3>1
  <2>2. \A x \in (p + 1)..(p + l) : x \in 1..N
    BY <1>5
  <2>3. \A x \in (p + l + 1)..r : x \in 1..N
    OBVIOUS
  <2>4. \A x, y \in (p + l + 1)..r : x < y => Before(S[x], S[y])
    BY <1>3, <2>3 DEF RunsInOrder
  <2>5. ASSUME NEW x \in (p + 1)..(p + l), NEW y \in (p + l + 1)..r PROVE S[x].at < S[y].at
    <3>1. (x - 1) \div l < (y - 1) \div l
      BY <1>1, <1>2, <1>3
    <3> QED
      BY <2>2, <2>3, <3>1 DEF Earlier
  <2> QED
    BY <2>1, <2>4, <2>5 DEF TwoRuns
<1> QED
  BY <1>4, <1>5

-----------------------------------------------------------------------------
Types ==
  /\ blocks \in Seq(Seq(Keys)) /\ given \in Seq(Line) /\ ms \in Roomy
  /\ msa \in Arrays /\ merge_msa \in Arrays
  /\ into \in {"read", "merge_msa", "msa", "done"}
  /\ length \in Nat \ {0} /\ pos \in Nat

(* The block in the array has as many lines as were read, numbered as they *)
(* were; before the sort they are the ones read.                           *)
BlockRead ==
  /\ n = Len(given) /\ \A k \in 1..n : given[k].at = k
  /\ into = "read" => Text(msa) = given

(* What PassInvariant leaves out: a whole number of pairs of runs is       *)
(* merged, and equal lines of two runs stand as they were read.            *)
Passing ==
  Sorting =>
    /\ 1 < n /\ merge_msa.size = n
    /\ length < IF into = "merge_msa" THEN n ELSE 2 * n
    /\ \E q \in Nat : Pairs(pos, q, length)
    /\ Earlier(Text(Source), length, n) /\ Earlier(Text(Target), 2 * length, pos)

IInv == Types /\ BlockRead /\ Passing /\ PassInvariant /\ Sorted

(* The lines of a block, as they are numbered. *)
LEMMA LinesOf ==
  ASSUME NEW b \in Seq(Keys)
  PROVE  Lines(b) \in Seq(Line) /\ Len(Lines(b)) = Len(b) /\ \A k \in 1..Len(b) : Lines(b)[k].at = k
<1>1. Len(b) \in Nat /\ DOMAIN b = 1..Len(b) /\ \A k \in 1..Len(b) : b[k] \in Keys /\ k \in Nat \ {0}
  OBVIOUS
<1>2. Lines(b) = [k \in 1..Len(b) |-> [key |-> b[k], at |-> k]]
  BY <1>1 DEF Lines
<1>3. \A k \in 1..Len(b) : [key |-> b[k], at |-> k] \in Line
  BY <1>1 DEF Line
<1>4. Lines(b) \in [1..Len(b) -> Line]
  BY <1>2, <1>3
<1>5. Lines(b) \in Seq(Line) /\ Len(Lines(b)) = Len(b)
  BY <1>1, <1>4
<1> QED
  BY <1>2, <1>5

(* Every block fits the sequences of keys. *)
LEMMA BlocksAreLists ==
  \A b \in FirstBlocks \cup SeqOf(Keys, MaxLen) : b \in Seq(Keys)
<1>1. \A b \in FirstBlocks : b \in Seq(Keys)
  BY KeysAssumption
<1>2. \A m \in 0..MaxLen : \A b \in [1..m -> Keys] : b \in Seq(Keys)
  BY KeysAssumption
<1>3. \A b \in SeqOf(Keys, MaxLen) : b \in Seq(Keys)
  BY <1>2 DEF SeqOf
<1> QED
  BY <1>1, <1>3

LEMMA InitHolds == Init => IInv
<1> SUFFICES ASSUME Init PROVE IInv
  OBVIOUS
<1>1. blocks \in Seq(Seq(Keys))
  <2>1. PICK first \in FirstBlocks, second \in SeqOf(Keys, MaxLen) : blocks = <<first, second>>
    BY DEF Init
  <2>2. first \in Seq(Keys) /\ second \in Seq(Keys)
    BY BlocksAreLists
  <2> QED
    BY <2>1, <2>2
<1>2. msa \in Arrays /\ merge_msa \in Arrays /\ n = 0
  <2> DEFINE f == [k \in 1..4 |-> Strings!conMyString]
  <2>1. Strings!conMyStringArr = [arr |-> f, capacity |-> 4, size |-> 0]
    BY DEF Strings!conMyStringArr
  <2>2. f \in [1..4 -> Roomy] /\ 4 \in Nat /\ 4 >= 4 /\ 0 \in 0..4
    BY CopyHasRoom
  <2> HIDE DEF f
  <2>3. Strings!conMyStringArr \in Arrays
    BY <2>1, <2>2, ArrayMade
  <2> QED
    BY <2>1, <2>3 DEF Init, n
<1>3. Types
  BY <1>1, <1>2, CopyHasRoom DEF Init, Types
<1>4. BlockRead /\ Passing /\ PassInvariant
  BY <1>2 DEF Init, BlockRead, Passing, PassInvariant, Sorting
<1>5. Sorted
  BY <1>2 DEF Init, Sorted, SameLines
<1> QED
  BY <1>3, <1>4, <1>5 DEF IInv

LEMMA ReadHolds == IInv /\ single_read_block => IInv'
<1> SUFFICES ASSUME IInv, single_read_block PROVE IInv'
  OBVIOUS
<1> USE DEF IInv
<1> DEFINE lines == Lines(Head(blocks))
           read == FoldLeft(read_one_line_to_msa,
                            [ms |-> ms, msa |-> Strings!clearMyStringArr(msa)], lines)
<1>1. /\ into = "done" /\ blocks # << >> /\ given' = lines /\ ms' = read.ms /\ msa' = read.msa
      /\ blocks' = Tail(blocks) /\ into' = "read"
      /\ merge_msa' = merge_msa /\ length' = length /\ pos' = pos
  BY DEF single_read_block
<1>2. Head(blocks) \in Seq(Keys) /\ blocks' \in Seq(Seq(Keys))
  BY <1>1 DEF Types
<1>3. /\ lines \in Seq(Line) /\ Len(lines) \in Nat
      /\ \A k \in 1..Len(lines) : lines[k].at = k
  BY <1>2, LinesOf
<1> HIDE DEF lines
<1>4. ReadResult(read, lines, Len(lines))
  BY <1>3, BlockIsRead DEF Types
<1> HIDE DEF read
<1>5. /\ ms' \in Roomy /\ msa' \in Arrays /\ n' = Len(lines)
      /\ \A i \in 1..Len(lines) : msa'.arr[i].text = lines[i]
  BY <1>1, <1>4 DEF ReadResult, n
<1>6. Types'
  BY <1>1, <1>2, <1>3, <1>5 DEF Types
<1>7. Text(msa)' = given'
  <2>1. Text(msa)' = [k \in 1..Len(lines) |-> lines[k]]
    BY <1>5 DEF Text
  <2> QED
    BY <1>1, <1>3, <2>1
<1>8. BlockRead'
  BY <1>1, <1>3, <1>5, <1>7 DEF BlockRead
<1>9. Passing' /\ PassInvariant' /\ Sorted'
  BY <1>1 DEF Passing, PassInvariant, Sorted, Sorting
<1> QED
  BY <1>6, <1>8, <1>9

LEMMA StartHolds == IInv /\ StartSort => IInv'
<1> SUFFICES ASSUME IInv, StartSort PROVE IInv'
  OBVIOUS
<1> USE DEF IInv
<1>1. /\ into = "read" /\ length' = 1 /\ pos' = 0
      /\ into' = IF 1 < n THEN "merge_msa" ELSE "done"
      /\ blocks' = blocks /\ given' = given /\ ms' = ms /\ msa' = msa
  BY DEF StartSort
<1>2. n \in Nat /\ n' = n /\ Text(msa)' = Text(msa) /\ Text(msa) = given /\ n = Len(given)
      /\ given \in Seq(Line) /\ \A k \in 1..n : given[k].at = k
  <2>1. n \in Nat
    BY ArrayShape DEF Types, n
  <2> QED
    BY <1>1, <2>1 DEF n, Text, BlockRead, Types
<1>3. merge_msa' \in Arrays /\ merge_msa'.size = n
  <2> DEFINE a == IF TooSmall(merge_msa, n) THEN Strings!recapacityMyStringArr(merge_msa, n)
                  ELSE merge_msa
  <2>0. /\ merge_msa.capacity \in Nat /\ merge_msa.capacity >= 4
        /\ merge_msa.size \in 0..merge_msa.capacity /\ merge_msa \in Arrays
    BY ArrayShape DEF Types
  <2>1. a \in Arrays /\ n <= a.capacity
    <3>1. CASE TooSmall(merge_msa, n)
      <4>1. merge_msa.capacity < n
        BY <3>1 DEF TooSmall
      <4>2. n >= 4 /\ merge_msa.size <= n
        BY <1>2, <2>0, <4>1
      <4>3. ~(n < merge_msa.size \/ n < 4)
        BY <1>2, <2>0, <4>2
      <4>4. a = Strings!Resized(merge_msa, n)
        BY <3>1, <4>3 DEF Strings!recapacityMyStringArr
      <4> HIDE DEF a
      <4>5. Strings!Resized(merge_msa, n) \in Arrays /\ Strings!Resized(merge_msa, n).capacity = n
        BY <1>2, <2>0, <4>2, ResizedKeeps
      <4> QED
        BY <1>2, <4>4, <4>5
    <3>2. CASE ~TooSmall(merge_msa, n)
      <4>1. a = merge_msa
        BY <3>2
      <4>2. n <= merge_msa.capacity
        BY <1>2, <2>0, <3>2 DEF TooSmall
      <4> QED
        BY <2>0, <4>1, <4>2
    <3> QED
      BY <3>1, <3>2
  <2>2. merge_msa' = [a EXCEPT !.size = n]
    BY DEF StartSort
  <2> HIDE DEF a
  <2>3. /\ a.capacity \in Nat /\ a.capacity >= 4 /\ a.arr \in [1..a.capacity -> Roomy]
        /\ a = [arr |-> a.arr, capacity |-> a.capacity, size |-> a.size]
    BY <2>1, ArrayShape
  <2>4. merge_msa' = [arr |-> a.arr, capacity |-> a.capacity, size |-> n]
    BY <2>2, <2>3
  <2>5. n \in 0..a.capacity
    BY <1>2, <2>1, <2>3
  <2> QED
    BY <2>3, <2>4, <2>5, ArrayMade
<1>4. Types'
  BY <1>1, <1>3 DEF Types
<1>5. BlockRead'
  <2>1. into' # "read"
    BY <1>1
  <2> QED
    BY <1>1, <1>2, <2>1 DEF BlockRead
<1>6. Sorted'
  <2> SUFFICES ASSUME into' = "done"
               PROVE  /\ n' = Len(given') /\ SameLines(Text(msa)', given', n')
                      /\ \A i, k \in 1..n' : i < k => Before(msa'.arr[i].text, msa'.arr[k].text)
    BY DEF Sorted
  <2>1. n <= 1
    BY <1>1, <1>2
  <2>2. SameLines(given, given, n)
    BY DEF SameLines
  <2> QED
    BY <1>1, <1>2, <2>1, <2>2
<1>7. ASSUME 1 < n PROVE Passing' /\ PassInvariant'
  <2>1. into' = "merge_msa" /\ Sorting' /\ Source' = msa' /\ Target' = merge_msa'
    BY <1>1, <1>7 DEF Sorting, Source, Target
  <2>2. Text(Source)' = given
    BY <1>2, <2>1 DEF Text
  <2>3. Pairs(pos', 0, length')
    BY <1>1 DEF Pairs
  <2>4. \A k \in 1..n : (k - 1) \div 1 = k - 1
    BY <1>2
  <2>5. Earlier(given, 1, n) /\ RunsInOrder(given, 1, n)
    <3>1. Earlier(given, 1, n)
      BY <1>2, <2>4 DEF Earlier
    <3>2. RunsInOrder(given, 1, n)
      BY <1>2, <2>4 DEF RunsInOrder
    <3> QED
      BY <3>1, <3>2
  <2>6. \A s, size : Earlier(s, size, 0) /\ RunsInOrder(s, size, 0)
    BY DEF Earlier, RunsInOrder
  <2>7. \A s, t : SameLines(s, t, 0)
    BY DEF SameLines
  <2>8. SameLines(given, given, n)
    BY DEF SameLines
  <2>9. 2 * 1 = 2 /\ 1 \in 1..(2 * n) /\ 0 \in 0..n
    BY <1>2, <1>7
  <2>10. Passing'
    BY <1>1, <1>2, <1>3, <1>7, <2>1, <2>2, <2>3, <2>5, <2>6 DEF Passing
  <2>11. PassInvariant'
    BY <1>1, <1>2, <2>1, <2>2, <2>5, <2>6, <2>7, <2>8, <2>9 DEF PassInvariant
  <2> QED
    BY <2>10, <2>11
<1>8. ASSUME ~(1 < n) PROVE Passing' /\ PassInvariant'
  BY <1>1, <1>8 DEF Passing, PassInvariant, Sorting
<1> QED
  BY <1>4, <1>5, <1>6, <1>7, <1>8

-----------------------------------------------------------------------------
(* The array that a step of a pass has written to. *)
Written == IF into = "merge_msa" THEN merge_msa' ELSE msa'

WrittenText == [k \in 1..n |-> Written.arr[k].text]

(* The two arrays of a pass, with the same lines as the block. *)
LEMMA PassArrays ==
  ASSUME IInv, Sorting
  PROVE  /\ n \in Nat /\ 1 < n /\ Source \in Arrays /\ Target \in Arrays
         /\ Target.size = n /\ n <= Target.capacity /\ DOMAIN Target.arr = 1..Target.capacity
         /\ Text(Source) \in [1..n -> Line] /\ Text(Source) \in Seq(Line) /\ Len(Text(Source)) = n
<1> USE DEF IInv
<1>1. n \in Nat /\ 1 < n /\ msa.size = n /\ merge_msa.size = n
  BY ArrayShape DEF Types, Passing, n
<1>2. Source \in Arrays /\ Target \in Arrays /\ Target.size = n
  BY <1>1 DEF Types, Source, Target
<1>3. n <= Target.capacity /\ DOMAIN Target.arr = 1..Target.capacity
  BY <1>2, ArrayShape
<1>4. \A k \in 1..n : given[k] \in Line
  BY <1>1 DEF Types, BlockRead
<1>5. \A k \in 1..n : Text(Source)[k] \in {Text(Source)[i] : i \in 1..n}
  OBVIOUS
<1>6. {Text(Source)[i] : i \in 1..n} = {given[i] : i \in 1..n}
  BY DEF PassInvariant, SameLines
<1>7. \A k \in 1..n : Text(Source)[k] \in Line
  BY <1>4, <1>5, <1>6
<1>8. Text(Source) \in [1..n -> Line]
  BY <1>7 DEF Text
<1> QED
  BY <1>1, <1>2, <1>3, <1>8

(* A run is stored behind the merged elements, and nothing else changes. *)
LEMMA StoreKeeps ==
  ASSUME IInv, Sorting, NEW run \in Seq(Line), pos + Len(run) <= n, Store(run)
  PROVE  /\ msa' \in Arrays /\ merge_msa' \in Arrays /\ n' = n /\ merge_msa'.size = n
         /\ IF into = "merge_msa" THEN msa' = msa ELSE merge_msa' = merge_msa
         /\ \A k \in 1..pos : WrittenText[k] = Text(Target)[k]
         /\ \A k \in (pos + 1)..(pos + Len(run)) : WrittenText[k] = run[k - pos]
<1> DEFINE c == Target.capacity
           f == [k \in 1..c |->
                   IF k - pos \in DOMAIN run THEN Strings!cpyMyString(Target.arr[k], run[k - pos])
                   ELSE Target.arr[k]]
           stored == [Target EXCEPT !.arr =
                        [k \in DOMAIN @ |->
                           IF k - pos \in DOMAIN run
                           THEN Strings!cpyMyString(@[k], run[k - pos]) ELSE @[k]]]
<1>1. /\ n \in Nat /\ Target \in Arrays /\ Target.size = n /\ n <= c
      /\ DOMAIN Target.arr = 1..c
  BY PassArrays
<1>2. /\ c \in Nat /\ c >= 4 /\ Target.arr \in [1..c -> Roomy]
      /\ Target = [arr |-> Target.arr, capacity |-> c, size |-> n]
  BY <1>1, ArrayShape
<1>3. Len(run) \in Nat /\ DOMAIN run = 1..Len(run) /\ pos \in Nat
  BY DEF IInv, Types
<1>4. f \in [1..c -> Roomy]
  <2> SUFFICES ASSUME NEW k \in 1..c
               PROVE  /\ k - pos \in DOMAIN run =>
                           Strings!cpyMyString(Target.arr[k], run[k - pos]) \in Roomy
                      /\ Target.arr[k] \in Roomy
    OBVIOUS
  <2>1. Target.arr[k] \in Roomy
    BY <1>2
  <2>2. ASSUME k - pos \in DOMAIN run PROVE run[k - pos] \in Line
    BY <1>3, <2>2
  <2> QED
    BY <2>1, <2>2, CopyHasRoom
<1>5. /\ \A k \in (pos + 1)..(pos + Len(run)) : f[k].text = run[k - pos]
      /\ \A k \in 1..pos : f[k].text = Target.arr[k].text
  <2>1. ASSUME NEW k \in (pos + 1)..(pos + Len(run)) PROVE f[k].text = run[k - pos]
    <3>1. k \in 1..c /\ k - pos \in DOMAIN run
      BY <1>1, <1>2, <1>3
    <3>2. Target.arr[k] \in Roomy /\ run[k - pos] \in Line
      BY <1>2, <1>3, <3>1
    <3>3. f[k] = Strings!cpyMyString(Target.arr[k], run[k - pos])
      BY <3>1
    <3> HIDE DEF f, c
    <3> QED
      BY <3>2, <3>3, CopyHasRoom
  <2>2. ASSUME NEW k \in 1..pos PROVE f[k].text = Target.arr[k].text
    <3>1. k \in 1..c /\ k - pos \notin DOMAIN run
      BY <1>1, <1>2, <1>3
    <3> QED
      BY <3>1
  <2> QED
    BY <2>1, <2>2
<1>6. stored = [arr |-> f, capacity |-> c, size |-> n]
  <2>1. stored = [Target EXCEPT !.arr = f]
    BY <1>1
  <2> HIDE DEF f, stored
  <2>2. [Target EXCEPT !.arr = f] = [arr |-> f, capacity |-> c, size |-> n]
    BY <1>2
  <2> QED
    BY <2>1, <2>2
<1>7. IF into = "merge_msa" THEN merge_msa' = stored /\ msa' = msa
                            ELSE msa' = stored /\ merge_msa' = merge_msa
  BY DEF Store
<1> HIDE DEF f, stored
<1>8. stored \in Arrays
  <2>1. n \in 0..c
    BY <1>1, <1>2
  <2> QED
    BY <1>2, <1>4, <1>6, <2>1, ArrayMade
<1>9. stored.arr = f /\ stored.size = n /\ Written = stored
  BY <1>6, <1>7 DEF Written
<1>10. msa' \in Arrays /\ merge_msa' \in Arrays /\ n' = n /\ merge_msa'.size = n
  <2>1. msa.size = n /\ merge_msa.size = n /\ msa \in Arrays /\ merge_msa \in Arrays
    BY DEF n, IInv, Types, Passing
  <2> QED
    BY <1>7, <1>8, <1>9, <2>1 DEF n
<1>11. \A k \in 1..n : WrittenText[k] = f[k].text /\ Text(Target)[k] = Target.arr[k].text
  BY <1>9 DEF WrittenText, Text
<1>12. /\ \A k \in 1..pos : k \in 1..n
       /\ \A k \in (pos + 1)..(pos + Len(run)) : k \in 1..n
  BY <1>1, <1>3
<1> QED
  BY <1>5, <1>7, <1>10, <1>11, <1>12

(* The target after a step that has merged the lines up to r. *)
LEMMA TargetGrows ==
  ASSUME IInv, Sorting, NEW run \in Seq(Line), NEW r \in Nat, r = pos + Len(run),
         r <= n, r <= pos + 2 * length, Store(run), Ordered(run),
         Members(run) = {Text(Source)[x] : x \in (pos + 1)..r}
  PROVE  /\ SameLines(WrittenText, Text(Source), r)
         /\ RunsInOrder(WrittenText, 2 * length, r) /\ Earlier(WrittenText, 2 * length, r)
<1>1. n \in Nat /\ pos \in Nat /\ length \in Nat \ {0} /\ Text(Source) \in [1..n -> Line]
  BY PassArrays DEF IInv, Types
<1>2. PICK q \in Nat : Pairs(pos, q, length)
  BY DEF IInv, Passing
<1>3. /\ Earlier(Text(Source), length, n) /\ SameLines(Text(Target), Text(Source), pos)
      /\ RunsInOrder(Text(Target), 2 * length, pos) /\ Earlier(Text(Target), 2 * length, pos)
  BY DEF IInv, Passing, PassInvariant
<1>4. /\ \A k \in 1..pos : WrittenText[k] = Text(Target)[k]
      /\ \A k \in (pos + 1)..r : WrittenText[k] = run[k - pos]
  BY StoreKeeps
<1> DEFINE S == Text(Source)
           T == Text(Target)
<1>5. /\ S \in [1..n -> Line] /\ Earlier(S, length, n)
      /\ Members(run) = {S[x] : x \in (pos + 1)..r}
      /\ SameLines(T, S, pos) /\ RunsInOrder(T, 2 * length, pos) /\ Earlier(T, 2 * length, pos)
      /\ \A k \in 1..pos : WrittenText[k] = T[k]
  BY <1>1, <1>3, <1>4
<1> HIDE DEF S, T
<1>6. Stored(n, length, q, pos, run, r, S, T, WrittenText)
  BY <1>1, <1>2, <1>4, <1>5 DEF Stored
<1>7. SameLines(WrittenText, S, r) /\ RunsInOrder(WrittenText, 2 * length, r)
      /\ Earlier(WrittenText, 2 * length, r)
  BY <1>6, PassGrows
<1> QED
  BY <1>7 DEF S

-----------------------------------------------------------------------------
(* The arrays keep their types, and the block what it was. *)
LEMMA StoredTypes ==
  ASSUME IInv, Sorting, NEW run \in Seq(Line), pos + Len(run) <= n, Store(run),
         length' \in Nat \ {0}, pos' \in Nat, into' \in {"merge_msa", "msa", "done"},
         UNCHANGED <<blocks, given, ms>>
  PROVE  Types' /\ BlockRead' /\ n' = n
<1>1. msa' \in Arrays /\ merge_msa' \in Arrays /\ n' = n
  BY StoreKeeps
<1>2. Types'
  BY <1>1 DEF IInv, Types
<1>3. BlockRead'
  <2>1. into' # "read" /\ given' = given
    OBVIOUS
  <2> QED
    BY <1>1, <2>1 DEF IInv, BlockRead
<1> QED
  BY <1>1, <1>2, <1>3

LEMMA PairHolds == IInv /\ MergePair => IInv'
<1> SUFFICES ASSUME IInv, MergePair PROVE IInv'
  OBVIOUS
<1> DEFINE S == Text(Source)
           last == pos + 2 * length
           run == mergeMsa(S, pos + 1, pos + length, last)
<1>1. /\ Sorting /\ pos <= n - 2 * length /\ Store(run) /\ pos' = last
      /\ blocks' = blocks /\ given' = given /\ ms' = ms /\ into' = into /\ length' = length
  BY DEF MergePair
<1>2. /\ n \in Nat /\ S \in [1..n -> Line] /\ S \in Seq(Line) /\ Len(S) = n
      /\ pos \in Nat /\ length \in Nat \ {0} /\ 1 < n
  BY <1>1, PassArrays DEF IInv, Types
<1>3. PICK q \in Nat : Pairs(pos, q, length)
  BY <1>1 DEF IInv, Passing
<1>4. RunsInOrder(S, length, n) /\ Earlier(S, length, n)
  BY <1>1 DEF IInv, Passing, PassInvariant
<1>5. last \in Nat /\ last \in pos..n /\ last <= pos + 2 * length /\ pos + length <= last
      /\ pos + length \in Nat
  BY <1>1, <1>2
<1> HIDE DEF S, last
<1>6. TwoRuns(S, pos + 1, pos + length, last)
  BY <1>2, <1>3, <1>4, <1>5, RunsToMerge
<1>7. Bounds(S, pos + 1, pos + length, last)
  BY <1>2, <1>5 DEF Bounds
<1>8. Merges(run, S, pos + 1, pos + length, pos + length + 1, last)
  BY <1>6, <1>7, MergeOfRuns
<1> HIDE DEF run
<1>9. /\ run \in Seq(Line) /\ Ordered(run) /\ last = pos + Len(run)
      /\ Members(run) = {S[x] : x \in (pos + 1)..last}
  <2>1. run \in Seq(Line) /\ Ordered(run)
        /\ Members(run) = {S[x] : x \in (pos + 1)..(pos + length)}
                            \cup {S[x] : x \in (pos + length + 1)..last}
        /\ Len(run) = (pos + length + 1 - (pos + 1)) + (last + 1 - (pos + length + 1))
    BY <1>8 DEF Merges, Rest
  <2>2. last = pos + Len(run)
    BY <1>2, <1>5, <2>1
  <2>3. (pos + 1)..last = ((pos + 1)..(pos + length)) \cup ((pos + length + 1)..last)
    BY <1>2, <1>5
  <2> QED
    BY <2>1, <2>2, <2>3
<1>10. last <= n
  BY <1>5
<1>11. /\ SameLines(WrittenText, S, last) /\ RunsInOrder(WrittenText, 2 * length, last)
       /\ Earlier(WrittenText, 2 * length, last)
  BY <1>1, <1>5, <1>9, <1>10, TargetGrows DEF S
<1>12. Types' /\ BlockRead' /\ n' = n
  <2>1. into' \in {"merge_msa", "msa", "done"} /\ length' \in Nat \ {0} /\ pos' \in Nat
    BY <1>1, <1>2, <1>5 DEF Sorting
  <2> QED
    BY <1>1, <1>9, <1>10, <2>1, StoredTypes
<1>13. Text(Source)' = S /\ Text(Target)' = WrittenText /\ Sorting' /\ merge_msa'.size = n
  <2>1. merge_msa'.size = n /\ IF into = "merge_msa" THEN msa' = msa ELSE merge_msa' = merge_msa
    BY <1>1, <1>9, <1>10, StoreKeeps
  <2>2. Source' = Source /\ Target' = Written
    BY <1>1, <2>1 DEF Source, Target, Written
  <2> QED
    BY <1>1, <1>12, <2>1, <2>2 DEF Text, WrittenText, S, Sorting
<1>14. Passing'
  <2>1. Pairs(pos', q + 1, length')
    BY <1>1, <1>2, <1>3 DEF Pairs, last
  <2>2. length < IF into = "merge_msa" THEN n ELSE 2 * n
    BY <1>1 DEF IInv, Passing
  <2>3. q + 1 \in Nat
    OBVIOUS
  <2> QED
    BY <1>1, <1>2, <1>4, <1>11, <1>12, <1>13, <2>1, <2>2, <2>3 DEF Passing
<1>15. PassInvariant'
  <2>1. SameLines(S, given, n) /\ length \in 1..(2 * n)
    BY <1>1 DEF IInv, PassInvariant, S
  <2>2. pos' \in 0..n
    BY <1>1, <1>5
  <2> QED
    BY <1>1, <1>4, <1>11, <1>12, <1>13, <2>1, <2>2 DEF PassInvariant
<1>16. Sorted'
  BY <1>1 DEF Sorted, Sorting
<1> QED
  BY <1>12, <1>14, <1>15, <1>16 DEF IInv

(* What the last step of a pass stores is the rest of the block, in order. *)
LEMMA EndRun ==
  ASSUME IInv, EndPass
  PROVE  \E run \in Seq(Line) : /\ Store(run) /\ Ordered(run) /\ n = pos + Len(run)
                                /\ Members(run) = {Text(Source)[x] : x \in (pos + 1)..n}
<1> DEFINE S == Text(Source)
<1>1. /\ Sorting /\ pos > n - 2 * length
      /\ IF HasTail THEN Store(mergeMsa(S, pos + 1, pos + length, n))
                    ELSE Store(SubSeq(S, pos + 1, n))
  BY DEF EndPass
<1>2. /\ n \in Nat /\ S \in [1..n -> Line] /\ S \in Seq(Line) /\ Len(S) = n
      /\ pos \in Nat /\ length \in Nat \ {0} /\ 1 < n /\ pos <= n
  BY <1>1, PassArrays DEF IInv, Types, PassInvariant
<1>3. PICK q \in Nat : Pairs(pos, q, length)
  BY <1>1 DEF IInv, Passing
<1>4. RunsInOrder(S, length, n) /\ Earlier(S, length, n)
  BY <1>1 DEF IInv, Passing, PassInvariant
<1>5. n \in pos..n /\ n <= pos + 2 * length
  BY <1>1, <1>2
<1> HIDE DEF S
<1>6. /\ \A x, y \in (pos + 1)..(pos + length) : x < y /\ y <= n => Before(S[x], S[y])
      /\ pos + length <= n => TwoRuns(S, pos + 1, pos + length, n)
  BY <1>2, <1>3, <1>4, <1>5, RunsToMerge
<1>7. CASE HasTail
  <2> DEFINE run == mergeMsa(S, pos + 1, pos + length, n)
  <2>1. pos + length < n /\ pos + length \in Nat
    BY <1>2, <1>7 DEF HasTail
  <2>2. TwoRuns(S, pos + 1, pos + length, n)
    BY <1>2, <1>6, <2>1
  <2>3. Bounds(S, pos + 1, pos + length, n)
    BY <1>2, <2>1 DEF Bounds
  <2>4. Merges(run, S, pos + 1, pos + length, pos + length + 1, n)
    BY <2>2, <2>3, MergeOfRuns
  <2>5. Store(run)
    BY <1>1, <1>7
  <2> HIDE DEF run
  <2>6. run \in Seq(Line) /\ Ordered(run)
        /\ Members(run) = {S[x] : x \in (pos + 1)..(pos + length)}
                            \cup {S[x] : x \in (pos + length + 1)..n}
        /\ Len(run) = (pos + length + 1 - (pos + 1)) + (n + 1 - (pos + length + 1))
    BY <2>4 DEF Merges, Rest
  <2>7. n = pos + Len(run)
    BY <1>2, <2>1, <2>6
  <2>8. (pos + 1)..n = ((pos + 1)..(pos + length)) \cup ((pos + length + 1)..n)
    BY <1>2, <2>1
  <2>9. Members(run) = {S[x] : x \in (pos + 1)..n}
    BY <2>6, <2>8
  <2> QED
    BY <2>5, <2>6, <2>7, <2>9 DEF S
<1>8. CASE ~HasTail
  <2> DEFINE run == SubSeq(S, pos + 1, n)
  <2>1. n <= pos + length
    BY <1>2, <1>8 DEF HasTail
  <2>2. \A x, y \in (pos + 1)..n : x < y => Before(S[x], S[y])
    <3>1. \A x \in (pos + 1)..n : x \in (pos + 1)..(pos + length) /\ x <= n
      BY <1>2, <2>1
    <3> QED
      BY <1>6, <3>1
  <2>3. pos + 1 \in Nat \ {0} /\ n <= Len(S) /\ pos + 1 <= n + 1
    BY <1>2
  <2>4. /\ run \in Seq(Line) /\ Len(run) = n + 1 - (pos + 1)
        /\ Members(run) = {S[x] : x \in (pos + 1)..n} /\ Ordered(run)
    BY <1>2, <2>2, <2>3, Part
  <2>5. Store(run)
    BY <1>1, <1>8
  <2> HIDE DEF run
  <2>6. n = pos + Len(run)
    BY <1>2, <2>4
  <2> QED
    BY <2>4, <2>5, <2>6 DEF S
<1> QED
  BY <1>7, <1>8

LEMMA EndHolds == IInv /\ EndPass => IInv'
<1> SUFFICES ASSUME IInv, EndPass PROVE IInv'
  OBVIOUS
<1> DEFINE S == Text(Source)
<1>1. /\ Sorting /\ pos > n - 2 * length /\ pos' = 0 /\ length' = 2 * length
      /\ into' = (IF PassesDone THEN "done" ELSE IF into = "merge_msa" THEN "msa" ELSE "merge_msa")
      /\ blocks' = blocks /\ given' = given /\ ms' = ms
  BY DEF EndPass
<1>2. /\ n \in Nat /\ 1 < n /\ length \in Nat \ {0} /\ pos \in Nat /\ into \in {"merge_msa", "msa"}
      /\ SameLines(S, given, n) /\ length < IF into = "merge_msa" THEN n ELSE 2 * n
  BY <1>1, PassArrays DEF IInv, Types, Passing, PassInvariant, Sorting
<1>3. PICK run \in Seq(Line) : /\ Store(run) /\ Ordered(run) /\ n = pos + Len(run)
                               /\ Members(run) = {S[x] : x \in (pos + 1)..n}
  BY EndRun
<1>4. n <= n /\ n <= pos + 2 * length /\ pos + Len(run) <= n
  BY <1>1, <1>2, <1>3
<1>5. /\ SameLines(WrittenText, S, n) /\ RunsInOrder(WrittenText, 2 * length, n)
      /\ Earlier(WrittenText, 2 * length, n)
  BY <1>1, <1>2, <1>3, <1>4, TargetGrows
<1> HIDE DEF S
<1>6. SameLines(WrittenText, given, n)
  BY <1>2, <1>5 DEF SameLines
<1>7. Types' /\ BlockRead' /\ n' = n
  <2>1. into' \in {"merge_msa", "msa", "done"} /\ length' \in Nat \ {0} /\ pos' \in Nat
    BY <1>1, <1>2
  <2> QED
    BY <1>1, <1>3, <1>4, <2>1, StoredTypes
<1>8. merge_msa'.size = n
  BY <1>1, <1>3, <1>4, StoreKeeps
<1>9. \A s, size : Earlier(s, size, 0) /\ RunsInOrder(s, size, 0)
  BY DEF Earlier, RunsInOrder
<1>10. \A s, t : SameLines(s, t, 0)
  BY DEF SameLines
<1>11. CASE PassesDone
  <2>1. into = "msa" /\ 2 * length >= n /\ into' = "done"
    BY <1>1, <1>11 DEF PassesDone
  <2>2. Text(msa)' = WrittenText /\ \A k \in 1..n : msa'.arr[k].text = WrittenText[k]
    BY <1>7, <2>1 DEF Text, WrittenText, Written
  <2>3. ASSUME NEW i \in 1..n, NEW k \in 1..n, i < k PROVE Before(WrittenText[i], WrittenText[k])
    <3>1. \A x \in 1..n : (x - 1) \div (2 * length) = 0
      <4> SUFFICES ASSUME NEW x \in 1..n PROVE (x - 1) \div (2 * length) = 0
        OBVIOUS
      <4> DEFINE d == 2 * length
      <4>1. d \in Nat \ {0} /\ x \in Nat \ {0} /\ x <= d
        BY <1>2, <2>1
      <4> HIDE DEF d
      <4>2. 0 * d < x /\ x <= 0 * d + d
        BY <4>1
      <4>3. (x - 1) \div d = 0
        BY <4>1, <4>2, RunOf
      <4> QED
        BY <4>3 DEF d
    <3> QED
      BY <1>5, <2>3, <3>1 DEF RunsInOrder
  <2>4. n' = Len(given')
    BY <1>7 DEF BlockRead
  <2>5. Sorted'
    BY <1>1, <1>6, <1>7, <2>2, <2>3, <2>4 DEF Sorted
  <2>6. Passing' /\ PassInvariant'
    BY <2>1 DEF Passing, PassInvariant, Sorting
  <2> QED
    BY <1>7, <2>5, <2>6 DEF IInv
<1>12. CASE ~PassesDone
  <2>1. into' = (IF into = "merge_msa" THEN "msa" ELSE "merge_msa") /\ Sorting'
    BY <1>1, <1>12 DEF Sorting
  <2>2. Text(Source)' = WrittenText
    BY <1>2, <1>7, <2>1 DEF Text, WrittenText, Written, Source
  <2>3. length' < IF into' = "merge_msa" THEN n ELSE 2 * n
    <3>1. into = "msa" => 2 * length < n
      BY <1>2, <1>12 DEF PassesDone
    <3> QED
      BY <1>1, <1>2, <2>1, <3>1
  <2>4. Pairs(pos', 0, length') /\ pos' \in 0..n' /\ length' \in 1..(2 * n')
    <3>1. Pairs(pos', 0, length')
      BY <1>1, <1>2 DEF Pairs
    <3>2. pos' \in 0..n'
      BY <1>1, <1>2, <1>7
    <3>3. length' \in 1..(2 * n')
      BY <1>1, <1>2, <1>7, <2>3
    <3> QED
      BY <3>1, <3>2, <3>3
  <2>5. Passing'
    BY <1>1, <1>2, <1>5, <1>7, <1>8, <1>9, <2>1, <2>2, <2>3, <2>4 DEF Passing
  <2>6. PassInvariant'
    BY <1>1, <1>5, <1>6, <1>7, <1>9, <1>10, <2>2, <2>4 DEF PassInvariant
  <2>7. Sorted'
    BY <2>1 DEF Sorted, Sorting
  <2> QED
    BY <1>7, <2>5, <2>6, <2>7 DEF IInv
<1> QED
  BY <1>11, <1>12

-----------------------------------------------------------------------------
(* IInv holds in every reachable state. *)
THEOREM InvariantHolds == Spec => []IInv
<1>1. Init => IInv
  BY InitHolds
<1>2. IInv /\ [Next]_vars => IInv'
  <2> SUFFICES ASSUME IInv, [Next]_vars PROVE IInv'
    OBVIOUS
  <2>1. CASE single_read_block
    BY <2>1, ReadHolds
  <2>2. CASE StartSort
    BY <2>2, StartHolds
  <2>3. CASE MergePair
    BY <2>3, PairHolds
  <2>4. CASE EndPass
    BY <2>4, EndHolds
  <2>5. CASE UNCHANGED vars
    BY <2>5 DEF vars, IInv, Types, BlockRead, Passing, PassInvariant, Sorted, Sorting,
                Source, Target, Text, n
  <2> QED
    BY <2>1, <2>2, <2>3, <2>4, <2>5 DEF Next, mergeSortMyStringArr
<1> QED
  BY <1>1, <1>2, PTL DEF Spec

(* A pass keeps the runs of its source, and its target has sorted runs of  *)
(* twice the length with the same lines: mergeSortMyStringArr, for every   *)
(* block of lines.                                                         *)
THEOREM PassInvariantHolds == Spec => []PassInvariant
<1>1. IInv => PassInvariant
  BY DEF IInv
<1> QED
  BY <1>1, InvariantHolds, PTL

(* The sort ends with the lines of the block in order, equal ones as they  *)
(* stood, in the array they were read into: mergeSortMyStringArr.          *)
THEOREM SortedHolds == Spec => []Sorted
<1>1. IInv => Sorted
  BY DEF IInv
<1> QED
  BY <1>1, InvariantHolds, PTL

(* The arrays and their strings have room for what is written to them,     *)
(* whatever blocks were sorted before: my_string.c as the sort uses it.    *)
THEOREM RoomForLinesHolds == Spec => []RoomForLines
<1>1. IInv => RoomForLines
  <2> SUFFICES ASSUME IInv PROVE RoomForLines
    OBVIOUS
  <2>1. ASSUME NEW a \in Arrays
        PROVE  /\ DOMAIN a.arr = 1..a.capacity /\ a.size <= a.capacity
               /\ \A k \in DOMAIN a.arr : HasRoom(a.arr[k])
    <3>1. a.capacity \in Nat /\ a.size \in 0..a.capacity /\ a.arr \in [1..a.capacity -> Roomy]
      BY ArrayShape
    <3>2. \A x \in Roomy : HasRoom(x)
      BY DEF Roomy, HasRoom
    <3> QED
      BY <3>1, <3>2
  <2>2. msa \in Arrays /\ merge_msa \in Arrays /\ HasRoom(ms)
    BY DEF IInv, Types, Roomy, HasRoom
  <2>3. Sorting => n <= merge_msa.capacity
    BY <2>1, <2>2 DEF IInv, Passing
  <2> QED
    BY <2>1, <2>2, <2>3 DEF RoomForLines
<1> QED
  BY <1>1, InvariantHolds, PTL
=============================================================================
