----------------------------- MODULE Md5_proofs -----------------------------
(***************************************************************************)
(* However a message is cut into pieces, the context counts its bits, the  *)
(* blocks transformed with the used part of the buffer are the message,    *)
(* and the digest is that of the message padded as RFC 1321 says.          *)
(* The program around the digest, Md5Lines, gives every string room for    *)
(* one and writes each line's digest once and in order.                    *)
(***************************************************************************)
EXTENDS Md5, Md5Lines, DataFacts

-----------------------------------------------------------------------------
(* Word is a whole number of blocks of bits. *)
LEMMA Sizes ==
  /\ BlockSize \in Nat /\ BlockSize > 2 /\ LenSize = 2
  /\ Word \in Nat \ {0} /\ Word \div 8 \in Nat \ {0} /\ Word = 8 * (Word \div 8)
  /\ \E t \in Nat : Word \div 8 = BlockSize * t
<1> DEFINE t == Word \div (8 * BlockSize)
<1>1. BlockSize \in Nat /\ BlockSize > 2 /\ LenSize = 2 /\ Word \in Nat \ {0}
  BY WidthAssumption
<1>2. 8 * BlockSize \in Nat \ {0}
  BY <1>1
<1>3. t \in Nat /\ Word = (8 * BlockSize) * t
  <2>1. t \in Nat /\ Word = (8 * BlockSize) * t + (Word % (8 * BlockSize))
    BY <1>1, <1>2, DivMod
  <2> HIDE DEF t
  <2> QED
    BY <1>1, <2>1, WidthAssumption
<1> HIDE DEF t
<1>4. Word = 8 * (BlockSize * t) + 0 /\ BlockSize * t \in Nat
  BY <1>1, <1>3
<1> DEFINE u == BlockSize * t
<1>5. Word \div 8 = u
  <2> HIDE DEF u
  <2> QED
    BY <1>1, <1>4 DEF u
<1>6. u # 0
  BY <1>1, <1>4
<1> QED
  BY <1>1, <1>3, <1>4, <1>5, <1>6

Bits(n) == <<(8 * n) % Word, ((8 * n) \div Word) % Word>>

LEMMA BitsType ==
  ASSUME NEW n \in Nat
  PROVE  Bits(n) \in Nat \X Nat
<1>1. 8 * n \in Nat /\ Word \in Nat \ {0}
  BY Sizes
<1>2. (8 * n) % Word \in Nat /\ (8 * n) \div Word \in Nat
  BY <1>1, DivMod
<1>3. ((8 * n) \div Word) % Word \in Nat
  BY <1>1, <1>2, DivMod
<1> QED
  BY <1>2, <1>3 DEF Bits

(* The index is the position in the block, whatever the counter dropped. *)
LEMMA IndexOf ==
  ASSUME NEW n \in Nat
  PROVE  (((8 * n) % Word) \div 8) % BlockSize = n % BlockSize
<1>1. PICK t \in Nat : Word = 8 * (BlockSize * t)
  BY Sizes
<1> DEFINE q == (8 * n) \div Word
           r == (8 * n) % Word
           v == BlockSize * (t * q)
<1>2. q \in Nat /\ r \in Nat /\ 8 * n = Word * q + r
  <2>1. 8 * n \in Nat /\ Word \in Nat \ {0}
    BY Sizes
  <2> QED
    BY <2>1, DivMod
<1>3. v \in Nat /\ Word * q = 8 * v
  <2> HIDE DEF q
  <2>1. BlockSize \in Nat /\ t \in Nat /\ q \in Nat
    BY <1>1, <1>2, Sizes
  <2> QED
    BY <1>1, <2>1
<1> HIDE DEF q, r, v
<1>4. r = 8 * (n - v) /\ n - v \in Nat
  BY <1>2, <1>3
<1>5. r \div 8 = n - v
  BY <1>2, <1>4
<1>6. n - v = n + BlockSize * (0 - t * q)
  <2>1. BlockSize \in Nat /\ t \in Nat /\ q \in Nat
    BY <1>1, <1>2, Sizes
  <2> QED
    BY <2>1 DEF v
<1>7. BlockSize \in Nat \ {0} /\ 0 - t * q \in Int
  BY <1>2, Sizes
<1>8. (n - v) % BlockSize = n % BlockSize
  <2>1. Shifted(n - v, n, BlockSize, 0 - t * q)
    BY <1>4, <1>6, <1>7 DEF Shifted
  <2> QED
    BY <2>1, ModShift
<1> QED
  BY <1>5, <1>8 DEF r

(* Adding a length carries as the sum of the bits does. *)
LEMMA AddLengthIs ==
  ASSUME NEW n \in Nat, NEW k \in Nat
  PROVE  AddLength(Bits(n), k) = Bits(n + k)
<1> DEFINE qa == (8 * n) \div Word
           ra == (8 * n) % Word
           qb == (8 * k) \div Word
           rb == (8 * k) % Word
           u == Word \div 8
           low == (ra + 8 * k) % Word
           carry == IF low < rb THEN 1 ELSE 0
<1>0. Word \in Nat \ {0} /\ u \in Nat \ {0} /\ Word = 8 * u
  BY Sizes
<1>1. qa \in Nat /\ ra \in 0..(Word - 1) /\ 8 * n = Word * qa + ra
  <2>1. 8 * n \in Nat
    OBVIOUS
  <2> QED
    BY <1>0, <2>1, DivMod
<1>2. qb \in Nat /\ rb \in 0..(Word - 1) /\ 8 * k = Word * qb + rb
  <2>1. 8 * k \in Nat
    OBVIOUS
  <2> QED
    BY <1>0, <2>1, DivMod
<1>3. AddLength(Bits(n), k) = <<low, ((qa % Word) + carry + (k \div u)) % Word>>
  BY DEF AddLength, Bits
<1> HIDE DEF qa, ra, qb, rb, u, low
<1>4. k \div u = qb
  <2>1. k = u * qb + (k - u * qb) /\ 8 * (k - u * qb) = rb
    BY <1>0, <1>2
  <2>2. k - u * qb \in 0..(u - 1) /\ qb \in Int
    <3> DEFINE s == k - u * qb
    <3>1. s \in Int /\ 8 * s = rb
      BY <1>0, <1>2, <2>1
    <3> HIDE DEF s
    <3>2. s \in 0..(u - 1)
      BY <1>0, <1>2, <3>1
    <3> QED
      BY <1>2, <3>2 DEF s
  <2>3. Divided(k, u, qb, k - u * qb)
    BY <1>0, <2>1, <2>2 DEF Divided
  <2> QED
    BY <2>3, DivModUnique
<1>5. low = (ra + rb) % Word
  <2>1. ra + 8 * k = (ra + rb) + Word * qb /\ ra + rb \in Nat /\ ra + 8 * k \in Nat
    BY <1>0, <1>1, <1>2
  <2>2. (ra + 8 * k) % Word = (ra + rb) % Word
    <3> DEFINE x == ra + rb
               y == ra + 8 * k
    <3>1. Shifted(y, x, Word, qb)
      BY <1>0, <1>2, <2>1 DEF Shifted
    <3> HIDE DEF x, y
    <3>2. y % Word = x % Word
      BY <3>1, ModShift
    <3> QED
      BY <3>2 DEF x, y
  <2> QED
    BY <2>2 DEF low
<1> DEFINE s == 8 * (n + k)
<1>6. s \in Nat /\ s = Word * (qa + qb) + (ra + rb)
  BY <1>0, <1>1, <1>2
<1> HIDE DEF s
<1>7. carry \in {0, 1} /\ s \div Word = qa + qb + carry /\ s % Word = low
  <2>1. CASE ra + rb < Word
    <3>1. low = ra + rb
      <4>1. Divided(ra + rb, Word, 0, ra + rb)
        BY <1>0, <1>1, <1>2, <2>1 DEF Divided
      <4> QED
        BY <1>5, <4>1, DivModUnique
    <3>2. carry = 0
      BY <1>1, <1>2, <3>1
    <3>3. Divided(s, Word, qa + qb, ra + rb)
      BY <1>0, <1>1, <1>2, <1>6, <2>1 DEF Divided
    <3>4. s \div Word = qa + qb /\ s % Word = ra + rb
      BY <3>3, DivModUnique
    <3> QED
      BY <1>1, <1>2, <3>1, <3>2, <3>4
  <2>2. CASE ~(ra + rb < Word)
    <3>1. Divided(ra + rb, Word, 1, ra + rb - Word)
      BY <1>0, <1>1, <1>2, <2>2 DEF Divided
    <3>2. low = ra + rb - Word
      BY <1>5, <3>1, DivModUnique
    <3>3. carry = 1
      BY <1>0, <1>1, <1>2, <3>2
    <3>4. Divided(s, Word, qa + qb + 1, ra + rb - Word)
      BY <1>0, <1>1, <1>2, <1>6, <2>2 DEF Divided
    <3>5. s \div Word = qa + qb + 1 /\ s % Word = ra + rb - Word
      BY <3>4, DivModUnique
    <3> QED
      BY <3>2, <3>3, <3>5
  <2> QED
    BY <2>1, <2>2
<1> HIDE DEF carry
<1>8. ((qa % Word) + carry + qb) % Word = (s \div Word) % Word
  <2>1. ((qa % Word) + (carry + qb)) % Word = (qa + (carry + qb)) % Word
    <3> DEFINE x == carry + qb
    <3>1. x \in Nat
      BY <1>2, <1>7
    <3> HIDE DEF x
    <3>2. ((qa % Word) + x) % Word = (qa + x) % Word
      BY <1>0, <1>1, <3>1, ModAdd, ZenonT(60) DEF Addends
    <3> QED
      BY <3>2 DEF x
  <2>2. qa % Word \in Nat
    BY <1>0, <1>1, DivMod
  <2>3. (qa % Word) + carry + qb = (qa % Word) + (carry + qb) /\ qa + qb + carry = qa + (carry + qb)
    BY <1>1, <1>2, <1>7, <2>2
  <2> QED
    BY <1>7, <2>1, <2>3
<1> QED
  BY <1>3, <1>4, <1>7, <1>8 DEF s, Bits

-----------------------------------------------------------------------------
Byte == [kind : {"message", "pad", "length", "garbage"}, value : Nat]

ContextType == [count : Nat \X Nat, buffer : [1..BlockSize -> Byte],
                blocks : Seq(Seq(Byte))]

(* The block that holds the bytes of m behind its first n. *)
BlockOf(m, n) == SubSeq(m, n + 1, n + BlockSize)

(* A context is that of the message m. *)
Holds(ctx, m) ==
  /\ ctx \in ContextType /\ m \in Seq(Byte)
  /\ ctx.count = Bits(Len(m))
  /\ Len(m) = BlockSize * Len(ctx.blocks) + (Len(m) % BlockSize)
  /\ \A j \in 1..Len(ctx.blocks) : ctx.blocks[j] = BlockOf(m, BlockSize * (j - 1))
  /\ \A i \in 1..(Len(m) % BlockSize) : ctx.buffer[i] = m[BlockSize * Len(ctx.blocks) + i]

LEMMA HoldsIndex ==
  ASSUME NEW ctx, NEW m, Holds(ctx, m)
  PROVE  /\ Index(ctx) = Len(m) % BlockSize /\ Index(ctx) \in 0..(BlockSize - 1)
         /\ Len(ctx.blocks) \in Nat /\ Len(m) \in Nat
         /\ Len(m) = BlockSize * Len(ctx.blocks) + Index(ctx)
<1>1. Len(m) \in Nat /\ Len(ctx.blocks) \in Nat /\ ctx.count = Bits(Len(m))
  BY DEF Holds, ContextType
<1>2. Index(ctx) = Len(m) % BlockSize
  BY <1>1, IndexOf DEF Index, Bits
<1>3. Len(m) % BlockSize \in 0..(BlockSize - 1)
  BY <1>1, Sizes
<1> QED
  BY <1>1, <1>2, <1>3 DEF Holds

(* What a part of a sequence holds. *)
LEMMA PartOf ==
  ASSUME NEW S, NEW s \in Seq(S), NEW n \in Nat, NEW k \in Nat, n + k <= Len(s)
  PROVE  /\ SubSeq(s, n + 1, n + k) \in Seq(S) /\ Len(SubSeq(s, n + 1, n + k)) = k
         /\ \A i \in 1..k : SubSeq(s, n + 1, n + k)[i] = s[n + i]
<1> DEFINE a == n + 1
           b == n + k
<1>1. a \in Int /\ b \in Int /\ b - a + 1 = k /\ (a <= b <=> k > 0)
  OBVIOUS
<1>2. \A i \in a..b : s[i] \in S
  OBVIOUS
<1>3. \A i \in 1..k : a + i - 1 = n + i
  OBVIOUS
<1> HIDE DEF a, b
<1>4. /\ SubSeq(s, a, b) \in Seq(S)
      /\ Len(SubSeq(s, a, b)) = IF a <= b THEN b - a + 1 ELSE 0
      /\ \A i \in 1..(b - a + 1) : SubSeq(s, a, b)[i] = s[a + i - 1]
  BY <1>1, <1>2, SubSeqProperties
<1>5. Len(SubSeq(s, a, b)) = k
  BY <1>1, <1>4
<1>6. \A i \in 1..k : SubSeq(s, a, b)[i] = s[n + i]
  BY <1>1, <1>3, <1>4
<1> QED
  BY <1>4, <1>5, <1>6 DEF a, b

(* The used part of the buffer is the rest of the message. *)
LEMMA HoldsBuffer ==
  ASSUME NEW ctx, NEW m, Holds(ctx, m)
  PROVE  SubSeq(ctx.buffer, 1, Index(ctx)) = SubSeq(m, BlockSize * Len(ctx.blocks) + 1, Len(m))
<1> DEFINE L == Len(ctx.blocks)
           n == BlockSize * L
<1>z. /\ BlockSize \in Nat /\ L \in Nat /\ Len(m) \in Nat /\ m \in Seq(Byte)
      /\ ctx.blocks \in Seq(Seq(Byte)) /\ ctx.buffer \in [1..BlockSize -> Byte]
      /\ Index(ctx) \in 0..(BlockSize - 1) /\ Len(m) = BlockSize * L + Index(ctx)
  BY HoldsIndex, Sizes DEF Holds, ContextType
<1> DEFINE x == Index(ctx)
<1>0. n \in Nat
  BY <1>z
<1>a. Len(m) % BlockSize = x
  BY HoldsIndex
<1>b. \A i \in 1..(Len(m) % BlockSize) : ctx.buffer[i] = m[BlockSize * L + i]
  BY DEF Holds
<1>2. \A i \in 1..x : ctx.buffer[i] = m[n + i]
  BY <1>a, <1>b
<1>c. x \in 0..(BlockSize - 1) /\ Len(m) = n + x
  BY <1>z
<1> HIDE DEF n, x
<1>1. n \in Nat /\ x \in 0..BlockSize /\ Len(m) = n + x
  BY <1>z, <1>0, <1>c
<1>3. \A i \in 1..x : ctx.buffer[i] \in Byte
  BY <1>z, <1>1
<1>5. /\ SubSeq(ctx.buffer, 1, x) \in Seq(Byte) /\ Len(SubSeq(ctx.buffer, 1, x)) = x
      /\ \A i \in 1..x : SubSeq(ctx.buffer, 1, x)[i] = ctx.buffer[i]
  BY <1>1, <1>3, SubSeqProperties
<1>d. /\ SubSeq(m, n + 1, n + x) \in Seq(Byte) /\ Len(SubSeq(m, n + 1, n + x)) = x
      /\ \A i \in 1..x : SubSeq(m, n + 1, n + x)[i] = m[n + i]
  <2>1. x \in Nat /\ n \in Nat /\ n + x <= Len(m)
    BY <1>z, <1>1
  <2> QED
    BY <1>z, <2>1, PartOf
<1>6. /\ SubSeq(m, n + 1, Len(m)) \in Seq(Byte) /\ Len(SubSeq(m, n + 1, Len(m))) = x
      /\ \A i \in 1..x : SubSeq(m, n + 1, Len(m))[i] = m[n + i]
  BY <1>1, <1>d
<1>7. \A i \in 1..x : SubSeq(ctx.buffer, 1, x)[i] = SubSeq(m, n + 1, Len(m))[i]
  BY <1>2, <1>5, <1>6
<1>8. SubSeq(ctx.buffer, 1, x) = SubSeq(m, n + 1, Len(m))
  <2> DEFINE u == SubSeq(ctx.buffer, 1, x)
             v == SubSeq(m, n + 1, Len(m))
  <2>1. u \in Seq(Byte) /\ v \in Seq(Byte) /\ Len(u) = Len(v) /\ \A i \in 1..Len(u) : u[i] = v[i]
    BY <1>5, <1>6, <1>7
  <2> HIDE DEF u, v
  <2>2. u = v
    BY <2>1, SeqEqual
  <2> QED
    BY <2>2 DEF u, v
<1> QED
  BY <1>8 DEF n, x

(* The blocks transformed are the beginning of the message. *)
LEMMA HoldsFlat ==
  ASSUME NEW ctx, NEW m, Holds(ctx, m)
  PROVE  /\ FlattenSeq(ctx.blocks) = SubSeq(m, 1, BlockSize * Len(ctx.blocks))
         /\ FlattenSeq(ctx.blocks) \o SubSeq(ctx.buffer, 1, Index(ctx)) = m
<1> DEFINE L == Len(ctx.blocks)
           g == [k \in 0..L |-> SubSeq(m, 1, BlockSize * k)]
<1>0. /\ BlockSize \in Nat /\ L \in Nat /\ Len(m) \in Nat /\ m \in Seq(Byte)
      /\ ctx.blocks \in Seq(Seq(Byte)) /\ ctx.buffer \in [1..BlockSize -> Byte]
      /\ Index(ctx) \in 0..(BlockSize - 1) /\ Len(m) = BlockSize * L + Index(ctx)
  BY HoldsIndex, Sizes DEF Holds, ContextType
<1>1. \A k \in 0..L : BlockSize * k \in 0..Len(m)
  <2> DEFINE x == Index(ctx)
  <2>1. BlockSize * L \in Nat /\ Len(m) = BlockSize * L + x /\ x \in Nat
    BY <1>0
  <2> HIDE DEF L, x
  <2> SUFFICES ASSUME NEW k \in 0..L PROVE BlockSize * k \in 0..Len(m)
    OBVIOUS
  <2>2. BlockSize * k \in Nat /\ BlockSize * k <= BlockSize * L
    BY <1>0, Multiples DEF L
  <2> QED
    BY <2>1, <2>2
<1>2. g \in [0..L -> Seq(Byte)]
  <2>1. ASSUME NEW k \in 0..L PROVE SubSeq(m, 1, BlockSize * k) \in Seq(Byte)
    <3> DEFINE n == BlockSize * k
    <3>1. n \in 0..Len(m)
      BY <1>1
    <3> HIDE DEF n
    <3>2. \A i \in 1..n : m[i] \in Byte
      BY <1>0, <3>1
    <3> QED
      BY <1>0, <3>1, <3>2, SubSeqProperties DEF n
  <2> QED
    BY <2>1
<1>3. g[0] = << >>
  <2>1. BlockSize * 0 = 0 /\ 0 \in 0..L
    BY <1>0
  <2> QED
    BY <2>1, SubSeqEmpty
<1>4. ASSUME NEW k \in 0..(L - 1)
      PROVE  g[k + 1] = g[k] \o ctx.blocks[k + 1]
  <2> DEFINE n == BlockSize * k
             o == BlockSize * (k + 1)
  <2>1. k \in 0..L /\ k + 1 \in 0..L /\ k + 1 \in 1..L /\ (k + 1) - 1 = k
    BY <1>0
  <2>2. n \in 0..Len(m) /\ o \in 0..Len(m)
    BY <1>1, <2>1
  <2>3. o = n + BlockSize
    BY <1>0
  <2>4. ctx.blocks[k + 1] = BlockOf(m, n)
    BY <2>1 DEF Holds
  <2>5. g[k] = SubSeq(m, 1, n) /\ g[k + 1] = SubSeq(m, 1, o)
    BY <2>1
  <2> HIDE DEF n, o, g
  <2>6. 1 \in 1..(Len(m) + 1) /\ n \in (1 - 1)..Len(m) /\ o \in n..Len(m)
    BY SMTT(30), <1>0, <2>2, <2>3
  <2>7. SubSeq(m, 1, n) \o SubSeq(m, n + 1, o) = SubSeq(m, 1, o)
    BY <1>0, <2>6, ConcatAdjacentSubSeq
  <2> QED
    BY <2>3, <2>4, <2>5, <2>7, Zenon DEF BlockOf
<1>5. FlattenSeq(ctx.blocks) = g[L]
  <2> HIDE DEF g
  <2> QED
    BY <1>0, <1>2, <1>3, <1>4, FlattenIs
<1> DEFINE n == BlockSize * L
<1>6. g[L] = SubSeq(m, 1, n)
  BY <1>0
<1>7. SubSeq(ctx.buffer, 1, Index(ctx)) = SubSeq(m, n + 1, Len(m))
  BY HoldsBuffer
<1>8. SubSeq(m, 1, n) \o SubSeq(m, n + 1, Len(m)) = m
  <2>1. n \in 0..Len(m)
    BY <1>0, <1>1
  <2> HIDE DEF n
  <2>2. 1 \in 1..(Len(m) + 1) /\ n \in (1 - 1)..Len(m) /\ Len(m) \in n..Len(m)
    BY <1>0, <2>1
  <2>3. SubSeq(m, 1, n) \o SubSeq(m, n + 1, Len(m)) = SubSeq(m, 1, Len(m))
    BY <1>0, <2>2, ConcatAdjacentSubSeq
  <2> QED
    BY <1>0, <2>3, SubSeqFull
<1> HIDE DEF g
<1> QED
  BY <1>5, <1>6, <1>7, <1>8

(* What a context holds of a longer message begins alike. *)
LEMMA BlockOfConcat ==
  ASSUME NEW m \in Seq(Byte), NEW s \in Seq(Byte), NEW n \in Nat, n + BlockSize <= Len(m)
  PROVE  BlockOf(m \o s, n) = BlockOf(m, n)
<1>1. n + 1 \in 1..Len(m) /\ n + BlockSize \in 1..Len(m)
  BY Sizes
<1> QED
  BY <1>1, SubSeqOfConcat1 DEF BlockOf

(* A piece that does not fill the buffer. *)
LEMMA SmallUpdate ==
  ASSUME NEW ctx, NEW m, NEW s \in Seq(Byte), Holds(ctx, m),
         Index(ctx) + Len(s) < BlockSize
  PROVE  Holds(Updated(ctx, s), m \o s)
<1> DEFINE L == Len(ctx.blocks)
           n == BlockSize * L
           x == Index(ctx)
           k == Len(s)
           l == Len(m)
           both == m \o s
           C == Updated(ctx, s)
<1>1. /\ BlockSize \in Nat \ {0} /\ L \in Nat /\ l \in Nat
      /\ x \in 0..(BlockSize - 1) /\ l = n + x /\ l % BlockSize = x /\ n \in Nat
  <2>1. L \in Nat /\ BlockSize \in Nat \ {0}
    BY HoldsIndex, Sizes
  <2>2. n \in Nat
    BY <2>1
  <2> QED
    BY <2>1, <2>2, HoldsIndex
<1>2. /\ m \in Seq(Byte) /\ ctx \in ContextType /\ ctx.count = Bits(l)
      /\ \A i \in 1..(l % BlockSize) : ctx.buffer[i] = m[n + i]
      /\ \A j \in 1..L : ctx.blocks[j] = BlockOf(m, BlockSize * (j - 1))
  BY DEF Holds
<1>0. k \in Nat /\ x + k < BlockSize
  OBVIOUS
<1>e. ctx \in [count : Nat \X Nat, buffer : [1..BlockSize -> Byte], blocks : Seq(Seq(Byte))]
  BY <1>2 DEF ContextType
<1>f. /\ ctx.count \in Nat \X Nat /\ ctx.buffer \in [1..BlockSize -> Byte]
      /\ ctx.blocks \in Seq(Seq(Byte)) /\ DOMAIN ctx.buffer = 1..BlockSize
  BY <1>e
<1> HIDE DEF n, x, l
<1>3. /\ both \in Seq(Byte) /\ Len(both) = l + k
      /\ \A i \in 1..l : both[i] = m[i]
      /\ \A i \in 1..k : both[l + i] = s[i]
  <2>2. both \in Seq(Byte) /\ Len(both) = l + k /\ \A i \in 1..(l + k) : both[i] = IF i <= l THEN m[i] ELSE s[i - l]
    BY <1>2, ConcatProperties DEF l
  <2> HIDE DEF both, k
  <2>3. \A i \in 1..l : i \in 1..(l + k) /\ i <= l
    BY <1>0, <1>1
  <2>4. \A i \in 1..l : both[i] = m[i]
    BY <2>2, <2>3
  <2>5. ASSUME NEW i \in 1..k PROVE both[l + i] = s[i]
    <3>1. l + i \in 1..(l + k) /\ ~(l + i <= l) /\ (l + i) - l = i
      BY <1>0, <1>1
    <3> QED
      BY <2>2, <3>1
  <2> QED
    BY <2>2, <2>4, <2>5
<1> HIDE DEF both, C
<1>4. C \in [count : {AddLength(ctx.count, k)}, buffer : {CopyTo(ctx.buffer, x, s)}, blocks : {ctx.blocks}]
  <2>1. ~(k >= BlockSize - x)
    BY <1>0, <1>1
  <2>2. C = [ctx EXCEPT !.count = AddLength(@, k), !.buffer = CopyTo(@, x, s)]
    BY <2>1 DEF Updated, x, C
  <2> DEFINE c == AddLength(ctx.count, k)
             b == CopyTo(ctx.buffer, x, s)
  <2>3. C = [ctx EXCEPT !.count = c, !.buffer = b]
    BY <2>2
  <2> HIDE DEF c, b
  <2>4. C \in [count : {c}, buffer : {b}, blocks : {ctx.blocks}]
    BY <1>e, <2>3
  <2> QED
    BY <2>4 DEF c, b
<1>5. C.count = Bits(l + k) /\ C.buffer = CopyTo(ctx.buffer, x, s) /\ C.blocks = ctx.blocks
  <2>1. AddLength(ctx.count, k) = Bits(l + k)
    BY <1>0, <1>1, <1>2, AddLengthIs
  <2> QED
    BY <1>4, <2>1
<1> HIDE DEF k
<1>6. /\ C.buffer \in [1..BlockSize -> Byte]
      /\ \A i \in 1..x : C.buffer[i] = ctx.buffer[i]
      /\ \A i \in 1..k : C.buffer[x + i] = s[i]
  <2>1. C.buffer = [i \in 1..BlockSize |-> IF i \in (x + 1)..(x + k) THEN s[i - x] ELSE ctx.buffer[i]]
    BY <1>5, <1>f DEF CopyTo, k
  <2>2. \A i \in 1..k : s[i] \in Byte
    BY DEF k
  <2>3. x \in Nat /\ k \in Nat /\ x + k < BlockSize
    BY <1>0, <1>1
  <2>4. C.buffer \in [1..BlockSize -> Byte]
    <3>1. ASSUME NEW i \in 1..BlockSize
          PROVE  (IF i \in (x + 1)..(x + k) THEN s[i - x] ELSE ctx.buffer[i]) \in Byte
      <4>1. i \in (x + 1)..(x + k) => i - x \in 1..k
        BY <2>3
      <4> QED
        BY <1>f, <2>2, <4>1
    <3> QED
      BY <2>1, <3>1
  <2>5. \A i \in 1..x : C.buffer[i] = ctx.buffer[i]
    BY <1>1, <2>1, <2>3
  <2>6. \A i \in 1..k : C.buffer[x + i] = s[i]
    <3> SUFFICES ASSUME NEW i \in 1..k PROVE C.buffer[x + i] = s[i]
      OBVIOUS
    <3>1. x + i \in 1..BlockSize /\ x + i \in (x + 1)..(x + k) /\ (x + i) - x = i
      BY <1>1, <2>3
    <3> QED
      BY <2>1, <3>1
  <2> QED
    BY <2>4, <2>5, <2>6
<1>7. Len(both) = BlockSize * L + (x + k) /\ Len(both) % BlockSize = x + k
  <2>1. x + k \in 0..(BlockSize - 1) /\ Len(both) = n + (x + k) /\ n + (x + k) \in Nat
    BY <1>0, <1>1, <1>3
  <2>2. Divided(Len(both), BlockSize, L, x + k)
    BY <1>1, <2>1 DEF Divided, n
  <2> QED
    BY <2>1, <2>2, DivModUnique DEF n
<1>8. C \in ContextType
  <2>1. Bits(l + k) \in Nat \X Nat
    <3>1. l + k \in Nat
      BY <1>0, <1>1
    <3> QED
      BY <3>1, BitsType
  <2> QED
    BY <1>4, <1>5, <1>6, <1>f, <2>1 DEF ContextType
<1>9. \A j \in 1..L : C.blocks[j] = BlockOf(both, BlockSize * (j - 1))
  <2> SUFFICES ASSUME NEW j \in 1..L PROVE ctx.blocks[j] = BlockOf(both, BlockSize * (j - 1))
    BY <1>5
  <2>1. ctx.blocks[j] = BlockOf(m, BlockSize * (j - 1))
    BY <1>2
  <2> DEFINE o == BlockSize * (j - 1)
  <2>2. o \in Nat /\ BlockSize * j \in Nat /\ BlockSize * j <= n /\ BlockSize * j = o + BlockSize
    <3>1. j \in 0..L /\ j - 1 \in Nat /\ j \in Int
      BY <1>1
    <3>2. BlockSize * j \in Nat /\ BlockSize * j <= n
      BY <1>1, <3>1, Multiples DEF n
    <3>3. BlockSize * j = o + BlockSize /\ o \in Nat
      BY <1>1, <3>1
    <3> QED
      BY <3>2, <3>3
  <2> HIDE DEF o
  <2>3. o + BlockSize <= l
    BY <1>1, <2>2
  <2> QED
    BY <1>2, <2>1, <2>2, <2>3, BlockOfConcat DEF o, both, l
<1>10. \A i \in 1..(x + k) : C.buffer[i] = both[n + i]
  <2> SUFFICES ASSUME NEW i \in 1..(x + k) PROVE C.buffer[i] = both[n + i]
    OBVIOUS
  <2>0. \A h \in 1..x : ctx.buffer[h] = m[n + h]
    BY <1>1, <1>2
  <2>1. CASE i \in 1..x
    <3>1. n + i \in 1..l
      BY <1>1, <2>1
    <3> QED
      BY <1>3, <1>6, <2>0, <2>1, <3>1
  <2>2. CASE i \notin 1..x
    <3>1. i - x \in 1..k /\ x + (i - x) = i /\ l + (i - x) = n + i
      BY <1>0, <1>1, <2>2
    <3> QED
      BY <1>3, <1>6, <3>1
  <2> QED
    BY <2>1, <2>2
<1> QED
  BY <1>3, <1>5, <1>7, <1>8, <1>9, <1>10 DEF Holds, C, both, n

(* What a concatenation holds, counted from the end of the first part. *)
LEMMA ConcatAt ==
  ASSUME NEW m \in Seq(Byte), NEW s \in Seq(Byte)
  PROVE  /\ m \o s \in Seq(Byte) /\ Len(m) \in Nat /\ Len(s) \in Nat
         /\ Len(m \o s) = Len(m) + Len(s)
         /\ \A i \in 1..Len(m) : (m \o s)[i] = m[i]
         /\ \A i \in 1..Len(s) : (m \o s)[Len(m) + i] = s[i]
<1> DEFINE both == m \o s
           l == Len(m)
           k == Len(s)
<1>1. l \in Nat /\ k \in Nat
  OBVIOUS
<1>2. both \in Seq(Byte) /\ Len(both) = l + k /\ \A i \in 1..(l + k) : both[i] = IF i <= l THEN m[i] ELSE s[i - l]
  BY ConcatProperties
<1> HIDE DEF both, k, l
<1>3. \A i \in 1..l : i \in 1..(l + k) /\ i <= l
  BY <1>1
<1>4. \A i \in 1..l : both[i] = m[i]
  BY <1>2, <1>3
<1>5. ASSUME NEW i \in 1..k PROVE both[l + i] = s[i]
  <2>1. l + i \in 1..(l + k) /\ ~(l + i <= l) /\ (l + i) - l = i
    BY <1>1
  <2> QED
    BY <1>2, <2>1
<1> QED
  BY <1>1, <1>2, <1>4, <1>5 DEF both, k, l

(* A block of the piece is one of the message. *)
LEMMA BlockOfPiece ==
  ASSUME NEW m \in Seq(Byte), NEW s \in Seq(Byte), NEW n \in Nat, n + BlockSize <= Len(s)
  PROVE  BlockOf(m \o s, Len(m) + n) = BlockOf(s, n)
<1> DEFINE both == m \o s
           l == Len(m)
           a == l + n
           u == SubSeq(both, a + 1, a + BlockSize)
           v == SubSeq(s, n + 1, n + BlockSize)
<1>1. /\ both \in Seq(Byte) /\ l \in Nat /\ Len(s) \in Nat /\ Len(both) = l + Len(s)
      /\ \A i \in 1..Len(s) : both[l + i] = s[i]
  BY ConcatAt
<1> HIDE DEF both, l
<1>2. BlockSize \in Nat /\ a \in Nat /\ a + BlockSize <= Len(both)
  BY <1>1, Sizes
<1> HIDE DEF a
<1>3. u \in Seq(Byte) /\ Len(u) = BlockSize /\ \A i \in 1..BlockSize : u[i] = both[a + i]
  BY <1>1, <1>2, PartOf
<1>4. v \in Seq(Byte) /\ Len(v) = BlockSize /\ \A i \in 1..BlockSize : v[i] = s[n + i]
  BY <1>2, PartOf
<1>5. ASSUME NEW i \in 1..BlockSize PROVE both[a + i] = s[n + i]
  <2>1. n + i \in 1..Len(s) /\ a + i = l + (n + i)
    BY <1>1, <1>2 DEF a
  <2> QED
    BY <1>1, <2>1
<1> HIDE DEF u, v
<1>6. u = v
  BY <1>2, <1>3, <1>4, <1>5, SeqEqual
<1> QED
  BY <1>6 DEF u, v, a, both, l, BlockOf

(* The block that the piece completes. *)
LEMMA FirstBlock ==
  ASSUME NEW ctx, NEW m, NEW s \in Seq(Byte), Holds(ctx, m),
         Index(ctx) + Len(s) >= BlockSize
  PROVE  SubSeq(ctx.buffer, 1, Index(ctx)) \o SubSeq(s, 1, BlockSize - Index(ctx))
           = BlockOf(m \o s, BlockSize * Len(ctx.blocks))
<1> DEFINE L == Len(ctx.blocks)
           n == BlockSize * L
           x == Index(ctx)
           p == BlockSize - x
           l == Len(m)
           both == m \o s
           u == SubSeq(m, n + 1, n + x)
           v == SubSeq(s, 0 + 1, 0 + p)
           w == SubSeq(both, n + 1, n + BlockSize)
<1>1. /\ BlockSize \in Nat /\ L \in Nat /\ n \in Nat /\ m \in Seq(Byte)
      /\ x \in 0..(BlockSize - 1) /\ l = n + x
  <2>1. L \in Nat /\ BlockSize \in Nat /\ x \in 0..(BlockSize - 1) /\ l = n + x
    BY HoldsIndex, Sizes
  <2>2. n \in Nat
    BY <2>1
  <2> QED
    BY <2>1, <2>2 DEF Holds
<1>2. SubSeq(ctx.buffer, 1, x) = u
  BY <1>1, HoldsBuffer
<1>3. /\ both \in Seq(Byte) /\ Len(s) \in Nat /\ Len(both) = l + Len(s)
      /\ \A i \in 1..l : both[i] = m[i]
      /\ \A i \in 1..Len(s) : both[l + i] = s[i]
  BY <1>1, ConcatAt
<1>4. Len(s) >= p
  BY <1>1, <1>3
<1> HIDE DEF n, x, l, both
<1>5. p \in Nat /\ x \in Nat /\ x + p = BlockSize /\ l + p = n + BlockSize /\ 0 + p <= Len(s)
      /\ n + x <= Len(m) /\ n + BlockSize <= Len(both)
  BY <1>1, <1>3, <1>4 DEF l
<1> HIDE DEF p
<1>6. u \in Seq(Byte) /\ Len(u) = x /\ \A i \in 1..x : u[i] = m[n + i]
  BY <1>1, <1>5, PartOf
<1>7. v \in Seq(Byte) /\ Len(v) = p /\ \A i \in 1..p : v[i] = s[0 + i]
  <2>1. 0 \in Nat
    OBVIOUS
  <2> QED
    BY <1>5, <2>1, PartOf
<1>8. w \in Seq(Byte) /\ Len(w) = BlockSize /\ \A i \in 1..BlockSize : w[i] = both[n + i]
  BY <1>1, <1>3, <1>5, PartOf
<1> HIDE DEF u, v, w
<1> DEFINE z == u \o v
<1>9. /\ z \in Seq(Byte) /\ Len(z) = BlockSize /\ \A i \in 1..x : z[i] = u[i]
      /\ \A i \in 1..p : z[x + i] = v[i]
  BY <1>5, <1>6, <1>7, ConcatAt
<1> HIDE DEF z
<1>10. ASSUME NEW i \in 1..BlockSize PROVE z[i] = w[i]
  <2>1. CASE i \in 1..x
    <3>1. n + i \in 1..l
      BY <1>1, <2>1
    <3> QED
      BY <1>3, <1>6, <1>8, <1>9, <2>1, <3>1
  <2>2. CASE i \notin 1..x
    <3>1. i - x \in 1..p /\ x + (i - x) = i /\ l + (i - x) = n + i /\ 0 + (i - x) = i - x /\ i - x \in 1..Len(s)
      BY <1>1, <1>3, <1>5, <2>2
    <3>2. z[i] = v[i - x] /\ v[i - x] = s[i - x]
      BY <1>7, <1>9, <3>1
    <3>3. both[n + i] = s[i - x]
      BY <1>3, <3>1
    <3> QED
      BY <1>8, <3>2, <3>3
  <2> QED
    BY <2>1, <2>2
<1>11. z = w
  BY <1>8, <1>9, <1>10, SeqEqual
<1>12. v = SubSeq(s, 1, p)
  BY <1>5 DEF v
<1> QED
  BY <1>2, <1>11, <1>12 DEF z, w, n, x, both, p, BlockOf

(* A piece that fills the buffer. *)
LEMMA LargeUpdate ==
  ASSUME NEW ctx, NEW m, NEW s \in Seq(Byte), Holds(ctx, m),
         Index(ctx) + Len(s) >= BlockSize
  PROVE  Holds(Updated(ctx, s), m \o s)
<1> DEFINE L == Len(ctx.blocks)
           n == BlockSize * L
           x == Index(ctx)
           k == Len(s)
           l == Len(m)
           both == m \o s
           p == BlockSize - x
           W == WholeBlocks(k, p)
           r == (k - p) % BlockSize
           first == SubSeq(ctx.buffer, 1, x) \o SubSeq(s, 1, p)
           more == [h \in 1..W |-> SubSeq(s, p + (h - 1) * BlockSize + 1, p + h * BlockSize)]
           tail == SubSeq(s, p + Len(more) * BlockSize + 1, k)
           C == Updated(ctx, s)
<1>1. /\ BlockSize \in Nat \ {0} /\ L \in Nat /\ n \in Nat /\ m \in Seq(Byte) /\ l \in Nat /\ k \in Nat
      /\ x \in 0..(BlockSize - 1) /\ l = n + x
  <2>1. L \in Nat /\ BlockSize \in Nat \ {0} /\ x \in 0..(BlockSize - 1) /\ l = n + x /\ l \in Nat
    BY HoldsIndex, Sizes
  <2>2. n \in Nat
    BY <2>1
  <2> QED
    BY <2>1, <2>2 DEF Holds
<1>2. /\ ctx \in ContextType /\ ctx.count = Bits(l)
      /\ \A j \in 1..L : ctx.blocks[j] = BlockOf(m, BlockSize * (j - 1))
  BY DEF Holds
<1>3. /\ ctx.buffer \in [1..BlockSize -> Byte] /\ ctx.blocks \in Seq(Seq(Byte))
      /\ DOMAIN ctx.buffer = 1..BlockSize
  BY <1>2 DEF ContextType
<1>4. /\ both \in Seq(Byte) /\ Len(both) = l + k
      /\ \A i \in 1..l : both[i] = m[i]
      /\ \A i \in 1..k : both[l + i] = s[i]
  BY <1>1, ConcatAt
<1>5. first = BlockOf(both, n)
  BY FirstBlock
<1>6. ~(~(k >= p))
  BY <1>1
<1>7. C = [count |-> AddLength(ctx.count, k), buffer |-> CopyTo(ctx.buffer, 0, tail),
           blocks |-> ctx.blocks \o <<first>> \o more]
  <2>1. Len(s) >= BlockSize - Index(ctx)
    BY <1>6
  <2> QED
    BY <2>1, Zenon DEF Updated
<1> HIDE DEF n, x, l, k, both, C, first
<1>8. p \in Nat /\ p <= k /\ p <= BlockSize /\ l + p = n + BlockSize
  BY <1>1, <1>6
<1> HIDE DEF p
<1>9. W \in Nat /\ r \in 0..(BlockSize - 1) /\ k - p = BlockSize * W + r
  <2>1. k - p \in Nat
    BY <1>1, <1>8
  <2> QED
    BY <1>1, <2>1, DivMod DEF WholeBlocks
<1> HIDE DEF W, r
<1> DEFINE b == BlockSize * W
           o == p + b
<1>10. b \in Nat /\ W * BlockSize = b
  BY <1>1, <1>9
<1>11. Len(more) = W /\ DOMAIN more = 1..W
  BY <1>9
<1>12. tail = SubSeq(s, o + 1, o + r)
  <2> HIDE DEF more, b
  <2>1. p + Len(more) * BlockSize = o
    BY <1>10, <1>11
  <2>2. k = o + r
    BY <1>1, <1>8, <1>9, <1>10 DEF b
  <2> QED
    BY <2>1, <2>2
<1>13. o \in Nat /\ o + r = k /\ l + o = BlockSize * (L + 1 + W) /\ BlockSize * (L + 1 + W) \in Nat
  <2>1. BlockSize * (L + 1 + W) = n + BlockSize + b
    <3>1. BlockSize \in Nat /\ L \in Nat /\ W \in Nat
      BY <1>1, <1>9
    <3>2. BlockSize * (L + 1 + W) = BlockSize * L + BlockSize + BlockSize * W
      BY <3>1, Distribute, Zenon
    <3>3. b = BlockSize * W
      BY <1>10, <3>1
    <3> HIDE DEF b
    <3> QED
      BY <3>2, <3>3 DEF n
  <2> HIDE DEF b
  <2> QED
    BY <1>1, <1>8, <1>9, <1>10, <2>1 DEF b
<1> HIDE DEF tail, o
<1>14. tail \in Seq(Byte) /\ Len(tail) = r /\ \A i \in 1..r : tail[i] = s[o + i]
  <2>1. s \in Seq(Byte) /\ o \in Nat /\ r \in Nat /\ o + r <= Len(s)
    BY <1>1, <1>9, <1>13 DEF k
  <2> QED
    BY <1>12, <2>1, PartOf
<1>15. /\ C.buffer \in [1..BlockSize -> Byte]
       /\ \A i \in 1..r : C.buffer[i] = both[BlockSize * (L + 1 + W) + i]
  <2>1. C.buffer = [i \in 1..BlockSize |-> IF i \in (0 + 1)..(0 + r) THEN tail[i - 0] ELSE ctx.buffer[i]]
    BY <1>3, <1>7, <1>14 DEF CopyTo
  <2>2. ASSUME NEW i \in 1..r
        PROVE  i \in (0 + 1)..(0 + r) /\ i - 0 = i /\ i \in 1..BlockSize /\ o + i \in 1..k
               /\ l + (o + i) = BlockSize * (L + 1 + W) + i
    <3> DEFINE d == BlockSize * (L + 1 + W)
    <3>1. d \in Nat /\ l + o = d
      BY <1>13
    <3> HIDE DEF d
    <3>2. i \in (0 + 1)..(0 + r) /\ i - 0 = i /\ i \in 1..BlockSize /\ o + i \in 1..k /\ l + (o + i) = d + i
      BY <1>1, <1>9, <1>13, <3>1
    <3> QED
      BY <3>2 DEF d
  <2>3. ASSUME NEW i \in 1..BlockSize
        PROVE  (IF i \in (0 + 1)..(0 + r) THEN tail[i - 0] ELSE ctx.buffer[i]) \in Byte
    <3>1. CASE i \in (0 + 1)..(0 + r)
      <4>1. i - 0 \in 1..r
        BY <1>9, <3>1
      <4>2. tail[i - 0] \in Byte
        BY <1>14, <4>1, ElementOfSeq
      <4> QED
        BY <3>1, <4>2
    <3>2. CASE i \notin (0 + 1)..(0 + r)
      BY <1>3, <3>2
    <3> QED
      BY <3>1, <3>2
  <2>4. C.buffer \in [1..BlockSize -> Byte]
    BY <2>1, <2>3
  <2>5. ASSUME NEW i \in 1..r PROVE C.buffer[i] = both[BlockSize * (L + 1 + W) + i]
    <3>1. C.buffer[i] = tail[i]
      BY <2>1, <2>2
    <3>2. tail[i] = s[o + i]
      BY <1>14
    <3>3. both[l + (o + i)] = s[o + i]
      BY <1>4, <2>2
    <3> QED
      BY <2>2, <3>1, <3>2, <3>3
  <2> QED
    BY <2>4, <2>5
<1>16. \A h \in 1..W : more[h] \in Seq(Byte) /\ more[h] = BlockOf(both, BlockSize * (L + h))
  <2> SUFFICES ASSUME NEW h \in 1..W
               PROVE  more[h] \in Seq(Byte) /\ more[h] = BlockOf(both, BlockSize * (L + h))
    OBVIOUS
  <2> DEFINE a == p + (h - 1) * BlockSize
             e == BlockSize * (h - 1)
             f == BlockSize * h
  <2>1. more[h] = SubSeq(s, a + 1, p + h * BlockSize)
    OBVIOUS
  <2>2. h - 1 \in Nat /\ h \in Nat /\ h \in 0..W
    BY <1>9
  <2>3. (h - 1) * BlockSize = e /\ h * BlockSize = f /\ f = e + BlockSize /\ e \in Nat /\ f <= b
    <3>1. f <= b
      BY <1>1, <1>9, <2>2, Multiples
    <3>2. (h - 1) * BlockSize = e /\ h * BlockSize = f /\ f = e + BlockSize /\ e \in Nat
      BY <1>1, <2>2
    <3> QED
      BY <3>1, <3>2
  <2>4. BlockSize * (L + h) = n + BlockSize + e
    <3> DEFINE y == h - 1
    <3>1. y \in Nat /\ L + h = L + 1 + y
      BY <1>1, <2>2
    <3> HIDE DEF y
    <3>2. BlockSize * (L + 1 + y) = BlockSize * L + BlockSize + BlockSize * y
      <4>1. BlockSize \in Nat /\ L \in Nat
        BY <1>1
      <4> QED
        BY <3>1, <4>1, Distribute, Zenon
    <3> QED
      BY <3>1, <3>2 DEF n, y
  <2> HIDE DEF e, f, b
  <2>5. a = p + e /\ p + h * BlockSize = a + BlockSize
    BY <1>1, <1>8, <2>3
  <2> HIDE DEF a, more
  <2>6. a \in Nat /\ a + BlockSize <= Len(s) /\ l + a = BlockSize * (L + h)
    BY SMTT(30), <1>1, <1>8, <1>9, <1>10, <2>3, <2>4, <2>5 DEF k, b
  <2>7. more[h] = BlockOf(s, a)
    BY <2>1, <2>5 DEF BlockOf
  <2>8. BlockOf(both, l + a) = BlockOf(s, a)
    BY <1>1, <2>6, BlockOfPiece DEF both, l
  <2>9. BlockOf(s, a) \in Seq(Byte)
    BY <1>1, <2>6, PartOf DEF BlockOf
  <2> QED
    BY <2>6, <2>7, <2>8, <2>9
<1>17. first \in Seq(Byte)
  <2>1. n + BlockSize <= Len(both)
    BY <1>1, <1>4, <1>8
  <2> QED
    BY <1>1, <1>4, <1>5, <2>1, PartOf DEF BlockOf
<1>18. /\ C.blocks \in Seq(Seq(Byte)) /\ Len(C.blocks) = L + 1 + W
       /\ \A j \in 1..(L + 1 + W) : C.blocks[j] = IF j <= L THEN ctx.blocks[j]
                                                  ELSE IF j = L + 1 THEN first ELSE more[j - (L + 1)]
  <2>1. more \in Seq(Seq(Byte))
    <3>1. more \in [1..W -> Seq(Byte)]
      BY <1>16
    <3> HIDE DEF more
    <3> QED
      BY <1>9, <3>1, IsASeq
  <2> DEFINE q == ctx.blocks \o <<first>>
  <2>2. q \in Seq(Seq(Byte)) /\ Len(q) = L + 1 /\ \A j \in 1..(L + 1) : q[j] = IF j <= L THEN ctx.blocks[j] ELSE first
    <3>1. <<first>> \in Seq(Seq(Byte)) /\ Len(<<first>>) = 1 /\ <<first>>[1] = first
      BY <1>17
    <3> DEFINE t == <<first>>
    <3> HIDE DEF t
    <3>2. /\ ctx.blocks \o t \in Seq(Seq(Byte)) /\ Len(ctx.blocks \o t) = L + 1
          /\ \A j \in 1..(L + 1) : (ctx.blocks \o t)[j] = IF j <= L THEN ctx.blocks[j] ELSE t[j - L]
      BY <1>1, <1>3, <3>1, ConcatProperties DEF t
    <3>3. t[1] = first
      BY <3>1 DEF t
    <3>4. ASSUME NEW j \in 1..(L + 1)
          PROVE  (ctx.blocks \o t)[j] = IF j <= L THEN ctx.blocks[j] ELSE first
      <4>1. CASE j <= L
        BY <3>2, <4>1
      <4>2. CASE ~(j <= L)
        <5>1. j - L = 1
          BY <1>1, <4>2
        <5> QED
          BY <3>2, <3>3, <4>2, <5>1
      <4> QED
        BY <4>1, <4>2
    <3> QED
      BY <3>2, <3>4 DEF t
  <2> HIDE DEF more, q
  <2>3. C.blocks = q \o more
    BY <1>7 DEF q
  <2>4. /\ q \o more \in Seq(Seq(Byte)) /\ Len(q \o more) = (L + 1) + W
        /\ \A j \in 1..((L + 1) + W) : (q \o more)[j] = IF j <= L + 1 THEN q[j] ELSE more[j - (L + 1)]
    <3>1. /\ q \o more \in Seq(Seq(Byte)) /\ Len(q \o more) = Len(q) + Len(more)
          /\ \A j \in 1..(Len(q) + Len(more)) :
               (q \o more)[j] = IF j <= Len(q) THEN q[j] ELSE more[j - Len(q)]
      BY <2>1, <2>2, ConcatProperties
    <3>2. Len(q) = L + 1 /\ Len(more) = W
      BY <1>11, <2>2
    <3> QED
      BY <3>1, <3>2
  <2>5. ASSUME NEW j \in 1..(L + 1 + W)
        PROVE  C.blocks[j] = IF j <= L THEN ctx.blocks[j]
                             ELSE IF j = L + 1 THEN first ELSE more[j - (L + 1)]
    <3>1. C.blocks[j] = IF j <= L + 1 THEN q[j] ELSE more[j - (L + 1)]
      BY <2>3, <2>4
    <3>2. CASE j <= L
      <4>1. j \in 1..(L + 1) /\ j <= L + 1
        BY <1>1, <3>2
      <4> QED
        BY <2>2, <3>1, <3>2, <4>1
    <3>3. CASE j = L + 1
      <4>1. j \in 1..(L + 1) /\ j <= L + 1 /\ ~(j <= L)
        BY <1>1, <3>3
      <4>2. q[j] = first
        BY <2>2, <4>1
      <4> QED
        BY <3>1, <3>3, <4>1, <4>2
    <3>4. CASE j > L + 1
      <4>1. ~(j <= L + 1) /\ ~(j <= L) /\ j # L + 1
        BY <1>1, <3>4
      <4> QED
        BY <3>1, <4>1
    <3> QED
      BY <1>1, <1>9, <3>2, <3>3, <3>4
  <2>6. C.blocks \in Seq(Seq(Byte)) /\ Len(C.blocks) = L + 1 + W
    BY <2>3, <2>4
  <2> QED
    BY <2>5, <2>6
<1> HIDE DEF more
<1>19. \A j \in 1..(L + 1 + W) : C.blocks[j] = BlockOf(both, BlockSize * (j - 1))
  <2> SUFFICES ASSUME NEW j \in 1..(L + 1 + W) PROVE C.blocks[j] = BlockOf(both, BlockSize * (j - 1))
    OBVIOUS
  <2>1. CASE j <= L
    <3> DEFINE a == BlockSize * (j - 1)
               e == BlockSize * j
    <3>1. j \in 1..L /\ j \in 0..L /\ j - 1 \in Nat
      BY <1>1, <1>9, <2>1
    <3>2. e <= n
      BY <1>1, <3>1, Multiples DEF n
    <3>3. a \in Nat /\ e = a + BlockSize
      BY <1>1, <3>1
    <3>4. C.blocks[j] = BlockOf(m, a)
      BY <1>2, <1>18, <2>1, <3>1
    <3> HIDE DEF a, e
    <3>5. a + BlockSize <= Len(m)
      BY <1>1, <3>2, <3>3 DEF l
    <3>6. BlockOf(both, a) = BlockOf(m, a)
      BY <1>1, <3>3, <3>5, BlockOfConcat DEF both
    <3> QED
      BY <3>4, <3>6 DEF a
  <2>2. CASE j = L + 1
    <3>1. C.blocks[j] = first
      BY <1>1, <1>18, <2>2
    <3>2. j - 1 = L
      BY <1>1, <2>2
    <3> QED
      BY <1>5, <3>1, <3>2 DEF n
  <2>3. CASE j > L + 1
    <3>1. j - (L + 1) \in 1..W /\ L + (j - (L + 1)) = j - 1 /\ ~(j <= L) /\ j # L + 1
      BY <1>1, <1>9, <2>3
    <3>2. C.blocks[j] = more[j - (L + 1)]
      BY <1>18, <3>1
    <3> QED
      BY <1>16, <3>1, <3>2
  <2> QED
    BY SMTT(30), <1>1, <2>1, <2>2, <2>3
<1>20. C.count = Bits(l + k)
  <2>1. C.count = AddLength(ctx.count, k)
    BY <1>7
  <2> QED
    BY <1>1, <1>2, <2>1, AddLengthIs
<1>21. Len(both) = BlockSize * (L + 1 + W) + r /\ Len(both) % BlockSize = r
  <2> DEFINE N == L + 1 + W
             d == BlockSize * N
  <2>1. N \in Int /\ d \in Nat /\ l + o = d /\ r \in 0..(BlockSize - 1)
    BY <1>1, <1>9, <1>13
  <2> HIDE DEF N, d
  <2>2. Len(both) = d + r /\ Len(both) \in Nat
    BY <1>1, <1>4, <1>13, <2>1
  <2>3. Divided(Len(both), BlockSize, N, r)
    BY <1>1, <2>1, <2>2 DEF Divided, d
  <2>4. Len(both) % BlockSize = r
    BY <2>3, DivModUnique
  <2> QED
    BY <2>2, <2>4 DEF N, d
<1>22. C \in ContextType
  <2>1. Bits(l + k) \in Nat \X Nat
    <3>1. l + k \in Nat
      BY <1>1
    <3> QED
      BY <3>1, BitsType
  <2>2. C = [count |-> C.count, buffer |-> C.buffer, blocks |-> C.blocks]
    BY <1>7
  <2> QED
    BY <1>15, <1>18, <1>20, <2>1, <2>2 DEF ContextType
<1> DEFINE N == Len(C.blocks)
<1>23. N = L + 1 + W
  BY <1>18
<1> HIDE DEF N
<1>24. /\ Len(both) = BlockSize * N + (Len(both) % BlockSize)
       /\ \A j \in 1..N : C.blocks[j] = BlockOf(both, BlockSize * (j - 1))
       /\ \A i \in 1..(Len(both) % BlockSize) : C.buffer[i] = both[BlockSize * N + i]
  BY <1>15, <1>19, <1>21, <1>23
<1> QED
  BY <1>4, <1>20, <1>22, <1>24 DEF Holds, N, C, both

LEMMA UpdateHolds ==
  ASSUME NEW ctx, NEW m, NEW s \in Seq(Byte), Holds(ctx, m)
  PROVE  Holds(Updated(ctx, s), m \o s)
<1>1. BlockSize \in Nat /\ Index(ctx) \in Nat /\ Len(s) \in Nat
  BY HoldsIndex, Sizes
<1>2. CASE Index(ctx) + Len(s) < BlockSize
  BY <1>2, SmallUpdate
<1>3. CASE Index(ctx) + Len(s) >= BlockSize
  BY <1>3, LargeUpdate
<1> QED
  BY <1>1, <1>2, <1>3

-----------------------------------------------------------------------------
Padding(x) == SubSeq(PADDING, 1, PadLen(x))

Zeroes(n) == [k \in 1..n |-> PadByte(0)]

(* What MD5_Final appends leaves room for the length, and no more. *)
LEMMA PadLenIs ==
  ASSUME NEW x \in 0..(BlockSize - 1)
  PROVE  /\ PadLen(x) \in 1..BlockSize
         /\ \E h \in Nat : x + PadLen(x) + LenSize = BlockSize * h
         /\ Padding(x) \in Seq(Byte) /\ Len(Padding(x)) = PadLen(x)
         /\ Padding(x) = <<PadByte(128)>> \o Zeroes(PadLen(x) - 1)
<1>1. BlockSize \in Nat /\ BlockSize > 2 /\ LenSize = 2 /\ x \in Nat /\ x < BlockSize
  BY Sizes
<1> DEFINE P == PadLen(x)
<1>2. /\ P \in 1..BlockSize
      /\ x + P + 2 = BlockSize \/ x + P + 2 = BlockSize + BlockSize
  BY <1>1 DEF PadLen
<1>3. BlockSize * 1 = BlockSize /\ BlockSize * 2 = BlockSize + BlockSize /\ 1 \in Nat /\ 2 \in Nat
  BY <1>1
<1>4. \E h \in Nat : x + P + LenSize = BlockSize * h
  BY <1>1, <1>2, <1>3
<1> HIDE DEF P
<1>5. PadByte(128) \in Byte /\ PadByte(0) \in Byte
  BY DEF PadByte, Byte
<1>6. /\ PADDING \in Seq(Byte) /\ Len(PADDING) = BlockSize
      /\ \A k \in 1..BlockSize : PADDING[k] = IF k = 1 THEN PadByte(128) ELSE PadByte(0)
  <2>1. PADDING = [k \in 1..BlockSize |-> IF k = 1 THEN PadByte(128) ELSE PadByte(0)]
    BY DEF PADDING
  <2>2. PADDING \in [1..BlockSize -> Byte]
    BY <1>5, <2>1
  <2> QED
    BY <1>1, <2>1, <2>2, IsASeq
<1>7. /\ SubSeq(PADDING, 0 + 1, 0 + P) \in Seq(Byte) /\ Len(SubSeq(PADDING, 0 + 1, 0 + P)) = P
      /\ \A i \in 1..P : SubSeq(PADDING, 0 + 1, 0 + P)[i] = PADDING[0 + i]
  <2>1. 0 \in Nat /\ P \in Nat /\ 0 + P <= Len(PADDING)
    BY <1>1, <1>2, <1>6
  <2> QED
    BY <1>6, <2>1, PartOf
<1> DEFINE u == Padding(x)
<1>8. u \in Seq(Byte) /\ Len(u) = P /\ \A i \in 1..P : u[i] = IF i = 1 THEN PadByte(128) ELSE PadByte(0)
  <2>1. 0 + 1 = 1 /\ 0 + P = P
    BY <1>2
  <2>2. u = SubSeq(PADDING, 0 + 1, 0 + P)
    BY <2>1 DEF Padding, P
  <2>3. \A i \in 1..P : 0 + i = i /\ i \in 1..BlockSize
    BY <1>1, <1>2
  <2> HIDE DEF u
  <2> QED
    BY <1>6, <1>7, <2>2, <2>3
<1> HIDE DEF u
<1> DEFINE a == <<PadByte(128)>>
           z == Zeroes(P - 1)
<1>9. a \in Seq(Byte) /\ Len(a) = 1 /\ a[1] = PadByte(128)
  BY <1>5
<1>10. z \in Seq(Byte) /\ Len(z) = P - 1 /\ \A i \in 1..(P - 1) : z[i] = PadByte(0)
  <2>1. P - 1 \in Nat
    BY <1>2
  <2>2. z \in [1..(P - 1) -> Byte]
    BY <1>5 DEF Zeroes
  <2> QED
    BY <2>1, <2>2, IsASeq DEF Zeroes
<1> HIDE DEF a, z
<1>11. /\ a \o z \in Seq(Byte) /\ Len(a \o z) = P
       /\ \A i \in 1..1 : (a \o z)[i] = a[i]
       /\ \A i \in 1..(P - 1) : (a \o z)[1 + i] = z[i]
  <2>1. /\ a \o z \in Seq(Byte) /\ Len(a \o z) = Len(a) + Len(z)
        /\ \A i \in 1..Len(a) : (a \o z)[i] = a[i]
        /\ \A i \in 1..Len(z) : (a \o z)[Len(a) + i] = z[i]
    BY <1>9, <1>10, ConcatAt
  <2> QED
    BY <1>2, <1>9, <1>10, <2>1
<1>12. ASSUME NEW i \in 1..P PROVE u[i] = (a \o z)[i]
  <2>1. CASE i = 1
    BY <1>8, <1>9, <1>11, <2>1
  <2>2. CASE i # 1
    <3>1. i - 1 \in 1..(P - 1) /\ 1 + (i - 1) = i
      BY <1>2, <2>2
    <3> QED
      BY <1>8, <1>10, <1>11, <2>2, <3>1
  <2> QED
    BY <2>1, <2>2
<1>13. u = a \o z
  BY <1>8, <1>11, <1>12, SeqEqual
<1> QED
  BY <1>2, <1>4, <1>8, <1>13 DEF u, a, z, P

(* The number of zeroes is determined. *)
LEMMA ZeroesIs ==
  ASSUME NEW n \in Nat, NEW y \in 0..(BlockSize - 1), NEW z \in 0..(BlockSize - 1),
         (n + y) % BlockSize = 0, (n + z) % BlockSize = 0
  PROVE  y = z
<1>1. BlockSize \in Nat \ {0} /\ n + y \in Nat /\ n + z \in Nat /\ y \in Nat /\ z \in Nat
  BY Sizes
<1> DEFINE p == (n + y) \div BlockSize
           q == (n + z) \div BlockSize
<1>2. p \in Nat /\ n + y = BlockSize * p + ((n + y) % BlockSize)
  BY <1>1, DivMod
<1>3. q \in Nat /\ n + z = BlockSize * q + ((n + z) % BlockSize)
  BY <1>1, DivMod
<1> HIDE DEF p, q
<1>4. n + y = BlockSize * p /\ n + z = BlockSize * q
  BY <1>1, <1>2, <1>3
<1>5. y - z = BlockSize * (p - q) /\ z - y = BlockSize * (q - p)
  BY <1>1, <1>2, <1>3, <1>4
<1>6. ~(p - q >= 1)
  <2> SUFFICES ASSUME p - q >= 1 PROVE FALSE
    OBVIOUS
  <2>1. BlockSize * (p - q) >= BlockSize
    BY <1>1, <1>2, <1>3, Multiple
  <2> QED
    BY <1>1, <1>5, <2>1
<1>7. ~(q - p >= 1)
  <2> SUFFICES ASSUME q - p >= 1 PROVE FALSE
    OBVIOUS
  <2>1. BlockSize * (q - p) >= BlockSize
    BY <1>1, <1>2, <1>3, Multiple
  <2> QED
    BY <1>1, <1>5, <2>1
<1>8. p = q
  BY <1>2, <1>3, <1>6, <1>7
<1> QED
  BY <1>1, <1>4, <1>8

Lengths(n) == <<LengthByte((8 * n) % Word), LengthByte(((8 * n) \div Word) % Word)>>

(* RFC 1321's padding is what MD5_Final appends. *)
LEMMA PaddedIs ==
  ASSUME NEW m \in Seq(Byte)
  PROVE  Padded(m) = (m \o Padding(Len(m) % BlockSize)) \o Lengths(Len(m))
<1> DEFINE l == Len(m)
           x == l % BlockSize
           P == PadLen(x)
           y == P - 1
           Fits(z) == (l + 1 + z + LenSize) % BlockSize = 0
           zeroes == CHOOSE z \in 0..(BlockSize - 1) : Fits(z)
<1>1. /\ BlockSize \in Nat \ {0} /\ LenSize = 2 /\ l \in Nat /\ x \in 0..(BlockSize - 1)
      /\ l = BlockSize * (l \div BlockSize) + x /\ l \div BlockSize \in Nat
  <2>1. BlockSize \in Nat \ {0} /\ LenSize = 2 /\ l \in Nat
    BY Sizes
  <2> QED
    BY <2>1, DivMod
<1> DEFINE q == l \div BlockSize
<1> HIDE DEF l, x, q
<1>2. PICK h \in Nat : x + P + LenSize = BlockSize * h
  BY <1>1, PadLenIs
<1>3. P \in 1..BlockSize
  BY <1>1, PadLenIs
<1> HIDE DEF P
<1>4. y \in 0..(BlockSize - 1) /\ Fits(y)
  <2>1. l + 1 + y + LenSize = BlockSize * (q + h) + 0 /\ q + h \in Int /\ q \in Nat
    <3>1. q \in Nat /\ l = BlockSize * q + x
      BY <1>1 DEF q
    <3>2. BlockSize * (q + h) = BlockSize * q + BlockSize * h
      BY <1>1, <1>2, <3>1
    <3>3. l + 1 + y + LenSize = l + (P + LenSize)
      BY <1>1, <1>3
    <3>4. BlockSize * q \in Nat /\ BlockSize * h \in Nat
      BY <1>1, <1>2, <3>1
    <3> QED
      BY <1>1, <1>2, <1>3, <3>1, <3>2, <3>3, <3>4
  <2>2. 0 \in 0..(BlockSize - 1) /\ l + 1 + y + LenSize \in Nat
    BY <1>1, <1>3
  <2>3. Divided(l + 1 + y + LenSize, BlockSize, q + h, 0)
    BY <1>1, <2>1, <2>2 DEF Divided
  <2>4. (l + 1 + y + LenSize) % BlockSize = 0
    BY <2>3, DivModUnique
  <2> QED
    BY <1>1, <1>3, <2>4
<1>5. zeroes = y
  <2>1. zeroes \in 0..(BlockSize - 1) /\ Fits(zeroes)
    <3> HIDE DEF y, Fits
    <3> QED
      BY <1>4, Zenon
  <2> HIDE DEF zeroes, y
  <2> DEFINE n == l + 1 + LenSize
  <2>2. n \in Nat /\ l + 1 + y + LenSize = n + y /\ l + 1 + zeroes + LenSize = n + zeroes
    BY <1>1, <1>4, <2>1
  <2> HIDE DEF n
  <2>3. (n + y) % BlockSize = 0 /\ (n + zeroes) % BlockSize = 0
    BY <1>4, <2>1, <2>2
  <2> QED
    BY <1>4, <2>1, <2>2, <2>3, ZeroesIs
<1>6. Padded(m) = m \o <<PadByte(128)>> \o Zeroes(zeroes) \o Lengths(l)
  BY Zenon DEF Padded, Zeroes, Lengths, l
<1>7. Padding(x) = <<PadByte(128)>> \o Zeroes(y)
  BY <1>1, PadLenIs DEF P
<1>8. m \o <<PadByte(128)>> \o Zeroes(y) = m \o Padding(x)
  <2>1. PadByte(128) \in Byte /\ PadByte(0) \in Byte
    BY DEF PadByte, Byte
  <2>2. <<PadByte(128)>> \in Seq(Byte)
    BY <2>1
  <2>3. Zeroes(y) \in Seq(Byte)
    <3>1. y \in Nat
      BY <1>4
    <3>2. Zeroes(y) \in [1..y -> Byte]
      BY <2>1 DEF Zeroes
    <3> QED
      BY <3>1, <3>2, IsASeq
  <2> QED
    BY <1>7, <2>2, <2>3, ConcatAssociative
<1> HIDE DEF zeroes, y
<1> QED
  BY <1>5, <1>6, <1>8 DEF l, x

(* MD5_Final digests the padded message. *)
LEMMA FinalIs ==
  ASSUME NEW ctx, NEW m, Holds(ctx, m)
  PROVE  Final(ctx).blocks \in Seq(Seq(Byte)) /\ FlattenSeq(Final(ctx).blocks) = Padded(m)
<1> DEFINE l == Len(m)
           x == Index(ctx)
           pad == Padding(x)
           bits == Lengths(l)
           padded == Updated(ctx, pad)
           m1 == m \o pad
           m2 == m1 \o bits
           C == Updated(padded, bits)
<1>1. /\ BlockSize \in Nat \ {0} /\ LenSize = 2 /\ l \in Nat /\ x \in 0..(BlockSize - 1) /\ m \in Seq(Byte)
      /\ x = l % BlockSize /\ l = BlockSize * Len(ctx.blocks) + x /\ Len(ctx.blocks) \in Nat
      /\ ctx.count = Bits(l)
  BY HoldsIndex, Sizes DEF Holds
<1>0. l \in Nat /\ x \in Nat
  BY HoldsIndex
<1> HIDE DEF x
<1>2. PICK h \in Nat : x + PadLen(x) + LenSize = BlockSize * h
  <2>1. x \in 0..(BlockSize - 1)
    BY <1>1
  <2>2. \E h \in Nat : x + PadLen(x) + LenSize = BlockSize * h
    BY <2>1, PadLenIs
  <2> QED
    BY <2>2
<1>3. pad \in Seq(Byte) /\ Len(pad) = PadLen(x) /\ PadLen(x) \in Nat
  <2>1. x \in 0..(BlockSize - 1)
    BY <1>1
  <2>2. PadLen(x) \in 1..BlockSize /\ Padding(x) \in Seq(Byte) /\ Len(Padding(x)) = PadLen(x)
    BY <2>1, PadLenIs
  <2>3. PadLen(x) \in Nat
    BY <2>2
  <2> QED
    BY <2>2, <2>3
<1>4. bits \in Seq(Byte) /\ Len(bits) = 2
  <2>1. (8 * l) % Word \in Nat /\ ((8 * l) \div Word) % Word \in Nat
    BY <1>1, BitsType DEF Bits
  <2>2. LengthByte((8 * l) % Word) \in Byte /\ LengthByte(((8 * l) \div Word) % Word) \in Byte
    BY <2>1 DEF LengthByte, Byte
  <2> DEFINE u == LengthByte((8 * l) % Word)
             v == LengthByte(((8 * l) \div Word) % Word)
  <2>3. bits = <<u, v>>
    BY DEF Lengths
  <2>4. u \in Byte /\ v \in Byte
    BY <2>2
  <2> HIDE DEF u, v, bits
  <2> QED
    BY <2>3, <2>4
<1>5. Final(ctx) = C
  <2>1. <<LengthByte(ctx.count[1]), LengthByte(ctx.count[2])>> = bits
    BY <1>1 DEF Bits, Lengths
  <2> DEFINE b == <<LengthByte(ctx.count[1]), LengthByte(ctx.count[2])>>
  <2>2. Final(ctx) = Updated(padded, b)
    BY DEF Final, Padding, x
  <2> HIDE DEF b
  <2> QED
    BY <2>1, <2>2 DEF b
<1>6. Holds(padded, m1)
  BY <1>3, UpdateHolds
<1> HIDE DEF padded, pad, bits
<1>7. m1 \in Seq(Byte) /\ Len(m1) = l + PadLen(x)
  BY <1>1, <1>3, ConcatAt
<1> HIDE DEF m1, l
<1>8. Holds(C, m2)
  BY <1>4, <1>6, UpdateHolds
<1>9. Len(m2) = l + PadLen(x) + 2
  <2>1. Len(m2) = Len(m1) + Len(bits)
    BY <1>4, <1>7, ConcatAt
  <2> QED
    BY <1>4, <1>7, <2>1
<1> HIDE DEF C, m2
<1>10. Len(m2) % BlockSize = 0
  <2> DEFINE L == Len(ctx.blocks)
             a == BlockSize * L
             b == BlockSize * h
             P == PadLen(x)
  <2>1. L \in Nat /\ h \in Nat /\ l = a + x /\ x + P + 2 = b /\ P \in Nat
    BY <1>1, <1>2, <1>3
  <2> HIDE DEF L, P
  <2>2. a \in Nat /\ b \in Nat /\ BlockSize * (L + h) = a + b
    <3>1. BlockSize \in Nat /\ L \in Nat /\ h \in Nat
      BY <1>1, <2>1
    <3> QED
      BY <3>1
  <2>3. Len(m2) = l + P + 2
    BY <1>9 DEF P
  <2> HIDE DEF a, b
  <2>4. Len(m2) = BlockSize * (L + h) + 0 /\ Len(m2) \in Nat /\ L + h \in Int
    <3>2. Len(m2) = a + b
      BY <1>0, <2>1, <2>2, <2>3
    <3> QED
      BY <2>1, <2>2, <3>2
  <2>5. 0 \in 0..(BlockSize - 1)
    BY <1>1
  <2>6. Divided(Len(m2), BlockSize, L + h, 0)
    BY <1>1, <2>4, <2>5 DEF Divided
  <2> QED
    BY <2>6, DivModUnique
<1>11. Index(C) = 0
  BY <1>8, <1>10, HoldsIndex
<1>12. FlattenSeq(C.blocks) = m2
  <2>1. FlattenSeq(C.blocks) = SubSeq(m2, 1, BlockSize * Len(C.blocks))
    BY <1>8, HoldsFlat
  <2>2. Len(m2) = BlockSize * Len(C.blocks) + 0 /\ Len(C.blocks) \in Nat
    BY <1>8, <1>11, HoldsIndex
  <2>3. BlockSize * Len(C.blocks) \in Nat
    BY <1>1, <2>2
  <2>4. BlockSize * Len(C.blocks) = Len(m2)
    BY <2>2, <2>3
  <2>5. m2 \in Seq(Byte)
    BY <1>8 DEF Holds
  <2> QED
    BY <2>1, <2>4, <2>5, SubSeqFull
<1>13. m2 = Padded(m)
  <2>1. m2 = (m \o Padding(l % BlockSize)) \o Lengths(l)
    BY <1>1 DEF m2, m1, pad, bits
  <2> QED
    BY <1>1, <2>1, PaddedIs DEF l
<1>14. C.blocks \in Seq(Seq(Byte))
  BY <1>8 DEF Holds, ContextType
<1> QED
  BY <1>5, <1>12, <1>13, <1>14

-----------------------------------------------------------------------------
(* The inductive invariant: while a message is hashed the context is that  *)
(* of the message; afterwards the blocks are those of the padded message.  *)
IInv ==
  /\ running \in BOOLEAN /\ message \in Seq(Byte) /\ hashed \in Nat
  /\ buffer \in [1..BlockSize -> Byte]
  /\ running => Holds(Context, message)
  /\ DigestsPaddedMessage

LEMMA Garbled ==
  Garbage \in Byte /\ PadByte(0) \in Byte /\ \A k \in Nat : MessageByte(k) \in Byte
BY DEF Garbage, PadByte, MessageByte, Byte

LEMMA InitInv == DigestInit => IInv
<1> SUFFICES ASSUME DigestInit PROVE IInv
  OBVIOUS
<1>1. buffer \in [1..BlockSize -> Byte]
  BY Garbled DEF DigestInit
<1>2. message \in Seq(Byte) /\ running = FALSE /\ hashed = 0
  BY DEF DigestInit
<1>3. ~(0 > 0) /\ 0 \in Nat
  OBVIOUS
<1> QED
  BY <1>1, <1>2, <1>3 DEF IInv, DigestsPaddedMessage

(* A context begun holds the empty message, whatever is in its buffer. *)
LEMMA BeginHolds ==
  ASSUME NEW b \in [1..BlockSize -> Byte]
  PROVE  Holds([count |-> <<0, 0>>, buffer |-> b, blocks |-> << >>], << >>)
<1> DEFINE ctx == [count |-> <<0, 0>>, buffer |-> b, blocks |-> << >>]
<1>1. ctx \in ContextType /\ ctx.count = <<0, 0>> /\ ctx.blocks = << >>
  <2>1. <<0, 0>> \in Nat \X Nat /\ << >> \in Seq(Seq(Byte))
    OBVIOUS
  <2> QED
    BY <2>1 DEF ContextType
<1>2. BlockSize \in Nat \ {0} /\ Word \in Nat \ {0}
  BY Sizes
<1>3. 0 \div Word = 0 /\ 0 % Word = 0 /\ 0 % BlockSize = 0
  BY <1>2
<1>4. Bits(0) = <<0, 0>>
  <2>1. 8 * 0 = 0
    OBVIOUS
  <2> QED
    BY <1>3, <2>1 DEF Bits
<1>5. Len(<< >>) = 0 /\ << >> \in Seq(Byte) /\ 1..0 = {}
  OBVIOUS
<1>6. 0 = BlockSize * 0 + (0 % BlockSize)
  BY <1>2, <1>3
<1> HIDE DEF ctx
<1>7. Holds(ctx, << >>)
  BY <1>1, <1>3, <1>4, <1>5, <1>6 DEF Holds
<1> QED
  BY <1>7 DEF ctx

LEMMA StepInv == IInv /\ [DigestNext]_digest_vars => IInv'
<1> SUFFICES ASSUME IInv, [DigestNext]_digest_vars PROVE IInv'
  OBVIOUS
<1>1. CASE MD5_Init
  <2>1. Context' = [count |-> <<0, 0>>, buffer |-> buffer, blocks |-> << >>]
    BY <1>1 DEF MD5_Init, Context
  <2>2. Holds(Context', << >>)
    BY <2>1, BeginHolds DEF IInv
  <2>3. message' = << >> /\ running' = TRUE /\ hashed' \in Nat /\ buffer' = buffer
    BY <1>1 DEF MD5_Init, IInv
  <2>4. << >> \in Seq(Byte)
    OBVIOUS
  <2> QED
    BY <2>2, <2>3, <2>4 DEF IInv, DigestsPaddedMessage
<1>2. ASSUME NEW len \in 0..MaxMessage, MD5_Update(len)
      PROVE  IInv'
  <2> DEFINE s == [k \in 1..len |-> MessageByte(Len(message) + k)]
             C == Updated(Context, s)
  <2>1. s \in Seq(Byte)
    <3>1. len \in Nat /\ Len(message) \in Nat
      BY WidthAssumption DEF IInv
    <3>2. \A k \in 1..len : MessageByte(Len(message) + k) \in Byte
      BY <3>1, Garbled
    <3>3. s \in [1..len -> Byte]
      BY <3>2
    <3> QED
      BY <3>1, <3>3, IsASeq
  <2>2. /\ running /\ message' = message \o s /\ count' = C.count /\ buffer' = C.buffer
        /\ blocks' = C.blocks /\ UNCHANGED <<hashed, running>>
    BY <1>2, Zenon DEF MD5_Update
  <2>3. Holds(Context, message)
    BY <2>2 DEF IInv
  <2> HIDE DEF s
  <2>4. Holds(C, message \o s)
    BY <2>1, <2>3, UpdateHolds
  <2> HIDE DEF C
  <2>5. C \in ContextType /\ message \o s \in Seq(Byte)
    BY <2>4 DEF Holds
  <2>6. Context' = C /\ buffer' \in [1..BlockSize -> Byte]
    BY <2>2, <2>5 DEF Context, ContextType
  <2> QED
    BY <2>2, <2>4, <2>5, <2>6 DEF IInv, DigestsPaddedMessage
<1>3. CASE MD5_Final
  <2>1. /\ running /\ blocks' = Final(Context).blocks /\ running' = FALSE /\ message' = message
        /\ hashed' = hashed /\ buffer' = [k \in 1..BlockSize |-> PadByte(0)]
    BY <1>3, Zenon DEF MD5_Final
  <2>2. Holds(Context, message)
    BY <2>1 DEF IInv
  <2>3. FlattenSeq(blocks') = Padded(message')
    BY <2>1, <2>2, FinalIs
  <2>4. buffer' \in [1..BlockSize -> Byte]
    BY <2>1, Garbled
  <2>5. DigestsPaddedMessage'
    BY <2>3 DEF DigestsPaddedMessage
  <2> QED
    BY <2>1, <2>4, <2>5 DEF IInv
<1>4. CASE UNCHANGED digest_vars
  <2>1. Context' = Context
    BY <1>4 DEF digest_vars, Context
  <2>2. DigestsPaddedMessage'
    BY <1>4 DEF digest_vars, IInv, DigestsPaddedMessage
  <2> QED
    BY <1>4, <2>1, <2>2 DEF digest_vars, IInv
<1> QED
  BY <1>1, <1>2, <1>3, <1>4 DEF DigestNext

(* Holds of the running context gives what the runs check. *)
LEMMA InvLost == IInv => NothingLost
<1> SUFFICES ASSUME IInv, running
             PROVE  FlattenSeq(blocks) \o SubSeq(buffer, 1, Index(Context)) = message
  BY DEF NothingLost
<1>1. Holds(Context, message) /\ Context.blocks = blocks /\ Context.buffer = buffer
  BY DEF IInv, Context
<1>2. FlattenSeq(Context.blocks) \o SubSeq(Context.buffer, 1, Index(Context)) = message
  BY <1>1, HoldsFlat
<1> QED
  BY <1>1, <1>2

(* Two words count up to the square of Word. *)
LEMMA InvCounted == IInv => BitsCounted
<1> SUFFICES ASSUME IInv, running
             PROVE  count[1] + Word * count[2] = (8 * Len(message)) % (Word * Word)
  BY DEF BitsCounted
<1>1. count = Bits(Len(message)) /\ Len(message) \in Nat
  BY DEF IInv, Holds, Context
<1> DEFINE a == 8 * Len(message)
           q == a \div Word
           r == a % Word
           Q == q \div Word
           R == q % Word
<1>2. Word \in Nat \ {0} /\ a \in Nat
  BY <1>1, Sizes
<1>3. count[1] = r /\ count[2] = R
  BY <1>1 DEF Bits
<1> HIDE DEF a
<1>4. q \in Nat /\ r \in 0..(Word - 1) /\ a = Word * q + r
  BY <1>2, DivMod
<1> HIDE DEF q, r
<1>5. Q \in Nat /\ R \in 0..(Word - 1) /\ q = Word * Q + R
  BY <1>2, <1>4, DivMod
<1> HIDE DEF Q, R
<1> DEFINE S == Word * Word
           c == r + Word * R
<1>6. a = S * Q + c
  <2>1. Word * q = S * Q + Word * R
    BY <1>2, <1>4, <1>5
  <2> QED
    BY <1>2, <1>4, <1>5, <2>1
<1>7. S \in Nat \ {0} /\ c \in 0..(S - 1)
  <2>1. S \in Nat \ {0}
    BY <1>2
  <2>2. Word * R \in Nat /\ Word * R <= Word * (Word - 1) /\ Word * (Word - 1) = S - Word
    BY <1>2, <1>5, Multiples
  <2> HIDE DEF S
  <2> DEFINE w == Word * R
  <2>3. w \in Nat /\ w <= S - Word
    BY <2>2
  <2> HIDE DEF w
  <2>4. r + w \in 0..(S - 1)
    BY <1>2, <1>4, <2>1, <2>3
  <2> QED
    BY <2>1, <2>4 DEF w
<1> HIDE DEF S, c
<1>8. Divided(a, S, Q, c)
  BY <1>2, <1>5, <1>6, <1>7 DEF Divided
<1>9. a % S = c
  BY <1>8, DivModUnique
<1> QED
  BY <1>3, <1>9 DEF a, S, c

LEMMA Invariant == DigestSpec => []IInv
BY InitInv, StepInv, PTL DEF DigestSpec

(* md5.c, MD5_Update: however the message is cut into pieces, the blocks   *)
(* transformed and the used part of the buffer are the message.            *)
THEOREM NothingLostHolds == DigestSpec => []NothingLost
BY Invariant, InvLost, PTL

(* md5.c:191: the two words count the bits, through every carry and for    *)
(* every width of a word.                                                  *)
THEOREM BitsCountedHolds == DigestSpec => []BitsCounted
BY Invariant, InvCounted, PTL

(* md5.c, MD5_Final: what is digested is the padded message of RFC 1321.   *)
THEOREM PaddedHolds == DigestSpec => []DigestsPaddedMessage
<1>1. IInv => DigestsPaddedMessage
  BY DEF IInv
<1> QED
  BY <1>1, Invariant, PTL

-----------------------------------------------------------------------------
(* The program around it. *)
LineText == [line : Nat, hashed : Nat]

LineString == [text : LineText, capacity : Nat]

(* An array has at least one string that is not in use. *)
LineArrays ==
  UNION {[arr : [1..c -> LineString], capacity : {c}, size : 0..(c - 1)] : c \in Nat \ (0..3)}

NewLine(line) == [line |-> line, hashed |-> 0]

LEMMA ArrayShape ==
  ASSUME NEW a \in LineArrays
  PROVE  /\ a.capacity \in Nat /\ a.capacity >= 4 /\ a.size \in 0..(a.capacity - 1)
         /\ a.arr \in [1..a.capacity -> LineString]
         /\ a = [arr |-> a.arr, capacity |-> a.capacity, size |-> a.size]
<1>1. PICK c \in Nat \ (0..3) :
        a \in [arr : [1..c -> LineString], capacity : {c}, size : 0..(c - 1)]
  BY DEF LineArrays
<1>2. c \in Nat /\ c >= 4 /\ a.capacity = c
  BY <1>1
<1>3. a.arr \in [1..c -> LineString] /\ a.size \in 0..(c - 1)
  BY <1>1
<1>4. a = [arr |-> a.arr, capacity |-> a.capacity, size |-> a.size]
  BY <1>1
<1> QED
  BY <1>2, <1>3, <1>4

LEMMA ArrayMade ==
  ASSUME NEW c \in Nat, c >= 4, NEW z \in 0..(c - 1), NEW f \in [1..c -> LineString]
  PROVE  [arr |-> f, capacity |-> c, size |-> z] \in LineArrays
<1>1. c \in Nat \ (0..3)
  OBVIOUS
<1>2. [arr |-> f, capacity |-> c, size |-> z]
        \in [arr : [1..c -> LineString], capacity : {c}, size : 0..(c - 1)]
  OBVIOUS
<1> QED
  BY <1>1, <1>2 DEF LineArrays

(* A new string, and one with another text. *)
LEMMA StringMade ==
  ASSUME SizeAssumption
  PROVE  /\ M!conMyString \in LineString
         /\ \A x \in LineString, t \in LineText :
              /\ M!cpyMyString(x, t) \in LineString
              /\ M!cpyMyString(x, t).text = t
<1>1. NewText \in LineText
  BY DEF NewText, LineText
<1>2. \A t \in LineText : TextLength(t) \in Nat
  BY DEF SizeAssumption, TextLength, LineText
<1>3. M!conMyString \in LineString
  BY <1>1 DEF M!conMyString, LineString
<1>4. ASSUME NEW x \in LineString, NEW t \in LineText
      PROVE  M!cpyMyString(x, t) \in LineString /\ M!cpyMyString(x, t).text = t
  <2> DEFINE c == IF x.capacity <= TextLength(t) + 1 THEN TextLength(t) + 2
                  ELSE x.capacity
  <2>1. c \in Nat
    BY <1>2 DEF LineString
  <2>2. M!cpyMyString(x, t) = [text |-> t, capacity |-> c]
    BY DEF M!cpyMyString
  <2> HIDE DEF c
  <2> QED
    BY <2>1, <2>2 DEF LineString
<1> QED
  BY <1>3, <1>4

(* The array that is full but for one string grows. *)
LEMMA ExpandKeeps ==
  ASSUME NEW a \in LineArrays, SizeAssumption
  PROVE  /\ M!expandMyStringArr(a) \in LineArrays
         /\ M!expandMyStringArr(a).size = a.size
         /\ a.size + 2 <= M!expandMyStringArr(a).capacity
         /\ \A k \in 1..a.size : M!expandMyStringArr(a).arr[k].text = a.arr[k].text
<1> DEFINE e == M!expandMyStringArr(a)
           cap == 2 * a.capacity
           f == [k \in 1..cap |->
                   IF k <= a.size THEN M!cpyMyString(M!conMyString, a.arr[k].text)
                   ELSE M!conMyString]
<1>1. /\ a.capacity \in Nat /\ a.capacity >= 4 /\ a.size \in 0..(a.capacity - 1)
      /\ a.arr \in [1..a.capacity -> LineString]
  BY ArrayShape
<1>2. CASE a.size <= a.capacity - 2
  <2>1. e = a
    BY <1>2 DEF M!expandMyStringArr
  <2> QED
    BY <1>1, <1>2, <2>1
<1>3. CASE ~(a.size <= a.capacity - 2)
  <2>1. e = [arr |-> f, capacity |-> cap, size |-> a.size]
    BY <1>3 DEF M!expandMyStringArr, M!Resized
  <2>2. ASSUME NEW k \in 1..cap, k <= a.size
        PROVE  a.arr[k].text \in LineText
    <3>1. k \in 1..a.capacity
      BY <1>1, <2>2
    <3>2. a.arr[k] \in LineString
      BY <1>1, <3>1
    <3> QED
      BY <3>2 DEF LineString
  <2>3. f \in [1..cap -> LineString] /\ \A k \in 1..cap : k <= a.size => f[k].text = a.arr[k].text
    BY <2>2, StringMade
  <2>4. cap \in Nat /\ cap >= 4 /\ a.size \in 0..(cap - 1) /\ a.size + 2 <= cap
        /\ \A k \in 1..a.size : k \in 1..cap /\ k <= a.size
    BY <1>1
  <2> HIDE DEF f, e, cap
  <2>5. e \in LineArrays
    BY <2>1, <2>3, <2>4, ArrayMade
  <2> QED
    BY <2>1, <2>3, <2>4, <2>5 DEF e
<1> QED
  BY <1>2, <1>3

LEMMA PushKeeps ==
  ASSUME NEW a \in LineArrays, NEW t \in LineText, SizeAssumption
  PROVE  /\ M!pushMyStringArr(a, t) \in LineArrays
         /\ M!pushMyStringArr(a, t).size = a.size + 1
         /\ M!pushMyStringArr(a, t).arr[a.size + 1].text = t
         /\ \A k \in 1..a.size : M!pushMyStringArr(a, t).arr[k].text = a.arr[k].text
<1> DEFINE e == M!expandMyStringArr(a)
           f == [e.arr EXCEPT ![e.size + 1] = M!cpyMyString(@, t)]
<1>1. a.size \in Nat
  BY ArrayShape
<1>2. /\ e \in LineArrays /\ e.size = a.size /\ a.size + 2 <= e.capacity
      /\ \A k \in 1..a.size : e.arr[k].text = a.arr[k].text
  BY ExpandKeeps
<1>3. M!pushMyStringArr(a, t) = [arr |-> f, capacity |-> e.capacity, size |-> e.size + 1]
  BY DEF M!pushMyStringArr
<1> HIDE DEF e
<1>4. e.capacity \in Nat /\ e.capacity >= 4 /\ e.arr \in [1..e.capacity -> LineString]
  BY <1>2, ArrayShape
<1>5. e.size + 1 \in 1..e.capacity /\ e.size + 1 \in 0..(e.capacity - 1)
  BY <1>1, <1>2, <1>4
<1>6. /\ f \in [1..e.capacity -> LineString] /\ f[e.size + 1].text = t
      /\ \A k \in 1..e.capacity : k # e.size + 1 => f[k] = e.arr[k]
  BY <1>4, <1>5, StringMade
<1>7. \A k \in 1..a.size : k \in 1..e.capacity /\ k # e.size + 1
  BY <1>1, <1>2, <1>4
<1> HIDE DEF f
<1>8. [arr |-> f, capacity |-> e.capacity, size |-> e.size + 1] \in LineArrays
  BY <1>4, <1>5, <1>6, ArrayMade
<1> QED
  BY <1>2, <1>3, <1>6, <1>7, <1>8

(* The lines of s are in the array, and nothing else. *)
HasLines(a, s, n) ==
  /\ a \in LineArrays /\ a.size = n
  /\ \A k \in 1..n : a.arr[k].text = NewLine(s[k])

LEMMA PushedIs ==
  ASSUME NEW a \in LineArrays, NEW s \in Seq(Nat), SizeAssumption
  PROVE  HasLines(Pushed(a, s), s, Len(s))
<1> DEFINE base == M!clearMyStringArr(a)
           Op(acc, line) == M!pushMyStringArr(acc, [NewText EXCEPT !.line = line])
           V == LineArrays
           step == [p \in V \X Nat |-> Op(p[1], p[2])]
           Rec(f) == f = [T \in SUBSET (DOMAIN s) |->
                            IF T = {} THEN base ELSE Op(f[T \ {Max(T)}], s[Max(T)])]
<1>0. Len(s) \in Nat /\ DOMAIN s = 1..Len(s) /\ \A k \in 1..Len(s) : s[k] \in Nat
  OBVIOUS
<1>1. base \in V /\ base.size = 0
  <2>1. /\ a.capacity \in Nat /\ a.capacity >= 4 /\ a.arr \in [1..a.capacity -> LineString]
        /\ a = [arr |-> a.arr, capacity |-> a.capacity, size |-> a.size]
    BY ArrayShape
  <2>2. base = [arr |-> a.arr, capacity |-> a.capacity, size |-> 0]
    BY <2>1 DEF M!clearMyStringArr
  <2>3. 0 \in 0..(a.capacity - 1)
    BY <2>1
  <2>4. [arr |-> a.arr, capacity |-> a.capacity, size |-> 0] \in LineArrays
    BY <2>1, <2>3, ArrayMade
  <2> HIDE DEF base
  <2> QED
    BY <2>2, <2>4
<1>2. ASSUME NEW r \in V, NEW line \in Nat
      PROVE  /\ step[<<r, line>>] = Op(r, line)
             /\ Op(r, line) = M!pushMyStringArr(r, NewLine(line))
             /\ Op(r, line) \in V /\ NewLine(line) \in LineText
  <2>1. [NewText EXCEPT !.line = line] = NewLine(line) /\ NewLine(line) \in LineText
    BY DEF NewText, NewLine, LineText
  <2>2. step[<<r, line>>] = Op(r, line)
    OBVIOUS
  <2> QED
    BY <2>1, <2>2, PushKeeps
<1>3. step \in [V \X Nat -> V]
  <2> HIDE DEF V, Op
  <2> QED
    BY <1>2
<1>4. Pushed(a, s) = (CHOOSE f : Rec(f))[DOMAIN s]
  BY DEF Pushed, FoldLeft, MapThenFoldSet, Max, Max
<1> HIDE DEF V, base, step, Op
<1>5. \E f : Rec(f)
  <2>1. PICK f \in [SUBSET (DOMAIN s) -> V] : FoldsOver(f, step, base, s)
    BY <1>1, <1>3, FoldExists
  <2>2. ASSUME NEW T \in SUBSET (DOMAIN s), T # {}
        PROVE  f[T] = Op(f[T \ {Max(T)}], s[Max(T)])
    <3>1. Max(T) \in T
      BY <1>0, <2>2, MaxIsIn
    <3>2. s[Max(T)] \in Nat /\ f[T \ {Max(T)}] \in V
      BY <1>0, <3>1
    <3>3. f[T] = step[<<f[T \ {Max(T)}], s[Max(T)]>>]
      BY <2>1, <2>2 DEF FoldsOver
    <3> QED
      BY <1>2, <3>2, <3>3
  <2>3. f[{}] = base
    BY <2>1 DEF FoldsOver
  <2>4. f = [T \in SUBSET (DOMAIN s) |->
               IF T = {} THEN base ELSE Op(f[T \ {Max(T)}], s[Max(T)])]
    BY <2>2, <2>3
  <2> QED
    BY <2>4
<1> DEFINE it == CHOOSE f : Rec(f)
<1>6. Rec(it)
  <2> HIDE DEF Rec
  <2> QED
    BY <1>5
<1> HIDE DEF it
<1> DEFINE Good == {k \in Nat : k <= Len(s) => it[1..k] \in V /\ HasLines(it[1..k], s, k)}
<1>7. 0 \in Good
  <2>1. it[1..0] = base
    <3>1. 1..0 = {}
      OBVIOUS
    <3> QED
      BY <1>6, <3>1
  <2> QED
    BY <1>1, <2>1 DEF HasLines, V
<1>8. ASSUME NEW k \in Nat, k \in Good PROVE k + 1 \in Good
  <2> SUFFICES ASSUME k + 1 <= Len(s)
               PROVE  it[1..(k + 1)] \in V /\ HasLines(it[1..(k + 1)], s, k + 1)
    OBVIOUS
  <2> DEFINE r == it[1..k]
             line == s[k + 1]
             T == 1..(k + 1)
  <2>1. r \in V /\ HasLines(r, s, k)
    BY <1>0, <1>8
  <2>2. line \in Nat
    BY <1>0
  <2>3. /\ T \in SUBSET (1..Len(s)) /\ k + 1 \in T /\ T # {} /\ T \ {k + 1} = 1..k
        /\ \A y \in T : y \in Int /\ y <= k + 1
    <3>1. k + 1 \in T
      OBVIOUS
    <3>2. \A y \in T : y \in Int /\ y <= k + 1 /\ y \in 1..Len(s)
      BY <1>0
    <3>3. T \ {k + 1} = 1..k
      OBVIOUS
    <3> HIDE DEF T
    <3> QED
      BY <3>1, <3>2, <3>3
  <2>4. Max(T) = k + 1
    <3> HIDE DEF T
    <3>1. Max(T) \in T /\ k + 1 <= Max(T)
      BY <1>0, <2>3, MaxIsIn
    <3>2. Max(T) <= k + 1 /\ Max(T) \in Int
      BY <2>3, <3>1
    <3> HIDE DEF Max
    <3> QED
      BY <3>1, <3>2
  <2>5. it[T] = Op(r, line)
    <3> HIDE DEF T
    <3>1. it[T] = Op(it[T \ {Max(T)}], s[Max(T)])
      BY <1>0, <1>6, <2>3
    <3> QED
      BY <2>3, <2>4, <3>1
  <2> HIDE DEF r, line, Good, T
  <2>6. it[T] = M!pushMyStringArr(r, NewLine(line)) /\ it[T] \in V /\ NewLine(line) \in LineText
    BY <1>2, <2>1, <2>2, <2>5
  <2>7. /\ r \in LineArrays /\ r.size = k
        /\ \A i \in 1..k : r.arr[i].text = NewLine(s[i])
    BY <2>1 DEF HasLines
  <2> DEFINE b == M!pushMyStringArr(r, NewLine(line))
  <2>8. /\ b \in LineArrays /\ b.size = k + 1 /\ b.arr[k + 1].text = NewLine(line)
        /\ \A i \in 1..k : b.arr[i].text = r.arr[i].text
    BY <2>6, <2>7, PushKeeps
  <2>9. it[T] = b
    BY <2>6
  <2> HIDE DEF b
  <2>10. \A i \in 1..(k + 1) : b.arr[i].text = NewLine(s[i])
    <3> SUFFICES ASSUME NEW i \in 1..(k + 1) PROVE b.arr[i].text = NewLine(s[i])
      OBVIOUS
    <3>1. i \in 1..k \/ i = k + 1
      OBVIOUS
    <3> QED
      BY <2>7, <2>8, <3>1 DEF line
  <2> QED
    BY <2>6, <2>8, <2>9, <2>10 DEF HasLines, T
<1>9. Nat \subseteq Good
  <2> HIDE DEF Good
  <2> QED
    BY <1>7, <1>8, SetInduction
<1>10. Len(s) \in Good
  BY <1>0, <1>9
<1> QED
  BY <1>0, <1>4, <1>10 DEF it

(* Every string in use gets room for a digest, and keeps its text. *)
LEMMA WithRoomIs ==
  ASSUME NEW a \in LineArrays, SizeAssumption
  PROVE  /\ WithRoom(a) \in LineArrays /\ WithRoom(a).size = a.size
         /\ \A k \in 1..a.size : /\ WithRoom(a).arr[k].text = a.arr[k].text
                                 /\ WithRoom(a).arr[k].capacity > 2 * DATA_MD5_SIZE
<1> DEFINE cap == 2 * DATA_MD5_SIZE + 2
           f == [k \in DOMAIN a.arr |->
                   IF k <= a.size THEN M!recapacityMyString(a.arr[k], cap) ELSE a.arr[k]]
<1>1. /\ a.capacity \in Nat /\ a.capacity >= 4 /\ a.size \in 0..(a.capacity - 1)
      /\ a.arr \in [1..a.capacity -> LineString]
      /\ a = [arr |-> a.arr, capacity |-> a.capacity, size |-> a.size]
  BY ArrayShape
<1>2. cap \in Nat /\ 2 * DATA_MD5_SIZE < cap /\ 2 * DATA_MD5_SIZE \in Nat
  BY DEF SizeAssumption
<1>3. ASSUME NEW x \in LineString
      PROVE  LET y == M!recapacityMyString(x, cap)
             IN  y \in LineString /\ y.text = x.text /\ y.capacity > 2 * DATA_MD5_SIZE
  <2> HIDE DEF cap
  <2>1. x = [text |-> x.text, capacity |-> x.capacity] /\ x.text \in LineText /\ x.capacity \in Nat
    BY DEF LineString
  <2> DEFINE c == IF cap > x.capacity THEN cap ELSE x.capacity
  <2>2. c \in Nat /\ c > 2 * DATA_MD5_SIZE
    BY <1>2, <2>1
  <2>3. M!recapacityMyString(x, cap) = [text |-> x.text, capacity |-> c]
    BY <2>1 DEF M!recapacityMyString
  <2> HIDE DEF c
  <2> QED
    BY <2>1, <2>2, <2>3 DEF LineString
<1>4. WithRoom(a) = [arr |-> f, capacity |-> a.capacity, size |-> a.size]
  <2>1. WithRoom(a) = [a EXCEPT !.arr = f]
    BY DEF WithRoom
  <2> HIDE DEF f
  <2> QED
    BY <1>1, <2>1
<1>5. f \in [1..a.capacity -> LineString]
      /\ \A k \in 1..a.size : f[k].text = a.arr[k].text /\ f[k].capacity > 2 * DATA_MD5_SIZE
  <2>1. \A k \in 1..a.capacity : a.arr[k] \in LineString
    BY <1>1
  <2>2. \A k \in 1..a.size : k \in 1..a.capacity /\ k <= a.size
    BY <1>1
  <2> HIDE DEF cap
  <2> QED
    BY <1>1, <1>3, <2>1, <2>2
<1> HIDE DEF f
<1>6. [arr |-> f, capacity |-> a.capacity, size |-> a.size] \in LineArrays
  BY <1>1, <1>5, ArrayMade
<1> QED
  BY <1>4, <1>5, <1>6

-----------------------------------------------------------------------------
(* The block in the array: the lines of the file behind those written      *)
(* before it, hashed but for those of the set p; the rest comes behind.    *)
BlockAt(base, p) ==
  /\ base \in Nat /\ base + msa.size + Len(rest) = Len(text[file])
  /\ \A k \in 1..msa.size :
       /\ msa.arr[k].text = [line |-> text[file][base + k], hashed |-> IF k \in p THEN 0 ELSE 1]
       /\ msa.arr[k].capacity > 2 * DATA_MD5_SIZE
  /\ \A k \in 1..Len(rest) : rest[k] = text[file][base + msa.size + k]
  /\ eof => rest = << >>

LineTypes ==
  /\ phase \in {"pick", "read", "hash", "write", "failed", "done"}
  /\ todo \subseteq Files /\ file \in Files /\ rest \in Seq(Nat) /\ eof \in BOOLEAN
  /\ text \in [Files -> Seq(Nat)] /\ broken \in BOOLEAN
  /\ msa \in LineArrays
  /\ written \in [Threads -> Nat] /\ output \in [Files -> Seq(LineText)]

Between == phase \in {"pick", "failed", "done"}

(* A file is whole unless it is the one at hand on a broken disk, and that *)
(* one is never left.                                                      *)
Whole ==
  /\ \A f \in Files : ~broken \/ f # file => text[f] = Text[f]
  /\ broken => ~eof /\ ~Between

Digested(f) ==
  /\ Len(output[f]) <= Len(text[f])
  /\ \A k \in 1..Len(output[f]) : output[f][k] = [line |-> text[f][k], hashed |-> 1]

(* A file is not begun, or complete, or the one at hand. *)
Begun ==
  /\ \A f \in Files : Digested(f)
  /\ \A f \in todo : output[f] = << >>
  /\ \A f \in Files \ todo : Between \/ f # file => Len(output[f]) = Len(text[f])
  /\ ~Between => file \notin todo
  /\ phase = "done" => todo = {}

Reading ==
  phase = "read" =>
    /\ Len(output[file]) + Len(rest) = Len(text[file])
    /\ \A k \in 1..Len(rest) : rest[k] = text[file][Len(output[file]) + k]

Hashing == phase = "hash" => pending \subseteq 1..msa.size /\ BlockAt(Len(output[file]), pending)

Writing ==
  phase = "write" =>
    /\ \A t \in Threads : written[t] \in 0..msa.size
    /\ BlockAt(Len(output[file]) - written[0], {})

LinesInv == LineTypes /\ Whole /\ Begun /\ Reading /\ Hashing /\ Writing

LinesAssumed == SizeAssumption /\ TextAssumption

LEMMA LineFacts ==
  ASSUME LinesAssumed
  PROVE  /\ 0 \in Threads /\ Threads \subseteq Nat
         /\ \A f \in Files : Text[f] \in Seq(Nat) /\ Len(Text[f]) \in Nat
         /\ LineTypes => \A f \in Files : text[f] \in Seq(Nat) /\ Len(text[f]) \in Nat
<1>1. 0 \in Threads /\ Threads \subseteq Nat
  BY DEF LinesAssumed, SizeAssumption, Threads
<1>2. \A f \in Files : Text[f] \in Seq(Nat)
  BY DEF LinesAssumed, TextAssumption
<1>3. LineTypes => \A f \in Files : text[f] \in Seq(Nat) /\ Len(text[f]) \in Nat
  BY DEF LineTypes
<1> QED
  BY <1>1, <1>2, <1>3

(* What can be read of a broken file are lines, one cut off included.      *)
LEMMA ReadableLines ==
  ASSUME LinesAssumed, NEW f \in Files, NEW s \in Readable(f)
  PROVE  s \in Seq(Nat)
<1>1. Text[f] \in Seq(Nat) /\ Len(Text[f]) \in Nat
  BY LineFacts
<1>2. CASE \E n \in 0..Len(Text[f]) : s = SubSeq(Text[f], 1, n)
  BY <1>1, <1>2
<1>3. CASE \E n \in DOMAIN Text[f] : \E k \in Pieces(Text[f][n]) : s = Append(SubSeq(Text[f], 1, n - 1), k)
  <2>n. PICK n \in DOMAIN Text[f] : \E k \in Pieces(Text[f][n]) : s = Append(SubSeq(Text[f], 1, n - 1), k)
    BY <1>3
  <2>1. PICK k \in Pieces(Text[f][n]) : s = Append(SubSeq(Text[f], 1, n - 1), k)
    BY <2>n
  <2>2. k \in Nat
    BY <1>1, <2>1 DEF Pieces
  <2>3. SubSeq(Text[f], 1, n - 1) \in Seq(Nat)
    BY <1>1
  <2> QED
    BY <2>1, <2>2, <2>3
<1> DEFINE complete == IF f \in NoFinalEOL THEN Len(Text[f]) - 1 ELSE Len(Text[f])
<1>4. 0..complete \subseteq 0..Len(Text[f])
  BY <1>1
<1>5. \/ \E n \in 0..complete : s = SubSeq(Text[f], 1, n)
      \/ \E n \in DOMAIN Text[f] : \E k \in Pieces(Text[f][n]) : s = Append(SubSeq(Text[f], 1, n - 1), k)
  BY DEF Readable
<1> QED
  BY <1>2, <1>3, <1>4, <1>5

LEMMA LinesInit ==
  ASSUME LinesAssumed, Init
  PROVE  LinesInv
<1>1. msa \in LineArrays
  <2> DEFINE f == [k \in 1..4 |-> M!conMyString]
  <2>1. f \in [1..4 -> LineString]
    BY StringMade DEF LinesAssumed
  <2>2. msa = [arr |-> f, capacity |-> 4, size |-> 0]
    BY DEF Init, M!conMyStringArr
  <2> HIDE DEF f
  <2>3. 4 \in Nat /\ 4 >= 4 /\ 0 \in 0..(4 - 1)
    OBVIOUS
  <2> QED
    BY <2>1, <2>2, <2>3, ArrayMade
<1>2. /\ phase = "pick" /\ todo = Files /\ file \in Files /\ rest = << >> /\ eof = TRUE
      /\ text = Text /\ broken = FALSE
      /\ written = [t \in Threads |-> 0] /\ output = [f \in Files |-> << >>]
  BY DEF Init
<1>3. LineTypes
  <2>1. text \in [Files -> Seq(Nat)] /\ broken \in BOOLEAN
    BY <1>2 DEF LinesAssumed, TextAssumption
  <2>2. written \in [Threads -> Nat] /\ output \in [Files -> Seq(LineText)]
    BY <1>2
  <2> QED
    BY <1>1, <1>2, <2>1, <2>2 DEF LineTypes
<1>4. \A f \in Files : output[f] = << >>
  BY <1>2
<1>5. \A f \in Files : Digested(f)
  <2>1. Len(<< >>) = 0 /\ 1..0 = {}
    OBVIOUS
  <2> QED
    BY <1>3, <1>4, <2>1, LineFacts DEF Digested
<1> QED
  BY <1>2, <1>3, <1>4, <1>5 DEF LinesInv, Whole, Begun, Between, Reading, Hashing, Writing

LEMMA OpenFileKeeps ==
  ASSUME LinesAssumed, LinesInv, NEW f \in Files, OpenFile(f)
  PROVE  LinesInv'
<1>1. /\ phase = "pick" /\ f \in todo /\ todo' = todo \ {f} /\ file' = f /\ rest' = text'[f]
      /\ eof' = FALSE /\ phase' = "read" /\ UNCHANGED <<msa, pending, written, output>>
      /\ \/ broken' = FALSE /\ text' = text
         \/ broken' = TRUE /\ \E s \in Readable(f) : text' = [text EXCEPT ![f] = s]
  BY DEF OpenFile
<1>2. /\ text' \in [Files -> Seq(Nat)] /\ broken' \in BOOLEAN
      /\ \A g \in Files : g # f \/ ~broken' => text'[g] = text[g]
  <2>1. text \in [Files -> Seq(Nat)]
    BY DEF LinesInv, LineTypes
  <2>2. CASE broken' = FALSE /\ text' = text
    BY <2>1, <2>2
  <2>3. CASE broken' = TRUE /\ \E s \in Readable(f) : text' = [text EXCEPT ![f] = s]
    BY <2>1, <2>3, ReadableLines
  <2> QED
    BY <1>1, <2>2, <2>3
<1>3. \A g \in Files : text[g] = Text[g]
  BY <1>1 DEF LinesInv, Whole, Between
<1>4. text'[f] \in Seq(Nat) /\ Len(text'[f]) \in Nat
  BY <1>2
<1>5. LineTypes'
  BY <1>1, <1>2, <1>4 DEF LinesInv, LineTypes
<1>6. Whole'
  BY <1>1, <1>2, <1>3 DEF Whole, Between
<1>7. output[f] = << >> /\ Len(output[f]) = 0
  BY <1>1 DEF LinesInv, Begun
<1>8. Begun'
  <2>1. \A g \in Files \ todo : g # f /\ Len(output[g]) = Len(text[g])
    BY <1>1 DEF LinesInv, Begun, Between
  <2>2. ASSUME NEW g \in Files PROVE Digested(g)'
    <3>1. CASE g = f
      BY <1>1, <1>4, <1>7, <3>1 DEF Digested
    <3>2. CASE g # f
      <4>1. text'[g] = text[g]
        BY <1>2, <3>2
      <4> QED
        BY <1>1, <4>1 DEF LinesInv, Begun, Digested
    <3> QED
      BY <3>1, <3>2
  <2>3. \A g \in todo : output[g] = << >>
    BY DEF LinesInv, Begun
  <2> QED
    BY <1>1, <1>2, <2>1, <2>2, <2>3 DEF Begun, Between
<1>9. Reading'
  BY <1>1, <1>4, <1>7 DEF Reading
<1> QED
  BY <1>1, <1>5, <1>6, <1>8, <1>9 DEF LinesInv, Hashing, Writing

LEMMA StopKeeps ==
  ASSUME LinesAssumed, LinesInv, FailToOpen \/ Finish
  PROVE  LinesInv'
<1>1. /\ phase = "pick" /\ phase' \in {"failed", "done"} /\ (phase' = "done" => todo = {})
      /\ UNCHANGED <<todo, file, text, broken, rest, eof, msa, pending, written, output>>
  BY DEF FailToOpen, Finish
<1>2. LineTypes'
  BY <1>1 DEF LinesInv, LineTypes
<1>3. Begun'
  BY <1>1 DEF LinesInv, Begun, Between, Digested
<1>4. Whole'
  BY <1>1 DEF LinesInv, Whole, Between
<1> QED
  BY <1>1, <1>2, <1>3, <1>4 DEF LinesInv, Reading, Hashing, Writing

LEMMA ReadKeeps ==
  ASSUME LinesAssumed, LinesInv, single_read_block
  PROVE  LinesInv'
<1>1. PICK n \in 0..Len(rest) :
        /\ ReadsBlock(n)
        /\ msa' = WithRoom(Pushed(msa, SubSeq(rest, 1, n)))
        /\ rest' = SubSeq(rest, n + 1, Len(rest)) /\ eof' = HitsEOF(n)
        /\ pending' = 1..n
  BY DEF single_read_block
<1>2. phase = "read" /\ phase' = "hash" /\ UNCHANGED <<todo, file, text, broken, written, output>>
  BY DEF single_read_block
<1>3. /\ rest \in Seq(Nat) /\ Len(rest) \in Nat /\ n \in Nat /\ n <= Len(rest) /\ msa \in LineArrays
      /\ file \in Files /\ output[file] \in Seq(LineText) /\ Len(output[file]) \in Nat
  BY DEF LinesInv, LineTypes
<1> DEFINE s == SubSeq(rest, 0 + 1, 0 + n)
           a == Pushed(msa, s)
           base == Len(output[file])
           m == Len(rest) - n
           N == Len(text[file])
<1>4. s \in Seq(Nat) /\ Len(s) = n /\ \A k \in 1..n : s[k] = rest[k]
  <2>1. 0 \in Nat /\ 0 + n <= Len(rest)
    BY <1>3
  <2>2. s \in Seq(Nat) /\ Len(s) = n /\ \A k \in 1..n : s[k] = rest[0 + k]
    BY <1>3, <2>1, PartOf
  <2>3. \A k \in 1..n : 0 + k = k
    OBVIOUS
  <2> HIDE DEF s
  <2> QED
    BY <2>2, <2>3
<1>5. msa' = WithRoom(a)
  <2>1. s = SubSeq(rest, 1, n)
    BY <1>3
  <2> QED
    BY <1>1, <2>1
<1> HIDE DEF s
<1>6. HasLines(a, s, n)
  BY <1>3, <1>4, PushedIs DEF LinesAssumed
<1> HIDE DEF a
<1>7. /\ msa' \in LineArrays /\ msa'.size = n
      /\ \A k \in 1..n : msa'.arr[k].text = NewLine(rest[k]) /\ msa'.arr[k].capacity > 2 * DATA_MD5_SIZE
  <2>1. a \in LineArrays /\ a.size = n /\ \A k \in 1..n : a.arr[k].text = NewLine(s[k])
    BY <1>6 DEF HasLines
  <2>2. /\ WithRoom(a) \in LineArrays /\ WithRoom(a).size = a.size
        /\ \A k \in 1..a.size : /\ WithRoom(a).arr[k].text = a.arr[k].text
                                /\ WithRoom(a).arr[k].capacity > 2 * DATA_MD5_SIZE
    BY <2>1, WithRoomIs DEF LinesAssumed
  <2> QED
    BY <1>4, <1>5, <2>1, <2>2
<1>8. rest' \in Seq(Nat) /\ Len(rest') = m /\ m \in Nat /\ \A k \in 1..m : rest'[k] = rest[n + k]
  <2>1. m \in Nat /\ n + m = Len(rest)
    BY <1>3
  <2> HIDE DEF m
  <2>2. /\ SubSeq(rest, n + 1, n + m) \in Seq(Nat) /\ Len(SubSeq(rest, n + 1, n + m)) = m
        /\ \A k \in 1..m : SubSeq(rest, n + 1, n + m)[k] = rest[n + k]
    BY <1>3, <2>1, PartOf
  <2> QED
    BY <1>1, <2>1, <2>2
<1>9. HitsEOF(n) => n = Len(rest)
  BY <1>1 DEF HitsEOF, ReadsBlock
<1>10. HitsEOF(n) \in BOOLEAN
  BY DEF HitsEOF
<1>11. LineTypes'
  BY <1>1, <1>2, <1>7, <1>8, <1>10 DEF LinesInv, LineTypes
<1>12. base + Len(rest) = N /\ N \in Nat /\ \A k \in 1..Len(rest) : rest[k] = text[file][base + k]
  BY <1>2, <1>3, LineFacts DEF LinesInv, Reading
<1> HIDE DEF base, N, m
<1>13. BlockAt(base, 1..n)'
  <2>1. base + n + m = N /\ base \in Nat
    <3>1. base \in Nat
      BY <1>3 DEF base
    <3>2. n + m = Len(rest)
      BY <1>3 DEF m
    <3> QED
      BY <1>3, <1>8, <1>12, <3>1, <3>2
  <2>2. ASSUME NEW k \in 1..n
        PROVE  msa'.arr[k].text = [line |-> text[file][base + k], hashed |-> IF k \in 1..n THEN 0 ELSE 1]
    <3>1. k \in 1..Len(rest)
      BY <1>3
    <3> QED
      BY <1>7, <1>12, <3>1 DEF NewLine
  <2>3. ASSUME NEW k \in 1..m
        PROVE  rest'[k] = text[file][base + n + k]
    <3>1. n + k \in 1..Len(rest) /\ base + (n + k) = base + n + k
      <4>1. k \in Nat /\ k >= 1 /\ k <= m
        BY <1>8
      <4>2. n + m = Len(rest)
        BY <1>3 DEF m
      <4>3. n \in Nat /\ m \in Nat /\ Len(rest) \in Nat /\ base \in Nat
        BY <1>3, <1>8, <2>1
      <4> DEFINE l == Len(rest)
      <4>4. l \in Nat /\ n + m = l
        BY <4>2, <4>3
      <4> HIDE DEF m, l
      <4>5. n + k \in 1..l /\ base + (n + k) = base + n + k
        BY <4>1, <4>3, <4>4
      <4> QED
        BY <4>5 DEF l
    <3>2. rest'[k] = rest[n + k]
      BY <1>8
    <3>3. rest[n + k] = text[file][base + (n + k)]
      BY <1>12, <3>1
    <3> QED
      BY <3>1, <3>2, <3>3
  <2>4. eof' => rest' = << >>
    <3>1. eof' => m = 0
      BY <1>1, <1>3, <1>9 DEF m
    <3> QED
      BY <1>8, <3>1
  <2>5. base' = base /\ file' = file /\ text' = text
    BY <1>2 DEF base
  <2> QED
    BY <1>7, <1>8, <2>1, <2>2, <2>3, <2>4, <2>5 DEF BlockAt, N
<1>14. Hashing'
  BY <1>1, <1>2, <1>7, <1>13 DEF Hashing, base
<1>15. Begun'
  BY <1>2 DEF LinesInv, Begun, Between, Digested
<1>16. Whole'
  BY <1>1, <1>2 DEF LinesInv, Whole, Between, HitsEOF
<1> QED
  BY <1>2, <1>11, <1>14, <1>15, <1>16 DEF LinesInv, Reading, Writing

LEMMA HashKeeps ==
  ASSUME LinesAssumed, LinesInv, NEW i \in pending, md5_one_line(i)
  PROVE  LinesInv'
<1>1. /\ phase = "hash" /\ msa' = [msa EXCEPT !.arr[i].text.hashed = @ + 1]
      /\ pending' = pending \ {i}
      /\ UNCHANGED <<phase, todo, file, text, broken, rest, eof, written, output>>
  BY DEF md5_one_line
<1>2. /\ msa \in LineArrays /\ pending \subseteq 1..msa.size
      /\ file \in Files /\ output[file] \in Seq(LineText)
      /\ BlockAt(Len(output[file]), pending)
  BY <1>1 DEF LinesInv, LineTypes, Hashing
<1> DEFINE x == [msa.arr[i] EXCEPT !.text.hashed = @ + 1]
           f == [msa.arr EXCEPT ![i] = x]
           base == Len(output[file])
<1>3. /\ msa.capacity \in Nat /\ msa.capacity >= 4 /\ msa.size \in 0..(msa.capacity - 1)
      /\ msa.arr \in [1..msa.capacity -> LineString]
      /\ msa = [arr |-> msa.arr, capacity |-> msa.capacity, size |-> msa.size]
  BY <1>2, ArrayShape
<1>4. i \in 1..msa.size /\ i \in 1..msa.capacity
  BY <1>2, <1>3
<1>5. msa.arr[i] \in LineString
  BY <1>3, <1>4
<1>6. /\ x \in LineString /\ x.capacity = msa.arr[i].capacity
      /\ x.text = [line |-> msa.arr[i].text.line, hashed |-> msa.arr[i].text.hashed + 1]
  BY <1>5 DEF LineString, LineText
<1>7. msa' = [arr |-> f, capacity |-> msa.capacity, size |-> msa.size]
  <2>1. msa' = [msa EXCEPT !.arr = [msa.arr EXCEPT ![i] = [msa.arr[i] EXCEPT !.text.hashed = @ + 1]]]
    BY <1>1
  <2>2. msa' = [msa EXCEPT !.arr = f]
    BY <2>1
  <2> HIDE DEF f
  <2> QED
    BY <1>3, <2>2
<1> HIDE DEF x
<1>8. /\ f \in [1..msa.capacity -> LineString] /\ f[i] = x
      /\ \A k \in 1..msa.capacity : k # i => f[k] = msa.arr[k]
  BY <1>3, <1>4, <1>6
<1> HIDE DEF f
<1>9. msa' \in LineArrays /\ msa'.size = msa.size /\ msa'.arr = f
  <2>1. [arr |-> f, capacity |-> msa.capacity, size |-> msa.size] \in LineArrays
    BY <1>3, <1>8, ArrayMade
  <2> QED
    BY <1>7, <2>1
<1>10. LineTypes'
  BY <1>1, <1>9 DEF LinesInv, LineTypes
<1>11. /\ base \in Nat /\ base + msa.size + Len(rest) = Len(text[file])
       /\ \A k \in 1..msa.size :
            /\ msa.arr[k].text = [line |-> text[file][base + k], hashed |-> IF k \in pending THEN 0 ELSE 1]
            /\ msa.arr[k].capacity > 2 * DATA_MD5_SIZE
       /\ \A k \in 1..Len(rest) : rest[k] = text[file][base + msa.size + k]
       /\ eof => rest = << >>
  BY <1>2 DEF BlockAt
<1> HIDE DEF base
<1>12. ASSUME NEW k \in 1..msa.size
       PROVE  /\ f[k].text = [line |-> text[file][base + k], hashed |-> IF k \in pending \ {i} THEN 0 ELSE 1]
              /\ f[k].capacity > 2 * DATA_MD5_SIZE
  <2>1. CASE k = i
    <3>1. msa.arr[i].text = [line |-> text[file][base + i], hashed |-> 0]
      BY <1>4, <1>11
    <3>2. msa.arr[i].text.line = text[file][base + i] /\ msa.arr[i].text.hashed + 1 = 1
      BY <3>1
    <3>3. f[k].text = [line |-> text[file][base + k], hashed |-> 1]
      BY <1>6, <1>8, <2>1, <3>2
    <3>4. f[k].capacity > 2 * DATA_MD5_SIZE
      BY <1>4, <1>6, <1>8, <1>11, <2>1
    <3> QED
      BY <2>1, <3>3, <3>4
  <2>2. CASE k # i
    <3>1. f[k] = msa.arr[k]
      BY <1>3, <1>8, <2>2
    <3> QED
      BY <1>11, <2>2, <3>1
  <2> QED
    BY <2>1, <2>2
<1>13. base' = base /\ BlockAt(base, pending)'
  <2>1. base' = base
    BY <1>1 DEF base
  <2> QED
    BY <1>1, <1>9, <1>11, <1>12, <2>1 DEF BlockAt
<1>14. Hashing'
  <2>1. pending' \subseteq 1..msa'.size
    BY <1>1, <1>2, <1>9
  <2> QED
    BY <1>13, <2>1 DEF Hashing, base
<1>15. Begun'
  BY <1>1 DEF LinesInv, Begun, Between, Digested
<1>16. Whole'
  BY <1>1 DEF LinesInv, Whole, Between
<1> QED
  BY <1>1, <1>10, <1>14, <1>15, <1>16 DEF LinesInv, Reading, Writing

LEMMA BeginWriteKeeps ==
  ASSUME LinesAssumed, LinesInv, BeginWrite
  PROVE  LinesInv'
<1>1. /\ phase = "hash" /\ pending = {} /\ phase' = "write" /\ written' = [t \in Threads |-> 0]
      /\ UNCHANGED <<todo, file, text, broken, rest, eof, msa, pending, output>>
  BY DEF BeginWrite, MayWrite
<1>2. LineTypes'
  BY <1>1 DEF LinesInv, LineTypes
<1>3. Begun'
  BY <1>1 DEF LinesInv, Begun, Between, Digested
<1>4. Writing'
  <2>1. msa.size \in Nat /\ Len(output[file]) \in Nat
    BY ArrayShape DEF LinesInv, LineTypes
  <2>2. (\A t \in Threads : written[t] \in 0..msa.size)'
    BY <1>1, <2>1
  <2>3. (Len(output[file]) - written[0])' = Len(output[file])
    BY <1>1, <2>1, LineFacts
  <2>4. BlockAt(Len(output[file]), {})
    BY <1>1 DEF LinesInv, Hashing
  <2>5. BlockAt(Len(output[file]) - written[0], {})'
    BY <1>1, <2>3, <2>4 DEF BlockAt
  <2> QED
    BY <2>2, <2>5 DEF Writing
<1>5. Whole'
  BY <1>1 DEF LinesInv, Whole, Between
<1> QED
  BY <1>1, <1>2, <1>3, <1>4, <1>5 DEF LinesInv, Reading, Hashing

LEMMA WriteKeeps ==
  ASSUME LinesAssumed, LinesInv, NEW t \in Threads, single_write_block(t)
  PROVE  LinesInv'
<1> DEFINE old == output[file]
           w == written[0]
           k == w + 1
           base == Len(old) - w
<1>1. /\ phase = "write" /\ written[t] < msa.size /\ written' = [written EXCEPT ![t] = @ + 1]
      /\ UNCHANGED <<phase, todo, file, text, broken, rest, eof, msa, pending>>
      /\ output' = IF t = 0 THEN [output EXCEPT ![file] = Append(@, msa.arr[written[t] + 1].text)]
                   ELSE output
  BY DEF single_write_block, MoreToWrite, Prints
<1>2. /\ msa \in LineArrays /\ msa.size \in Nat /\ file \in Files
      /\ written \in [Threads -> Nat] /\ output \in [Files -> Seq(LineText)]
      /\ old \in Seq(LineText) /\ Len(old) \in Nat
      /\ \A u \in Threads : written[u] \in 0..msa.size
      /\ BlockAt(base, {}) /\ Digested(file) /\ file \notin todo
  BY <1>1, ArrayShape, SMTT(30) DEF LinesInv, LineTypes, Begun, Between, Writing
<1>3. /\ base \in Nat /\ base + msa.size + Len(rest) = Len(text[file])
      /\ \A j \in 1..msa.size : msa.arr[j].text = [line |-> text[file][base + j], hashed |-> 1]
  BY <1>2 DEF BlockAt
<1>4. /\ written' \in [Threads -> Nat]
      /\ \A u \in Threads : written'[u] \in 0..msa.size
  <2>1. written[t] \in Nat /\ written[t] + 1 \in 0..msa.size
    BY <1>1, <1>2
  <2> QED
    BY <1>1, <1>2, <2>1
<1>w. Whole'
  BY <1>1 DEF LinesInv, Whole, Between
<1>5. CASE t # 0
  <2>1. output' = output /\ written'[0] = written[0]
    BY <1>1, <1>2, <1>5, LineFacts
  <2>2. LineTypes'
    BY <1>1, <1>4, <2>1 DEF LinesInv, LineTypes
  <2>3. Begun'
    BY <1>1, <2>1 DEF LinesInv, Begun, Between, Digested
  <2>4. Writing'
    <3>1. BlockAt(Len(output[file]) - written[0], {})'
      BY <1>1, <1>2, <2>1 DEF BlockAt
    <3> QED
      BY <1>1, <1>4, <3>1 DEF Writing
  <2> QED
    BY <1>1, <1>w, <2>2, <2>3, <2>4 DEF LinesInv, Reading, Hashing
<1>6. CASE t = 0
  <2> DEFINE d == msa.arr[k].text
             new == Append(old, d)
  <2>1. w \in Nat /\ k \in 1..msa.size /\ Len(old) + 1 = base + k /\ w = written[t]
    BY <1>1, <1>2, <1>6
  <2>2. d = [line |-> text[file][Len(old) + 1], hashed |-> 1]
    <3> HIDE DEF k, old, base
    <3> QED
      BY <1>3, <2>1
  <2>3. /\ output' = [output EXCEPT ![file] = new] /\ written'[0] = k
    BY <1>1, <1>2, <1>6, <2>1
  <2>4. d \in LineText
    <3>1. msa.capacity \in Nat /\ msa.size \in 0..(msa.capacity - 1) /\ msa.arr \in [1..msa.capacity -> LineString]
      BY <1>2, ArrayShape
    <3>2. k \in 1..msa.capacity
      <4> HIDE DEF k
      <4> QED
        BY <2>1, <3>1
    <3>3. msa.arr[k] \in LineString
      BY <3>1, <3>2
    <3> QED
      BY <3>3 DEF LineString
  <2> HIDE DEF d
  <2>5. /\ new \in Seq(LineText) /\ Len(new) = Len(old) + 1 /\ new[Len(old) + 1] = d
        /\ \A j \in 1..Len(old) : new[j] = old[j]
    <3> HIDE DEF old
    <3> QED
      BY <1>2, <2>4
  <2> HIDE DEF new, old
  <2>6. output'[file] = new /\ \A g \in Files : g # file => output'[g] = output[g]
    BY <1>2, <2>3
  <2>7. output' \in [Files -> Seq(LineText)]
    BY <1>2, <2>3, <2>5
  <2>8. Digested(file)'
    <3>1. Len(new) <= Len(text[file])
      <4>1. Len(text[file]) \in Nat /\ Len(rest) \in Nat
        BY <1>2, LineFacts DEF LinesInv, LineTypes
      <4>2. k <= msa.size /\ k \in Nat
        BY <1>2, <2>1
      <4> HIDE DEF k, base
      <4> QED
        BY <1>2, <1>3, <2>1, <2>5, <4>1, <4>2, SMTT(30)
    <3>2. ASSUME NEW j \in 1..Len(new)
          PROVE  new[j] = [line |-> text[file][j], hashed |-> 1]
      <4>1. CASE j = Len(old) + 1
        BY <2>2, <2>5, <4>1
      <4>2. CASE j # Len(old) + 1
        <5>1. j \in 1..Len(old)
          BY <1>2, <2>5, <4>2
        <5>2. old[j] = [line |-> text[file][j], hashed |-> 1]
          BY <1>2, <5>1 DEF Digested, old
        <5> QED
          BY <2>5, <5>1, <5>2
      <4> QED
        BY <4>1, <4>2
    <3> QED
      BY <1>1, <2>6, <3>1, <3>2 DEF Digested
  <2>9. Begun'
    <3>1. ASSUME NEW g \in Files PROVE Digested(g)'
      <4>1. CASE g = file
        BY <1>1, <2>8, <4>1 DEF Digested
      <4>2. CASE g # file
        <5>1. output'[g] = output[g]
          BY <2>6, <4>2
        <5> QED
          BY <1>1, <5>1 DEF LinesInv, Begun, Digested
      <4> QED
        BY <4>1, <4>2
    <3>2. \A g \in todo : g \in Files /\ g # file
      BY <1>2 DEF LinesInv, LineTypes
    <3>3. \A g \in todo : output'[g] = << >>
      BY <2>6, <3>2 DEF LinesInv, Begun
    <3>4. ASSUME NEW g \in Files \ todo, Between \/ g # file PROVE Len(output'[g]) = Len(text[g])
      <4>1. g # file
        BY <1>1, <3>4 DEF Between
      <4>2. output'[g] = output[g]
        BY <2>6, <4>1
      <4>3. Len(output[g]) = Len(text[g])
        BY <3>4 DEF LinesInv, Begun
      <4> QED
        BY <4>2, <4>3
    <3> QED
      BY <1>1, <1>2, <3>1, <3>3, <3>4 DEF Begun, Between
  <2>10. Writing'
    <3>1. Len(output'[file']) - written'[0] = base
      <4>1. output'[file'] = new /\ written'[0] = k
        BY <1>1, <2>3, <2>6
      <4>2. Len(new) = Len(old) + 1 /\ Len(old) \in Nat /\ w \in Nat
        BY <1>2, <2>1, <2>5
      <4>3. Len(new) - k = base
        <5>1. k = w + 1 /\ base = Len(old) - w
          OBVIOUS
        <5> HIDE DEF k, base, w
        <5> QED
          BY <4>2, <5>1
      <4> QED
        BY <4>1, <4>3
    <3>2. BlockAt(Len(output[file]) - written[0], {})'
      <4>1. BlockAt(base, {})
        BY <1>2
      <4> HIDE DEF base
      <4>2. /\ base \in Nat /\ base + msa.size + Len(rest) = Len(text[file])
            /\ \A j \in 1..msa.size :
                 /\ msa.arr[j].text = [line |-> text[file][base + j], hashed |-> IF j \in {} THEN 0 ELSE 1]
                 /\ msa.arr[j].capacity > 2 * DATA_MD5_SIZE
            /\ \A j \in 1..Len(rest) : rest[j] = text[file][base + msa.size + j]
            /\ eof => rest = << >>
        BY <4>1 DEF BlockAt
      <4>3. UNCHANGED <<file, text, rest, eof, msa>>
        BY <1>1
      <4> QED
        BY <3>1, <4>2, <4>3 DEF BlockAt
    <3> QED
      BY <1>1, <1>4, <3>2 DEF Writing
  <2>11. LineTypes'
    BY <1>1, <1>4, <2>7 DEF LinesInv, LineTypes
  <2> QED
    BY <1>1, <1>w, <2>9, <2>10, <2>11 DEF LinesInv, Reading, Hashing
<1> QED
  BY <1>5, <1>6

LEMMA EndWriteKeeps ==
  ASSUME LinesAssumed, LinesInv, EndWrite
  PROVE  LinesInv'
<1>1. /\ phase = "write" /\ \A t \in Threads : ~(written[t] < msa.size)
      /\ phase' = IF eof THEN "pick" ELSE "read"
      /\ UNCHANGED <<todo, file, text, broken, rest, eof, msa, pending, written, output>>
  BY DEF EndWrite, MoreToWrite
<1> DEFINE n == Len(output[file])
           base == n - written[0]
<1>2. /\ msa.size \in Nat /\ rest \in Seq(Nat) /\ Len(rest) \in Nat /\ n \in Nat /\ file \in Files
      /\ BlockAt(base, {}) /\ written[0] \in 0..msa.size
  BY <1>1, ArrayShape, LineFacts DEF LinesInv, LineTypes, Writing
<1>3. written[0] = msa.size
  BY <1>1, <1>2, LineFacts
<1>4. /\ base + msa.size + Len(rest) = Len(text[file])
      /\ \A k \in 1..Len(rest) : rest[k] = text[file][base + msa.size + k]
      /\ eof => rest = << >>
  BY <1>2 DEF BlockAt
<1>5. base + msa.size = n
  BY <1>2, <1>3
<1> HIDE DEF base
<1>6. n + Len(rest) = Len(text[file]) /\ \A k \in 1..Len(rest) : rest[k] = text[file][n + k]
  BY <1>4, <1>5
<1>7. eof => n = Len(text[file])
  <2>1. eof => Len(rest) = 0
    BY <1>4
  <2> QED
    BY <1>2, <1>6, <2>1
<1>8. LineTypes'
  BY <1>1 DEF LinesInv, LineTypes
<1>9. Reading'
  BY <1>1, <1>6 DEF Reading
<1>10. Begun'
  <2>1. (\A g \in Files : Digested(g))'
    BY <1>1 DEF LinesInv, Begun, Digested
  <2>2. \A g \in Files \ todo : g # file => Len(output[g]) = Len(text[g])
    BY DEF LinesInv, Begun
  <2>3. file \notin todo /\ \A g \in todo : output[g] = << >>
    BY <1>1 DEF LinesInv, Begun, Between
  <2>4. (\A g \in Files \ todo : Between \/ g # file => Len(output[g]) = Len(text[g]))'
    BY <1>1, <1>7, <2>2 DEF Between
  <2> QED
    BY <1>1, <2>1, <2>3, <2>4 DEF Begun, Between
<1>11. Whole'
  BY <1>1 DEF LinesInv, Whole, Between
<1> QED
  BY <1>1, <1>8, <1>9, <1>10, <1>11 DEF LinesInv, Hashing, Writing

LEMMA LinesStep ==
  ASSUME LinesAssumed, LinesInv, [Next]_vars
  PROVE  LinesInv'
<1>1. CASE \E f \in Files : OpenFile(f)
  BY <1>1, OpenFileKeeps
<1>2. CASE FailToOpen \/ Finish
  BY <1>2, StopKeeps
<1>3. CASE single_read_block
  BY <1>3, ReadKeeps
<1>4. CASE \E i \in pending : md5_one_line(i)
  BY <1>4, HashKeeps
<1>5. CASE BeginWrite
  BY <1>5, BeginWriteKeeps
<1>6. CASE \E t \in Threads : single_write_block(t)
  BY <1>6, WriteKeeps
<1>7. CASE EndWrite
  BY <1>7, EndWriteKeeps
<1>8. CASE UNCHANGED vars
  <2>1. UNCHANGED <<phase, todo, file, text, broken, rest, eof, msa, pending, written, output>>
    BY <1>8 DEF vars
  <2> QED
    BY <2>1 DEF LinesInv, LineTypes, Whole, Begun, Between, Digested, Reading, Hashing, Writing, BlockAt
<1> QED
  BY <1>1, <1>2, <1>3, <1>4, <1>5, <1>6, <1>7, <1>8 DEF Next, main, do_one_file

LEMMA LinesImply ==
  ASSUME LinesAssumed, LinesInv
  PROVE  RoomForDigests /\ DigestsInOrder
<1>1. /\ msa.capacity \in Nat /\ msa.size \in 0..(msa.capacity - 1)
      /\ msa.arr \in [1..msa.capacity -> LineString]
  BY ArrayShape DEF LinesInv, LineTypes
<1>2. phase \in {"hash", "write"} => \A i \in 1..msa.size : msa.arr[i].capacity > 2 * DATA_MD5_SIZE
  BY DEF LinesInv, Hashing, Writing, BlockAt
<1>3. RoomForDigests
  BY <1>1, <1>2 DEF RoomForDigests
<1>4. \A f \in Files : DOMAIN output[f] = 1..Len(output[f])
  BY DEF LinesInv, LineTypes
<1>5. \A f \in Files : Digested(f) /\ (phase = "done" => Len(output[f]) = Len(text[f]) /\ text[f] = Text[f])
  BY DEF LinesInv, Whole, Begun, Between
<1>6. DigestsInOrder
  BY <1>4, <1>5 DEF DigestsInOrder, Digested
<1> QED
  BY <1>3, <1>6

LEMMA LinesInvariant ==
  ASSUME LinesAssumed
  PROVE  Spec => []LinesInv
<1>1. Init => LinesInv
  BY LinesInit
<1>2. LinesInv /\ [Next]_vars => LinesInv'
  BY LinesStep
<1> QED
  BY <1>1, <1>2, PTL DEF Spec

(* Strings have room for their digests whenever a thread writes one over   *)
(* a line or one is printed (single_read_block, md5_one_line and           *)
(* single_write_block of main.c), however many threads and strings there   *)
(* are and however long lines and digests.                                 *)
THEOREM RoomForDigestsHolds ==
  ASSUME SizeAssumption, TextAssumption
  PROVE  Spec => []RoomForDigests
<1>1. LinesAssumed
  BY DEF LinesAssumed
<1>2. LinesInv => RoomForDigests
  BY <1>1, LinesImply
<1> QED
  BY <1>1, <1>2, LinesInvariant, PTL

(* The output of main.c is the digests of the lines of each file, once     *)
(* each and in order, for any files, block sizes and number of threads.    *)
THEOREM DigestsInOrderHolds ==
  ASSUME SizeAssumption, TextAssumption
  PROVE  Spec => []DigestsInOrder
<1>1. LinesAssumed
  BY DEF LinesAssumed
<1>2. LinesInv => DigestsInOrder
  BY <1>1, LinesImply
<1> QED
  BY <1>1, <1>2, LinesInvariant, PTL
=============================================================================
