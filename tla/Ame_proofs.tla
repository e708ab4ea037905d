------------------------------ MODULE Ame_proofs ------------------------------
(***************************************************************************)
(* The CPU never races with the AME, and the verdict is the AME's and the  *)
(* pool's: for every pool, every scale of the allocator's tests, every     *)
(* number of tests and every value of a tile, whatever the order in which  *)
(* the AME executes what it was given.                                     *)
(*                                                                         *)
(* The first part is about the list of calls of mem_test.c alone, for      *)
(* every number of blocks and every size: the sizes and pointers are those *)
(* listed; a test gives a pointer a block once, and frees it once, later;  *)
(* and it looks at every pointer it has asked a block for, and at no       *)
(* other.                                                                  *)
(*                                                                         *)
(* The last part is about test_ame_kernels.c: for every shape and every    *)
(* tile that fits in the pools the product is the matrices', and what the  *)
(* AME gets wrong is counted once, against its tile.                       *)
(***************************************************************************)
EXTENDS AmeGemm, AmeKernels, DataFacts

WellFormed(call) ==
  /\ call.op = "malloc" => call.ptr \in Slots /\ call.size \in TestSizes
  /\ call.op = "free" => call.ptr \in Slots

(* Calls for the same pointer, other than my_malloc and then my_free. *)
Clash(c, d) ==
  /\ c.op \in {"malloc", "free"} /\ d.op \in {"malloc", "free"}
  /\ c.ptr = d.ptr
  /\ c.op = "free" \/ d.op = "malloc"

(* Some calls of a test: they ask for blocks for pointers of A, and free   *)
(* just those of F.                                                        *)
Calls(s, A, F) ==
  /\ IsSequence(s)
  /\ \A k \in 1..Len(s) : WellFormed(s[k])
  /\ \A k \in 1..Len(s) : s[k].op = "malloc" => s[k].ptr \in A
  /\ \A k \in 1..Len(s) : s[k].op = "free" => s[k].ptr \in F
  /\ \A p \in F : \E k \in 1..Len(s) : s[k].op = "free" /\ s[k].ptr = p
  /\ \A j, k \in 1..Len(s) : j < k => ~Clash(s[j], s[k])

(* They are part of a test, or a test from its beginning. *)
Part(s, A, F) ==
  Calls(s, A, F) /\ \A k \in 1..Len(s) : s[k].op # "enter"

Begun(s, A, F) ==
  /\ Calls(s, A, F)
  /\ Len(s) >= 1 /\ \A k \in 1..Len(s) : s[k].op = "enter" <=> k = 1

(* A whole test frees all it asked for. *)
Test(s) == \E F : \E A \in SUBSET F : Begun(s, A, F)

(* A block that call k asked for is freed before the next test. *)
Answered(s, k) ==
  \E j \in (k + 1)..Len(s) :
    /\ s[j].op = "free" /\ s[j].ptr = s[k].ptr
    /\ \A m \in (k + 1)..(j - 1) : s[m].op # "enter"

(* Between two calls that clash a test is entered. *)
Script(s) ==
  /\ IsSequence(s)
  /\ \A k \in 1..Len(s) : WellFormed(s[k])
  /\ \A j, k \in 1..Len(s) :
       j < k /\ Clash(s[j], s[k]) => \E m \in (j + 1)..(k - 1) : s[m].op = "enter"
  /\ \A k \in 1..Len(s) : s[k].op = "malloc" => Answered(s, k)

LEMMA CallsJoin ==
  ASSUME NEW s, NEW t, NEW A, NEW B, NEW F, NEW G, Calls(s, A, F), Calls(t, B, G),
         A \cap B = {}, F \cap G = {}, F \cap B = {}
  PROVE  Calls(s \o t, A \cup B, F \cup G)
<1> DEFINE u == s \o t
           Old(k) == k \in 1..Len(s)
           from(k) == k - Len(s)
<1>1. /\ IsSequence(u) /\ Len(s) \in Nat /\ Len(t) \in Nat
      /\ Len(u) = Len(s) + Len(t)
      /\ \A k \in 1..Len(s) : u[k] = s[k]
      /\ \A k \in 1..Len(u) :
           k > Len(s) => from(k) \in 1..Len(t) /\ u[k] = t[from(k)]
  BY Concatenation DEF Calls
<1>2. \A k \in 1..Len(u) : ~Old(k) => from(k) \in 1..Len(t) /\ u[k] = t[from(k)]
  BY <1>1
<1>3. \A k \in 1..Len(u) : Old(k) => u[k] = s[k]
  BY <1>1
<1>4. \A j, k \in 1..Len(u) : j < k => (Old(k) => Old(j)) /\ from(j) < from(k)
  BY <1>1
<1>5. /\ \A k \in 1..Len(s) : k \in 1..Len(u) /\ u[k] = s[k]
      /\ \A k \in 1..Len(t) : \E l \in 1..Len(u) : u[l] = t[k]
  <2>1. \A k \in 1..Len(s) : k \in 1..Len(u) /\ u[k] = s[k]
    BY <1>1
  <2>2. ASSUME NEW k \in 1..Len(t) PROVE \E l \in 1..Len(u) : u[l] = t[k]
    <3>1. k + Len(s) \in 1..Len(u) /\ ~Old(k + Len(s)) /\ from(k + Len(s)) = k
      BY <1>1
    <3> QED
      BY <1>2, <3>1
  <2> QED
    BY <2>1, <2>2
<1> HIDE DEF u, Old, from
<1>6. ASSUME NEW k \in 1..Len(u)
      PROVE  /\ WellFormed(u[k])
             /\ u[k].op = "malloc" => u[k].ptr \in A \cup B
             /\ u[k].op = "free" => u[k].ptr \in F \cup G
  <2>1. CASE Old(k)
    BY <1>3, <2>1 DEF Calls, Old
  <2>2. CASE ~Old(k)
    BY <1>2, <2>2 DEF Calls
  <2> QED
    BY <2>1, <2>2
<1>7. ASSUME NEW p \in F \cup G
      PROVE  \E k \in 1..Len(u) : u[k].op = "free" /\ u[k].ptr = p
  <2>1. CASE p \in F
    BY <1>5, <2>1 DEF Calls
  <2>2. CASE p \in G
    <3>1. PICK k \in 1..Len(t) : t[k].op = "free" /\ t[k].ptr = p
      BY <2>2 DEF Calls
    <3> QED
      BY <1>5, <3>1
  <2> QED
    BY <2>1, <2>2
<1>8. ASSUME NEW j \in 1..Len(u), NEW k \in 1..Len(u), j < k PROVE ~Clash(u[j], u[k])
  <2>1. CASE Old(k)
    BY <1>3, <1>4, <1>8, <2>1 DEF Calls, Old
  <2>2. CASE Old(j) /\ ~Old(k)
    <3>1. /\ u[j].op = "malloc" => u[j].ptr \in A
          /\ u[j].op = "free" => u[j].ptr \in F
          /\ u[k].op = "malloc" => u[k].ptr \in B
          /\ u[k].op = "free" => u[k].ptr \in G
      BY <1>2, <1>3, <2>2 DEF Calls, Old
    <3> QED
      BY <3>1 DEF Clash
  <2>3. CASE ~Old(j) /\ ~Old(k)
    <3>1. /\ from(j) \in 1..Len(t) /\ u[j] = t[from(j)]
          /\ from(k) \in 1..Len(t) /\ u[k] = t[from(k)]
          /\ from(j) < from(k)
      BY <1>2, <1>4, <1>8, <2>3
    <3> QED
      BY <3>1 DEF Calls
  <2> QED
    BY <1>4, <1>8, <2>1, <2>2, <2>3
<1> QED
  BY <1>1, <1>6, <1>7, <1>8 DEF Calls, u

LEMMA PartsJoin ==
  ASSUME NEW s, NEW t, NEW A, NEW B, NEW F, NEW G, Part(s, A, F), Part(t, B, G),
         A \cap B = {}, F \cap G = {}, F \cap B = {}
  PROVE  Part(s \o t, A \cup B, F \cup G)
<1>1. Calls(s \o t, A \cup B, F \cup G)
  BY CallsJoin DEF Part
<1>2. /\ Len(s) \in Nat /\ Len(t) \in Nat /\ Len(s \o t) = Len(s) + Len(t)
      /\ \A k \in 1..Len(s) : (s \o t)[k] = s[k]
      /\ \A k \in 1..Len(s \o t) :
           k > Len(s) => k - Len(s) \in 1..Len(t) /\ (s \o t)[k] = t[k - Len(s)]
  BY Concatenation DEF Part, Calls
<1>3. \A k \in 1..Len(s \o t) : k \in 1..Len(s) \/ k > Len(s)
  BY <1>2
<1> QED
  BY <1>1, <1>2, <1>3 DEF Part

(* A test followed by more of it begins as it did. *)
LEMMA TestGrows ==
  ASSUME NEW s, NEW t, NEW A, NEW B, NEW F, NEW G, Begun(s, A, F), Part(t, B, G),
         A \cap B = {}, F \cap G = {}, F \cap B = {}
  PROVE  Begun(s \o t, A \cup B, F \cup G)
<1> DEFINE u == s \o t
<1>1. Calls(u, A \cup B, F \cup G)
  BY CallsJoin DEF Begun, Part
<1>2. /\ Len(s) \in Nat /\ Len(t) \in Nat /\ Len(u) = Len(s) + Len(t)
      /\ \A k \in 1..Len(s) : u[k] = s[k]
      /\ \A k \in 1..Len(u) :
           k > Len(s) => k - Len(s) \in 1..Len(t) /\ u[k] = t[k - Len(s)]
  BY Concatenation DEF Begun, Part, Calls
<1>3. /\ Len(u) >= 1
      /\ \A k \in 1..Len(u) : k \in 1..Len(s) \/ (k > Len(s) /\ k # 1)
  BY <1>2 DEF Begun
<1> HIDE DEF u
<1>4. ASSUME NEW k \in 1..Len(u) PROVE u[k].op = "enter" <=> k = 1
  <2>1. CASE k \in 1..Len(s)
    BY <1>2, <2>1 DEF Begun
  <2>2. CASE k > Len(s) /\ k # 1
    BY <1>2, <2>2 DEF Part
  <2> QED
    BY <1>3, <2>1, <2>2
<1> QED
  BY <1>1, <1>3, <1>4 DEF Begun, u

(* What a whole test asks for it frees. *)
LEMMA TestAnswers ==
  ASSUME NEW t, Test(t), NEW k \in 1..Len(t), t[k].op = "malloc"
  PROVE  Answered(t, k)
<1>1. PICK F : \E A \in SUBSET F : Begun(t, A, F)
  BY DEF Test
<1>2. PICK A \in SUBSET F : Begun(t, A, F)
  BY <1>1
<1>3. t[k].ptr \in F /\ Len(t) \in Nat
  BY <1>2 DEF Begun, Calls, IsSequence
<1>4. PICK j \in 1..Len(t) : t[j].op = "free" /\ t[j].ptr = t[k].ptr
  BY <1>2, <1>3 DEF Begun, Calls
<1>5. ~(j < k) /\ j # k
  BY <1>2, <1>4 DEF Begun, Calls, Clash
<1>6. j \in (k + 1)..Len(t) /\ \A m \in (k + 1)..(j - 1) : m \in 1..Len(t) /\ m # 1
  BY <1>3, <1>5
<1> QED
  BY <1>2, <1>4, <1>6 DEF Begun, Answered

LEMMA FirstTest ==
  ASSUME NEW s, Test(s)
  PROVE  Script(s)
BY TestAnswers DEF Test, Begun, Calls, Script

LEMMA TestsJoin ==
  ASSUME NEW s, NEW t, Script(s), Test(t)
  PROVE  Script(s \o t)
<1> DEFINE u == s \o t
           Old(k) == k \in 1..Len(s)
           from(k) == k - Len(s)
           first == Len(s) + 1
<1>0. PICK A, F : Begun(t, A, F)
  BY DEF Test
<1>1. /\ IsSequence(u) /\ Len(s) \in Nat /\ Len(t) \in Nat /\ Len(u) = Len(s) + Len(t)
      /\ \A k \in 1..Len(s) : u[k] = s[k]
      /\ \A k \in 1..Len(u) :
           k > Len(s) => from(k) \in 1..Len(t) /\ u[k] = t[from(k)]
  BY <1>0, Concatenation DEF Begun, Calls, Script
<1>2. \A k \in 1..Len(u) : ~Old(k) => from(k) \in 1..Len(t) /\ u[k] = t[from(k)]
  BY <1>1
<1>3. \A k \in 1..Len(u) : Old(k) => u[k] = s[k]
  BY <1>1
<1>4. \A j, k \in 1..Len(u) : j < k => (Old(k) => Old(j)) /\ from(j) < from(k)
  BY <1>1
<1>5. first \in 1..Len(u) /\ u[first].op = "enter"
  <2>1. first \in 1..Len(u) /\ from(first) = 1 /\ first > Len(s) /\ 1 \in 1..Len(t)
    BY <1>0, <1>1 DEF Begun
  <2> QED
    BY <1>0, <1>1, <2>1 DEF Begun
<1>6. \A j, k \in 1..Len(u) :
        /\ Old(j) /\ ~Old(k) /\ k # first => first \in (j + 1)..(k - 1)
        /\ Old(k) => (j + 1)..(k - 1) \subseteq 1..Len(s)
  BY <1>1
<1>7. \A l \in 1..Len(t) : /\ l + Len(s) \in 1..Len(u) /\ ~Old(l + Len(s))
                           /\ from(l + Len(s)) = l /\ u[l + Len(s)] = t[l]
  BY <1>1
<1> HIDE DEF u
<1>9. ASSUME NEW k \in 1..Len(u)
      PROVE  WellFormed(u[k])
  <2>1. CASE Old(k)
    BY <1>3, <2>1 DEF Script
  <2>2. CASE ~Old(k)
    BY <1>0, <1>2, <2>2 DEF Begun, Calls
  <2> QED
    BY <2>1, <2>2
<1>10. ASSUME NEW j \in 1..Len(u), NEW k \in 1..Len(u), j < k, Clash(u[j], u[k])
       PROVE  \E m \in (j + 1)..(k - 1) : u[m].op = "enter"
  <2> HIDE DEF Old, from, first
  <2>1. CASE Old(k)
    <3>1. /\ j \in 1..Len(s) /\ k \in 1..Len(s) /\ u[j] = s[j] /\ u[k] = s[k]
      BY <1>3, <1>4, <1>10, <2>1 DEF Old
    <3>2. PICK m \in (j + 1)..(k - 1) : s[m].op = "enter"
      BY <1>10, <3>1 DEF Script
    <3>3. m \in 1..Len(s)
      BY <1>6, <2>1
    <3> QED
      BY <1>1, <3>2, <3>3
  <2>2. CASE Old(j) /\ ~Old(k)
    <3>1. k # first
      BY <1>5, <1>10 DEF Clash
    <3> QED
      BY <1>5, <1>6, <2>2, <3>1
  <2>3. CASE ~Old(j) /\ ~Old(k)
    <3>1. /\ from(j) \in 1..Len(t) /\ u[j] = t[from(j)]
          /\ from(k) \in 1..Len(t) /\ u[k] = t[from(k)]
          /\ from(j) < from(k)
      BY <1>2, <1>4, <1>10, <2>3
    <3> QED
      BY <1>0, <1>10, <3>1 DEF Begun, Calls
  <2> QED
    BY <1>4, <1>10, <2>1, <2>2, <2>3
<1>11. ASSUME NEW k \in 1..Len(u), u[k].op = "malloc" PROVE Answered(u, k)
  <2>1. CASE Old(k)
    <3>1. PICK j \in (k + 1)..Len(s) :
            /\ s[j].op = "free" /\ s[j].ptr = s[k].ptr
            /\ \A m \in (k + 1)..(j - 1) : s[m].op # "enter"
      BY <1>1, <1>11, <2>1 DEF Script, Answered
    <3>2. /\ j \in (k + 1)..Len(u) /\ j \in 1..Len(s)
          /\ \A m \in (k + 1)..(j - 1) : m \in 1..Len(s)
      BY <1>1
    <3> HIDE DEF Old
    <3> QED
      BY <1>1, <1>3, <2>1, <3>1, <3>2 DEF Answered
  <2>2. CASE ~Old(k)
    <3> DEFINE l == from(k)
    <3>1. l \in 1..Len(t) /\ u[k] = t[l]
      BY <1>2, <2>2
    <3>2. PICK j \in (l + 1)..Len(t) :
            /\ t[j].op = "free" /\ t[j].ptr = t[l].ptr
            /\ \A m \in (l + 1)..(j - 1) : t[m].op # "enter"
      BY <1>11, <3>1, TestAnswers DEF Answered
    <3>3. /\ j \in 1..Len(t) /\ j + Len(s) \in (k + 1)..Len(u)
          /\ \A m \in (k + 1)..(j + Len(s) - 1) :
               /\ m - Len(s) \in (l + 1)..(j - 1)
               /\ m \in 1..Len(u) /\ m > Len(s)
      BY <1>1, <2>2
    <3>4. u[j + Len(s)] = t[j]
      BY <1>7, <3>3
    <3>5. \A m \in (k + 1)..(j + Len(s) - 1) : u[m].op # "enter"
      BY <1>1, <3>2, <3>3
    <3> DEFINE answer == j + Len(s)
    <3>6. /\ answer \in (k + 1)..Len(u) /\ u[answer].op = "free"
          /\ u[answer].ptr = u[k].ptr
          /\ \A m \in (k + 1)..(answer - 1) : u[m].op # "enter"
      BY <3>1, <3>2, <3>3, <3>4, <3>5
    <3> HIDE DEF answer
    <3> QED
      BY <3>6 DEF Answered
  <2> QED
    BY <2>1, <2>2
<1> QED
  BY <1>1, <1>9, <1>10, <1>11 DEF Script, u

-----------------------------------------------------------------------------
(* The calls a test is made of. *)
Asked(call) == IF call.op = "malloc" THEN {call.ptr} ELSE {}
Freed(call) == IF call.op = "free" THEN {call.ptr} ELSE {}

LEMMA OneCall ==
  ASSUME NEW call, WellFormed(call)
  PROVE  /\ Calls(<<call>>, Asked(call), Freed(call))
         /\ call.op # "enter" => Part(<<call>>, Asked(call), Freed(call))
         /\ call.op = "enter" => Begun(<<call>>, {}, {})
<1>1. IsSequence(<<call>>) /\ Len(<<call>>) = 1 /\ <<call>>[1] = call
  <2>1. <<call>> \in Seq({call})
    OBVIOUS
  <2> QED
    BY <2>1, SequenceOf
<1>2. \A k \in 1..Len(<<call>>) : k = 1
  BY <1>1
<1>3. Calls(<<call>>, Asked(call), Freed(call))
  BY <1>1, <1>2 DEF Calls, Asked, Freed
<1>4. call.op = "enter" => Asked(call) = {} /\ Freed(call) = {}
  BY DEF Asked, Freed
<1> QED
  BY <1>1, <1>2, <1>3, <1>4 DEF Part, Begun

LEMMA SingleCalls ==
  /\ Begun(Enter, {}, {})
  /\ \A p \in Slots, size \in TestSizes : Part(Malloc(p, size), {p}, {})
  /\ \A p \in Slots : Part(Free(p), {}, {p})
  /\ \A ps, aligned : Part(CheckHeld(ps, aligned), {}, {})
  /\ \A p : Part(CheckNull(p), {}, {})
<1>1. Begun(Enter, {}, {})
  BY OneCall DEF Enter, WellFormed
<1>3. ASSUME NEW p \in Slots, NEW size \in TestSizes
      PROVE  Part(Malloc(p, size), {p}, {})
  <2> DEFINE call == [op |-> "malloc", ptr |-> p, size |-> size, loop |-> FALSE]
  <2>1. /\ WellFormed(call) /\ call.op # "enter" /\ Malloc(p, size) = <<call>>
        /\ Asked(call) = {p} /\ Freed(call) = {}
    BY DEF WellFormed, Malloc, Asked, Freed
  <2> HIDE DEF call
  <2> QED
    BY <2>1, OneCall
<1>4. ASSUME NEW p \in Slots
      PROVE  Part(Free(p), {}, {p})
  <2> DEFINE call == [op |-> "free", ptr |-> p]
  <2>1. /\ WellFormed(call) /\ call.op # "enter" /\ Free(p) = <<call>>
        /\ Asked(call) = {} /\ Freed(call) = {p}
    BY DEF WellFormed, Free, Asked, Freed
  <2> HIDE DEF call
  <2> QED
    BY <2>1, OneCall
<1>5. ASSUME NEW ps, NEW aligned
      PROVE  Part(CheckHeld(ps, aligned), {}, {})
  <2> DEFINE call == [op |-> "check_held", ptrs |-> ps, aligned |-> aligned]
  <2>1. /\ WellFormed(call) /\ call.op # "enter" /\ CheckHeld(ps, aligned) = <<call>>
        /\ Asked(call) = {} /\ Freed(call) = {}
    BY DEF WellFormed, CheckHeld, Asked, Freed
  <2> HIDE DEF call
  <2> QED
    BY <2>1, OneCall
<1>6. ASSUME NEW p
      PROVE  Part(CheckNull(p), {}, {})
  <2> DEFINE call == [op |-> "check_null", ptr |-> p]
  <2>1. /\ WellFormed(call) /\ call.op # "enter" /\ CheckNull(p) = <<call>>
        /\ Asked(call) = {} /\ Freed(call) = {}
    BY DEF WellFormed, CheckNull, Asked, Freed
  <2> HIDE DEF call
  <2> QED
    BY <2>1, OneCall
<1> QED
  BY <1>1, <1>3, <1>4, <1>5, <1>6

LEMMA ListOf ==
  ASSUME NEW n \in Nat, NEW S, NEW s \in [1..n -> S]
  PROVE  IsSequence(s) /\ Len(s) = n
<1>1. s \in Seq(S)
  BY SeqDef
<1>2. Len(s) = n
  BY <1>1, LenProperties
<1> QED
  BY <1>1, <1>2, SequenceOf

LEMMA Mallocs ==
  ASSUME NEW n \in Nat, 0..(n - 1) \subseteq Slots
  PROVE  /\ \A size \in TestSizes : Part(MallocLoop(n, size), 0..(n - 1), {})
         /\ \A sizes \in [1..n -> TestSizes] : Part(MallocEach(sizes), 0..(n - 1), {})
<1> DEFINE A == 0..(n - 1)
<1>1. /\ \A k \in 1..n : k - 1 \in A /\ k - 1 \in Slots
      /\ \A j, k \in 1..n : j < k => j - 1 # k - 1
  BY \A k \in 1..n : k - 1 \in 0..(n - 1)
<1>2. ASSUME NEW size \in TestSizes
      PROVE  Part(MallocLoop(n, size), A, {})
  <2> DEFINE s == MallocLoop(n, size)
             call(k) == [op |-> "malloc", ptr |-> k - 1, size |-> size, loop |-> k > 1]
  <2>1. s \in [1..n -> {call(k) : k \in 1..n}] /\ \A k \in 1..n : s[k] = call(k)
    BY DEF MallocLoop
  <2>2. /\ \A k \in 1..n : /\ WellFormed(call(k)) /\ call(k).op = "malloc"
                           /\ call(k).ptr = k - 1
        /\ \A j, k \in 1..n : j < k => ~Clash(call(j), call(k))
    BY <1>1 DEF WellFormed, Clash
  <2> HIDE DEF s, call, A
  <2>3. IsSequence(s) /\ Len(s) = n
    BY <2>1, ListOf
  <2> QED
    BY SMTT(30), <1>1, <2>1, <2>2, <2>3 DEF Part, Calls, s
<1>3. ASSUME NEW sizes \in [1..n -> TestSizes]
      PROVE  Part(MallocEach(sizes), A, {})
  <2> DEFINE s == MallocEach(sizes)
             call(k) == [op |-> "malloc", ptr |-> k - 1, size |-> sizes[k], loop |-> FALSE]
  <2>1. s \in [1..n -> {call(k) : k \in 1..n}] /\ \A k \in 1..n : s[k] = call(k)
    BY DEF MallocEach
  <2>2. /\ \A k \in 1..n : /\ WellFormed(call(k)) /\ call(k).op = "malloc"
                           /\ call(k).ptr = k - 1
        /\ \A j, k \in 1..n : j < k => ~Clash(call(j), call(k))
    BY <1>1 DEF WellFormed, Clash
  <2> HIDE DEF s, call, A
  <2>3. IsSequence(s) /\ Len(s) = n
    BY <2>1, ListOf
  <2> QED
    BY SMTT(30), <1>1, <2>1, <2>2, <2>3 DEF Part, Calls, s
<1> QED
  BY <1>2, <1>3

LEMMA Frees ==
  ASSUME NEW n \in Nat, NEW F \in SUBSET Slots, NEW ps \in [1..n -> F],
         \A j, k \in 1..n : j < k => ps[j] # ps[k],
         \A p \in F : \E k \in 1..n : ps[k] = p
  PROVE  Part(FreeEach(ps), {}, F)
<1> DEFINE s == FreeEach(ps)
           call(k) == [op |-> "free", ptr |-> ps[k]]
<1>1. s \in [1..n -> {call(k) : k \in 1..n}] /\ \A k \in 1..n : s[k] = call(k)
  BY DEF FreeEach
<1>2. /\ \A k \in 1..n : /\ WellFormed(call(k)) /\ call(k).op = "free"
                         /\ call(k).ptr = ps[k] /\ ps[k] \in F
      /\ \A j, k \in 1..n : j < k => ~Clash(call(j), call(k))
  BY DEF WellFormed, Clash
<1> HIDE DEF s, call
<1>3. IsSequence(s) /\ Len(s) = n
  BY <1>1, ListOf
<1>4. \A k \in 1..n : /\ WellFormed(s[k]) /\ s[k].op = "free"
                       /\ s[k].ptr = ps[k] /\ ps[k] \in F
  BY <1>1, <1>2
<1>5. \A j, k \in 1..n : j < k => ~Clash(s[j], s[k])
  BY <1>1, <1>2
<1>6. \A p \in F : \E k \in 1..n : s[k].op = "free" /\ s[k].ptr = p
  BY <1>4
<1>7. Part(s, {}, F)
  BY <1>3, <1>4, <1>5, <1>6 DEF Part, Calls
<1> QED
  BY <1>7 DEF s

LEMMA AllocCheckFrees ==
  ASSUME NEW p \in Slots, NEW size \in TestSizes
  PROVE  Part(AllocCheckFree(p, size), {p}, {p})
<1>1. Part(Malloc(p, size) \o CheckHeld({p}, FALSE), {p} \cup {}, {} \cup {})
  BY SingleCalls, PartsJoin
<1>2. ({p} \cup {}) = {p} /\ ({} \cup {}) = {}
  OBVIOUS
<1>3. Part((Malloc(p, size) \o CheckHeld({p}, FALSE)) \o Free(p), {p} \cup {}, {} \cup {p})
  BY <1>1, <1>2, SingleCalls, PartsJoin
<1>4. ({} \cup {p}) = {p}
  OBVIOUS
<1> QED
  BY <1>2, <1>3, <1>4 DEF AllocCheckFree

-----------------------------------------------------------------------------
(* The tests. *)
LEMMA Numbers ==
  /\ N_PTRS \in Nat /\ N_ALIGN \in Nat /\ M \in Nat /\ big \in Int
  /\ big \in Slots /\ 0..3 \subseteq Slots /\ big \notin Nat
  /\ 0..(N_PTRS - 1) \subseteq Slots /\ 0..(N_ALIGN - 1) \subseteq Slots
  /\ 0..(M - 1) \subseteq Slots
BY ScaleAssumption DEF Slots, big

(* TestGrows, where what follows checks, asks, frees, or does all three.   *)
LEMMA Checks ==
  ASSUME NEW s, NEW t, NEW A, NEW F, Begun(s, A, F), Part(t, {}, {})
  PROVE  Begun(s \o t, A, F)
<1>1. A \cup {} = A /\ F \cup {} = F /\ A \cap {} = {} /\ F \cap {} = {}
  OBVIOUS
<1> QED
  BY <1>1, TestGrows

LEMMA Asks ==
  ASSUME NEW s, NEW t, NEW A, NEW B, NEW F, Begun(s, A, F), Part(t, B, {}),
         A \cap B = {}, F \cap B = {}
  PROVE  Begun(s \o t, A \cup B, F)
<1>1. F \cup {} = F /\ F \cap {} = {}
  OBVIOUS
<1> QED
  BY <1>1, TestGrows

LEMMA GivesBack ==
  ASSUME NEW s, NEW t, NEW A, NEW F, NEW G, Begun(s, A, F), Part(t, {}, G),
         F \cap G = {}
  PROVE  Begun(s \o t, A, F \cup G)
<1>1. A \cup {} = A /\ A \cap {} = {} /\ F \cap {} = {}
  OBVIOUS
<1> QED
  BY <1>1, TestGrows

(* One block, at the beginning of a test and at its end. *)
LEMMA FirstBlock ==
  ASSUME NEW p \in Slots, NEW size \in TestSizes
  PROVE  Begun(Enter \o AllocCheckFree(p, size), {p}, {p})
<1>1. {} \cup {p} = {p} /\ {} \cap {p} = {}
  OBVIOUS
<1>2. Part(AllocCheckFree(p, size), {p}, {p}) /\ Begun(Enter, {}, {})
  BY AllocCheckFrees, SingleCalls
<1>3. Begun(Enter \o AllocCheckFree(p, size), {} \cup {p}, {} \cup {p})
  BY <1>1, <1>2, TestGrows
<1> QED
  BY <1>1, <1>3

LEMMA LastBlock ==
  ASSUME NEW s, NEW F, Begun(s, F, F), NEW p \in Slots, NEW size \in TestSizes, p \notin F
  PROVE  Test(s \o AllocCheckFree(p, size))
<1>1. F \cap {p} = {}
  OBVIOUS
<1>2. Begun(s \o AllocCheckFree(p, size), F \cup {p}, F \cup {p})
  BY <1>1, AllocCheckFrees, TestGrows
<1> QED
  BY <1>2 DEF Test

LEMMA BasicTest == Test(test_basic)
<1>1. 128 \in TestSizes /\ 0 \in Slots /\ 1 \in Slots /\ 1 \notin {0}
  BY Numbers DEF TestSizes
<1> QED
  BY <1>1, FirstBlock, LastBlock DEF test_basic

(* Tests 1 and 2 differ in the order of the calls of my_free. *)
LEMMA LoopTest ==
  ASSUME NEW ps \in [1..N_PTRS -> 0..(N_PTRS - 1)],
         \A j, k \in 1..N_PTRS : j < k => ps[j] # ps[k],
         \A p \in 0..(N_PTRS - 1) : \E k \in 1..N_PTRS : ps[k] = p
  PROVE  LET s == Enter \o MallocLoop(N_PTRS, CHUNK) \o CheckHeld(0..(N_PTRS - 1), FALSE)
                  \o FreeEach(ps) \o AllocCheckFree(big, CHUNK * N_PTRS)
         IN Test(s)
<1> DEFINE s1 == Enter \o MallocLoop(N_PTRS, CHUNK)
           s2 == s1 \o CheckHeld(0..(N_PTRS - 1), FALSE)
           s3 == s2 \o FreeEach(ps)
           F == 0..(N_PTRS - 1)
<1>1. CHUNK \in TestSizes /\ CHUNK * N_PTRS \in TestSizes
  BY DEF TestSizes
<1>2. /\ Part(MallocLoop(N_PTRS, CHUNK), F, {})
      /\ Part(CheckHeld(0..(N_PTRS - 1), FALSE), {}, {})
      /\ Part(FreeEach(ps), {}, F)
  BY <1>1, Mallocs, SingleCalls, Frees, Numbers
<1>3. {} \cap F = {} /\ {} \cup F = F /\ big \notin F
  BY Numbers
<1> HIDE DEF F
<1>4. Begun(s1, F, {})
  <2>1. Begun(s1, {} \cup F, {})
    BY <1>2, <1>3, SingleCalls, Asks
  <2> QED
    BY <1>3, <2>1
<1>5. Begun(s2, F, {})
  <2> HIDE DEF s1
  <2> QED
    BY <1>2, <1>4, Checks
<1>6. Begun(s3, F, F)
  <2> HIDE DEF s2
  <2>1. Begun(s3, F, {} \cup F)
    BY <1>2, <1>3, <1>5, GivesBack
  <2> QED
    BY <1>3, <2>1
<1> HIDE DEF s3
<1>7. Test(s3 \o AllocCheckFree(big, CHUNK * N_PTRS))
  BY <1>1, <1>3, <1>6, Numbers, LastBlock
<1> QED
  BY <1>7 DEF s3

LEMMA LoopTests ==
  Test(test_multi_alloc_free_forward) /\ Test(test_multi_alloc_free_reverse)
<1> DEFINE up == [k \in 1..N_PTRS |-> k - 1]
           down == [k \in 1..N_PTRS |-> N_PTRS - k]
<1>1. /\ up \in [1..N_PTRS -> 0..(N_PTRS - 1)]
      /\ \A j, k \in 1..N_PTRS : j < k => up[j] # up[k]
      /\ \A p \in 0..(N_PTRS - 1) : p + 1 \in 1..N_PTRS /\ up[p + 1] = p
  <2>1. \A k \in 1..N_PTRS : k - 1 \in 0..(N_PTRS - 1)
    BY Numbers
  <2>2. \A j, k \in 1..N_PTRS : j < k => j - 1 # k - 1
    BY Numbers
  <2>3. \A p \in 0..(N_PTRS - 1) :
          p + 1 \in 1..N_PTRS /\ (p + 1) - 1 = p
    BY Numbers
  <2> QED
    BY <2>1, <2>2, <2>3
<1>2. /\ down \in [1..N_PTRS -> 0..(N_PTRS - 1)]
      /\ \A j, k \in 1..N_PTRS : j < k => down[j] # down[k]
      /\ \A p \in 0..(N_PTRS - 1) : N_PTRS - p \in 1..N_PTRS /\ down[N_PTRS - p] = p
  <2>1. \A k \in 1..N_PTRS : N_PTRS - k \in 0..(N_PTRS - 1)
    BY Numbers
  <2>2. \A j, k \in 1..N_PTRS : j < k => N_PTRS - j # N_PTRS - k
    BY Numbers
  <2>3. \A p \in 0..(N_PTRS - 1) :
          N_PTRS - p \in 1..N_PTRS /\ N_PTRS - (N_PTRS - p) = p
    BY Numbers
  <2> QED
    BY <2>1, <2>2, <2>3
<1>3. Test(test_multi_alloc_free_forward)
  BY <1>1, LoopTest DEF test_multi_alloc_free_forward
<1>4. Test(test_multi_alloc_free_reverse)
  BY <1>2, LoopTest DEF test_multi_alloc_free_reverse
<1> QED
  BY <1>3, <1>4

LEMMA FragmentationTest == Test(test_fragmentation)
<1> DEFINE s1 == Enter \o Malloc(0, CHUNK)
           s2 == s1 \o Malloc(1, CHUNK)
           s3 == s2 \o Malloc(2, CHUNK)
           s4 == s3 \o CheckHeld(0..2, FALSE)
           s5 == s4 \o Free(1)
           s6 == s5 \o Malloc(3, CHUNK \div 2)
           s7 == s6 \o CheckHeld({3}, FALSE)
           s8 == s7 \o Free(0)
           s9 == s8 \o Free(3)
           s10 == s9 \o Free(2)
<1>1. /\ \A p \in 0..3 : p \in Slots
      /\ CHUNK \in TestSizes /\ CHUNK \div 2 \in TestSizes /\ CHUNK * 3 \in TestSizes
  BY Numbers DEF TestSizes
<1>2. /\ \A p \in 0..3 : /\ Part(Malloc(p, CHUNK), {p}, {})
                         /\ Part(Malloc(p, CHUNK \div 2), {p}, {})
                         /\ Part(Free(p), {}, {p})
  BY <1>1, SingleCalls, Numbers
<1>3. /\ Part(Malloc(0, CHUNK), {0}, {}) /\ Part(Malloc(1, CHUNK), {1}, {})
      /\ Part(Malloc(2, CHUNK), {2}, {}) /\ Part(Malloc(3, CHUNK \div 2), {3}, {})
      /\ Part(CheckHeld(0..2, FALSE), {}, {}) /\ Part(CheckHeld({3}, FALSE), {}, {})
      /\ Part(Free(0), {}, {0}) /\ Part(Free(1), {}, {1}) /\ Part(Free(2), {}, {2})
      /\ Part(Free(3), {}, {3})
  <2>1. Part(CheckHeld(0..2, FALSE), {}, {}) /\ Part(CheckHeld({3}, FALSE), {}, {})
    BY SingleCalls, Zenon
  <2>2. 0 \in 0..3 /\ 1 \in 0..3 /\ 2 \in 0..3 /\ 3 \in 0..3
    OBVIOUS
  <2> QED
    BY <1>2, <2>1, <2>2, Zenon
<1>4. /\ {} \cup {0} = {0} /\ {} \cap {0} = {} /\ {} \cap {1} = {} /\ {} \cap {2} = {}
      /\ {0} \cup {1} = {0, 1} /\ {0} \cap {1} = {}
      /\ {0, 1} \cup {2} = {0, 1, 2} /\ {0, 1} \cap {2} = {}
      /\ {} \cup {1} = {1} /\ {1} \cap {3} = {}
      /\ {0, 1, 2} \cup {3} = {0, 1, 2, 3} /\ {0, 1, 2} \cap {3} = {}
      /\ {1} \cup {0} = {0, 1} /\ {1} \cap {0} = {}
      /\ {0, 1} \cup {3} = {0, 1, 3} /\ {0, 1} \cap {3} = {}
      /\ {0, 1, 3} \cup {2} = {0, 1, 2, 3} /\ {0, 1, 3} \cap {2} = {}
      /\ big \notin {0, 1, 2, 3}
  BY Numbers
<1>5. Begun(s1, {0}, {})
  <2>1. Begun(s1, {} \cup {0}, {})
    BY <1>3, <1>4, SingleCalls, Asks
  <2> QED
    BY <1>4, <2>1
<1>6. Begun(s2, {0, 1}, {})
  <2> HIDE DEF s1
  <2>1. Begun(s2, {0} \cup {1}, {})
    BY <1>3, <1>4, <1>5, Asks
  <2> QED
    BY <1>4, <2>1
<1>7. Begun(s3, {0, 1, 2}, {})
  <2> HIDE DEF s2
  <2>1. Begun(s3, {0, 1} \cup {2}, {})
    BY <1>3, <1>4, <1>6, Asks
  <2> QED
    BY <1>4, <2>1
<1>8. Begun(s4, {0, 1, 2}, {})
  <2> HIDE DEF s3
  <2> QED
    BY <1>3, <1>7, Checks
<1>9. Begun(s5, {0, 1, 2}, {1})
  <2> HIDE DEF s4
  <2>1. Begun(s5, {0, 1, 2}, {} \cup {1})
    BY <1>3, <1>4, <1>8, GivesBack
  <2> QED
    BY <1>4, <2>1
<1>10. Begun(s6, {0, 1, 2, 3}, {1})
  <2> HIDE DEF s5
  <2>1. Begun(s6, {0, 1, 2} \cup {3}, {1})
    BY <1>3, <1>4, <1>9, Asks
  <2> QED
    BY <1>4, <2>1
<1>11. Begun(s7, {0, 1, 2, 3}, {1})
  <2> HIDE DEF s6
  <2> QED
    BY <1>3, <1>10, Checks
<1>12. Begun(s8, {0, 1, 2, 3}, {0, 1})
  <2> HIDE DEF s7
  <2>1. Begun(s8, {0, 1, 2, 3}, {1} \cup {0})
    BY <1>3, <1>4, <1>11, GivesBack
  <2> QED
    BY <1>4, <2>1
<1>13. Begun(s9, {0, 1, 2, 3}, {0, 1, 3})
  <2> HIDE DEF s8
  <2>1. Begun(s9, {0, 1, 2, 3}, {0, 1} \cup {3})
    BY <1>3, <1>4, <1>12, GivesBack
  <2> QED
    BY <1>4, <2>1
<1>14. Begun(s10, {0, 1, 2, 3}, {0, 1, 2, 3})
  <2> HIDE DEF s9
  <2>1. Begun(s10, {0, 1, 2, 3}, {0, 1, 3} \cup {2})
    BY <1>3, <1>4, <1>13, GivesBack
  <2> QED
    BY <1>4, <2>1
<1> HIDE DEF s10
<1>15. Test(s10 \o AllocCheckFree(big, CHUNK * 3))
  BY <1>1, <1>4, <1>14, Numbers, LastBlock
<1> QED
  BY <1>15 DEF test_fragmentation, s10

LEMMA AlignmentTest == Test(test_alignment)
<1> DEFINE sizes == [k \in 1..N_ALIGN |-> 1 + (k - 1) * 13]
           ps == [k \in 1..N_ALIGN |-> k - 1]
           F == 0..(N_ALIGN - 1)
           s1 == Enter \o MallocEach(sizes)
           s2 == s1 \o CheckHeld(0..(N_ALIGN - 1), TRUE)
           s3 == s2 \o FreeEach(ps)
<1>1. sizes \in [1..N_ALIGN -> TestSizes]
  <2>1. \A k \in 1..N_ALIGN : k - 1 \in 0..(N_ALIGN - 1)
    BY Numbers
  <2>2. \A k \in 1..N_ALIGN : 1 + (k - 1) * 13 \in TestSizes
    BY <2>1 DEF TestSizes
  <2> QED
    BY <2>2
<1>2. /\ ps \in [1..N_ALIGN -> F] /\ \A j, k \in 1..N_ALIGN : j < k => ps[j] # ps[k]
      /\ \A p \in F : p + 1 \in 1..N_ALIGN /\ ps[p + 1] = p
  BY Numbers
<1> HIDE DEF sizes, ps
<1>3. /\ Part(MallocEach(sizes), F, {}) /\ Part(CheckHeld(0..(N_ALIGN - 1), TRUE), {}, {})
      /\ Part(FreeEach(ps), {}, F)
  BY <1>1, <1>2, Mallocs, Frees, SingleCalls, Numbers
<1>4. {} \cap F = {} /\ {} \cup F = F
  OBVIOUS
<1> HIDE DEF F
<1>5. Begun(s1, F, {})
  <2>1. Begun(s1, {} \cup F, {})
    BY <1>3, <1>4, SingleCalls, Asks
  <2> QED
    BY <1>4, <2>1
<1>6. Begun(s2, F, {})
  <2> HIDE DEF s1
  <2> QED
    BY <1>3, <1>5, Checks
<1>7. Begun(s3, F, F)
  <2> HIDE DEF s2
  <2>1. Begun(s3, F, {} \cup F)
    BY <1>3, <1>4, <1>6, GivesBack
  <2> QED
    BY <1>4, <2>1
<1> QED
  BY <1>7 DEF test_alignment, sizes, ps, Test

LEMMA WriteReadTest == Test(test_write_read)
<1>1. 1024 \in TestSizes /\ 0 \in Slots
  BY Numbers DEF TestSizes
<1>2. Begun(test_write_read, {0}, {0})
  BY <1>1, FirstBlock DEF test_write_read
<1> QED
  BY <1>2 DEF Test

(* The even places are freed, then the odd ones. *)
LEMMA CoalesceTest == Test(test_full_coalesce)
<1> DEFINE half == (M + 1) \div 2
           rest == M \div 2
           even == [k \in 1..half |-> 2 * k - 2]
           odd == [k \in 1..rest |-> 2 * k - 1]
           E == {2 * k - 2 : k \in 1..half}
           O == {2 * k - 1 : k \in 1..rest}
           F == 0..(M - 1)
           s1 == Enter \o MallocLoop(M, SMALL)
           s2 == s1 \o CheckHeld(0..(M - 1), FALSE)
           s3 == s2 \o FreeEach(even)
           s4 == s3 \o FreeEach(odd)
<1>1. /\ half \in Nat /\ rest \in Nat /\ 2 * half <= M + 1 /\ 2 * rest <= M
      /\ M <= 2 * half /\ M <= 2 * rest + 1
  BY Numbers
<1> HIDE DEF half, rest
<1>2. \A k \in 1..half : 2 * k - 2 \in 0..(M - 1)
  BY <1>1, Numbers
<1>3. \A k \in 1..rest : 2 * k - 1 \in 0..(M - 1)
  BY <1>1, Numbers
<1>4. \A j \in 1..half, k \in 1..rest : 2 * j - 2 # 2 * k - 1
  BY <1>1
<1>5. F \subseteq E \cup O
  <2> SUFFICES ASSUME NEW p \in F PROVE p \in E \cup O
    OBVIOUS
  <2>1. PICK q \in Nat : p = 2 * q \/ p = 2 * q + 1
    <3>1. p \div 2 \in Nat /\ (p = 2 * (p \div 2) \/ p = 2 * (p \div 2) + 1)
      BY Numbers
    <3> QED
      BY <3>1
  <2>2. CASE p = 2 * q
    <3>1. q + 1 \in 1..half /\ p = 2 * (q + 1) - 2
      BY <1>1, <2>2, Numbers
    <3> QED
      BY <3>1
  <2>3. CASE p = 2 * q + 1
    <3>1. q + 1 \in 1..rest /\ p = 2 * (q + 1) - 1
      BY <1>1, <2>3, Numbers
    <3> QED
      BY <3>1
  <2> QED
    BY <2>1, <2>2, <2>3
<1>6. /\ E \subseteq Slots /\ O \subseteq Slots /\ F \subseteq Slots
      /\ E \cap O = {} /\ big \notin F
      /\ {} \cap E = {} /\ {} \cup E = E /\ {} \cap F = {} /\ {} \cup F = F
  BY <1>2, <1>3, <1>4, Numbers
<1>7. E \cup O = F
  BY <1>2, <1>3, <1>5
<1>8. /\ even \in [1..half -> E] /\ \A j, k \in 1..half : j < k => even[j] # even[k]
      /\ \A p \in E : \E k \in 1..half : even[k] = p
      /\ odd \in [1..rest -> O] /\ \A j, k \in 1..rest : j < k => odd[j] # odd[k]
      /\ \A p \in O : \E k \in 1..rest : odd[k] = p
  BY <1>1
<1> HIDE DEF even, odd, E, O
<1>9. SMALL \in TestSizes /\ SMALL * M \in TestSizes
  BY DEF TestSizes
<1>10. /\ Part(MallocLoop(M, SMALL), F, {}) /\ Part(CheckHeld(0..(M - 1), FALSE), {}, {})
       /\ Part(FreeEach(even), {}, E) /\ Part(FreeEach(odd), {}, O)
  BY <1>1, <1>6, <1>8, <1>9, Mallocs, Frees, SingleCalls, Numbers
<1> HIDE DEF F
<1>11. Begun(s1, F, {})
  <2>1. Begun(s1, {} \cup F, {})
    BY <1>6, <1>10, SingleCalls, Asks
  <2> QED
    BY <1>6, <2>1
<1>12. Begun(s2, F, {})
  <2> HIDE DEF s1
  <2> QED
    BY <1>10, <1>11, Checks
<1>13. Begun(s3, F, E)
  <2> HIDE DEF s2
  <2>1. Begun(s3, F, {} \cup E)
    BY <1>6, <1>10, <1>12, GivesBack
  <2> QED
    BY <1>6, <2>1
<1>14. Begun(s4, F, F)
  <2> HIDE DEF s3
  <2>1. Begun(s4, F, E \cup O)
    BY <1>6, <1>10, <1>13, GivesBack
  <2> QED
    BY <1>7, <2>1
<1> HIDE DEF s4
<1>15. Test(s4 \o AllocCheckFree(big, SMALL * M))
  BY <1>6, <1>9, <1>14, Numbers, LastBlock
<1> QED
  BY <1>15 DEF test_full_coalesce, s4, even, odd, half, rest

LEMMA ZeroTest == Test(test_zero_alloc)
<1> DEFINE s1 == Enter \o Malloc(0, 0)
           s2 == s1 \o CheckNull(0)
           s3 == s2 \o Free(0)
<1>1. 0 \in TestSizes /\ 0 \in Slots
  BY Numbers DEF TestSizes
<1>2. Part(Malloc(0, 0), {0}, {}) /\ Part(CheckNull(0), {}, {}) /\ Part(Free(0), {}, {0})
  BY <1>1, SingleCalls
<1>3. {} \cap {0} = {} /\ {} \cup {0} = {0}
  OBVIOUS
<1>4. Begun(s1, {0}, {})
  <2>1. Begun(s1, {} \cup {0}, {})
    BY <1>2, <1>3, SingleCalls, Asks
  <2> QED
    BY <1>3, <2>1
<1>5. Begun(s2, {0}, {})
  <2> HIDE DEF s1
  <2> QED
    BY <1>2, <1>4, Checks
<1>6. Begun(s3, {0}, {0})
  <2> HIDE DEF s2
  <2>1. Begun(s3, {0}, {} \cup {0})
    BY <1>2, <1>3, <1>5, GivesBack
  <2> QED
    BY <1>3, <2>1
<1> QED
  BY <1>6 DEF test_zero_alloc, Test

(* No test of mem_test asks twice for a block for the same local variable, *)
(* frees one twice or asks for a block it does not free, at any scale.     *)
THEOREM EveryBlockFreedOnce == Script(mem_test_calls)
<1>1. \A s, t : Script(s) /\ Test(t) => Script(s \o t)
  BY TestsJoin
<1>2. Script(test_basic)
  BY BasicTest, FirstTest
<1> QED
  BY <1>1, <1>2, LoopTests, FragmentationTest, AlignmentTest, WriteReadTest,
     CoalesceTest, ZeroTest DEF mem_test_calls

-----------------------------------------------------------------------------
(* What a call relies on: that earlier in the test a pointer was given a   *)
(* block, NULL for no bytes, or anything; and what a call gives a pointer. *)
Needs(call) ==
  CASE call.op = "check_held" -> {<<p, "block">> : p \in call.ptrs}
    [] call.op = "check_null" -> {<<call.ptr, "null">>}
    [] call.op = "free" -> {<<call.ptr, "value">>}
    [] call.op = "malloc" -> IF call.loop THEN {<<call.ptr - 1, "block">>} ELSE {}
    [] OTHER -> {}

Gives(call) ==
  IF call.op # "malloc" THEN {}
  ELSE {<<call.ptr, "value">>, <<call.ptr, IF call.size = 0 THEN "null" ELSE "block">>}

(* The pointers a call looks at, and those that are still to be looked at. *)
Looks(call) == IF call.op = "check_held" THEN call.ptrs ELSE {}

Unseen(call) == IF call.op = "malloc" /\ call.size # 0 THEN {call.ptr} ELSE {}

(* A test up to here, with what it has given pointers, and those of them   *)
(* that it is still to look at.                                            *)
Careful(s, G, U) ==
  /\ IsSequence(s)
  /\ \A k \in 1..Len(s) : \A r \in Needs(s[k]) : \E i \in 1..(k - 1) : r \in Gives(s[i])
  /\ \A r \in G : \E i \in 1..Len(s) : r \in Gives(s[i])
  /\ \A k \in 1..Len(s) : \A p \in Unseen(s[k]) :
       p \in U \/ \E j \in (k + 1)..Len(s) : p \in Looks(s[j])

(* More of a test. *)
LEMMA CarefulGrows ==
  ASSUME NEW s, NEW G, NEW U, Careful(s, G, U), NEW t, IsSequence(t),
         NEW H, NEW W, NEW V,
         \A k \in 1..Len(t) : \A r \in Needs(t[k]) :
           r \in G \/ \E i \in 1..(k - 1) : r \in Gives(t[i]),
         \A r \in H : \E i \in 1..Len(t) : r \in Gives(t[i]),
         \A k \in 1..Len(t) : \A p \in Unseen(t[k]) :
           p \in V \/ \E j \in (k + 1)..Len(t) : p \in Looks(t[j]),
         \A p \in W : \E j \in 1..Len(t) : p \in Looks(t[j])
  PROVE  Careful(s \o t, G \cup H, (U \ W) \cup V)
<1> DEFINE u == s \o t
           n == Len(s)
<1>1. /\ IsSequence(u) /\ n \in Nat /\ Len(t) \in Nat /\ Len(u) = n + Len(t)
      /\ \A k \in 1..n : u[k] = s[k]
      /\ \A k \in 1..Len(u) : k > n => k - n \in 1..Len(t) /\ u[k] = t[k - n]
  BY Concatenation DEF Careful
<1>2. \A l \in 1..Len(t) : l + n \in 1..Len(u) /\ u[l + n] = t[l]
  <2>1. \A l \in 1..Len(t) : l + n \in 1..Len(u) /\ l + n > n /\ (l + n) - n = l
    BY <1>1
  <2> QED
    BY <1>1, <2>1
<1>3. \A k \in 1..n : k \in 1..Len(u)
  BY <1>1
<1> HIDE DEF u
<1>4. ASSUME NEW k \in 1..Len(u), NEW r \in Needs(u[k])
      PROVE  \E i \in 1..(k - 1) : r \in Gives(u[i])
  <2>1. CASE k \in 1..n
    <3>1. PICK i \in 1..(k - 1) : r \in Gives(s[i])
      BY <1>1, <1>4, <2>1 DEF Careful
    <3>2. i \in 1..n
      BY <1>1, <2>1
    <3> QED
      BY <1>1, <3>1, <3>2
  <2>2. CASE k \notin 1..n
    <3>1. k > n /\ k - n \in 1..Len(t) /\ u[k] = t[k - n]
      BY <1>1, <2>2
    <3>2. CASE r \in G
      <4>1. PICK i \in 1..n : r \in Gives(s[i])
        BY <3>2 DEF Careful
      <4>2. i \in 1..(k - 1)
        BY <1>1, <3>1
      <4> QED
        BY <1>1, <4>1, <4>2
    <3>3. CASE \E i \in 1..((k - n) - 1) : r \in Gives(t[i])
      <4>1. PICK i \in 1..((k - n) - 1) : r \in Gives(t[i])
        BY <3>3
      <4>2. i \in 1..Len(t) /\ i + n \in 1..(k - 1)
        BY <1>1, <3>1
      <4> QED
        BY <1>2, <4>1, <4>2
    <3> QED
      BY <1>4, <3>1, <3>2, <3>3
  <2> QED
    BY <2>1, <2>2
<1>5. ASSUME NEW r \in G \cup H PROVE \E i \in 1..Len(u) : r \in Gives(u[i])
  <2>1. CASE r \in G
    BY <1>1, <1>3, <2>1 DEF Careful
  <2>2. CASE r \in H
    BY <1>2, <2>2
  <2> QED
    BY <2>1, <2>2
<1>6. ASSUME NEW k \in 1..Len(u), NEW p \in Unseen(u[k])
      PROVE  p \in (U \ W) \cup V \/ \E j \in (k + 1)..Len(u) : p \in Looks(u[j])
  <2>1. CASE k \in 1..n
    <3>1. p \in U \/ \E j \in (k + 1)..n : p \in Looks(s[j])
      BY <1>1, <1>6, <2>1 DEF Careful
    <3>2. CASE p \in W
      <4>1. PICK j \in 1..Len(t) : p \in Looks(t[j])
        BY <3>2
      <4>2. j + n \in (k + 1)..Len(u)
        BY <1>1, <2>1
      <4> QED
        BY <1>2, <4>1, <4>2
    <3>3. ASSUME NEW j \in (k + 1)..n, p \in Looks(s[j])
          PROVE  \E i \in (k + 1)..Len(u) : p \in Looks(u[i])
      <4>1. j \in 1..n /\ j \in (k + 1)..Len(u)
        BY <1>1, <2>1
      <4> QED
        BY <1>1, <3>3, <4>1
    <3> QED
      BY <3>1, <3>2, <3>3
  <2>2. CASE k \notin 1..n
    <3>1. k > n /\ k - n \in 1..Len(t) /\ u[k] = t[k - n]
      BY <1>1, <2>2
    <3>2. ASSUME NEW j \in ((k - n) + 1)..Len(t), p \in Looks(t[j])
          PROVE  \E i \in (k + 1)..Len(u) : p \in Looks(u[i])
      <4>1. j \in 1..Len(t) /\ j + n \in (k + 1)..Len(u)
        BY <1>1, <3>1
      <4> QED
        BY <1>2, <3>2, <4>1
    <3> QED
      BY <1>6, <3>1, <3>2
  <2> QED
    BY <2>1, <2>2
<1> QED
  BY <1>1, <1>4, <1>5, <1>6 DEF Careful, u

(* Pointers that were given blocks. *)
Given(A) == {<<p, "block">> : p \in A} \cup {<<p, "value">> : p \in A}

Carefully(s, A, U) == Careful(s, Given(A), U)

LEMMA CarefullyEntered == Carefully(Enter, {}, {})
<1>1. Enter \in Seq({Enter[1]}) /\ Len(Enter) = 1 /\ Enter[1] = [op |-> "enter"]
  BY DEF Enter
<1>2. /\ IsSequence(Enter) /\ \A k \in 1..Len(Enter) : Enter[k].op = "enter"
  BY <1>1, SequenceOf
<1>3. Given({}) = {} /\ \A c : c.op = "enter" => Needs(c) = {} /\ Unseen(c) = {}
  BY DEF Given, Needs, Unseen
<1> HIDE DEF Given
<1> QED
  BY <1>2, <1>3 DEF Carefully, Careful

(* Calls that ask for blocks for the pointers of B. *)
LEMMA CarefullyAsked ==
  ASSUME NEW s, NEW A, NEW U, Carefully(s, A, U), NEW t, IsSequence(t), NEW B,
         \A k \in 1..Len(t) :
           /\ t[k].op = "malloc" /\ t[k].size # 0 /\ t[k].ptr \in B
           /\ t[k].loop => \E i \in 1..(k - 1) : t[i].ptr = t[k].ptr - 1,
         \A p \in B : \E k \in 1..Len(t) : t[k].ptr = p
  PROVE  Carefully(s \o t, A \cup B, U \cup B)
<1>0. Len(t) \in Nat
  BY DEF IsSequence
<1>1. ASSUME NEW k \in 1..Len(t)
      PROVE  /\ Gives(t[k]) = {<<t[k].ptr, "value">>, <<t[k].ptr, "block">>}
             /\ Unseen(t[k]) \subseteq B
             /\ Needs(t[k]) = IF t[k].loop THEN {<<t[k].ptr - 1, "block">>} ELSE {}
  BY DEF Gives, Unseen, Needs
<1>2. ASSUME NEW k \in 1..Len(t), NEW r \in Needs(t[k])
      PROVE  \E i \in 1..(k - 1) : r \in Gives(t[i])
  <2>1. t[k].loop /\ r = <<t[k].ptr - 1, "block">>
    BY <1>1, <1>2
  <2>2. PICK i \in 1..(k - 1) : t[i].ptr = t[k].ptr - 1
    BY <2>1
  <2>3. i \in 1..Len(t)
    BY <1>0
  <2> QED
    BY <1>1, <2>1, <2>2, <2>3
<1>3. ASSUME NEW r \in Given(B) PROVE \E k \in 1..Len(t) : r \in Gives(t[k])
  <2>1. PICK p \in B : r \in {<<p, "block">>, <<p, "value">>}
    BY DEF Given
  <2>2. PICK k \in 1..Len(t) : t[k].ptr = p
    OBVIOUS
  <2>3. r \in Gives(t[k])
    BY <1>1, <2>1, <2>2
  <2> QED
    BY <2>3
<1>4. Given(A) \cup Given(B) = Given(A \cup B) /\ (U \ {}) \cup B = U \cup B
  BY DEF Given
<1>5. Careful(s, Given(A), U)
  BY DEF Carefully
<1>6. Careful(s \o t, Given(A) \cup Given(B), (U \ {}) \cup B)
  <2> HIDE DEF Given
  <2> QED
    BY <1>1, <1>2, <1>3, <1>5, CarefulGrows
<1> QED
  BY <1>4, <1>6 DEF Carefully

(* Calls that use only pointers of A: checks, which look at those of W,    *)
(* and calls of my_free.                                                   *)
LEMMA CarefullyUsed ==
  ASSUME NEW s, NEW A, NEW U, Carefully(s, A, U), NEW t, IsSequence(t), NEW W,
         \A k \in 1..Len(t) :
           \/ t[k].op = "check_held" /\ t[k].ptrs \subseteq A
           \/ t[k].op = "free" /\ t[k].ptr \in A,
         \A p \in W : \E k \in 1..Len(t) : p \in Looks(t[k])
  PROVE  Carefully(s \o t, A, U \ W)
<1>1. \A k \in 1..Len(t) : Needs(t[k]) \subseteq Given(A) /\ Unseen(t[k]) = {}
  BY DEF Needs, Given, Unseen
<1>2. Careful(s, Given(A), U)
  BY DEF Carefully
<1> HIDE DEF Given
<1>3. Careful(s \o t, Given(A) \cup {}, (U \ W) \cup {})
  BY <1>1, <1>2, CarefulGrows
<1>4. Given(A) \cup {} = Given(A) /\ (U \ W) \cup {} = U \ W
  OBVIOUS
<1> QED
  BY <1>3, <1>4 DEF Carefully

LEMMA SingleFacts ==
  ASSUME NEW call
  PROVE  IsSequence(<<call>>) /\ Len(<<call>>) = 1 /\ <<call>>[1] = call
<1>1. <<call>> \in Seq({call})
  OBVIOUS
<1> QED
  BY <1>1, SequenceOf

LEMMA CarefullyHeld ==
  ASSUME NEW s, NEW A, NEW U, Carefully(s, A, U), NEW ps \in SUBSET A,
         NEW aligned
  PROVE  Carefully(s \o CheckHeld(ps, aligned), A, U \ ps)
<1> DEFINE t == CheckHeld(ps, aligned)
<1>1. /\ IsSequence(t) /\ Len(t) = 1
      /\ t[1] = [op |-> "check_held", ptrs |-> ps, aligned |-> aligned]
  BY SingleFacts DEF CheckHeld
<1>2. t[1].op = "check_held" /\ t[1].ptrs = ps /\ Looks(t[1]) = ps
  BY <1>1 DEF Looks
<1> HIDE DEF t
<1>3. \A k \in 1..Len(t) : t[k].op = "check_held" /\ t[k].ptrs \subseteq A
  BY <1>1, <1>2
<1>4. \A p \in ps : \E k \in 1..Len(t) : p \in Looks(t[k])
  BY <1>1, <1>2
<1>5. Carefully(s \o t, A, U \ ps)
  BY <1>1, <1>3, <1>4, CarefullyUsed
<1> QED
  BY <1>5 DEF t

LEMMA CarefullyFreed ==
  ASSUME NEW s, NEW A, NEW U, Carefully(s, A, U)
  PROVE  /\ \A p \in A : Carefully(s \o Free(p), A, U)
         /\ \A n \in Nat : \A ps \in [1..n -> A] : Carefully(s \o FreeEach(ps), A, U)
<1>1. ASSUME NEW t, IsSequence(t), \A k \in 1..Len(t) : t[k].op = "free" /\ t[k].ptr \in A
      PROVE  Carefully(s \o t, A, U)
  <2>1. Carefully(s \o t, A, U \ {})
    BY <1>1, CarefullyUsed
  <2> QED
    BY <2>1
<1>2. ASSUME NEW p \in A PROVE Carefully(s \o Free(p), A, U)
  <2> DEFINE t == Free(p)
  <2>1. IsSequence(t) /\ Len(t) = 1 /\ t[1] = [op |-> "free", ptr |-> p]
    BY SingleFacts DEF Free
  <2>2. \A k \in 1..Len(t) : t[k].op = "free" /\ t[k].ptr \in A
    BY <2>1
  <2> HIDE DEF t
  <2>3. Carefully(s \o t, A, U)
    BY <1>1, <2>1, <2>2
  <2> QED
    BY <2>3 DEF t
<1>3. ASSUME NEW n \in Nat, NEW ps \in [1..n -> A]
      PROVE  Carefully(s \o FreeEach(ps), A, U)
  <2> DEFINE t == FreeEach(ps)
             call(k) == [op |-> "free", ptr |-> ps[k]]
  <2>1. t \in [1..n -> {call(k) : k \in 1..n}] /\ \A k \in 1..n : t[k] = call(k)
    BY DEF FreeEach
  <2>2. IsSequence(t) /\ Len(t) = n
    BY <2>1, ListOf
  <2>3. \A k \in 1..n : t[k].op = "free" /\ t[k].ptr \in A
    BY <2>1
  <2> HIDE DEF t
  <2>4. Carefully(s \o t, A, U)
    BY <1>1, <2>2, <2>3
  <2> QED
    BY <2>4 DEF t
<1> QED
  BY <1>2, <1>3

LEMMA CarefullyGiven ==
  ASSUME NEW s, NEW A, NEW U, Carefully(s, A, U)
  PROVE  /\ \A p : \A size : size # 0 =>
              Carefully(s \o Malloc(p, size), A \cup {p}, U \cup {p})
         /\ \A n \in Nat : \A size : size # 0 =>
              Carefully(s \o MallocLoop(n, size), A \cup 0..(n - 1), U \cup 0..(n - 1))
         /\ \A n \in Nat : \A sizes \in [1..n -> Nat \ {0}] :
              Carefully(s \o MallocEach(sizes), A \cup 0..(n - 1), U \cup 0..(n - 1))
<1>1. ASSUME NEW p, NEW size, size # 0
      PROVE  Carefully(s \o Malloc(p, size), A \cup {p}, U \cup {p})
  <2> DEFINE t == Malloc(p, size)
  <2>1. /\ IsSequence(t) /\ Len(t) = 1
        /\ t[1] = [op |-> "malloc", ptr |-> p, size |-> size, loop |-> FALSE]
    BY SingleFacts DEF Malloc
  <2>2. \A k \in 1..Len(t) : /\ t[k].op = "malloc" /\ t[k].size # 0 /\ t[k].ptr \in {p}
                             /\ ~t[k].loop
    BY <1>1, <2>1
  <2>3. \A q \in {p} : \E k \in 1..Len(t) : t[k].ptr = q
    BY <2>1
  <2> HIDE DEF t
  <2>4. Carefully(s \o t, A \cup {p}, U \cup {p})
    BY <2>1, <2>2, <2>3, CarefullyAsked
  <2> QED
    BY <2>4 DEF t
<1>2. ASSUME NEW n \in Nat, NEW size, size # 0
      PROVE  Carefully(s \o MallocLoop(n, size), A \cup 0..(n - 1), U \cup 0..(n - 1))
  <2> DEFINE t == MallocLoop(n, size)
             call(k) == [op |-> "malloc", ptr |-> k - 1, size |-> size, loop |-> k > 1]
             B == 0..(n - 1)
  <2>1. t \in [1..n -> {call(k) : k \in 1..n}] /\ \A k \in 1..n : t[k] = call(k)
    BY DEF MallocLoop
  <2>2. IsSequence(t) /\ Len(t) = n
    BY <2>1, ListOf
  <2>3. \A k \in 1..n : /\ t[k].op = "malloc" /\ t[k].size # 0 /\ t[k].ptr = k - 1
                        /\ t[k].loop = (k > 1)
    BY <1>2, <2>1
  <2> HIDE DEF t
  <2>4. ASSUME NEW k \in 1..n, t[k].loop
        PROVE  \E i \in 1..(k - 1) : t[i].ptr = t[k].ptr - 1
    <3>1. k > 1
      BY <2>3, <2>4
    <3>2. k - 1 \in 1..(k - 1) /\ k - 1 \in 1..n
      BY <3>1
    <3> QED
      BY <2>3, <3>2
  <2>5. \A k \in 1..n : t[k].ptr \in B
    BY <2>3
  <2>6. ASSUME NEW p \in B PROVE \E k \in 1..n : t[k].ptr = p
    <3>1. p + 1 \in 1..n /\ (p + 1) - 1 = p
      OBVIOUS
    <3>2. t[p + 1].ptr = p
      BY <2>3, <3>1
    <3> QED
      BY <3>1, <3>2
  <2> HIDE DEF B
  <2>7. Carefully(s \o t, A \cup B, U \cup B)
    BY <2>2, <2>3, <2>4, <2>5, <2>6, CarefullyAsked
  <2> QED
    BY <2>7 DEF t, B
<1>3. ASSUME NEW n \in Nat, NEW sizes \in [1..n -> Nat \ {0}]
      PROVE  Carefully(s \o MallocEach(sizes), A \cup 0..(n - 1), U \cup 0..(n - 1))
  <2> DEFINE t == MallocEach(sizes)
             call(k) == [op |-> "malloc", ptr |-> k - 1, size |-> sizes[k], loop |-> FALSE]
             B == 0..(n - 1)
  <2>1. t \in [1..n -> {call(k) : k \in 1..n}] /\ \A k \in 1..n : t[k] = call(k)
    BY DEF MallocEach
  <2>2. IsSequence(t) /\ Len(t) = n
    BY <2>1, ListOf
  <2>3. \A k \in 1..n : /\ t[k].op = "malloc" /\ t[k].size # 0 /\ t[k].ptr = k - 1
                        /\ ~t[k].loop
    <3>1. \A k \in 1..n : /\ call(k).op = "malloc" /\ call(k).size = sizes[k]
                          /\ call(k).ptr = k - 1 /\ ~call(k).loop
      OBVIOUS
    <3>2. \A k \in 1..n : sizes[k] # 0
      OBVIOUS
    <3> HIDE DEF t, call
    <3> QED
      BY <2>1, <3>1, <3>2
  <2> HIDE DEF t
  <2>5. \A k \in 1..n : t[k].ptr \in B
    BY <2>3, SMTT(30)
  <2>6. ASSUME NEW p \in B PROVE \E k \in 1..n : t[k].ptr = p
    <3>1. p + 1 \in 1..n /\ (p + 1) - 1 = p
      OBVIOUS
    <3>2. t[p + 1].ptr = p
      BY <2>3, <3>1
    <3> QED
      BY <3>1, <3>2
  <2> HIDE DEF B
  <2>7. Carefully(s \o t, A \cup B, U \cup B)
    BY <2>2, <2>3, <2>5, <2>6, CarefullyAsked
  <2> QED
    BY <2>7 DEF t, B
<1> QED
  BY <1>1, <1>2, <1>3

LEMMA OneMoreCall ==
  ASSUME NEW s, IsSequence(s), NEW c
  PROVE  /\ IsSequence(s \o <<c>>) /\ Len(s \o <<c>>) = Len(s) + 1
         /\ \A k \in 1..Len(s) : (s \o <<c>>)[k] = s[k]
         /\ (s \o <<c>>)[Len(s) + 1] = c
<1> DEFINE t == <<c>>
           u == s \o t
<1>1. IsSequence(t) /\ Len(t) = 1 /\ t[1] = c
  BY SingleFacts
<1> HIDE DEF t
<1>2. IsSequence(u) /\ Len(u) = Len(s) + Len(t) /\ \A k \in 1..Len(s) : u[k] = s[k]
  BY <1>1, Concatenation
<1>3. \A k \in 1..Len(u) : k > Len(s) => k - Len(s) \in 1..Len(t) /\ u[k] = t[k - Len(s)]
  BY <1>1, Concatenation
<1> HIDE DEF u
<1>4. Len(s) \in Nat
  BY DEF IsSequence
<1>5. u[Len(s) + 1] = c
  BY <1>1, <1>2, <1>3, <1>4
<1> QED
  BY <1>1, <1>2, <1>5 DEF t, u

(* The block that opens or ends a test. *)
LEMMA CarefullyWhole ==
  ASSUME NEW s, NEW A, Carefully(s, A, {}), NEW p, NEW size, size # 0
  PROVE  Carefully(s \o AllocCheckFree(p, size), A \cup {p}, {})
<1> DEFINE t == AllocCheckFree(p, size)
           ask == [op |-> "malloc", ptr |-> p, size |-> size, loop |-> FALSE]
           look == [op |-> "check_held", ptrs |-> {p}, aligned |-> FALSE]
           free == [op |-> "free", ptr |-> p]
<1> DEFINE s1 == <<ask>>
           s2 == s1 \o <<look>>
           s3 == s2 \o <<free>>
<1>1. t = s3
  BY DEF AllocCheckFree, Malloc, CheckHeld, Free
<1> HIDE DEF t, ask, look, free
<1>2. IsSequence(t) /\ Len(t) = 3 /\ t[1] = ask /\ t[2] = look /\ t[3] = free
  <2>1. IsSequence(s1) /\ Len(s1) = 1 /\ s1[1] = ask
    BY SingleFacts
  <2> HIDE DEF s1
  <2>2. /\ IsSequence(s2) /\ Len(s2) = Len(s1) + 1
        /\ \A k \in 1..Len(s1) : s2[k] = s1[k]
        /\ s2[Len(s1) + 1] = look
    BY Zenon, <2>1, OneMoreCall
  <2> HIDE DEF s2
  <2>3. Len(s2) = 2 /\ s2[1] = ask /\ s2[2] = look
    BY <2>1, <2>2
  <2>4. /\ IsSequence(s3) /\ Len(s3) = Len(s2) + 1
        /\ \A k \in 1..Len(s2) : s3[k] = s2[k]
        /\ s3[Len(s2) + 1] = free
    BY Zenon, <2>2, OneMoreCall
  <2> HIDE DEF s3
  <2>5. Len(s3) = 3 /\ s3[1] = ask /\ s3[2] = look /\ s3[3] = free
    BY <2>3, <2>4
  <2> QED
    BY <1>1, <2>4, <2>5
<1>3. /\ IsSequence(t) /\ Len(t) = 3
      /\ t[1].op = "malloc" /\ t[1].ptr = p /\ t[1].size = size /\ ~t[1].loop
      /\ t[2].op = "check_held" /\ t[2].ptrs = {p}
      /\ t[3].op = "free" /\ t[3].ptr = p
  BY <1>2 DEF ask, look, free
<1>4. /\ Needs(t[1]) = {} /\ Unseen(t[1]) = {p}
      /\ Gives(t[1]) = {<<p, "value">>, <<p, "block">>}
      /\ Needs(t[2]) = {<<p, "block">>} /\ Unseen(t[2]) = {} /\ Looks(t[2]) = {p}
      /\ Needs(t[3]) = {<<p, "value">>} /\ Unseen(t[3]) = {}
  BY <1>3 DEF Needs, Gives, Unseen, Looks
<1>5. 1..Len(t) = {1, 2, 3} /\ 1 \in 1..(2 - 1) /\ 1 \in 1..(3 - 1) /\ 2 \in (1 + 1)..Len(t)
  BY <1>3
<1>6. \A k \in 1..Len(t) : \A r \in Needs(t[k]) :
        r \in Given(A) \/ \E i \in 1..(k - 1) : r \in Gives(t[i])
  BY <1>4, <1>5
<1>7. Given({p}) = {<<p, "value">>, <<p, "block">>}
  BY DEF Given
<1>8. \A r \in Given({p}) : \E i \in 1..Len(t) : r \in Gives(t[i])
  BY <1>4, <1>5, <1>7
<1>9. \A k \in 1..Len(t) : \A q \in Unseen(t[k]) :
        q \in {} \/ \E j \in (k + 1)..Len(t) : q \in Looks(t[j])
  BY <1>4, <1>5
<1>10. Careful(s, Given(A), {})
  BY DEF Carefully
<1>11. Careful(s \o t, Given(A) \cup Given({p}), ({} \ {}) \cup {})
  <2> HIDE DEF Given
  <2> QED
    BY <1>3, <1>6, <1>8, <1>9, <1>10, CarefulGrows
<1>12. Given(A) \cup Given({p}) = Given(A \cup {p}) /\ ({} \ {}) \cup {} = {}
  BY DEF Given
<1> QED
  BY <1>11, <1>12 DEF Carefully, t

(* A test that looks at every block it gets, and uses no pointer that it   *)
(* has not given a value.                                                  *)
SafeTest(s) == \E G : Careful(s, G, {})

LEMMA SafeTests ==
  ASSUME NEW s, NEW A, Carefully(s, A, {})
  PROVE  SafeTest(s)
BY DEF Carefully, SafeTest

LEMMA SizesNotZero ==
  /\ CHUNK # 0 /\ CHUNK * N_PTRS # 0 /\ CHUNK \div 2 # 0 /\ CHUNK * 3 # 0
  /\ SMALL # 0 /\ SMALL * M # 0
  /\ \A k \in 1..N_ALIGN : 1 + (k - 1) * 13 \in Nat \ {0}
<1>1. \A i, j \in Nat \ {0} : i * j # 0
  OBVIOUS
<1>2. \A i \in Nat : i > 1 => i \div 2 # 0
  OBVIOUS
<1>3. CHUNK \in Nat /\ CHUNK > 1
  BY ScaleAssumption
<1> QED
  BY <1>1, <1>2, <1>3, ScaleAssumption

LEMMA ShortTestsSafe ==
  SafeTest(test_basic) /\ SafeTest(test_write_read)
<1>1. \A p, size : size # 0 => Carefully(Enter \o AllocCheckFree(p, size), {} \cup {p}, {})
  BY CarefullyEntered, CarefullyWhole
<1>2. 128 # 0 /\ 1024 # 0
  OBVIOUS
<1>3. SafeTest(test_write_read)
  <2>1. Carefully(test_write_read, {} \cup {0}, {})
    BY <1>1, <1>2 DEF test_write_read
  <2> QED
    BY <2>1, SafeTests
<1>4. Carefully(test_basic, ({} \cup {0}) \cup {1}, {})
  <2> DEFINE s == Enter \o AllocCheckFree(0, 128)
             t == AllocCheckFree(1, 128)
  <2>1. Carefully(s, {} \cup {0}, {})
    BY <1>1, <1>2
  <2>2. test_basic = s \o t
    BY DEF test_basic
  <2> HIDE DEF s
  <2>3. Carefully(s \o t, ({} \cup {0}) \cup {1}, {})
    BY <1>2, <2>1, CarefullyWhole
  <2> QED
    BY <2>2, <2>3
<1> QED
  BY <1>3, <1>4, SafeTests

LEMMA LoopTestSafe ==
  ASSUME NEW ps \in [1..N_PTRS -> 0..(N_PTRS - 1)]
  PROVE  LET s == Enter \o MallocLoop(N_PTRS, CHUNK) \o CheckHeld(0..(N_PTRS - 1), FALSE)
                  \o FreeEach(ps) \o AllocCheckFree(big, CHUNK * N_PTRS)
         IN SafeTest(s)
<1> DEFINE s1 == Enter \o MallocLoop(N_PTRS, CHUNK)
           s2 == s1 \o CheckHeld(0..(N_PTRS - 1), FALSE)
           s3 == s2 \o FreeEach(ps)
           F == 0..(N_PTRS - 1)
<1>1. Carefully(s1, {} \cup F, {} \cup F)
  BY Numbers, SizesNotZero, CarefullyEntered, CarefullyGiven
<1>2. {} \cup F = F /\ F \ F = {}
  OBVIOUS
<1>3. Carefully(s2, F, F \ F)
  <2>1. Carefully(s1, F, F)
    BY <1>1, <1>2
  <2> HIDE DEF s1
  <2> QED
    BY <2>1, CarefullyHeld
<1>4. Carefully(s3, F, {})
  <2>1. Carefully(s2, F, {})
    BY <1>2, <1>3
  <2> HIDE DEF s2
  <2> QED
    BY <2>1, Numbers, CarefullyFreed
<1> HIDE DEF s3, F
<1>5. Carefully(s3 \o AllocCheckFree(big, CHUNK * N_PTRS), F \cup {big}, {})
  BY <1>4, SizesNotZero, CarefullyWhole
<1> QED
  BY <1>5, SafeTests DEF s3

LEMMA LoopTestsSafe ==
  SafeTest(test_multi_alloc_free_forward) /\ SafeTest(test_multi_alloc_free_reverse)
<1>1. [k \in 1..N_PTRS |-> k - 1] \in [1..N_PTRS -> 0..(N_PTRS - 1)]
  BY Numbers
<1>2. [k \in 1..N_PTRS |-> N_PTRS - k] \in [1..N_PTRS -> 0..(N_PTRS - 1)]
  BY Numbers
<1> QED
  BY <1>1, <1>2, LoopTestSafe
     DEF test_multi_alloc_free_forward, test_multi_alloc_free_reverse

LEMMA FragmentationTestSafe == SafeTest(test_fragmentation)
<1> DEFINE s1 == Enter \o Malloc(0, CHUNK)
           s2 == s1 \o Malloc(1, CHUNK)
           s3 == s2 \o Malloc(2, CHUNK)
           s4 == s3 \o CheckHeld(0..2, FALSE)
           s5 == s4 \o Free(1)
           s6 == s5 \o Malloc(3, CHUNK \div 2)
           s7 == s6 \o CheckHeld({3}, FALSE)
           s8 == s7 \o Free(0)
           s9 == s8 \o Free(3)
           s10 == s9 \o Free(2)
<1>1. /\ ({} \cup {0}) \cup {1} = {0, 1} /\ {0, 1} \cup {2} = 0..2 /\ 0..2 \ 0..2 = {}
      /\ 1 \in 0..2 /\ 0..2 \cup {3} = 0..3 /\ {} \cup {3} = {3} /\ {3} \ {3} = {}
      /\ {0, 3, 2} \subseteq 0..3 /\ {3} \in SUBSET 0..3 /\ 0..2 \in SUBSET 0..2
  OBVIOUS
<1>2. Carefully(s2, ({} \cup {0}) \cup {1}, ({} \cup {0}) \cup {1})
  <2>1. Carefully(s1, {} \cup {0}, {} \cup {0})
    BY SizesNotZero, CarefullyEntered, CarefullyGiven
  <2> HIDE DEF s1
  <2> QED
    BY <2>1, SizesNotZero, CarefullyGiven
<1>3. Carefully(s3, 0..2, 0..2)
  <2> HIDE DEF s2
  <2>1. Carefully(s2, {0, 1}, {0, 1})
    BY <1>1, <1>2
  <2>2. Carefully(s3, {0, 1} \cup {2}, {0, 1} \cup {2})
    BY <2>1, SizesNotZero, CarefullyGiven
  <2> QED
    BY <1>1, <2>2
<1>4. Carefully(s4, 0..2, {})
  <2> HIDE DEF s3
  <2>1. Carefully(s4, 0..2, 0..2 \ 0..2)
    BY <1>1, <1>3, CarefullyHeld
  <2> QED
    BY <1>1, <2>1
<1>5. Carefully(s5, 0..2, {})
  <2> HIDE DEF s4
  <2> QED
    BY <1>1, <1>4, CarefullyFreed
<1>6. Carefully(s6, 0..3, {3})
  <2> HIDE DEF s5
  <2>1. Carefully(s6, 0..2 \cup {3}, {} \cup {3})
    BY <1>5, SizesNotZero, CarefullyGiven
  <2> QED
    BY <1>1, <2>1
<1>7. Carefully(s7, 0..3, {})
  <2> HIDE DEF s6
  <2>1. Carefully(s7, 0..3, {3} \ {3})
    BY <1>1, <1>6, CarefullyHeld
  <2> QED
    BY <1>1, <2>1
<1>8. Carefully(s8, 0..3, {})
  <2> HIDE DEF s7
  <2> QED
    BY <1>1, <1>7, CarefullyFreed
<1>9. Carefully(s9, 0..3, {})
  <2> HIDE DEF s8
  <2> QED
    BY <1>1, <1>8, CarefullyFreed
<1>10. Carefully(s10, 0..3, {})
  <2> HIDE DEF s9
  <2> QED
    BY <1>1, <1>9, CarefullyFreed
<1> HIDE DEF s10
<1>11. Carefully(s10 \o AllocCheckFree(big, CHUNK * 3), 0..3 \cup {big}, {})
  BY <1>10, SizesNotZero, CarefullyWhole
<1> QED
  BY <1>11, SafeTests DEF test_fragmentation, s10

LEMMA AlignmentTestSafe == SafeTest(test_alignment)
<1> DEFINE sizes == [k \in 1..N_ALIGN |-> 1 + (k - 1) * 13]
           ps == [k \in 1..N_ALIGN |-> k - 1]
           F == 0..(N_ALIGN - 1)
           s1 == Enter \o MallocEach(sizes)
           s2 == s1 \o CheckHeld(F, TRUE)
           s3 == s2 \o FreeEach(ps)
<1>1. sizes \in [1..N_ALIGN -> Nat \ {0}]
  BY SizesNotZero
<1>2. ps \in [1..N_ALIGN -> F] /\ N_ALIGN \in Nat
  BY Numbers
<1> HIDE DEF sizes, ps
<1>3. Carefully(s1, F, F)
  <2>1. Carefully(s1, {} \cup F, {} \cup F)
    BY <1>1, <1>2, CarefullyEntered, CarefullyGiven
  <2>2. {} \cup F = F
    OBVIOUS
  <2> HIDE DEF F, s1
  <2> QED
    BY <2>1, <2>2
<1> HIDE DEF F
<1>4. Carefully(s2, F, {})
  <2> HIDE DEF s1
  <2>1. Carefully(s2, F, F \ F)
    BY <1>3, CarefullyHeld
  <2>2. F \ F = {}
    OBVIOUS
  <2> QED
    BY <2>1, <2>2
<1>5. Carefully(s3, F, {})
  <2> HIDE DEF s2
  <2> QED
    BY <1>2, <1>4, CarefullyFreed
<1> QED
  BY <1>5, SafeTests DEF test_alignment, sizes, ps, F

LEMMA CoalesceTestSafe == SafeTest(test_full_coalesce)
<1> DEFINE half == (M + 1) \div 2
           rest == M \div 2
           even == [k \in 1..half |-> 2 * k - 2]
           odd == [k \in 1..rest |-> 2 * k - 1]
           F == 0..(M - 1)
           s1 == Enter \o MallocLoop(M, SMALL)
           s2 == s1 \o CheckHeld(F, FALSE)
           s3 == s2 \o FreeEach(even)
           s4 == s3 \o FreeEach(odd)
<1>1. half \in Nat /\ rest \in Nat /\ 2 * half <= M + 1 /\ 2 * rest <= M
  BY Numbers
<1> HIDE DEF half, rest
<1>2. even \in [1..half -> F] /\ odd \in [1..rest -> F]
  BY <1>1, Numbers
<1> HIDE DEF even, odd
<1>3. Carefully(s1, F, F)
  <2>1. Carefully(s1, {} \cup F, {} \cup F)
    BY Numbers, SizesNotZero, CarefullyEntered, CarefullyGiven
  <2>2. {} \cup F = F
    OBVIOUS
  <2> HIDE DEF F, s1
  <2> QED
    BY <2>1, <2>2
<1> HIDE DEF F
<1>4. Carefully(s2, F, {})
  <2> HIDE DEF s1
  <2>1. Carefully(s2, F, F \ F)
    BY <1>3, CarefullyHeld
  <2>2. F \ F = {}
    OBVIOUS
  <2> QED
    BY <2>1, <2>2
<1>5. Carefully(s3, F, {})
  <2> HIDE DEF s2
  <2> QED
    BY <1>1, <1>2, <1>4, CarefullyFreed
<1>6. Carefully(s4, F, {})
  <2> HIDE DEF s3
  <2> QED
    BY <1>1, <1>2, <1>5, CarefullyFreed
<1> HIDE DEF s4
<1>7. Carefully(s4 \o AllocCheckFree(big, SMALL * M), F \cup {big}, {})
  BY <1>6, SizesNotZero, CarefullyWhole
<1> QED
  BY <1>7, SafeTests DEF test_full_coalesce, s4, even, odd, half, rest, F

(* NULL for no bytes: it is looked for, and can be freed. *)
LEMMA ZeroTestSafe == SafeTest(test_zero_alloc)
<1> DEFINE G == {<<0, "value">>, <<0, "null">>}
           s1 == Enter \o Malloc(0, 0)
           s2 == s1 \o CheckNull(0)
           s3 == s2 \o Free(0)
<1>1. Careful(s1, G, {})
  <2> DEFINE t == Malloc(0, 0)
  <2>1. /\ IsSequence(t) /\ Len(t) = 1
        /\ t[1] = [op |-> "malloc", ptr |-> 0, size |-> 0, loop |-> FALSE]
    BY SingleFacts DEF Malloc
  <2>2. Needs(t[1]) = {} /\ Unseen(t[1]) = {} /\ Gives(t[1]) = G
    BY <2>1 DEF Needs, Unseen, Gives
  <2>3. Careful(Enter, Given({}), {})
    BY CarefullyEntered DEF Carefully
  <2> HIDE DEF t, G
  <2>4. 1..Len(t) = {1}
    BY <2>1
  <2>5. Careful(Enter \o t, Given({}) \cup G, ({} \ {}) \cup {})
    <3> HIDE DEF Given
    <3> QED
      BY <2>1, <2>2, <2>3, <2>4, CarefulGrows
  <2>6. Given({}) \cup G = G /\ ({} \ {}) \cup {} = {}
    BY DEF Given
  <2> QED
    BY <2>5, <2>6 DEF t
<1>2. ASSUME NEW s, Careful(s, G, {}), NEW c, Needs(c) \subseteq G, Unseen(c) = {}
      PROVE  Careful(s \o <<c>>, G, {})
  <2> DEFINE t == <<c>>
  <2>1. IsSequence(t) /\ Len(t) = 1 /\ t[1] = c
    BY SingleFacts
  <2> HIDE DEF t, G
  <2>2. 1..Len(t) = {1}
    BY <2>1
  <2>3. Careful(s \o t, G \cup {}, ({} \ {}) \cup {})
    BY <1>2, <2>1, <2>2, CarefulGrows
  <2>4. G \cup {} = G /\ ({} \ {}) \cup {} = {}
    OBVIOUS
  <2> QED
    BY <2>3, <2>4 DEF t
<1>3. /\ Needs([op |-> "check_null", ptr |-> 0]) \subseteq G
      /\ Unseen([op |-> "check_null", ptr |-> 0]) = {}
      /\ Needs([op |-> "free", ptr |-> 0]) \subseteq G
      /\ Unseen([op |-> "free", ptr |-> 0]) = {}
  BY DEF Needs, Unseen
<1> HIDE DEF G
<1>4. Careful(s2, G, {})
  <2> HIDE DEF s1
  <2> QED
    BY <1>1, <1>2, <1>3 DEF CheckNull
<1>5. Careful(s3, G, {})
  <2> HIDE DEF s2
  <2> QED
    BY <1>2, <1>3, <1>4 DEF Free
<1> QED
  BY <1>5 DEF SafeTest, test_zero_alloc

(* What a call relies on is given by a call before it, and every block     *)
(* that is asked for is looked at later, both within the test.             *)
Foreseen(s) ==
  /\ IsSequence(s)
  /\ \A k \in 1..Len(s) : \A r \in Needs(s[k]) : \E i \in 1..(k - 1) :
       /\ r \in Gives(s[i])
       /\ \A m \in (i + 1)..k : s[m].op # "enter"
  /\ \A k \in 1..Len(s) : \A p \in Unseen(s[k]) : \E j \in (k + 1)..Len(s) :
       /\ p \in Looks(s[j])
       /\ \A m \in (k + 1)..j : s[m].op # "enter"

LEMMA ForeseenJoin ==
  ASSUME NEW s, Foreseen(s), NEW t, Test(t), SafeTest(t)
  PROVE  Foreseen(s \o t)
<1> DEFINE u == s \o t
           n == Len(s)
<1>1. IsSequence(s) /\ IsSequence(t)
  BY DEF Foreseen, Test, Begun, Calls
<1>2. /\ IsSequence(u) /\ n \in Nat /\ Len(t) \in Nat /\ Len(u) = n + Len(t)
      /\ \A k \in 1..n : u[k] = s[k]
      /\ \A k \in 1..Len(u) : k > n => k - n \in 1..Len(t) /\ u[k] = t[k - n]
  BY <1>1, Concatenation
<1>3. \A l \in 1..Len(t) : l + n \in 1..Len(u) /\ u[l + n] = t[l]
  <2>1. \A l \in 1..Len(t) : l + n \in 1..Len(u) /\ l + n > n /\ (l + n) - n = l
    BY <1>2
  <2> QED
    BY <1>2, <2>1
<1>4. \A l \in 2..Len(t) : t[l].op # "enter"
  BY DEF Test, Begun
<1>5. \A m \in (n + 2)..Len(u) : u[m].op # "enter"
  <2>1. \A m \in (n + 2)..Len(u) : m \in 1..Len(u) /\ m > n /\ m - n \in 2..Len(t)
    BY <1>2
  <2> QED
    BY <1>2, <1>4, <2>1
<1>6. PICK G : Careful(t, G, {})
  BY DEF SafeTest
<1> HIDE DEF u
<1>7. ASSUME NEW k \in 1..Len(u), NEW r \in Needs(u[k])
      PROVE  \E i \in 1..(k - 1) :
               r \in Gives(u[i]) /\ \A m \in (i + 1)..k : u[m].op # "enter"
  <2>1. CASE k \in 1..n
    <3>1. PICK i \in 1..(k - 1) :
            r \in Gives(s[i]) /\ \A m \in (i + 1)..k : s[m].op # "enter"
      BY <1>2, <1>7, <2>1 DEF Foreseen
    <3>2. i \in 1..n /\ \A m \in (i + 1)..k : m \in 1..n
      BY <1>2, <2>1
    <3> QED
      BY <1>2, <3>1, <3>2
  <2>2. CASE k \notin 1..n
    <3>1. k > n /\ k - n \in 1..Len(t) /\ u[k] = t[k - n]
      BY <1>2, <2>2
    <3>2. PICK i \in 1..((k - n) - 1) : r \in Gives(t[i])
      BY <1>6, <1>7, <3>1 DEF Careful
    <3>3. /\ i \in 1..Len(t) /\ i + n \in 1..(k - 1)
          /\ \A m \in ((i + n) + 1)..k : m \in (n + 2)..Len(u)
      BY <1>2, <3>1
    <3> QED
      BY <1>3, <1>5, <3>2, <3>3
  <2> QED
    BY <2>1, <2>2
<1>8. ASSUME NEW k \in 1..Len(u), NEW p \in Unseen(u[k])
      PROVE  \E j \in (k + 1)..Len(u) :
               p \in Looks(u[j]) /\ \A m \in (k + 1)..j : u[m].op # "enter"
  <2>1. CASE k \in 1..n
    <3>1. PICK j \in (k + 1)..n :
            p \in Looks(s[j]) /\ \A m \in (k + 1)..j : s[m].op # "enter"
      BY <1>2, <1>8, <2>1 DEF Foreseen
    <3>2. /\ j \in 1..n /\ j \in (k + 1)..Len(u)
          /\ \A m \in (k + 1)..j : m \in 1..n
      BY <1>2, <2>1
    <3> QED
      BY <1>2, <3>1, <3>2
  <2>2. CASE k \notin 1..n
    <3>1. k > n /\ k - n \in 1..Len(t) /\ u[k] = t[k - n]
      BY <1>2, <2>2
    <3>2. PICK j \in ((k - n) + 1)..Len(t) : p \in Looks(t[j])
      BY <1>6, <1>8, <3>1 DEF Careful
    <3>3. /\ j \in 1..Len(t) /\ j + n \in (k + 1)..Len(u)
          /\ \A m \in (k + 1)..(j + n) : m \in (n + 2)..Len(u)
      BY <1>2, <3>1
    <3> QED
      BY <1>3, <1>5, <3>2, <3>3
  <2> QED
    BY <2>1, <2>2
<1> QED
  BY <1>2, <1>7, <1>8 DEF Foreseen, u

LEMMA ForeseenFirst ==
  ASSUME NEW t, Test(t), SafeTest(t)
  PROVE  Foreseen(t)
<1>1. IsSequence(t) /\ \A l \in 2..Len(t) : t[l].op # "enter"
  BY DEF Test, Begun, Calls
<1>2. Len(t) \in Nat
  BY <1>1 DEF IsSequence
<1>3. PICK G : Careful(t, G, {})
  BY DEF SafeTest
<1>4. ASSUME NEW k \in 1..Len(t), NEW r \in Needs(t[k])
      PROVE  \E i \in 1..(k - 1) :
               r \in Gives(t[i]) /\ \A m \in (i + 1)..k : t[m].op # "enter"
  <2>1. PICK i \in 1..(k - 1) : r \in Gives(t[i])
    BY <1>3, <1>4 DEF Careful
  <2>2. \A m \in (i + 1)..k : m \in 2..Len(t)
    BY <1>2
  <2> QED
    BY <1>1, <2>1, <2>2
<1>5. ASSUME NEW k \in 1..Len(t), NEW p \in Unseen(t[k])
      PROVE  \E j \in (k + 1)..Len(t) :
               p \in Looks(t[j]) /\ \A m \in (k + 1)..j : t[m].op # "enter"
  <2>1. PICK j \in (k + 1)..Len(t) : p \in Looks(t[j])
    BY <1>3, <1>5 DEF Careful
  <2>2. \A m \in (k + 1)..j : m \in 2..Len(t)
    BY <1>2
  <2> QED
    BY <1>1, <2>1, <2>2
<1> QED
  BY <1>1, <1>4, <1>5 DEF Foreseen

(* No test of mem_test uses a pointer before it has given it a value, and  *)
(* none leaves a pointer that it asked memory for unchecked.               *)
THEOREM EveryPointerChecked == Foreseen(mem_test_calls)
<1>1. \A s, t : Foreseen(s) /\ Test(t) /\ SafeTest(t) => Foreseen(s \o t)
  BY ForeseenJoin
<1>2. Foreseen(test_basic)
  BY BasicTest, ShortTestsSafe, ForeseenFirst
<1> QED
  BY <1>1, <1>2, LoopTests, FragmentationTest, AlignmentTest, WriteReadTest,
     CoalesceTest, ZeroTest, ShortTestsSafe, LoopTestsSafe, FragmentationTestSafe,
     AlignmentTestSafe, CoalesceTestSafe, ZeroTestSafe DEF mem_test_calls

-----------------------------------------------------------------------------
(* The programs on the allocator and the AME.                              *)
Sizes == TestSizes \cup {InputSize, 4 * InputSize}

(* The allocator with what is proved of it. *)
P == INSTANCE MemAlloc_proofs WITH Requests <- TestSizes \cup {InputSize, 4 * InputSize}

LEMMA SizesAreNumbers == \A s \in Sizes : s \in Nat
<1>1. \A k \in 0..(N_ALIGN - 1) : 1 + k * 13 \in Nat
  BY ScaleAssumption
<1>2. /\ CHUNK * N_PTRS \in Nat /\ CHUNK \div 2 \in Nat /\ CHUNK * 3 \in Nat
      /\ SMALL * M \in Nat /\ CHUNK \in Nat /\ SMALL \in Nat
  BY ScaleAssumption
<1>3. InputSize \in Nat /\ 4 * InputSize \in Nat
  BY TestAssumption
<1> QED
  BY <1>1, <1>2, <1>3 DEF Sizes, TestSizes

(* The programs keep to what the allocator assumes. *)
LEMMA PoolFits == P!PoolAssumption /\ P!RequestAssumption /\ P!NullAssumption
<1>1. P!PoolAssumption
  BY PoolAssumption DEF P!PoolAssumption, P!ALIGN, P!FREE_HDR_SIZE
<1>2. P!RequestAssumption
  BY PoolAssumption, SizesAreNumbers
     DEF Sizes, P!RequestAssumption, P!ALIGN, P!ALLOC_HDR_SIZE
<1>3. P!NullAssumption
  BY TestAssumption DEF P!NullAssumption
<1> QED
  BY <1>1, <1>2, <1>3

(* Its definitions here are those the programs use. *)
LEMMA SameFree == \A b : Pool!my_free(b) => P!my_free(b)
BY DEF P!my_free, Pool!my_free, P!FreedBlock, Pool!FreedBlock,
   P!IsInsertionPoint, Pool!IsInsertionPoint, P!Returned, Pool!Returned,
   P!TouchesNext, Pool!TouchesNext, P!TouchesPrev, Pool!TouchesPrev,
   P!Absorb, Pool!Absorb, P!Splice, Pool!Splice, P!Past, Pool!Past,
   P!ALLOC_HDR_SIZE, Pool!ALLOC_HDR_SIZE,
   P!FREE_HDR_SIZE, Pool!FREE_HDR_SIZE

LEMMA SameFirstFit ==
  \A size : Pool!MallocFirstFit(size) <=> P!MallocFirstFit(size)
BY DEF P!MallocFirstFit, Pool!MallocFirstFit,
   P!ListAfterInit, Pool!ListAfterInit, P!WholePool, Pool!WholePool,
   P!Need, Pool!Need, P!align_up, Pool!align_up, P!Wrap, Pool!Wrap,
   P!IsFirstFit, Pool!IsFirstFit, P!Fits, Pool!Fits, P!Taken, Pool!Taken,
   P!Splits, Pool!Splits, P!SplitTail, Pool!SplitTail,
   P!Leftover, Pool!Leftover, P!Splice, Pool!Splice, P!ALIGN, Pool!ALIGN,
   P!ALLOC_HDR_SIZE, Pool!ALLOC_HDR_SIZE,
   P!FREE_HDR_SIZE, Pool!FREE_HDR_SIZE

LEMMA SameOutOfMemory ==
  \A size : Pool!MallocOutOfMemory(size) => P!MallocOutOfMemory(size)
BY DEF P!MallocOutOfMemory, Pool!MallocOutOfMemory,
   P!ListAfterInit, Pool!ListAfterInit, P!WholePool, Pool!WholePool,
   P!Need, Pool!Need, P!align_up, Pool!align_up, P!Wrap, Pool!Wrap,
   P!Fits, Pool!Fits, P!ALIGN, Pool!ALIGN,
   P!ALLOC_HDR_SIZE, Pool!ALLOC_HDR_SIZE,
   P!FREE_HDR_SIZE, Pool!FREE_HDR_SIZE

LEMMA SameDisjoint == \A a, b : P!Disjoint(a, b) => Pool!Disjoint(a, b)
BY DEF P!Disjoint, Pool!Disjoint, P!Past, Pool!Past,
   P!FREE_HDR_SIZE, Pool!FREE_HDR_SIZE

(* What is known of the pool: it is well formed, and no byte is lost.      *)
PoolInv == P!IInv /\ P!Accounts

LEMMA PoolStays == PoolInv /\ UNCHANGED pool => PoolInv'
BY P!StutterKeepsIInv, P!StutterAccounts, PoolFits DEF P!vars, pool, PoolInv

(* No block is taken for a pointer without one. *)
LEMMA BlocksAreReal == PoolInv => NULL \notin live /\ UNINIT \notin live
<1> SUFFICES ASSUME PoolInv, NEW b \in live PROVE b # NULL /\ b # UNINIT
  OBVIOUS
<1>1. b \in [addr : Nat, size : Nat, req : Sizes]
  BY DEF PoolInv, P!IInv, P!GoodLive, P!LiveBlock, Sizes
<1>2. b \in [addr : Nat, size : Nat, req : Nat]
  BY <1>1, SizesAreNumbers
<1> QED
  BY <1>2, TestAssumption

(* A call of my_malloc adds at most the block it returns a pointer to.     *)
LEMMA AskForEffect ==
  ASSUME PoolInv, NEW p, NEW size \in Sizes, AskFor(p, size)
  PROVE  /\ PoolInv'
         /\ \/ ptr' = [ptr EXCEPT ![p] = NULL] /\ live' = live
            \/ \E b : /\ b \notin live /\ live' = live \cup {b}
                     /\ ptr' = [ptr EXCEPT ![p] = b]
<1>1. CASE Pool!MallocZero /\ ptr' = [ptr EXCEPT ![p] = NULL]
  BY <1>1, PoolStays DEF Pool!MallocZero, Pool!vars, pool
<1>2. CASE Pool!MallocMapFails(size) /\ ptr' = [ptr EXCEPT ![p] = NULL]
  BY <1>2, PoolStays DEF Pool!MallocMapFails, Pool!vars, pool
<1>3. CASE Pool!MallocOutOfMemory(size) /\ ptr' = [ptr EXCEPT ![p] = NULL]
  <2>1. P!MallocOutOfMemory(size) /\ live' = live
    BY <1>3, SameOutOfMemory DEF Pool!MallocOutOfMemory
  <2>2. PoolInv'
    BY <2>1, P!OutOfMemoryKeepsIInv, P!OutOfMemoryAccounts, PoolFits DEF Sizes, PoolInv
  <2> QED
    BY <1>3, <2>1, <2>2
<1>4. CASE /\ Pool!MallocFirstFit(size)
           /\ \E b \in live' \ live : ptr' = [ptr EXCEPT ![p] = b]
  <2>1. P!MallocFirstFit(size) /\ \E x : live' = live \cup {x}
    BY <1>4, SameFirstFit DEF Pool!MallocFirstFit
  <2>2. PoolInv'
    BY <2>1, P!FirstFitKeepsIInv, P!FirstFitAccounts, PoolFits DEF Sizes, PoolInv
  <2>3. PICK b \in live' \ live : ptr' = [ptr EXCEPT ![p] = b]
    BY <1>4
  <2>4. b \notin live /\ live' = live \cup {b}
    BY <2>1, <2>3
  <2> QED
    BY <2>2, <2>3, <2>4
<1> QED
  BY <1>1, <1>2, <1>3, <1>4 DEF AskFor

(* A call of my_free of a block that is held takes just that block. *)
LEMMA GiveBackEffect ==
  ASSUME PoolInv, NEW p, ptr[p] \in live \cup {NULL}, GiveBack(p)
  PROVE  PoolInv' /\ ptr' = ptr /\ live' = live \ {ptr[p]}
<1>1. CASE ptr[p] = NULL
  <2>1. UNCHANGED pool /\ ptr' = ptr
    BY <1>1 DEF GiveBack
  <2>2. NULL \notin live /\ live' = live
    BY <2>1, BlocksAreReal DEF pool
  <2> QED
    BY <1>1, <2>1, <2>2, PoolStays
<1>2. CASE ptr[p] # NULL /\ Pool!my_free(ptr[p])
  <2>1. ptr[p] \in live /\ P!my_free(ptr[p]) /\ live' = live \ {ptr[p]}
    BY <1>2, SameFree DEF Pool!my_free
  <2>2. PoolInv'
    BY <2>1, P!FreeKeepsIInv, P!FreeAccounts, PoolFits DEF PoolInv
  <2> QED
    BY <2>1, <2>2 DEF GiveBack
<1> QED
  BY <1>1, <1>2 DEF GiveBack

-----------------------------------------------------------------------------
(* The invariant.  The calls from k on free pointer p before the next test *)
(* is entered.                                                             *)
FreedFrom(k, p) ==
  \E j \in k..Len(mem_test_calls) :
    /\ mem_test_calls[j].op = "free" /\ mem_test_calls[j].ptr = p
    /\ \A m \in k..(j - 1) : mem_test_calls[m].op # "enter"

(* The test that call k is part of has asked for a block for pointer p. *)
AskedBefore(k, p) ==
  \E i \in 1..(k - 1) :
    /\ mem_test_calls[i].op = "malloc" /\ mem_test_calls[i].ptr = p
    /\ \A m \in (i + 1)..(k - 1) : mem_test_calls[m].op # "enter"

(* Block b is the one pointer p was given, and it is still to be freed. *)
Keeps(k, f, p, b) == f[p] = b /\ FreedFrom(k, p) /\ AskedBefore(k, p)

(* With pointers f, at call k, and the blocks of held held: those that      *)
(* mem_test is still to free have no value, or are to blocks of their own, *)
(* and every block held is among them.                                     *)
TestPointers(k, f, held) ==
  /\ k \in 1..(Len(mem_test_calls) + 1) /\ DOMAIN f = Slots
  /\ \A b \in held : \E p \in Slots : Keeps(k, f, p, b)
  /\ \A p \in Slots : FreedFrom(k, p) => f[p] \in held \cup {NULL, UNINIT}
  /\ \A p, q \in Slots :
       p # q /\ FreedFrom(k, p) /\ FreedFrom(k, q) /\ f[p] = f[q] =>
         f[p] \in {NULL, UNINIT}

Count(a) == Len(Buffers(a))

(* The buffers before the k-th have been asked for, and no others. *)
Allocated(a, k, f, held) ==
  /\ k \in 1..(Count(a) + 1) /\ DOMAIN f = Range(Buffers(a))
  /\ \A b \in held : \E i \in 1..Count(a) : i < k /\ f[Buffers(a)[i]] = b
  /\ \A i \in 1..Count(a) : i < k => f[Buffers(a)[i]] \in held \cup {NULL}
  /\ \A i, j \in 1..Count(a) :
       i < j /\ j < k /\ f[Buffers(a)[i]] = f[Buffers(a)[j]] =>
         f[Buffers(a)[i]] = NULL

(* The buffers from the k-th on are the blocks that are held, one each. *)
Owned(a, k, f, held) ==
  /\ \A b \in held : \E i \in 1..Count(a) : k <= i /\ f[Buffers(a)[i]] = b
  /\ \A i \in 1..Count(a) : k <= i => f[Buffers(a)[i]] \in held
  /\ \A i, j \in 1..Count(a) :
       k <= i /\ i < j => f[Buffers(a)[i]] # f[Buffers(a)[j]]

PointersInv ==
  /\ pc = "mem_test" => TestPointers(step, ptr, live)
  /\ pc = "alloc" => Allocated(app, step, ptr, live)
  /\ pc \in {"fill", "kernel", "issue", "acquire", "compare"} =>
       Owned(app, 1, ptr, live)
  /\ pc = "cleanup" => step \in 1..(Count(app) + 1) /\ Owned(app, step, ptr, live)
  /\ pc = "over" /\ status # 1 => live = {}

HeapInv == PoolInv /\ PointersInv

(* Where an instruction is in the kernel. *)
Rank == [mzero |-> 0, mlc |-> 1, mla |-> 2, mlb |-> 3, mmacc |-> 4, msc |-> 5,
         mrelease |-> 6]

Before(x, y) == Rank[x.op] < Rank[y.op]

Shift(mzero) == IF mzero THEN 1 ELSE 0

AMEInstructions ==
  {Instr("mzero", {}, {"acc0"}), Instr("mlc", {"C"}, {"acc0"}),
   Instr("mla", {"A"}, {"tr0"}), Instr("mlb", {"B"}, {"tr1"}),
   Instr("mmacc", {"acc0", "tr0", "tr1"}, {"acc0"}),
   Instr("msc", {"acc0"}, {"C"}), Instr("mrelease", {}, {"sync1"})}

Instructions == UNION {{Kernel(m)[k] : k \in 1..Len(Kernel(m))} : m \in BOOLEAN}

(* While instructions are issued the sync register is zero and none of     *)
(* them is the release; while the CPU waits it is zero as long as the      *)
(* release is in flight, the last of all.                                  *)
QueueInv ==
  /\ queue \in Seq(Instructions)
  /\ pc \notin {"issue", "acquire"} => queue = << >>
  /\ pc = "issue" =>
       /\ step \in 1..Len(Kernel(build.mzero_acc)) /\ sync1 = 0
       /\ \A i \in 1..Len(queue) : queue[i].op # "mrelease"
  /\ pc = "acquire" =>
       \/ sync1 = 1 /\ queue = << >>
       \/ /\ sync1 = 0 /\ queue # << >>
          /\ \A i \in 1..Len(queue) : queue[i].op = "mrelease" <=> i = Len(queue)

IInv == app \in Apps /\ build.mzero_acc \in BOOLEAN /\ HeapInv /\ QueueInv

-----------------------------------------------------------------------------
LEMMA BufferFacts ==
  ASSUME NEW a \in Apps
  PROVE  /\ Count(a) \in Nat /\ Range(Buffers(a)) = {Buffers(a)[k] : k \in 1..Count(a)}
         /\ DOMAIN Buffers(a) = 1..Count(a)
         /\ \A j, k \in 1..Count(a) : j < k => Buffers(a)[j] # Buffers(a)[k]
         /\ \A k \in 1..Count(a) : BufferSize(Buffers(a)[k]) \in Sizes
<1>1. CASE a = "hello_xsai"
  <2>1. Buffers(a) = <<"A", "B", "C", "ref">>
    BY <1>1 DEF Buffers
  <2> QED
    BY <2>1 DEF Count, Range, BufferSize, Sizes
<1>2. CASE a = "gemm_precomp"
  <2>1. Buffers(a) = <<"A", "B", "C">>
    BY <1>2 DEF Buffers
  <2> QED
    BY <2>1 DEF Count, Range, BufferSize, Sizes
<1> QED
  BY <1>1, <1>2 DEF Apps

(* The kernel ends in its only release. *)
LEMMA KernelFacts ==
  ASSUME NEW mzero \in BOOLEAN
  PROVE  /\ Len(Kernel(mzero)) = 6 + Shift(mzero)
         /\ \A k \in 1..Len(Kernel(mzero)) :
              /\ Kernel(mzero)[k] \in AMEInstructions
              /\ Rank[Kernel(mzero)[k].op] = k - Shift(mzero)
<1> DEFINE tail == <<Instr("mlc", {"C"}, {"acc0"}), Instr("mla", {"A"}, {"tr0"}),
                     Instr("mlb", {"B"}, {"tr1"}),
                     Instr("mmacc", {"acc0", "tr0", "tr1"}, {"acc0"}),
                     Instr("msc", {"acc0"}, {"C"}), Instr("mrelease", {}, {"sync1"})>>
           first == <<Instr("mzero", {}, {"acc0"})>>
           Good(s, k, r) == s[k] \in AMEInstructions /\ Rank[s[k].op] = r
<1>1. /\ IsSequence(tail) /\ Len(tail) = 6
      /\ \A k \in 1..6 : Good(tail, k, k)
  <2>1. tail \in Seq({tail[k] : k \in 1..6}) /\ Len(tail) = 6
    OBVIOUS
  <2>2. IsSequence(tail)
    BY <2>1, SequenceOf
  <2>3. \A k \in 1..6 : tail[k] \in AMEInstructions
    BY DEF AMEInstructions
  <2>4. \A k \in 1..6 : Rank[tail[k].op] = k
    BY DEF Instr, Rank
  <2> QED
    BY <2>1, <2>2, <2>3, <2>4
<1>2. IsSequence(first) /\ Len(first) = 1 /\ Good(first, 1, 0)
  <2>1. first \in Seq({first[1]}) /\ Len(first) = 1
    OBVIOUS
  <2>2. first[1] \in AMEInstructions
    BY DEF AMEInstructions
  <2> QED
    BY <2>1, <2>2, SequenceOf DEF Instr, Rank
<1>3. IsSequence(<< >>) /\ Len(<< >>) = 0
  <2>1. << >> \in Seq({}) /\ Len(<< >>) = 0
    OBVIOUS
  <2> QED
    BY <2>1, SequenceOf
<1>4. Kernel(mzero) = (IF mzero THEN first ELSE << >>) \o tail
  BY DEF Kernel
<1> HIDE DEF tail, first
<1>5. CASE mzero
  <2> DEFINE u == first \o tail
  <2>1. /\ Len(u) = 7 /\ u[1] = first[1]
        /\ \A k \in 2..7 : u[k] = tail[k - 1]
    <3> HIDE DEF u
    <3>1. u = first \o tail
      BY DEF u
    <3>2. IsSequence(first) /\ IsSequence(tail)
      BY <1>1, <1>2
    <3>3. /\ Len(first \o tail) = Len(first) + Len(tail)
          /\ \A k \in 1..Len(first) : (first \o tail)[k] = first[k]
          /\ \A k \in 1..Len(first \o tail) :
               k > Len(first) => (first \o tail)[k] = tail[k - Len(first)]
      BY <3>2, Concatenation, Zenon
    <3> QED
      BY <1>1, <1>2, <3>1, <3>3
  <2>2. Kernel(mzero) = u
    BY <1>4, <1>5
  <2> HIDE DEF u, Good
  <2>3. \A k \in 2..7 : Good(u, k, k - 1)
    <3>1. \A k \in 2..7 : k - 1 \in 1..6
      OBVIOUS
    <3> QED
      BY <1>1, <2>1, <3>1 DEF Good
  <2>4. Good(u, 1, 1 - 1)
    BY <1>2, <2>1 DEF Good
  <2>5. \A k \in 1..7 : Good(u, k, k - 1)
    <3>1. \A k \in 1..7 : k = 1 \/ k \in 2..7
      OBVIOUS
    <3> QED
      BY <2>3, <2>4, <3>1
  <2>6. Shift(mzero) = 1
    BY <1>5 DEF Shift
  <2>7. Len(u) = 6 + 1 /\ \A k \in 1..Len(u) : u[k] \in AMEInstructions /\ Rank[u[k].op] = k - 1
    BY <2>1, <2>5 DEF Good
  <2> QED
    BY <2>2, <2>6, <2>7
<1>6. CASE ~mzero
  <2> DEFINE u == << >> \o tail
  <2>1. /\ Len(u) = Len(<< >>) + Len(tail)
        /\ \A k \in 1..Len(u) : k > Len(<< >>) => u[k] = tail[k - Len(<< >>)]
    BY <1>1, <1>3, Concatenation
  <2>2. Kernel(mzero) = u
    BY <1>4, <1>6
  <2> HIDE DEF u, Good
  <2>3. Len(u) = 6 /\ \A k \in 1..6 : u[k] = tail[k] /\ k - 0 = k
    <3>1. Len(u) = 6 /\ \A k \in 1..6 : u[k] = tail[k - 0]
      BY <1>1, <1>3, <2>1
    <3>2. \A k \in 1..6 : k - 0 = k
      OBVIOUS
    <3> QED
      BY <3>1, <3>2
  <2>4. \A k \in 1..6 : Good(u, k, k - 0)
    BY <1>1, <2>3 DEF Good
  <2> QED
    BY <1>6, <2>2, <2>3, <2>4 DEF Good, Shift
<1> QED
  BY <1>5, <1>6

(* The release is the last. *)
LEMMA ReleaseIsLast ==
  ASSUME NEW mzero \in BOOLEAN
  PROVE  /\ Len(Kernel(mzero)) \in Nat /\ Len(Kernel(mzero)) >= 1
         /\ \A k \in 1..Len(Kernel(mzero)) :
              Kernel(mzero)[k].op = "mrelease" <=> k = Len(Kernel(mzero))
<1>1. \A x \in AMEInstructions : x.op = "mrelease" <=> Rank[x.op] = 6
  BY DEF AMEInstructions, Instr, Rank
<1>2. Shift(mzero) \in {0, 1}
  BY DEF Shift
<1> QED
  BY <1>1, <1>2, KernelFacts

(* An instruction is told by its place. *)
LEMMA InstructionFacts ==
  \A x, y \in AMEInstructions :
    /\ Rank[x.op] \in 0..6
    /\ x.op = y.op => x = y
    /\ Rank[x.op] = Rank[y.op] => x = y
BY DEF AMEInstructions, Instr, Rank

(* What an instruction must wait for. *)
LEMMA Dependencies ==
  \A x, y \in AMEInstructions :
    /\ x.op = "mlc" /\ y.op = "mzero" => DependsOn(x, y) /\ Before(y, x)
    /\ x.op = "mmacc" /\ y.op \in {"mlc", "mla", "mlb"} =>
         DependsOn(x, y) /\ Before(y, x)
    /\ x.op = "msc" /\ y.op = "mmacc" => DependsOn(x, y) /\ Before(y, x)
<1> SUFFICES ASSUME NEW x \in AMEInstructions, NEW y \in AMEInstructions
             PROVE  /\ x.op = "mlc" /\ y.op = "mzero" => DependsOn(x, y) /\ Before(y, x)
                    /\ x.op = "mmacc" /\ y.op \in {"mlc", "mla", "mlb"} =>
                         DependsOn(x, y) /\ Before(y, x)
                    /\ x.op = "msc" /\ y.op = "mmacc" => DependsOn(x, y) /\ Before(y, x)
  OBVIOUS
<1>1. CASE x.op = "mlc" /\ y.op = "mzero"
  <2>1. "acc0" \in x.writes /\ "acc0" \in y.writes
    BY <1>1 DEF AMEInstructions, Instr
  <2> QED
    BY <1>1, <2>1 DEF DependsOn, Before, Rank
<1>2. CASE x.op = "mmacc" /\ y.op \in {"mlc", "mla", "mlb"}
  <2>1. \/ "acc0" \in x.reads /\ "acc0" \in y.writes
        \/ "tr0" \in x.reads /\ "tr0" \in y.writes
        \/ "tr1" \in x.reads /\ "tr1" \in y.writes
    BY <1>2 DEF AMEInstructions, Instr
  <2> QED
    BY <1>2, <2>1 DEF DependsOn, Before, Rank
<1>3. CASE x.op = "msc" /\ y.op = "mmacc"
  <2>1. "acc0" \in x.reads /\ "acc0" \in y.writes
    BY <1>3 DEF AMEInstructions, Instr
  <2> QED
    BY <1>3, <2>1 DEF DependsOn, Before, Rank
<1> QED
  BY <1>1, <1>2, <1>3

LEMMA RemoveFacts ==
  ASSUME NEW S, NEW s \in Seq(S), NEW i \in 1..Len(s)
  PROVE  LET r == RemoveAt(s, i) IN
         /\ r \in Seq(S) /\ Len(r) = Len(s) - 1
         /\ \A k \in 1..Len(r) : r[k] = IF k < i THEN s[k] ELSE s[k + 1]
<1> DEFINE pre == SubSeq(s, 1, i - 1)
           post == SubSeq(s, i + 1, Len(s))
           r == pre \o post
<1>1. /\ pre \in Seq(S) /\ Len(pre) = i - 1
      /\ \A k \in 1..(i - 1) : pre[k] = s[k]
  OBVIOUS
<1>2. /\ post \in Seq(S) /\ Len(post) = Len(s) - i
      /\ \A k \in 1..(Len(s) - i) : post[k] = s[k + i]
  OBVIOUS
<1> HIDE DEF pre, post
<1>3. /\ r \in Seq(S) /\ Len(r) = Len(pre) + Len(post)
      /\ \A k \in 1..(Len(pre) + Len(post)) :
           r[k] = IF k <= Len(pre) THEN pre[k] ELSE post[k - Len(pre)]
  BY <1>1, <1>2, ConcatProperties
<1> HIDE DEF r
<1>4. Len(r) = Len(s) - 1
  BY <1>1, <1>2, <1>3
<1>5. ASSUME NEW k \in 1..Len(r)
      PROVE  r[k] = IF k < i THEN s[k] ELSE s[k + 1]
  <2>1. CASE k < i
    <3>1. k \in 1..(i - 1) /\ k <= Len(pre) /\ k \in 1..(Len(pre) + Len(post))
      BY <1>1, <1>3, <2>1
    <3>2. r[k] = pre[k]
      BY <1>3, <3>1
    <3> QED
      BY <1>1, <2>1, <3>1, <3>2
  <2>2. CASE k >= i
    <3>1. /\ k - (i - 1) \in 1..(Len(s) - i)
          /\ (k - (i - 1)) + i = k + 1
      BY <1>4, <2>2
    <3>2. r[k] = post[k - (i - 1)]
      BY <1>1, <1>2, <1>3, <1>4, <2>2
    <3> QED
      BY <1>2, <2>2, <3>1, <3>2
  <2> QED
    BY <2>1, <2>2
<1>6. RemoveAt(s, i) = r
  BY DEF RemoveAt, r, pre, post
<1> QED
  BY <1>3, <1>4, <1>5, <1>6

-----------------------------------------------------------------------------
LEMMA CallFacts ==
  /\ Len(mem_test_calls) \in Nat /\ DOMAIN mem_test_calls = 1..Len(mem_test_calls)
  /\ \A k \in 1..Len(mem_test_calls) : WellFormed(mem_test_calls[k])
BY EveryBlockFreedOnce DEF Script, IsSequence

LEMMA FreedNext ==
  ASSUME NEW k \in 1..Len(mem_test_calls), mem_test_calls[k].op # "enter",
         NEW p, FreedFrom(k + 1, p)
  PROVE  FreedFrom(k, p)
<1>1. PICK j \in (k + 1)..Len(mem_test_calls) :
        /\ mem_test_calls[j].op = "free" /\ mem_test_calls[j].ptr = p
        /\ \A m \in (k + 1)..(j - 1) : mem_test_calls[m].op # "enter"
  BY DEF FreedFrom
<1>2. j \in k..Len(mem_test_calls)
  BY CallFacts
<1>3. \A m \in k..(j - 1) : m = k \/ m \in (k + 1)..(j - 1)
  BY CallFacts
<1> QED
  BY <1>1, <1>2, <1>3 DEF FreedFrom

(* A call that does not free a pointer leaves it to be freed. *)
LEMMA FreedStill ==
  ASSUME NEW k \in 1..Len(mem_test_calls), NEW p, FreedFrom(k, p),
         ~(mem_test_calls[k].op = "free" /\ mem_test_calls[k].ptr = p)
  PROVE  mem_test_calls[k].op # "enter" /\ FreedFrom(k + 1, p)
<1>1. PICK j \in k..Len(mem_test_calls) :
        /\ mem_test_calls[j].op = "free" /\ mem_test_calls[j].ptr = p
        /\ \A m \in k..(j - 1) : mem_test_calls[m].op # "enter"
  BY DEF FreedFrom
<1>2. j # k
  BY <1>1
<1>3. /\ j \in (k + 1)..Len(mem_test_calls) /\ k \in k..(j - 1)
      /\ \A m \in (k + 1)..(j - 1) : m \in k..(j - 1)
  BY <1>2, CallFacts
<1> QED
  BY <1>1, <1>3 DEF FreedFrom

(* A pointer is not freed again before the next test. *)
LEMMA FreedNow ==
  ASSUME NEW k \in 1..Len(mem_test_calls), mem_test_calls[k].op = "free"
  PROVE  /\ FreedFrom(k, mem_test_calls[k].ptr)
         /\ ~FreedFrom(k + 1, mem_test_calls[k].ptr)
<1> DEFINE p == mem_test_calls[k].ptr
<1>1. FreedFrom(k, p)
  <2>1. k \in k..Len(mem_test_calls) /\ \A m \in k..(k - 1) : FALSE
    BY CallFacts
  <2> QED
    BY <2>1 DEF FreedFrom
<1>2. ASSUME FreedFrom(k + 1, p)
      PROVE  FALSE
  <2>1. PICK j \in (k + 1)..Len(mem_test_calls) :
          /\ mem_test_calls[j].op = "free" /\ mem_test_calls[j].ptr = p
          /\ \A m \in (k + 1)..(j - 1) : mem_test_calls[m].op # "enter"
    BY <1>2 DEF FreedFrom
  <2>2. j \in 1..Len(mem_test_calls) /\ k < j
    BY CallFacts
  <2>3. Clash(mem_test_calls[k], mem_test_calls[j])
    BY <2>1 DEF Clash
  <2> QED
    BY <2>1, <2>2, <2>3, EveryBlockFreedOnce DEF Script
<1> QED
  BY <1>1, <1>2

(* At the beginning and at the end of a test nothing is still to be freed. *)
LEMMA NothingToFree ==
  ASSUME NEW k \in 1..(Len(mem_test_calls) + 1), NEW f, NEW held,
         TestPointers(k, f, held),
         k \in 1..Len(mem_test_calls) => mem_test_calls[k].op = "enter"
  PROVE  held = {}
<1> SUFFICES ASSUME NEW p, FreedFrom(k, p) PROVE FALSE
  BY DEF TestPointers, Keeps
<1>1. k \in 1..Len(mem_test_calls)
  <2>1. \E j \in k..Len(mem_test_calls) : TRUE
    BY DEF FreedFrom
  <2> QED
    BY <2>1, CallFacts
<1>2. mem_test_calls[k].op = "enter"
  BY <1>1
<1> QED
  BY <1>1, <1>2, FreedStill

(* A call that asks for a block is the first of the test to ask for it,    *)
(* and the block is to be freed.                                           *)
LEMMA AskedNow ==
  ASSUME NEW k \in 1..Len(mem_test_calls), mem_test_calls[k].op = "malloc"
  PROVE  /\ ~AskedBefore(k, mem_test_calls[k].ptr)
         /\ AskedBefore(k + 1, mem_test_calls[k].ptr)
         /\ FreedFrom(k + 1, mem_test_calls[k].ptr)
<1> DEFINE p == mem_test_calls[k].ptr
<1>1. ASSUME AskedBefore(k, p)
      PROVE  FALSE
  <2>1. PICK i \in 1..(k - 1) :
          /\ mem_test_calls[i].op = "malloc" /\ mem_test_calls[i].ptr = p
          /\ \A m \in (i + 1)..(k - 1) : mem_test_calls[m].op # "enter"
    BY <1>1 DEF AskedBefore
  <2>2. i \in 1..Len(mem_test_calls) /\ i < k
    BY CallFacts
  <2>3. Clash(mem_test_calls[i], mem_test_calls[k])
    BY <2>1 DEF Clash
  <2> QED
    BY <2>1, <2>2, <2>3, EveryBlockFreedOnce DEF Script
<1>2. AskedBefore(k + 1, p)
  <2>1. k \in 1..((k + 1) - 1) /\ \A m \in (k + 1)..((k + 1) - 1) : FALSE
    BY CallFacts
  <2> QED
    BY <2>1 DEF AskedBefore
<1>3. FreedFrom(k + 1, p)
  <2>1. Answered(mem_test_calls, k)
    BY EveryBlockFreedOnce DEF Script
  <2> QED
    BY <2>1 DEF Answered, FreedFrom
<1> QED
  BY <1>1, <1>2, <1>3

LEMMA AskedStill ==
  ASSUME NEW k \in 1..Len(mem_test_calls), mem_test_calls[k].op # "enter",
         NEW p, AskedBefore(k, p)
  PROVE  AskedBefore(k + 1, p)
<1>1. PICK i \in 1..(k - 1) :
        /\ mem_test_calls[i].op = "malloc" /\ mem_test_calls[i].ptr = p
        /\ \A m \in (i + 1)..(k - 1) : mem_test_calls[m].op # "enter"
  BY DEF AskedBefore
<1>2. /\ i \in 1..((k + 1) - 1)
      /\ \A m \in (i + 1)..((k + 1) - 1) : m = k \/ m \in (i + 1)..(k - 1)
  BY CallFacts
<1> QED
  BY <1>1, <1>2 DEF AskedBefore

LEMMA KeepsStill ==
  ASSUME NEW k \in 1..Len(mem_test_calls), NEW f, NEW p, NEW b, Keeps(k, f, p, b),
         ~(mem_test_calls[k].op = "free" /\ mem_test_calls[k].ptr = p)
  PROVE  Keeps(k + 1, f, p, b)
BY FreedStill, AskedStill DEF Keeps

(* A call that neither asks for a block nor frees one. *)
LEMMA Advance ==
  ASSUME NEW k \in 1..Len(mem_test_calls), mem_test_calls[k].op \notin {"enter", "free"},
         NEW f, NEW held, TestPointers(k, f, held)
  PROVE  TestPointers(k + 1, f, held)
<1>1. k + 1 \in 1..(Len(mem_test_calls) + 1)
  BY CallFacts
<1>2. \A b \in held : \E p \in Slots : Keeps(k + 1, f, p, b)
  BY KeepsStill DEF TestPointers
<1> QED
  BY <1>1, <1>2, FreedNext DEF TestPointers

(* A call of my_malloc: the pointer is given NULL, or a block of its own. *)
LEMMA Assign ==
  ASSUME NEW k \in 1..Len(mem_test_calls), mem_test_calls[k].op = "malloc",
         NEW f, NEW held, NEW held2, TestPointers(k, f, held), NEW b,
         \/ b = NULL /\ held2 = held
         \/ b \notin held /\ held2 = held \cup {b}
  PROVE  TestPointers(k + 1, [f EXCEPT ![mem_test_calls[k].ptr] = b], held2)
<1> DEFINE p == mem_test_calls[k].ptr
           g == [f EXCEPT ![p] = b]
<1>1. k + 1 \in 1..(Len(mem_test_calls) + 1) /\ p \in Slots
  BY CallFacts DEF WellFormed
<1>2. /\ DOMAIN g = Slots /\ g[p] = b
      /\ \A q \in Slots : q # p => g[q] = f[q]
  BY <1>1 DEF TestPointers
<1>3. \A q \in Slots : FreedFrom(k + 1, q) => FreedFrom(k, q)
  BY FreedNext
<1>4. ~AskedBefore(k, p) /\ AskedBefore(k + 1, p) /\ FreedFrom(k + 1, p)
  BY AskedNow
<1> HIDE DEF g, p
<1>5. \A q \in Slots : FreedFrom(k + 1, q) => g[q] \in held2 \cup {NULL, UNINIT}
  BY <1>2, <1>3 DEF TestPointers
<1>6. ASSUME NEW q \in Slots, NEW r \in Slots, q # r, g[q] = g[r],
             FreedFrom(k + 1, q), FreedFrom(k + 1, r)
      PROVE  g[q] \in {NULL, UNINIT}
  <2>1. /\ f[q] \in held \cup {NULL, UNINIT} /\ f[r] \in held \cup {NULL, UNINIT}
        /\ f[q] = f[r] => f[q] \in {NULL, UNINIT}
    BY <1>3, <1>6 DEF TestPointers
  <2> QED
    BY <1>2, <1>6, <2>1
<1>7. ASSUME NEW c \in held2 PROVE \E q \in Slots : Keeps(k + 1, g, q, c)
  <2>1. CASE c \in held
    <3>1. PICK q \in Slots : Keeps(k, f, q, c)
      BY <2>1 DEF TestPointers
    <3>2. q # p
      BY <1>4, <3>1 DEF Keeps
    <3>3. Keeps(k + 1, f, q, c)
      BY <3>1, KeepsStill
    <3> QED
      BY <1>2, <3>2, <3>3 DEF Keeps
  <2>2. CASE c = b
    BY <1>1, <1>2, <1>4, <2>2 DEF Keeps
  <2> QED
    BY <1>7, <2>1, <2>2
<1>8. TestPointers(k + 1, g, held2)
  BY <1>1, <1>2, <1>5, <1>6, <1>7 DEF TestPointers
<1> QED
  BY <1>8 DEF g, p

(* A call of my_free. *)
LEMMA Release ==
  ASSUME NEW k \in 1..Len(mem_test_calls), mem_test_calls[k].op = "free",
         NEW f, NEW held, NEW held2, TestPointers(k, f, held),
         held2 = held \ {f[mem_test_calls[k].ptr]}
  PROVE  TestPointers(k + 1, f, held2)
<1> DEFINE p == mem_test_calls[k].ptr
<1>1. k + 1 \in 1..(Len(mem_test_calls) + 1)
  BY CallFacts
<1>2. p \in Slots /\ mem_test_calls[k].op # "enter"
  BY CallFacts DEF WellFormed
<1>3. FreedFrom(k, p) /\ \A q \in Slots : FreedFrom(k + 1, q) => q # p /\ FreedFrom(k, q)
  BY <1>2, FreedNext, FreedNow
<1>4. ASSUME NEW b \in held2 PROVE \E q \in Slots : Keeps(k + 1, f, q, b)
  <2>1. PICK q \in Slots : Keeps(k, f, q, b)
    BY <1>4 DEF TestPointers
  <2>2. q # p
    BY <1>4, <2>1 DEF Keeps
  <2> QED
    BY <2>1, <2>2, KeepsStill
<1> HIDE DEF p
<1>5. \A q \in Slots : FreedFrom(k + 1, q) => f[q] \in held2 \cup {NULL, UNINIT}
  <2>1. held \ {f[p]} = held2
    BY DEF p
  <2> QED
    BY <1>2, <1>3, <2>1 DEF TestPointers
<1> QED
  BY <1>1, <1>3, <1>4, <1>5 DEF TestPointers

LEMMA AllocateNext ==
  ASSUME NEW a \in Apps, NEW k \in 1..Count(a),
         NEW f, NEW held, NEW held2, Allocated(a, k, f, held), NEW b,
         \/ b = NULL /\ held2 = held
         \/ b \notin held /\ held2 = held \cup {b}
  PROVE  Allocated(a, k + 1, [f EXCEPT ![Buffers(a)[k]] = b], held2)
<1> DEFINE p == Buffers(a)[k]
           g == [f EXCEPT ![p] = b]
           new(i) == g[Buffers(a)[i]]
           old(i) == f[Buffers(a)[i]]
<1>1. k + 1 \in 1..(Count(a) + 1) /\ \A i \in 1..Count(a) : i < k + 1 <=> i = k \/ i < k
  BY BufferFacts
<1>2. DOMAIN g = Range(Buffers(a)) /\ g[p] = b
  BY BufferFacts DEF Allocated
<1>3. \A i \in 1..Count(a) : i < k => new(i) = old(i)
  BY BufferFacts DEF Allocated
<1>4. \A i \in 1..Count(a) : i < k => old(i) \in held \cup {NULL}
  BY DEF Allocated
<1>5. \A i, j \in 1..Count(a) : i < j /\ j < k /\ old(i) = old(j) => old(i) = NULL
  BY DEF Allocated
<1>6. new(k) = b
  BY <1>2
<1>7. \A c \in held : \E i \in 1..Count(a) : i < k /\ old(i) = c
  BY DEF Allocated
<1> HIDE DEF g, new, old, p
<1>8. \A i \in 1..Count(a) : i < k + 1 => new(i) \in held2 \cup {NULL}
  BY <1>1, <1>3, <1>4, <1>6
<1>9. ASSUME NEW i \in 1..Count(a), NEW j \in 1..Count(a), i < j, j < k + 1,
             new(i) = new(j)
      PROVE  new(i) = NULL
  <2>1. i < k
    BY <1>9, BufferFacts
  <2>2. CASE j = k
    BY <1>3, <1>4, <1>6, <1>9, <2>1, <2>2
  <2>3. CASE j < k
    BY <1>3, <1>5, <1>9, <2>1, <2>3
  <2> QED
    BY <1>1, <1>9, <2>2, <2>3
<1>10. ASSUME NEW c \in held2 PROVE \E i \in 1..Count(a) : i < k + 1 /\ new(i) = c
  <2>1. CASE c \in held
    BY <1>1, <1>3, <1>7, <2>1
  <2>2. CASE c = b
    BY <1>1, <1>6, <2>2
  <2> QED
    BY <1>10, <2>1, <2>2
<1>11. Allocated(a, k + 1, g, held2)
  BY <1>1, <1>2, <1>8, <1>9, <1>10 DEF Allocated, new
<1> QED
  BY <1>11 DEF g, p

(* If none is missing the program holds them all. *)
LEMMA AllAllocated ==
  ASSUME NEW a \in Apps, NEW k, k \notin DOMAIN Buffers(a),
         NEW f, NEW held, Allocated(a, k, f, held),
         \A b \in Range(Buffers(a)) : f[b] # NULL
  PROVE  Owned(a, 1, f, held)
<1>1. \A i \in 1..Count(a) : 1 <= i /\ i < k /\ f[Buffers(a)[i]] # NULL
  BY BufferFacts DEF Allocated
<1> QED
  BY <1>1 DEF Allocated, Owned

(* The first of them is given back. *)
LEMMA GiveFirst ==
  ASSUME NEW a \in Apps, NEW k \in 1..Count(a), NEW f, NEW held, NEW held2,
         Owned(a, k, f, held), held2 = held \ {f[Buffers(a)[k]]}
  PROVE  k + 1 \in 1..(Count(a) + 1) /\ Owned(a, k + 1, f, held2)
<1>1. /\ k + 1 \in 1..(Count(a) + 1)
      /\ \A i \in 1..Count(a) : k + 1 <= i <=> k < i
      /\ \A i \in 1..Count(a) : k <= i <=> k < i \/ i = k
  BY BufferFacts
<1>2. k <= k
  BY BufferFacts
<1> QED
  BY <1>1, <1>2 DEF Owned

(* Behind the last there is none. *)
LEMMA NoneOwned ==
  ASSUME NEW a \in Apps, NEW k \in 1..(Count(a) + 1), k \notin DOMAIN Buffers(a),
         NEW f, NEW held, Owned(a, k, f, held)
  PROVE  held = {}
<1>1. \A i \in 1..Count(a) : ~(k <= i)
  BY BufferFacts
<1> QED
  BY <1>1 DEF Owned

-----------------------------------------------------------------------------
LEMMA TestStep ==
  ASSUME HeapInv, InMemTest
  PROVE  /\ PoolInv /\ pc = "mem_test" /\ step \in 1..Len(mem_test_calls)
         /\ TestPointers(step, ptr, live)
BY CallFacts DEF HeapInv, PointersInv, InMemTest

LEMMA NextCallKeeps ==
  ASSUME HeapInv, InMemTest, NextCall, PoolInv', TestPointers(step + 1, ptr', live')
  PROVE  HeapInv'
<1>1. step' = step + 1 /\ pc' = "mem_test"
  BY TestStep DEF NextCall
<1>2. TestPointers(step', ptr', live')
  BY <1>1
<1> QED
  BY <1>1, <1>2 DEF HeapInv, PointersInv

LEMMA EnterTestKeeps ==
  ASSUME HeapInv, EnterTest
  PROVE  HeapInv'
<1>1. /\ PoolInv' /\ ptr' = [p \in Slots |-> UNINIT] /\ InMemTest /\ NextCall
      /\ live' = live /\ mem_test_calls[step].op = "enter"
  BY TestStep, PoolStays DEF EnterTest, TestPointers, HeapInv, Call, pool
<1>2. step \in 1..(Len(mem_test_calls) + 1) /\ step + 1 \in 1..(Len(mem_test_calls) + 1)
  BY <1>1, TestStep, CallFacts
<1>3. live' = {}
  BY <1>1, <1>2, TestStep, NothingToFree
<1>4. TestPointers(step + 1, ptr', live')
  BY <1>1, <1>2, <1>3 DEF TestPointers
<1> QED
  BY <1>1, <1>4, NextCallKeeps

LEMMA TestMallocKeeps ==
  ASSUME HeapInv, TestMalloc
  PROVE  HeapInv'
<1>1. /\ InMemTest /\ NextCall /\ mem_test_calls[step].op # "enter"
      /\ mem_test_calls[step].op = "malloc"
  BY DEF TestMalloc, Call
<1>2. Call.ptr \in Slots /\ Call.size \in Sizes
  BY <1>1, TestStep, CallFacts DEF Call, WellFormed, Sizes
<1>3. CASE UNCHANGED <<pool, ptr, refused>>
  <2>1. PoolInv' /\ ptr' = ptr /\ live' = live
    BY <1>3, PoolStays DEF HeapInv, pool
  <2>2. TestPointers(step + 1, ptr', live')
    BY <1>1, <2>1, TestStep, Advance
  <2> QED
    BY <1>1, <2>1, <2>2, NextCallKeeps
<1>4. CASE AskFor(Call.ptr, Call.size)
  <2>1. /\ PoolInv'
        /\ \/ ptr' = [ptr EXCEPT ![Call.ptr] = NULL] /\ live' = live
           \/ \E b : /\ b \notin live /\ live' = live \cup {b}
                    /\ ptr' = [ptr EXCEPT ![Call.ptr] = b]
    BY <1>2, <1>4, AskForEffect DEF HeapInv
  <2>2. PICK b : /\ \/ b = NULL /\ live' = live
                    \/ b \notin live /\ live' = live \cup {b}
                 /\ ptr' = [ptr EXCEPT ![Call.ptr] = b]
    BY <2>1
  <2>3. TestPointers(step + 1, [ptr EXCEPT ![Call.ptr] = b], live')
    BY <1>1, <2>2, TestStep, Assign DEF Call
  <2> QED
    BY <1>1, <2>1, <2>2, <2>3, NextCallKeeps
<1> QED
  BY <1>3, <1>4 DEF TestMalloc

LEMMA TestFreeKeeps ==
  ASSUME HeapInv, TestFree
  PROVE  HeapInv'
<1>1. /\ InMemTest /\ NextCall /\ mem_test_calls[step].op = "free"
      /\ ptr[Call.ptr] # UNINIT /\ GiveBack(Call.ptr)
  BY DEF TestFree, Call
<1>2. Call.ptr \in Slots /\ FreedFrom(step, Call.ptr)
  BY <1>1, TestStep, CallFacts, FreedNow DEF Call, WellFormed
<1>3. ptr[Call.ptr] \in live \cup {NULL}
  BY <1>1, <1>2, TestStep DEF TestPointers
<1>4. PoolInv' /\ ptr' = ptr /\ live' = live \ {ptr[Call.ptr]}
  BY <1>1, <1>3, GiveBackEffect DEF HeapInv
<1>5. TestPointers(step + 1, ptr', live')
  BY <1>1, <1>4, TestStep, Release DEF Call
<1> QED
  BY <1>1, <1>4, <1>5, NextCallKeeps

LEMMA HeapUnchanged ==
  ASSUME HeapInv, UNCHANGED heap
  PROVE  PoolInv' /\ ptr' = ptr /\ live' = live
BY PoolStays DEF HeapInv, heap, pool

LEMMA TestCheckKeeps ==
  ASSUME HeapInv, TestCheck
  PROVE  HeapInv'
<1>1. PoolInv' /\ ptr' = ptr /\ live' = live
  BY PoolStays DEF TestCheck, HeapInv, pool
<1>2. InMemTest /\ NextCall /\ mem_test_calls[step].op \notin {"enter", "free"}
  BY DEF TestCheck, Call
<1>3. TestPointers(step + 1, ptr', live')
  BY <1>1, <1>2, TestStep, Advance
<1> QED
  BY <1>1, <1>2, <1>3, NextCallKeeps

(* What frees a pointer without a value loses no block.                    *)
LEMMA FreeUninitialisedKeeps ==
  ASSUME HeapInv, TestFreeUninitialised
  PROVE  HeapInv'
<1>1. /\ PoolInv' /\ ptr' = ptr /\ live' = live /\ InMemTest
      /\ mem_test_calls[step].op = "free" /\ ptr[mem_test_calls[step].ptr] = UNINIT
  BY HeapUnchanged DEF TestFreeUninitialised, Call
<1>2. CASE NextCall
  <2>1. live' = live \ {ptr[mem_test_calls[step].ptr]}
    BY <1>1, BlocksAreReal DEF HeapInv
  <2>2. TestPointers(step + 1, ptr', live')
    BY <1>1, <2>1, TestStep, Release
  <2> QED
    BY <1>1, <1>2, <2>2, NextCallKeeps
<1>3. CASE pc' = "end"
  BY <1>1, <1>3 DEF HeapInv, PointersInv
<1> QED
  BY <1>2, <1>3 DEF TestFreeUninitialised

LEMMA MemTestReturnsKeeps ==
  ASSUME HeapInv, app \in Apps, MemTestReturns
  PROVE  HeapInv'
<1>1. /\ PoolInv' /\ app' = app /\ step' = 1 /\ ptr' = NoBuffers(app)
      /\ live' = live
  BY PoolStays DEF MemTestReturns, HeapInv, pool
<1>0. live = {}
  <2>1. step \in 1..(Len(mem_test_calls) + 1) /\ TestPointers(step, ptr, live)
    BY DEF MemTestReturns, HeapInv, PointersInv, TestPointers
  <2>2. step \notin 1..Len(mem_test_calls)
    BY CallFacts DEF MemTestReturns
  <2> QED
    BY <2>1, <2>2, NothingToFree
<1>2. pc' \in {"alloc", "no_memory"}
  BY DEF MemTestReturns
<1>3. Allocated(app', step', ptr', live')
  <2>1. 1 \in 1..(Count(app) + 1) /\ \A i \in 1..Count(app) : ~(i < 1)
    BY BufferFacts
  <2>2. DOMAIN ptr' = Range(Buffers(app))
    BY <1>1 DEF NoBuffers
  <2>3. \A j \in 1..Count(app), i \in 1..Count(app) : i < j => ~(j < 1)
    BY <2>1
  <2> QED
    BY <1>0, <1>1, <2>1, <2>2, <2>3 DEF Allocated
<1> QED
  BY <1>1, <1>2, <1>3 DEF HeapInv, PointersInv

LEMMA AllocateBufferKeeps ==
  ASSUME HeapInv, app \in Apps, AllocateBuffer
  PROVE  HeapInv'
<1> DEFINE p == Buffers(app)[step]
<1>1. /\ pc = "alloc" /\ step \in 1..Count(app) /\ AskFor(p, BufferSize(p))
      /\ BufferSize(p) \in Sizes
      /\ step' = step + 1 /\ pc' = pc /\ app' = app
  BY BufferFacts DEF AllocateBuffer
<1>2. PoolInv /\ Allocated(app, step, ptr, live)
  BY <1>1 DEF HeapInv, PointersInv
<1>3. /\ PoolInv'
      /\ \/ ptr' = [ptr EXCEPT ![p] = NULL] /\ live' = live
         \/ \E b : /\ b \notin live /\ live' = live \cup {b}
                  /\ ptr' = [ptr EXCEPT ![p] = b]
  BY <1>1, <1>2, AskForEffect
<1>4. PICK b : /\ \/ b = NULL /\ live' = live
                  \/ b \notin live /\ live' = live \cup {b}
               /\ ptr' = [ptr EXCEPT ![p] = b]
  BY <1>3
<1>5. Allocated(app, step + 1, [ptr EXCEPT ![p] = b], live')
  BY <1>1, <1>2, <1>3, <1>4, AllocateNext
<1>6. Allocated(app', step', ptr', live')
  BY <1>1, <1>4, <1>5
<1> QED
  BY <1>1, <1>3, <1>6 DEF HeapInv, PointersInv

LEMMA BuffersAllocatedKeeps ==
  ASSUME HeapInv, app \in Apps, BuffersAllocated
  PROVE  HeapInv'
<1>1. /\ PoolInv' /\ ptr' = ptr /\ live' = live /\ app' = app
      /\ pc' \in {"fill", "over"} /\ Allocated(app, step, ptr, live)
  BY HeapUnchanged DEF BuffersAllocated, HeapInv, PointersInv
<1>2. CASE pc' = "fill"
  <2>1. \A b \in Range(Buffers(app)) : ptr[b] # NULL
    BY <1>2 DEF BuffersAllocated
  <2>2. Owned(app, 1, ptr, live)
    BY <1>1, <2>1, AllAllocated DEF BuffersAllocated
  <2> QED
    BY <1>1, <1>2, <2>2 DEF HeapInv, PointersInv
<1>3. CASE pc' = "over"
  <2>1. status' = 1
    BY <1>3 DEF BuffersAllocated
  <2> QED
    BY <1>1, <1>3, <2>1 DEF HeapInv, PointersInv
<1> QED
  BY <1>1, <1>2, <1>3

Testing == {"fill", "kernel", "issue", "acquire", "compare"}

(* While the tests run, the CPU and the AME leave the pool alone.          *)
LEMMA TestingKeeps ==
  ASSUME HeapInv, app \in Apps, app' = app, UNCHANGED heap, pc \in Testing,
         \/ pc' \in Testing
         \/ pc' = "cleanup" /\ step' = 1
  PROVE  HeapInv'
<1>1. PoolInv' /\ ptr' = ptr /\ live' = live /\ Owned(app, 1, ptr, live)
  BY HeapUnchanged DEF HeapInv, PointersInv, Testing
<1>2. 1 \in 1..(Count(app) + 1)
  BY BufferFacts
<1> QED
  BY <1>1, <1>2 DEF HeapInv, PointersInv, Testing

LEMMA FreeBufferKeeps ==
  ASSUME HeapInv, app \in Apps, FreeBuffer
  PROVE  HeapInv'
<1> DEFINE p == Buffers(app)[step]
<1>1. /\ pc = "cleanup" /\ step \in 1..Count(app) /\ GiveBack(p)
      /\ step' = step + 1 /\ pc' = pc /\ app' = app
  BY BufferFacts DEF FreeBuffer
<1>2. PoolInv /\ Owned(app, step, ptr, live)
  BY <1>1 DEF HeapInv, PointersInv
<1>3. ptr[p] \in live
  <2>1. step <= step
    BY <1>1, BufferFacts
  <2> QED
    BY <1>1, <1>2, <2>1 DEF Owned
<1>4. PoolInv' /\ ptr' = ptr /\ live' = live \ {ptr[p]}
  BY <1>1, <1>2, <1>3, GiveBackEffect
<1>5. step' \in 1..(Count(app') + 1) /\ Owned(app', step', ptr', live')
  BY <1>1, <1>2, <1>4, GiveFirst
<1> QED
  BY <1>1, <1>4, <1>5 DEF HeapInv, PointersInv

LEMMA EndKeeps ==
  ASSUME HeapInv, app \in Apps, BuffersFreed \/ main
  PROVE  HeapInv'
<1>1. PoolInv' /\ ptr' = ptr /\ live' = live
  BY HeapUnchanged DEF BuffersFreed, main
<1>2. CASE BuffersFreed
  <2>1. pc' = "over" /\ step \in 1..(Count(app) + 1) /\ Owned(app, step, ptr, live)
    BY <1>2 DEF BuffersFreed, HeapInv, PointersInv
  <2>2. live = {}
    BY <1>2, <2>1, NoneOwned DEF BuffersFreed
  <2> QED
    BY <1>1, <2>1, <2>2 DEF HeapInv, PointersInv
<1>3. CASE main
  <2>1. pc' = "end"
    BY <1>3 DEF main
  <2> QED
    BY <1>1, <2>1 DEF HeapInv, PointersInv
<1> QED
  BY <1>2, <1>3

LEMMA StutterKeeps ==
  ASSUME HeapInv, UNCHANGED <<app, pc, step, status, heap>>
  PROVE  HeapInv'
BY HeapUnchanged DEF HeapInv, PointersInv

(* Every step keeps what the programs know of their memory. *)
LEMMA HeapInvKept ==
  ASSUME HeapInv, app \in Apps, [Next]_vars
  PROVE  HeapInv'
<1>1. CASE mem_test
  BY <1>1, EnterTestKeeps, TestMallocKeeps, TestFreeKeeps, TestCheckKeeps,
     FreeUninitialisedKeeps, MemTestReturnsKeeps DEF mem_test
<1>2. CASE AllocateBuffer
  BY <1>2, AllocateBufferKeeps
<1>3. CASE BuffersAllocated
  BY <1>3, BuffersAllocatedKeeps
<1>4. CASE FillBuffers
  BY <1>4, TestingKeeps DEF FillBuffers, Testing
<1>5. CASE EnterKernel
  BY <1>5, TestingKeeps DEF EnterKernel, Testing
<1>6. CASE IssueInstruction
  BY <1>6, TestingKeeps DEF IssueInstruction, Testing
<1>7. CASE MACQUIRE
  BY <1>7, TestingKeeps DEF MACQUIRE, Testing
<1>8. CASE CompareResult
  BY <1>8, TestingKeeps DEF CompareResult, Testing
<1>9. CASE FreeBuffer
  BY <1>9, FreeBufferKeeps
<1>10. CASE BuffersFreed \/ main
  BY <1>10, EndKeeps
<1>11. CASE ame
  BY <1>11, StutterKeeps DEF ame, Execute, verdict
<1>12. CASE UNCHANGED vars
  BY <1>12, StutterKeeps DEF vars, verdict
<1> QED
  BY <1>1, <1>2, <1>3, <1>4, <1>5, <1>6, <1>7, <1>8, <1>9, <1>10, <1>11, <1>12
     DEF Next, program, ggml_ame_gemm_tile_i8_i32_bT

-----------------------------------------------------------------------------
(* The CPU's steps outside the kernel find nothing in flight. *)
LEMMA QueueEmptyKeeps ==
  ASSUME QueueInv, UNCHANGED <<queue, sync1>>, pc \notin {"issue", "acquire"},
         pc' \notin {"issue", "acquire"}
  PROVE  QueueInv'
BY DEF QueueInv

LEMMA EnterKernelKeeps ==
  ASSUME QueueInv, build.mzero_acc \in BOOLEAN, EnterKernel
  PROVE  QueueInv'
<1>1. CASE pc' = "compare" /\ UNCHANGED <<step, sync1>>
  BY <1>1, QueueEmptyKeeps DEF EnterKernel
<1>2. CASE pc' = "issue" /\ step' = 1 /\ sync1' = 0
  <2>1. queue = << >> /\ queue' = queue /\ build' = build
    BY <1>2 DEF EnterKernel, QueueInv
  <2>2. 1 \in 1..Len(Kernel(build.mzero_acc))
    BY ReleaseIsLast
  <2>3. queue' \in Seq(Instructions) /\ Len(queue') = 0
    BY <2>1
  <2> QED
    BY <1>2, <2>1, <2>2, <2>3 DEF QueueInv
<1> QED
  BY <1>1, <1>2 DEF EnterKernel, MSYNC_RESET

LEMMA IssueKeeps ==
  ASSUME QueueInv, build.mzero_acc \in BOOLEAN, IssueInstruction
  PROVE  QueueInv'
<1> DEFINE K == Kernel(build.mzero_acc)
           ins == K[step]
<1>1. /\ queue \in Seq(Instructions) /\ step \in 1..Len(K) /\ sync1 = 0
      /\ \A i \in 1..Len(queue) : queue[i].op # "mrelease"
      /\ queue' = Append(queue, ins) /\ step' = step + 1
      /\ pc' = IF step = Len(K) THEN "acquire" ELSE "issue"
      /\ sync1' = sync1 /\ build' = build
  BY DEF IssueInstruction, QueueInv
<1>2. ins \in Instructions
  BY <1>1 DEF Instructions
<1>3. Len(K) \in Nat /\ (ins.op = "mrelease" <=> step = Len(K))
  BY <1>1, ReleaseIsLast
<1> HIDE DEF K, ins
<1>4. /\ queue' \in Seq(Instructions) /\ Len(queue') = Len(queue) + 1
      /\ Len(queue) \in Nat /\ queue'[Len(queue')] = ins
      /\ \A i \in 1..Len(queue') : i # Len(queue') => i \in 1..Len(queue) /\ queue'[i] = queue[i]
  BY <1>1, <1>2
<1>5. queue' # << >>
  BY <1>4
<1>6. CASE step = Len(K)
  <2>1. pc' = "acquire" /\ sync1' = 0
    BY <1>1, <1>6
  <2>2. \A i \in 1..Len(queue') : queue'[i].op = "mrelease" <=> i = Len(queue')
    BY <1>1, <1>3, <1>4, <1>6
  <2> QED
    BY <1>4, <1>5, <2>1, <2>2 DEF QueueInv
<1>7. CASE step # Len(K)
  <2>1. pc' = "issue" /\ sync1' = 0 /\ step' \in 1..Len(Kernel(build'.mzero_acc))
    BY <1>1, <1>3, <1>7 DEF K
  <2>2. \A i \in 1..Len(queue') : queue'[i].op # "mrelease"
    BY <1>1, <1>3, <1>4, <1>7
  <2> QED
    BY <1>4, <2>1, <2>2 DEF QueueInv
<1> QED
  BY <1>6, <1>7

LEMMA AcquireKeeps ==
  ASSUME QueueInv, MACQUIRE
  PROVE  QueueInv'
<1>1. sync1 = 1 /\ queue = << >>
  BY DEF QueueInv, MACQUIRE, acquire_target
<1> QED
  BY <1>1 DEF QueueInv, MACQUIRE, units

LEMMA ExecuteKeeps ==
  ASSUME QueueInv, NEW i \in DOMAIN queue, Execute(i)
  PROVE  QueueInv'
<1> DEFINE r == RemoveAt(queue, i)
           release == queue[i].op = "mrelease"
<1>1. /\ queue \in Seq(Instructions) /\ Len(queue) \in Nat /\ i \in 1..Len(queue)
      /\ queue' = r /\ UNCHANGED <<pc, step, build>>
  BY DEF QueueInv, Execute
<1>2. queue # << >>
  BY <1>1
<1>3. /\ r \in Seq(Instructions) /\ Len(r) = Len(queue) - 1
      /\ \A k \in 1..Len(r) : r[k] = IF k < i THEN queue[k] ELSE queue[k + 1]
  BY <1>1, RemoveFacts
<1>4. ~release => sync1' = sync1
  BY DEF Execute
<1>5. release => sync1' = sync1 + 1 /\ i = 1
  <2>1. release => \A j \in 1..(i - 1) : FALSE
    BY DEF Execute, DependsOn
  <2>2. i # 1 => 1 \in 1..(i - 1)
    BY <1>1
  <2> QED
    BY <2>1, <2>2 DEF Execute
<1> HIDE DEF r, release
<1>6. CASE pc = "issue"
  <2>1. \A k \in 1..Len(queue) : queue[k].op # "mrelease"
    BY <1>6 DEF QueueInv
  <2>2. \A k \in 1..Len(r) : k \in 1..Len(queue) /\ k + 1 \in 1..Len(queue)
    BY <1>1, <1>3
  <2>3. \A k \in 1..Len(r) : r[k].op # "mrelease"
    BY <1>3, <2>1, <2>2
  <2>4. sync1' = sync1
    BY <1>1, <1>4, <2>1 DEF release
  <2> QED
    BY <1>1, <1>3, <1>6, <2>3, <2>4 DEF QueueInv
<1>7. CASE pc = "acquire"
  <2>1. /\ sync1 = 0
        /\ \A k \in 1..Len(queue) : queue[k].op = "mrelease" <=> k = Len(queue)
    BY <1>2, <1>7 DEF QueueInv
  <2>2. CASE release
    <3>1. Len(queue) = 1
      BY <1>1, <1>5, <2>1, <2>2 DEF release
    <3>2. r = << >>
      BY <1>3, <3>1
    <3> QED
      BY <1>1, <1>3, <1>5, <1>7, <2>1, <2>2, <3>2 DEF QueueInv
  <2>3. CASE ~release
    <3>1. i # Len(queue)
      BY <1>1, <2>1, <2>3 DEF release
    <3>2. Len(r) >= 1 /\ i <= Len(r)
      BY <1>1, <1>3, <3>1
    <3>3. ASSUME NEW k \in 1..Len(r)
          PROVE  r[k].op = "mrelease" <=> k = Len(r)
      <4>1. CASE k < i
        <5>1. k \in 1..Len(queue) /\ k # Len(queue) /\ k # Len(r)
          BY <1>1, <1>3, <3>2, <4>1
        <5> QED
          BY <1>3, <2>1, <4>1, <5>1
      <4>2. CASE ~(k < i)
        <5>1. k + 1 \in 1..Len(queue) /\ (k + 1 = Len(queue) <=> k = Len(r))
          BY <1>1, <1>3
        <5> QED
          BY <1>3, <2>1, <4>2, <5>1
      <4> QED
        BY <4>1, <4>2
    <3>4. r # << >>
      BY <1>3, <3>2
    <3> QED
      BY <1>1, <1>3, <1>4, <1>7, <2>1, <2>3, <3>3, <3>4 DEF QueueInv
  <2> QED
    BY <2>2, <2>3
<1>8. pc \in {"issue", "acquire"}
  BY <1>2 DEF QueueInv
<1> QED
  BY <1>6, <1>7, <1>8

LEMMA QueueStutter ==
  ASSUME QueueInv, UNCHANGED <<build, pc, step, sync1, queue>>
  PROVE  QueueInv'
BY DEF QueueInv

LEMMA QueueInvKept ==
  ASSUME QueueInv, build.mzero_acc \in BOOLEAN, [Next]_vars
  PROVE  QueueInv'
<1>1. CASE mem_test
  <2>1. /\ UNCHANGED <<queue, sync1>> /\ pc = "mem_test"
        /\ pc' \in {"mem_test", "end", "alloc", "no_memory"}
    BY <1>1 DEF mem_test, EnterTest, TestMalloc, TestFree, TestCheck,
       TestFreeUninitialised, MemTestReturns, InMemTest, NextCall, units
  <2> QED
    BY <2>1, QueueEmptyKeeps
<1>2. CASE AllocateBuffer \/ BuffersAllocated
  BY <1>2, QueueEmptyKeeps DEF AllocateBuffer, BuffersAllocated, units
<1>3. CASE FillBuffers
  BY <1>3, QueueEmptyKeeps DEF FillBuffers
<1>4. CASE EnterKernel
  BY <1>4, EnterKernelKeeps
<1>5. CASE IssueInstruction
  BY <1>5, IssueKeeps
<1>6. CASE MACQUIRE
  BY <1>6, AcquireKeeps
<1>7. CASE CompareResult \/ FreeBuffer \/ BuffersFreed \/ main
  <2>1. /\ UNCHANGED <<queue, sync1>> /\ pc \notin {"issue", "acquire"}
        /\ pc' \notin {"issue", "acquire"}
    BY <1>7 DEF CompareResult, FreeBuffer, BuffersFreed, main, units
  <2> QED
    BY <2>1, QueueEmptyKeeps
<1>8. CASE ame
  BY <1>8, ExecuteKeeps DEF ame
<1>9. CASE UNCHANGED vars
  BY <1>9, QueueStutter DEF vars, units
<1> QED
  BY <1>1, <1>2, <1>3, <1>4, <1>5, <1>6, <1>7, <1>8, <1>9
     DEF Next, program, ggml_ame_gemm_tile_i8_i32_bT

-----------------------------------------------------------------------------
LEMMA InitEstablishes == Init => IInv
<1> SUFFICES ASSUME Init PROVE IInv
  OBVIOUS
<1>1. app \in Apps /\ build.mzero_acc \in BOOLEAN
  <2>1. app \in Apps /\ build \in Builds(app)
    BY DEF Init
  <2>2. \A b \in [fast_path : BOOLEAN, mzero_acc : BOOLEAN] : b.mzero_acc \in BOOLEAN
    BY Zenon
  <2>3. [fast_path |-> TRUE, mzero_acc |-> FALSE].mzero_acc \in BOOLEAN
    BY Zenon
  <2> QED
    BY <2>1, <2>2, <2>3, Zenon DEF Builds
<1>2. PoolInv
  <2>1. free_list = << >> /\ live = {} /\ slivers = 0 /\ pool_base = NULL
    BY DEF Init, Pool!Init
  <2>2. P!GoodList(free_list)
    BY <2>1 DEF P!GoodList
  <2>3. P!GoodLive
    BY <2>1 DEF P!GoodLive
  <2>4. P!Accounts
    BY <2>1, P!NothingTakenYet, PoolFits DEF P!Init
  <2> QED
    BY <2>1, <2>2, <2>3, <2>4 DEF P!IInv, PoolInv
<1>3. ASSUME app = "hello_xsai" PROVE PointersInv
  <2>1. 1 \in 1..(Len(mem_test_calls) + 1)
    BY CallFacts
  <2>2. /\ pc = "mem_test" /\ step = 1 /\ ptr = [p \in Slots |-> UNINIT]
        /\ live = {}
    BY <1>3 DEF Init, Pool!Init
  <2> QED
    BY <2>1, <2>2 DEF PointersInv, TestPointers
<1>4. ASSUME app # "hello_xsai" PROVE PointersInv
  <2>1. pc = "alloc" /\ step = 1 /\ ptr = NoBuffers(app) /\ live = {}
    BY <1>4 DEF Init, Pool!Init
  <2>2. Allocated(app, 1, ptr, live)
    <3>1. 1 \in 1..(Count(app) + 1) /\ \A i \in 1..Count(app) : ~(i < 1)
      BY <1>1, BufferFacts
    <3>2. DOMAIN ptr = Range(Buffers(app))
      BY <2>1 DEF NoBuffers
    <3> QED
      BY <2>1, <3>1, <3>2 DEF Allocated
  <2> QED
    BY <2>1, <2>2 DEF PointersInv
<1>5. PointersInv
  BY <1>3, <1>4
<1>6. QueueInv
  BY DEF Init, QueueInv
<1> QED
  BY <1>1, <1>2, <1>5, <1>6 DEF IInv, HeapInv

(* The inductive invariant holds of every reachable state.                 *)
THEOREM InductiveInvariant == Spec => []IInv
<1>1. IInv /\ [Next]_vars => IInv'
  <2> SUFFICES ASSUME IInv, [Next]_vars PROVE IInv'
    OBVIOUS
  <2>1. app' = app /\ build' = build
    BY DEF Next, program, mem_test, EnterTest, TestMalloc, TestFree, TestCheck,
       TestFreeUninitialised, MemTestReturns, NextCall, AllocateBuffer,
       BuffersAllocated, FillBuffers, ggml_ame_gemm_tile_i8_i32_bT, EnterKernel,
       IssueInstruction, MACQUIRE, CompareResult, FreeBuffer, BuffersFreed,
       main, ame, Execute, vars
  <2> QED
    BY <2>1, HeapInvKept, QueueInvKept DEF IInv
<1> QED
  BY <1>1, InitEstablishes, PTL DEF Spec

(* What is in flight uses the program's own buffers. *)
LEMMA NoRace ==
  ASSUME IInv
  PROVE  NoRaceWithAME
<1> SUFFICES ASSUME NEW i \in DOMAIN queue, NEW o \in Operands(queue[i])
             PROVE  /\ o \in live
                    /\ \A c \in CPUTouches : Pool!Disjoint(o, c)
                    /\ \A f \in Range(free_list) : Pool!Disjoint(o, f)
                    /\ \A b \in Range(Buffers(app)) :
                         ptr[b] = o \/ Pool!Disjoint(o, ptr[b])
  BY DEF NoRaceWithAME
<1>1. pc \in {"issue", "acquire"}
  BY DEF IInv, QueueInv
<1>2. CPUTouches = {}
  BY <1>1 DEF CPUTouches
<1>3. /\ \A k \in 1..Count(app) : ptr[Buffers(app)[k]] \in live
      /\ \A j, k \in 1..Count(app) :
           j < k => ptr[Buffers(app)[j]] # ptr[Buffers(app)[k]]
      /\ Count(app) \in Nat
      /\ Range(Buffers(app)) = {Buffers(app)[k] : k \in 1..Count(app)}
  <2>1. Owned(app, 1, ptr, live)
    BY <1>1 DEF IInv, HeapInv, PointersInv
  <2> QED
    BY <2>1, BufferFacts DEF Owned, IInv
<1>4. PICK k \in 1..Count(app) : o = ptr[Buffers(app)[k]]
  BY <1>3 DEF Operands
<1>5. o \in live
  BY <1>3, <1>4
<1>6. \A f \in Range(free_list) : Pool!Disjoint(o, f)
  <2>1. \A m \in 1..Len(free_list) : P!Disjoint(o, free_list[m])
    BY <1>5 DEF IInv, HeapInv, PoolInv, P!IInv, P!OffList
  <2>2. free_list \in Seq(P!Block)
    BY DEF IInv, HeapInv, PoolInv, P!IInv, P!GoodList
  <2>3. Range(free_list) = {free_list[m] : m \in 1..Len(free_list)}
    BY <2>2 DEF Range
  <2> QED
    BY <2>1, <2>3, SameDisjoint
<1>7. ASSUME NEW b \in Range(Buffers(app))
      PROVE  ptr[b] = o \/ Pool!Disjoint(o, ptr[b])
  <2>1. ptr[b] \in live
    BY <1>3
  <2>2. ptr[b] = o \/ P!Disjoint(o, ptr[b])
    BY <1>5, <2>1 DEF IInv, HeapInv, PoolInv, P!IInv, P!GoodLive
  <2> QED
    BY <2>2, SameDisjoint
<1> QED
  BY <1>2, <1>5, <1>6, <1>7

(* Whatever the AME executes first, no byte it may still use is touched by *)
(* the CPU or handed out again: the sync register orders each test with    *)
(* the next and the last with my_free, and buffers share no byte.          *)
THEOREM CPUAndAMENeverRace == Spec => []NoRaceWithAME
BY InductiveInvariant, NoRace, PTL

-----------------------------------------------------------------------------
(* Nothing is held between the tests of mem_test, nor at the end of a      *)
(* program that ran its own.                                               *)
LEMMA NothingHeld ==
  ASSUME IInv, BetweenTests
  PROVE  live = {}
<1>1. PointersInv
  BY DEF IInv, HeapInv
<1>2. CASE pc = "mem_test"
  <2>1. TestPointers(step, ptr, live) /\ step \in 1..(Len(mem_test_calls) + 1)
    BY <1>1, <1>2 DEF PointersInv, TestPointers
  <2>2. step \in 1..Len(mem_test_calls) => mem_test_calls[step].op = "enter"
    BY <1>2, CallFacts DEF BetweenTests, Call
  <2> QED
    BY <2>1, <2>2, NothingToFree
<1>3. CASE pc = "over" /\ status # 1
  BY <1>1, <1>3 DEF PointersInv
<1> QED
  BY <1>2, <1>3 DEF BetweenTests

LEMMA PoolIsWhole ==
  ASSUME IInv, slivers = 0
  PROVE  PoolWholeAgain
<1> SUFFICES ASSUME BetweenTests
             PROVE  live = {} /\ (pool_base = NULL \/ free_list = Pool!WholePool)
  BY DEF PoolWholeAgain
<1>1. live = {}
  BY NothingHeld
<1>2. P!EverythingFreedIsWhole
  BY P!FreedIsWhole, PoolFits DEF IInv, HeapInv, PoolInv
<1>3. P!WholePool = Pool!WholePool
  BY DEF P!WholePool, Pool!WholePool, P!FREE_HDR_SIZE, Pool!FREE_HDR_SIZE
<1> QED
  BY <1>1, <1>2, <1>3 DEF P!EverythingFreedIsWhole

(* Every test of mem_test leaves the pool in one piece and nothing held,   *)
(* and so does a program that ran its tests, at every scale of the tests   *)
(* and in every pool, unless some block left a tail of 64 bytes behind it. *)
THEOREM TestsLeaveThePoolWhole == Spec => [](slivers = 0 => PoolWholeAgain)
<1>1. IInv => (slivers = 0 => PoolWholeAgain)
  BY PoolIsWhole
<1> QED
  BY <1>1, InductiveInvariant, PTL

(* With or without such tails, no block stays held between the tests.      *)
THEOREM TestsFreeEverything == Spec => [](BetweenTests => live = {})
<1>1. IInv => (BetweenTests => live = {})
  BY NothingHeld
<1> QED
  BY <1>1, InductiveInvariant, PTL

-----------------------------------------------------------------------------
(* The verdict.  What the AME is still to execute, issued or not. *)
Kern == Kernel(build.mzero_acc)

Pending ==
  {queue[i] : i \in 1..Len(queue)} \cup {Kern[k] : k \in step..Len(Kern)}

Waits(op) == \E x \in Pending : x.op = op

InKernel == pc \in {"issue", "acquire"}

(* The queue has some of the instructions issued, in the kernel's order. *)
OrderInv ==
  InKernel =>
    /\ step \in 1..(Len(Kern) + 1) /\ (pc = "acquire" => step = Len(Kern) + 1)
    /\ \A i \in 1..Len(queue) : \E k \in 1..(step - 1) : queue[i] = Kern[k]
    /\ \A i, j \in 1..Len(queue) : i < j => Before(queue[i], queue[j])

(* A product went wrong exactly if one of n tests failed. *)
Judged(n) == wrong > 0 <=> n > 0

Differs(x) == IF x # mem.ref THEN 1 ELSE 0

(* What has been executed has had its effect, and nothing was executed     *)
(* before what it depends on.                                              *)
DataInv ==
  InKernel =>
    /\ mem.ref = mem.A * mem.B
    /\ Waits("mzero") => Waits("mlc")
    /\ Waits("mlc") \/ Waits("mla") \/ Waits("mlb") => Waits("mmacc")
    /\ Waits("mmacc") => Waits("msc")
    /\ Waits("mmacc") => Waits("mlc") \/ reg.acc0 = 0
    /\ Waits("mla") \/ reg.tr0 = mem.A
    /\ Waits("mlb") \/ reg.tr1 = mem.B
    /\ Judged(failures + IF Waits("mmacc") THEN 0 ELSE Differs(reg.acc0))
    /\ mem.C = IF Waits("msc") THEN 0 ELSE reg.acc0

TestTypes ==
  /\ test \in Nat /\ failures \in Nat /\ wrong \in Nat
  /\ mem \in [{"A", "B", "C", "ref"} -> Int] /\ reg \in [{"acc0", "tr0", "tr1"} -> Int]

(* How far the tests are, and what is known of the AME.                    *)
StageInv ==
  /\ pc \in {"mem_test", "alloc", "no_memory", "cleanup", "over", "end"} \cup Testing
  /\ pc \in {"mem_test", "alloc"} =>
       test = 0 /\ failures = 0 /\ wrong = 0 /\ status = NULL
  /\ pc = "no_memory" => test = 0 /\ wrong = 0 /\ status = 1
  /\ pc \in Testing => test < NumTests /\ status = NULL
  /\ pc \in {"fill", "kernel", "cleanup"} => Judged(failures)
  /\ pc = "kernel" => mem.C = 0 /\ mem.ref = mem.A * mem.B
  /\ pc = "compare" => Judged(TestFailures)
  /\ pc = "cleanup" => status = NULL /\ (failures = 0 => test = NumTests)
  /\ pc \in {"over", "end"} =>
       \/ status = 0 /\ test = NumTests /\ wrong = 0
       \/ status = 1 /\ test = 0 /\ wrong = 0
       \/ status = 2 /\ wrong > 0
       \/ pc = "end" /\ status = NULL /\ exit = Killed

ToldInv ==
  /\ pc # "end" => told = NULL /\ exit = NULL
  /\ told \in {NULL, status}
  /\ exit \in {NULL, 0, status} \/ (exit = Killed /\ status = NULL /\ told = NULL)

VerdictInv == OrderInv /\ DataInv /\ TestTypes /\ StageInv /\ ToldInv

LEMMA KernFacts ==
  ASSUME build.mzero_acc \in BOOLEAN
  PROVE  /\ Len(Kern) \in {6, 7}
         /\ \A k \in 1..Len(Kern) : Kern[k] \in AMEInstructions
         /\ \A j, k \in 1..Len(Kern) : j < k => Before(Kern[j], Kern[k])
<1>1. Shift(build.mzero_acc) \in {0, 1}
  BY DEF Shift
<1>2. /\ Len(Kern) = 6 + Shift(build.mzero_acc)
      /\ \A k \in 1..Len(Kern) :
           /\ Kern[k] \in AMEInstructions
           /\ Rank[Kern[k].op] = k - Shift(build.mzero_acc)
  BY KernelFacts DEF Kern
<1>3. Len(Kern) \in {6, 7}
  BY <1>1, <1>2
<1>4. ASSUME NEW j \in 1..Len(Kern), NEW k \in 1..Len(Kern), j < k
      PROVE  Before(Kern[j], Kern[k])
  BY <1>1, <1>2, <1>3, <1>4 DEF Before
<1> QED
  BY <1>2, <1>3, <1>4

(* The kernel's instructions, apart from the order, in a queue that is so. *)
LEMMA PendingFacts ==
  ASSUME build.mzero_acc \in BOOLEAN, QueueInv, OrderInv, InKernel
  PROVE  /\ Pending \subseteq AMEInstructions
         /\ \A i \in 1..Len(queue), k \in step..Len(Kern) : Before(queue[i], Kern[k])
<1>1. /\ Len(Kern) \in Nat /\ step \in 1..(Len(Kern) + 1)
      /\ \A k \in 1..Len(Kern) : Kern[k] \in AMEInstructions
  BY KernFacts DEF OrderInv
<1>2. \A k \in 1..(step - 1) : k \in 1..Len(Kern)
  BY <1>1
<1>3. \A k \in step..Len(Kern) : k \in 1..Len(Kern) /\ \A j \in 1..(step - 1) : j < k
  BY <1>1
<1>4. \A i \in 1..Len(queue) : queue[i] \in AMEInstructions
  BY <1>1, <1>2 DEF OrderInv
<1>5. \A i \in 1..Len(queue), k \in step..Len(Kern) : Before(queue[i], Kern[k])
  BY <1>2, <1>3, KernFacts DEF OrderInv
<1> QED
  BY <1>1, <1>3, <1>4, <1>5 DEF Pending

(* Whatever the AME executes next is still to be executed, and what it     *)
(* depends on no longer is.                                                *)
LEMMA ExecutesInOrder ==
  ASSUME build.mzero_acc \in BOOLEAN, QueueInv, OrderInv,
         NEW i \in DOMAIN queue, Execute(i)
  PROVE  /\ InKernel /\ OrderInv'
         /\ Pending \subseteq AMEInstructions
         /\ queue[i] \in Pending /\ Pending' = Pending \ {queue[i]}
         /\ \A y \in Pending : Before(y, queue[i]) => ~DependsOn(queue[i], y)
<1> DEFINE r == RemoveAt(queue, i)
           x == queue[i]
           n == Len(queue)
<1>1. /\ queue \in Seq(Instructions) /\ n \in Nat /\ i \in 1..n
      /\ queue' = r /\ pc' = pc /\ step' = step /\ build' = build
  BY DEF QueueInv, Execute
<1>2. InKernel
  <2>1. queue # << >>
    BY <1>1
  <2> QED
    BY <2>1 DEF QueueInv, InKernel
<1>3. /\ Len(r) = n - 1
      /\ \A k \in 1..Len(r) : r[k] = IF k < i THEN queue[k] ELSE queue[k + 1]
  BY <1>1, RemoveFacts
<1>4. Kern' = Kern /\ InKernel' = InKernel
  BY <1>1 DEF Kern, InKernel
<1>5. /\ Pending \subseteq AMEInstructions
      /\ \A k \in 1..n, l \in step..Len(Kern) : Before(queue[k], Kern[l])
      /\ \A k, l \in 1..n : k < l => Before(queue[k], queue[l])
  BY <1>2, PendingFacts DEF OrderInv
<1> DEFINE placed(k) == IF k < i THEN k ELSE k + 1
<1>6. /\ \A k \in 1..Len(r) : placed(k) \in 1..n /\ placed(k) # i /\ r[k] = queue[placed(k)]
      /\ \A k, l \in 1..Len(r) : k < l => placed(k) < placed(l)
      /\ \A k \in 1..n : k # i => \E l \in 1..Len(r) : placed(l) = k
  <2>1. \A k \in 1..n : k < i => k \in 1..Len(r) /\ placed(k) = k
    BY <1>1, <1>3
  <2>2. \A k \in 1..n : k > i => k - 1 \in 1..Len(r) /\ placed(k - 1) = k
    BY <1>1, <1>3
  <2>3. \A k \in 1..n : k # i => k < i \/ k > i
    BY <1>1
  <2>4. \A k \in 1..Len(r) : placed(k) \in 1..n /\ placed(k) # i /\ r[k] = queue[placed(k)]
    BY <1>1, <1>3
  <2>5. \A k, l \in 1..Len(r) : k < l => placed(k) < placed(l)
    BY <1>1, <1>3
  <2> HIDE DEF placed
  <2> QED
    BY <2>1, <2>2, <2>3, <2>4, <2>5
<1> HIDE DEF placed, r
<1>7. OrderInv'
  <2>1. ASSUME NEW k \in 1..Len(r)
        PROVE  \E l \in 1..(step - 1) : r[k] = Kern[l]
    <3>1. PICK m \in 1..Len(queue) : r[k] = queue[m]
      BY <1>6
    <3> QED
      BY <1>2, <3>1 DEF OrderInv
  <2>2. \A k, l \in 1..Len(r) : k < l => Before(r[k], r[l])
    BY <1>5, <1>6
  <2> QED
    BY <1>1, <1>2, <1>4, <2>1, <2>2 DEF OrderInv
<1>8. x \in Pending
  BY <1>1 DEF Pending
<1>9. \A y, z : (Before(y, z) \/ Before(z, y)) /\ y \in AMEInstructions => y # z
  BY InstructionFacts DEF Before
<1>10. /\ \A k \in 1..n : k # i => queue[k] # x
       /\ \A k \in step..Len(Kern) : Kern[k] # x
  <2>1. \A k \in 1..n : queue[k] \in AMEInstructions
    BY <1>5 DEF Pending
  <2>2. \A k \in 1..n : k # i => k < i \/ i < k
    BY <1>1
  <2> QED
    BY <1>1, <1>5, <1>9, <2>1, <2>2
<1>11. Pending' = Pending \ {x}
  <2>1. Pending' = {r[k] : k \in 1..Len(r)} \cup {Kern[k] : k \in step..Len(Kern)}
    BY <1>1, <1>4 DEF Pending
  <2>2. {r[k] : k \in 1..Len(r)} = {queue[k] : k \in 1..n} \ {x}
    <3>1. ASSUME NEW k \in 1..Len(r)
          PROVE  r[k] \in {queue[l] : l \in 1..n} \ {x}
      BY <1>6, <1>10
    <3>2. ASSUME NEW k \in 1..n, queue[k] # x
          PROVE  queue[k] \in {r[l] : l \in 1..Len(r)}
      <4>1. PICK l \in 1..Len(r) : placed(l) = k
        BY <1>6, <3>2
      <4> QED
        BY <1>6, <4>1
    <3> HIDE DEF x, n
    <3> QED
      BY <3>1, <3>2
  <2> QED
    BY <1>10, <2>1, <2>2 DEF Pending
<1>12. ASSUME NEW y \in Pending, Before(y, x) PROVE ~DependsOn(x, y)
  <2>1. ~Before(x, y)
    BY <1>5, <1>8, <1>12, InstructionFacts DEF Before
  <2>2. PICK k \in 1..n : y = queue[k]
    BY <1>1, <1>5, <2>1 DEF Pending
  <2>3. k # i /\ ~(i < k)
    BY <1>1, <1>5, <1>9, <1>12, <2>1, <2>2
  <2>4. k \in 1..(i - 1)
    BY <1>1, <2>3
  <2> QED
    BY <2>2, <2>4 DEF Execute
<1> QED
  BY <1>2, <1>5, <1>7, <1>8, <1>11, <1>12

(* What that says of each instruction. *)
LEMMA WaitsNoMore ==
  ASSUME build.mzero_acc \in BOOLEAN, QueueInv, OrderInv,
         NEW i \in DOMAIN queue, Execute(i)
  PROVE  /\ queue[i].op \in {"mzero", "mlc", "mla", "mlb", "mmacc", "msc", "mrelease"}
         /\ \A op : Waits(op)' <=> Waits(op) /\ op # queue[i].op
         /\ Waits(queue[i].op)
         /\ queue[i].op = "mlc" => ~Waits("mzero")
         /\ queue[i].op = "mmacc" => ~Waits("mlc") /\ ~Waits("mla") /\ ~Waits("mlb")
         /\ queue[i].op = "msc" => ~Waits("mmacc")
<1> DEFINE x == queue[i]
<1>1. /\ Pending \subseteq AMEInstructions /\ x \in Pending
      /\ Pending' = Pending \ {x}
      /\ \A y \in Pending : Before(y, x) => ~DependsOn(x, y)
  BY ExecutesInOrder
<1>2. x.op \in {"mzero", "mlc", "mla", "mlb", "mmacc", "msc", "mrelease"}
  BY <1>1 DEF AMEInstructions, Instr
<1>3. \A y \in Pending : y.op = x.op <=> y = x
  BY <1>1, InstructionFacts
<1> HIDE DEF x
<1>4. ASSUME NEW op PROVE Waits(op)' <=> Waits(op) /\ op # x.op
  BY <1>1, <1>3 DEF Waits
<1>5. Waits(x.op)
  BY <1>1 DEF Waits
<1>6. \A y \in Pending : ~(DependsOn(x, y) /\ Before(y, x))
  BY <1>1
<1>7. x.op = "mlc" => ~Waits("mzero")
  BY <1>1, <1>6, Dependencies DEF Waits
<1>8. x.op = "mmacc" => ~Waits("mlc") /\ ~Waits("mla") /\ ~Waits("mlb")
  BY <1>1, <1>6, Dependencies DEF Waits
<1>9. x.op = "msc" => ~Waits("mmacc")
  BY <1>1, <1>6, Dependencies DEF Waits
<1> QED
  BY <1>2, <1>4, <1>5, <1>7, <1>8, <1>9 DEF x

(* The product is right, in whatever order the AME loads the tiles, unless *)
(* the unit got it wrong.                                                  *)
LEMMA ExecuteKeepsData ==
  ASSUME build.mzero_acc \in BOOLEAN, QueueInv, OrderInv, DataInv, TestTypes,
         NEW i \in DOMAIN queue, Execute(i)
  PROVE  DataInv' /\ TestTypes'
<1> DEFINE op == queue[i].op
<1>1. /\ InKernel /\ InKernel' = InKernel
      /\ failures' = failures /\ test' = test
  BY ExecutesInOrder DEF Execute, InKernel, verdict
<1>2. /\ op \in {"mzero", "mlc", "mla", "mlb", "mmacc", "msc", "mrelease"}
      /\ \A o : Waits(o)' <=> Waits(o) /\ o # op
      /\ Waits(op)
      /\ op = "mlc" => ~Waits("mzero")
      /\ op = "mmacc" => ~Waits("mlc") /\ ~Waits("mla") /\ ~Waits("mlb")
      /\ op = "msc" => ~Waits("mmacc")
  BY WaitsNoMore
<1>3. /\ Waits("mzero")' <=> Waits("mzero") /\ op # "mzero"
      /\ Waits("mlc")' <=> Waits("mlc") /\ op # "mlc"
      /\ Waits("mla")' <=> Waits("mla") /\ op # "mla"
      /\ Waits("mlb")' <=> Waits("mlb") /\ op # "mlb"
      /\ Waits("mmacc")' <=> Waits("mmacc") /\ op # "mmacc"
      /\ Waits("msc")' <=> Waits("msc") /\ op # "msc"
  BY <1>2
<1>4. /\ mem.ref = mem.A * mem.B
      /\ Waits("mzero") => Waits("mlc")
      /\ Waits("mlc") \/ Waits("mla") \/ Waits("mlb") => Waits("mmacc")
      /\ Waits("mmacc") => Waits("msc")
      /\ Waits("mmacc") => Waits("mlc") \/ reg.acc0 = 0
      /\ Waits("mla") \/ reg.tr0 = mem.A
      /\ Waits("mlb") \/ reg.tr1 = mem.B
      /\ Judged(failures + IF Waits("mmacc") THEN 0 ELSE Differs(reg.acc0))
      /\ mem.C = IF Waits("msc") THEN 0 ELSE reg.acc0
  BY <1>1 DEF DataInv
<1>5. /\ mem \in [{"A", "B", "C", "ref"} -> Int] /\ reg \in [{"acc0", "tr0", "tr1"} -> Int]
      /\ test \in Nat /\ failures \in Nat /\ wrong \in Nat
  BY DEF TestTypes
<1>6. /\ op = "mzero" => reg' = [reg EXCEPT !.acc0 = 0] /\ UNCHANGED <<mem, wrong>>
      /\ op = "mlc" => reg' = [reg EXCEPT !.acc0 = mem.C] /\ UNCHANGED <<mem, wrong>>
      /\ op = "mla" => reg' = [reg EXCEPT !.tr0 = mem.A] /\ UNCHANGED <<mem, wrong>>
      /\ op = "mlb" => reg' = [reg EXCEPT !.tr1 = mem.B] /\ UNCHANGED <<mem, wrong>>
      /\ op = "mmacc" => \E err \in {0, 1} :
           /\ reg' = [reg EXCEPT !.acc0 = @ + reg.tr0 * reg.tr1 + err]
           /\ wrong' = wrong + err /\ mem' = mem
      /\ op = "msc" => mem' = [mem EXCEPT !.C = reg.acc0] /\ UNCHANGED <<reg, wrong>>
      /\ op = "mrelease" => UNCHANGED <<mem, reg, wrong>>
  BY DEF Execute
<1> HIDE DEF op
<1>7. CASE op = "mmacc"
  <2>1. PICK err \in {0, 1} :
          /\ reg' = [reg EXCEPT !.acc0 = @ + reg.tr0 * reg.tr1 + err]
          /\ wrong' = wrong + err /\ mem' = mem
    BY <1>6, <1>7
  <2>2. reg.acc0 = 0 /\ reg.tr0 = mem.A /\ reg.tr1 = mem.B /\ Waits("mmacc")
    BY <1>2, <1>4, <1>7
  <2>3. mem.A * mem.B \in Int /\ mem.ref \in Int
    BY <1>4, <1>5
  <2>4. /\ reg' \in [{"acc0", "tr0", "tr1"} -> Int] /\ reg'.acc0 = mem.ref + err
        /\ reg'.tr0 = mem.A /\ reg'.tr1 = mem.B
    BY <1>4, <1>5, <2>1, <2>2, <2>3
  <2>5. Judged(failures) /\ Differs(reg.acc0)' = err
    BY <1>4, <1>5, <2>1, <2>2, <2>3, <2>4 DEF Differs
  <2>6. Judged(failures + Differs(reg.acc0))'
    BY <1>1, <1>5, <2>1, <2>5 DEF Judged
  <2> QED
    BY <1>1, <1>2, <1>3, <1>4, <1>5, <1>7, <2>1, <2>4, <2>6 DEF DataInv, TestTypes
<1>8. CASE op \in {"mzero", "mlc"}
  <2>1. /\ reg' \in [{"acc0", "tr0", "tr1"} -> Int] /\ reg'.acc0 = 0
        /\ reg'.tr0 = reg.tr0 /\ reg'.tr1 = reg.tr1 /\ mem' = mem /\ wrong' = wrong
    BY <1>2, <1>4, <1>5, <1>6, <1>8
  <2>2. Waits("mmacc") /\ Waits("msc")
    BY <1>2, <1>4, <1>8
  <2> QED
    BY <1>1, <1>2, <1>3, <1>4, <1>5, <1>8, <2>1, <2>2 DEF DataInv, TestTypes, Judged
<1>9. CASE op \in {"mla", "mlb"}
  <2>1. /\ reg' \in [{"acc0", "tr0", "tr1"} -> Int] /\ reg'.acc0 = reg.acc0
        /\ reg'.tr0 = (IF op = "mla" THEN mem.A ELSE reg.tr0)
        /\ reg'.tr1 = (IF op = "mlb" THEN mem.B ELSE reg.tr1)
        /\ mem' = mem /\ wrong' = wrong
    BY <1>5, <1>6, <1>9
  <2>2. Waits("mmacc") /\ Waits("msc")
    BY <1>2, <1>4, <1>9
  <2> QED
    BY <1>1, <1>2, <1>3, <1>4, <1>5, <1>9, <2>1, <2>2 DEF DataInv, TestTypes, Judged
<1>10. CASE op = "msc"
  <2>1. /\ mem' \in [{"A", "B", "C", "ref"} -> Int] /\ mem'.C = reg.acc0
        /\ mem'.A = mem.A /\ mem'.B = mem.B /\ mem'.ref = mem.ref
        /\ reg' = reg /\ wrong' = wrong
    BY <1>5, <1>6, <1>10
  <2>2. ~Waits("mmacc")
    BY <1>2, <1>10
  <2>3. Judged(failures + Differs(reg.acc0))'
    BY <1>1, <1>4, <2>1, <2>2 DEF Judged, Differs
  <2> QED
    BY <1>1, <1>2, <1>3, <1>4, <1>5, <1>10, <2>1, <2>2, <2>3 DEF DataInv, TestTypes
<1>11. CASE op = "mrelease"
  <2>1. mem' = mem /\ reg' = reg /\ wrong' = wrong
    BY <1>6, <1>11
  <2>2. Judged(failures + IF Waits("mmacc") THEN 0 ELSE Differs(reg.acc0))'
    BY <1>1, <1>3, <1>4, <1>11, <2>1 DEF Judged, Differs
  <2> QED
    BY <1>1, <1>2, <1>3, <1>4, <1>5, <1>11, <2>1, <2>2 DEF DataInv, TestTypes
<1> QED
  BY <1>2, <1>7, <1>8, <1>9, <1>10, <1>11

LEMMA KernelBeginsData ==
  ASSUME build.mzero_acc \in BOOLEAN, QueueInv, TestTypes, StageInv, EnterKernel,
         pc' = "issue"
  PROVE  OrderInv' /\ DataInv'
<1>1. /\ pc = "kernel" /\ step' = 1 /\ build' = build /\ queue' = << >> /\ InKernel'
      /\ mem' = mem /\ reg' = reg /\ wrong' = wrong /\ failures' = failures
  BY DEF EnterKernel, QueueInv, InKernel, verdict
<1>2. /\ Judged(failures) /\ mem.C = 0 /\ mem.ref = mem.A * mem.B
      /\ failures \in Nat /\ wrong \in Nat
  BY <1>1 DEF StageInv, TestTypes
<1>3. /\ Kern' = Kern /\ Len(Kern) \in {6, 7} /\ Len(queue') = 0
      /\ \A k \in 1..Len(Kern) : Kern[k] \in AMEInstructions
  BY <1>1, KernFacts DEF Kern
<1>4. OrderInv'
  BY <1>1, <1>3 DEF OrderInv
<1>5. Pending' = {Kern[k] : k \in 1..Len(Kern)}
  BY <1>1, <1>3 DEF Pending
<1>6. ASSUME NEW r \in 1..6 PROVE \E x \in Pending' : x \in AMEInstructions /\ Rank[x.op] = r
  <2> DEFINE k == r + Shift(build.mzero_acc)
  <2>1. Shift(build.mzero_acc) \in {0, 1}
    BY DEF Shift
  <2>2. /\ Len(Kern) = 6 + Shift(build.mzero_acc)
        /\ \A j \in 1..Len(Kern) :
             /\ Kern[j] \in AMEInstructions
             /\ Rank[Kern[j].op] = j - Shift(build.mzero_acc)
    BY KernelFacts DEF Kern
  <2>3. k \in 1..Len(Kern) /\ k - Shift(build.mzero_acc) = r
    BY <2>1, <2>2
  <2>4. Kern[k] \in Pending' /\ Kern[k] \in AMEInstructions /\ Rank[Kern[k].op] = r
    BY <1>5, <2>2, <2>3
  <2> QED
    BY <2>4
<1>7. \A x \in AMEInstructions :
        /\ Rank[x.op] = 1 => x.op = "mlc"
        /\ Rank[x.op] = 2 => x.op = "mla"
        /\ Rank[x.op] = 3 => x.op = "mlb"
        /\ Rank[x.op] = 4 => x.op = "mmacc"
        /\ Rank[x.op] = 5 => x.op = "msc"
  BY DEF AMEInstructions, Instr, Rank
<1>8. /\ Waits("mlc")' /\ Waits("mla")' /\ Waits("mlb")' /\ Waits("mmacc")'
      /\ Waits("msc")'
  <2>1. \E x \in Pending' : x.op = "mlc"
    BY <1>6, <1>7
  <2>2. \E x \in Pending' : x.op = "mla"
    BY <1>6, <1>7
  <2>3. \E x \in Pending' : x.op = "mlb"
    BY <1>6, <1>7
  <2>4. \E x \in Pending' : x.op = "mmacc"
    BY <1>6, <1>7
  <2>5. \E x \in Pending' : x.op = "msc"
    BY <1>6, <1>7
  <2> QED
    BY <2>1, <2>2, <2>3, <2>4, <2>5 DEF Waits
<1>9. Judged(failures)'
  BY <1>1, <1>2 DEF Judged
<1> QED
  BY <1>1, <1>2, <1>4, <1>8, <1>9 DEF DataInv

(* Issuing an instruction leaves it to be executed. *)
LEMMA IssueKeepsData ==
  ASSUME build.mzero_acc \in BOOLEAN, QueueInv, OrderInv, DataInv, IssueInstruction
  PROVE  OrderInv' /\ DataInv'
<1> DEFINE n == Len(queue)
<1>1. /\ InKernel /\ InKernel' /\ queue' = Append(queue, Kern[step])
      /\ queue \in Seq(Instructions) /\ step \in 1..Len(Kern) /\ step' = step + 1
      /\ pc' = (IF step = Len(Kern) THEN "acquire" ELSE "issue")
      /\ Kern' = Kern /\ mem' = mem /\ reg' = reg /\ wrong' = wrong
      /\ failures' = failures
  BY DEF IssueInstruction, QueueInv, InKernel, Kern, verdict
<1>2. Len(Kern) \in Nat /\ n \in Nat
  BY <1>1, KernFacts
<1>3. /\ Len(queue') = n + 1 /\ queue'[n + 1] = Kern[step]
      /\ \A i \in 1..n : queue'[i] = queue[i]
      /\ \A i \in 1..(n + 1) : i = n + 1 \/ i \in 1..n
  <2>1. Kern[step] \in Instructions
    BY <1>1 DEF Instructions, Kern
  <2> QED
    BY <1>1, <1>2, <2>1
<1>4. /\ step \in step..Len(Kern) /\ 1..((step + 1) - 1) = 1..(step - 1) \cup {step}
      /\ step..Len(Kern) = {step} \cup ((step + 1)..Len(Kern))
      /\ step + 1 \in 1..(Len(Kern) + 1)
  BY <1>1, <1>2
<1>5. OrderInv'
  <2>1. \A i \in 1..Len(queue') : \E k \in 1..(step' - 1) : queue'[i] = Kern[k]
    BY <1>1, <1>3, <1>4 DEF OrderInv
  <2>2. \A i, j \in 1..Len(queue') : i < j => Before(queue'[i], queue'[j])
    <3>1. \A i \in 1..n : Before(queue[i], Kern[step])
      BY <1>1, <1>4, PendingFacts
    <3>2. \A i, j \in 1..(n + 1) : i < j => i \in 1..n
      BY <1>2
    <3> QED
      BY <1>1, <1>3, <3>1, <3>2 DEF OrderInv
  <2> QED
    BY <1>1, <1>2, <1>4, <2>1, <2>2 DEF OrderInv
<1>6. Pending' = Pending
  <2>1. Pending' = {queue'[i] : i \in 1..(n + 1)} \cup {Kern[k] : k \in (step + 1)..Len(Kern)}
    BY <1>1, <1>3 DEF Pending
  <2>2. {queue'[i] : i \in 1..(n + 1)} = {queue[i] : i \in 1..n} \cup {Kern[step]}
    <3>1. 1..(n + 1) = 1..n \cup {n + 1}
      BY <1>2
    <3> HIDE DEF n
    <3> QED
      BY <1>3, <3>1
  <2>3. {Kern[k] : k \in step..Len(Kern)} = {Kern[step]} \cup {Kern[k] : k \in (step + 1)..Len(Kern)}
    BY <1>4
  <2> HIDE DEF n
  <2> QED
    BY <2>1, <2>2, <2>3 DEF Pending, n
<1>7. \A op : Waits(op)' <=> Waits(op)
  BY <1>6 DEF Waits
<1>8. /\ Waits("mzero")' <=> Waits("mzero")
      /\ Waits("mlc")' <=> Waits("mlc")
      /\ Waits("mla")' <=> Waits("mla")
      /\ Waits("mlb")' <=> Waits("mlb")
      /\ Waits("mmacc")' <=> Waits("mmacc")
      /\ Waits("msc")' <=> Waits("msc")
  BY <1>7
<1>9. Judged(failures + IF Waits("mmacc") THEN 0 ELSE Differs(reg.acc0))'
  BY <1>1, <1>8 DEF DataInv, Judged, Differs
<1> QED
  BY <1>1, <1>5, <1>8, <1>9 DEF DataInv

(* When the CPU has acquired the result, the kernel has been executed. *)
LEMMA AcquiredIsDone ==
  ASSUME build.mzero_acc \in BOOLEAN, QueueInv, OrderInv, DataInv, MACQUIRE
  PROVE  Judged(TestFailures)
<1>1. InKernel /\ queue = << >> /\ step = Len(Kern) + 1
  BY DEF QueueInv, MACQUIRE, acquire_target, OrderInv, InKernel
<1>2. Pending = {}
  <2>1. Len(Kern) \in Nat /\ Len(queue) = 0
    BY <1>1, KernFacts
  <2>2. 1..0 = {} /\ (Len(Kern) + 1)..Len(Kern) = {}
    BY <2>1
  <2> QED
    BY <1>1, <2>1, <2>2 DEF Pending
<1>3. ~Waits("mmacc") /\ ~Waits("msc")
  BY <1>2 DEF Waits
<1>4. Judged(failures + Differs(reg.acc0)) /\ mem.C = reg.acc0
  BY <1>1, <1>3 DEF DataInv
<1> QED
  BY <1>4 DEF Judged, Differs, TestFailures

LEMMA NullIsNoNumber == NULL \notin Int /\ NULL # Killed
BY TestAssumption DEF Killed

(* Before the tests nothing is judged. *)
LEMMA MemTestKeepsStage ==
  ASSUME TestTypes, StageInv, ToldInv, mem_test \/ AllocateBuffer \/ BuffersAllocated
  PROVE  TestTypes' /\ StageInv' /\ ToldInv' /\ ~InKernel'
<1>1. /\ pc \in {"mem_test", "alloc"} /\ UNCHANGED units /\ test' = test
      /\ failures' = failures /\ told' = told
      /\ \/ pc' \in {"mem_test", "alloc", "fill"} /\ status' = status /\ exit' = exit
         \/ pc' \in {"no_memory", "over"} /\ status' = 1 /\ exit' = exit
         \/ pc' = "end" /\ exit' = Killed /\ status' = status
  <2>1. CASE mem_test
    BY <2>1 DEF mem_test, EnterTest, TestMalloc, TestFree, TestCheck,
       TestFreeUninitialised, MemTestReturns, InMemTest, NextCall, verdict
  <2>2. CASE AllocateBuffer
    BY <2>2 DEF AllocateBuffer, verdict
  <2>3. CASE BuffersAllocated
    BY <2>3 DEF BuffersAllocated
  <2> QED
    BY <2>1, <2>2, <2>3
<1>2. TestTypes'
  BY <1>1 DEF TestTypes, units
<1>3. /\ test = 0 /\ failures = 0 /\ wrong = 0 /\ status = NULL
      /\ told = NULL /\ exit = NULL /\ wrong' = wrong
  BY <1>1 DEF StageInv, ToldInv, units
<1>4. 0 < NumTests
  BY TestAssumption
<1> QED
  BY <1>1, <1>2, <1>3, <1>4 DEF StageInv, ToldInv, Testing, Judged, InKernel

LEMMA FillKeepsStage ==
  ASSUME TestTypes, StageInv, ToldInv, FillBuffers
  PROVE  TestTypes' /\ StageInv' /\ ToldInv' /\ ~InKernel'
<1>1. PICK a \in Int, b \in Int : mem' = [A |-> a, B |-> b, C |-> 0, ref |-> a * b]
  BY TestAssumption DEF FillBuffers
<1>2. a * b \in Int
  OBVIOUS
<1>3. /\ mem' \in [{"A", "B", "C", "ref"} -> Int]
      /\ mem'.C = 0 /\ mem'.ref = mem'.A * mem'.B
  BY <1>1, <1>2
<1>4. /\ pc = "fill" /\ pc' = "kernel" /\ UNCHANGED <<reg, wrong, test, failures, status, told, exit>>
  BY DEF FillBuffers, verdict
<1> QED
  BY <1>3, <1>4 DEF StageInv, ToldInv, TestTypes, Testing, Judged, InKernel

(* If one of the tiles is zero the product is what C already is. *)
LEMMA EnterKernelKeepsStage ==
  ASSUME TestTypes, StageInv, ToldInv, EnterKernel
  PROVE  TestTypes' /\ StageInv' /\ ToldInv' /\ (InKernel' => pc' = "issue")
<1>1. /\ pc = "kernel" /\ pc' \in {"compare", "issue"}
      /\ UNCHANGED <<mem, reg, wrong, test, failures, status, told, exit>>
  BY DEF EnterKernel, verdict
<1>2. TestTypes' /\ ToldInv' /\ test' < NumTests /\ status' = NULL
  BY <1>1 DEF TestTypes, ToldInv, StageInv, Testing
<1>3. ASSUME pc' = "compare" PROVE Judged(TestFailures)'
  <2>1. mem.A = 0 \/ mem.B = 0
    BY <1>3 DEF EnterKernel, ZeroTile
  <2>2. /\ mem.C = 0 /\ mem.ref = mem.A * mem.B /\ mem.A \in Int /\ mem.B \in Int
        /\ Judged(failures) /\ failures \in Nat
    BY <1>1 DEF StageInv, TestTypes
  <2>3. mem.ref = 0
    <3>1. \A n \in Int : 0 * n = 0 /\ n * 0 = 0
      OBVIOUS
    <3> QED
      BY <2>1, <2>2, <3>1
  <2> QED
    BY <1>1, <2>2, <2>3 DEF Judged, TestFailures
<1> QED
  BY <1>1, <1>2, <1>3 DEF StageInv, Testing, InKernel

LEMMA KernelKeepsStage ==
  ASSUME TestTypes, StageInv, ToldInv, InKernel,
         \/ /\ pc' \in {"issue", "acquire"}
            /\ UNCHANGED <<test, failures, status, told, exit>>
         \/ MACQUIRE /\ Judged(TestFailures)
  PROVE  StageInv' /\ ToldInv'
<1>1. CASE /\ pc' \in {"issue", "acquire"}
           /\ UNCHANGED <<test, failures, status, told, exit>>
  BY <1>1 DEF StageInv, ToldInv, InKernel, Testing
<1>2. CASE MACQUIRE /\ Judged(TestFailures)
  <2>1. /\ pc = "acquire" /\ pc' = "compare"
        /\ UNCHANGED <<mem, wrong, test, failures, status, told, exit>>
    BY <1>2 DEF MACQUIRE, units, verdict
  <2>2. Judged(TestFailures)'
    BY <1>2, <2>1 DEF Judged, TestFailures
  <2> QED
    BY <2>1, <2>2 DEF StageInv, ToldInv, Testing
<1> QED
  BY <1>1, <1>2

LEMMA CompareKeepsStage ==
  ASSUME TestTypes, StageInv, ToldInv, CompareResult
  PROVE  TestTypes' /\ StageInv' /\ ToldInv' /\ ~InKernel'
<1>1. /\ pc = "compare" /\ failures' = TestFailures /\ test' = test + 1
      /\ pc' = (IF LastTest THEN "cleanup" ELSE "fill")
      /\ UNCHANGED <<mem, reg, wrong, status, told, exit>>
  BY DEF CompareResult, units
<1>2. /\ failures \in Nat /\ test \in Nat /\ test < NumTests /\ status = NULL
      /\ Judged(TestFailures) /\ NumTests \in Nat
  BY <1>1, TestAssumption DEF StageInv, TestTypes, Testing
<1>3. TestFailures \in Nat /\ (mem.C # mem.ref => TestFailures > 0)
  BY <1>2 DEF TestFailures
<1>4. Judged(failures)'
  BY <1>1, <1>2 DEF Judged
<1>5. TestTypes' /\ ToldInv'
  BY <1>1, <1>2, <1>3 DEF TestTypes, ToldInv
<1>6. CASE LastTest
  <2>1. failures' = 0 => test' = NumTests
    BY <1>1, <1>3, <1>6 DEF LastTest
  <2> QED
    BY <1>1, <1>2, <1>4, <1>5, <1>6, <2>1 DEF StageInv, Testing, InKernel
<1>7. CASE ~LastTest
  <2>1. test' < NumTests
    BY <1>1, <1>2, <1>7 DEF LastTest
  <2> QED
    BY <1>1, <1>2, <1>4, <1>5, <1>7, <2>1 DEF StageInv, Testing, InKernel
<1> QED
  BY <1>6, <1>7

(* The status is that of the failures, and is told. *)
LEMMA EndKeepsStage ==
  ASSUME TestTypes, StageInv, ToldInv, FreeBuffer \/ BuffersFreed \/ main
  PROVE  TestTypes' /\ StageInv' /\ ToldInv' /\ ~InKernel'
<1>1. UNCHANGED <<mem, reg, wrong, test, failures>>
  BY DEF FreeBuffer, BuffersFreed, main, units, verdict
<1>2. TestTypes' /\ wrong \in Nat /\ failures \in Nat
  BY <1>1 DEF TestTypes
<1>3. CASE FreeBuffer
  <2>1. pc = "cleanup" /\ pc' = pc /\ UNCHANGED <<status, told, exit>>
    BY <1>3 DEF FreeBuffer, verdict
  <2> QED
    BY <1>1, <1>2, <2>1 DEF StageInv, ToldInv, Testing, Judged, InKernel
<1>4. CASE BuffersFreed
  <2>1. /\ pc = "cleanup" /\ pc' = "over" /\ status' = (IF failures = 0 THEN 0 ELSE 2)
        /\ told' = NULL /\ exit' = NULL
    BY <1>4 DEF BuffersFreed, StatusOf, ToldInv
  <2>2. Judged(failures) /\ (failures = 0 => test = NumTests)
    BY <2>1 DEF StageInv
  <2>3. \/ status' = 0 /\ test' = NumTests /\ wrong' = 0
        \/ status' = 2 /\ wrong' > 0
    BY <1>1, <1>2, <2>1, <2>2 DEF Judged
  <2> QED
    BY <1>1, <1>2, <2>1, <2>3 DEF StageInv, ToldInv, Testing, InKernel
<1>5. CASE main
  <2>1. /\ pc \in {"no_memory", "over"} /\ pc' = "end" /\ status' = status
        /\ told' \in {told, status} /\ exit' \in {0, status}
    BY <1>5 DEF main
  <2>2. told = NULL /\ status # NULL
    BY <2>1, NullIsNoNumber DEF ToldInv, StageInv
  <2> QED
    BY <1>1, <1>2, <2>1, <2>2 DEF StageInv, ToldInv, Testing, InKernel
<1> QED
  BY <1>3, <1>4, <1>5

LEMMA ExecuteKeepsStage ==
  ASSUME TestTypes, StageInv, ToldInv, InKernel, NEW i \in DOMAIN queue, Execute(i)
  PROVE  StageInv' /\ ToldInv'
<1>1. pc' = pc /\ UNCHANGED <<test, failures, status, told, exit>>
  BY DEF Execute, verdict
<1> QED
  BY <1>1, KernelKeepsStage DEF InKernel

LEMMA VerdictInvKept ==
  ASSUME build.mzero_acc \in BOOLEAN, QueueInv, VerdictInv, [Next]_vars
  PROVE  VerdictInv'
<1>0. OrderInv /\ DataInv /\ TestTypes /\ StageInv /\ ToldInv
  BY DEF VerdictInv
<1>1. ~InKernel' => OrderInv' /\ DataInv'
  BY DEF OrderInv, DataInv
<1>2. CASE mem_test \/ AllocateBuffer \/ BuffersAllocated
  BY <1>0, <1>1, <1>2, MemTestKeepsStage DEF VerdictInv
<1>3. CASE FillBuffers
  BY <1>0, <1>1, <1>3, FillKeepsStage DEF VerdictInv
<1>4. CASE EnterKernel
  <2>1. TestTypes' /\ StageInv' /\ ToldInv' /\ (InKernel' => pc' = "issue")
    BY <1>0, <1>4, EnterKernelKeepsStage
  <2>2. CASE pc' = "issue"
    BY <1>0, <1>4, <2>1, <2>2, KernelBeginsData DEF VerdictInv
  <2> QED
    BY <1>1, <2>1, <2>2 DEF VerdictInv
<1>5. CASE IssueInstruction
  <2>1. /\ InKernel /\ pc' \in {"issue", "acquire"}
        /\ UNCHANGED <<test, failures, status, told, exit>>
        /\ UNCHANGED <<mem, reg, wrong>>
    BY <1>5 DEF IssueInstruction, InKernel, verdict
  <2>2. StageInv' /\ ToldInv'
    BY <1>0, <2>1, KernelKeepsStage
  <2>3. TestTypes'
    BY <1>0, <2>1 DEF TestTypes
  <2> QED
    BY <1>0, <1>5, <2>2, <2>3, IssueKeepsData DEF VerdictInv
<1>6. CASE MACQUIRE
  <2>1. Judged(TestFailures)
    BY <1>0, <1>6, AcquiredIsDone
  <2>2. InKernel /\ ~InKernel' /\ UNCHANGED <<mem, reg, wrong, test, failures>>
    BY <1>6 DEF MACQUIRE, InKernel, units, verdict
  <2>3. StageInv' /\ ToldInv'
    BY <1>0, <1>6, <2>1, <2>2, KernelKeepsStage
  <2>4. TestTypes'
    BY <1>0, <2>2 DEF TestTypes
  <2> QED
    BY <1>1, <2>2, <2>3, <2>4 DEF VerdictInv
<1>7. CASE CompareResult
  BY <1>0, <1>1, <1>7, CompareKeepsStage DEF VerdictInv
<1>8. CASE FreeBuffer \/ BuffersFreed \/ main
  BY <1>0, <1>1, <1>8, EndKeepsStage DEF VerdictInv
<1>9. CASE ame
  <2>1. PICK i \in DOMAIN queue : Execute(i)
    BY <1>9 DEF ame
  <2>2. InKernel /\ OrderInv'
    BY <1>0, <2>1, ExecutesInOrder
  <2>3. DataInv' /\ TestTypes'
    BY <1>0, <2>1, ExecuteKeepsData
  <2>4. StageInv' /\ ToldInv'
    BY <1>0, <2>1, <2>2, ExecuteKeepsStage
  <2> QED
    BY <2>2, <2>3, <2>4 DEF VerdictInv
<1>10. CASE UNCHANGED vars
  BY <1>0, <1>10 DEF VerdictInv, OrderInv, DataInv, TestTypes, StageInv, ToldInv,
     InKernel, Kern, Pending, Waits, Judged, Differs, TestFailures, vars, units, verdict
<1> QED
  BY <1>2, <1>3, <1>4, <1>5, <1>6, <1>7, <1>8, <1>9, <1>10
     DEF Next, program, ggml_ame_gemm_tile_i8_i32_bT

LEMMA NothingJudgedYet == Init => VerdictInv
<1> SUFFICES ASSUME Init PROVE VerdictInv
  OBVIOUS
<1>1. /\ pc \in {"mem_test", "alloc"} /\ test = 0 /\ failures = 0 /\ wrong = 0
      /\ status = NULL /\ told = NULL /\ exit = NULL
      /\ mem = [b \in {"A", "B", "C", "ref"} |-> 7]
      /\ reg = [r \in {"acc0", "tr0", "tr1"} |-> 7]
  BY DEF Init
<1> QED
  BY <1>1 DEF VerdictInv, OrderInv, DataInv, TestTypes, StageInv, ToldInv, InKernel,
     Testing

(* Whatever the order in which the AME executes the kernel, for every      *)
(* content of the tiles and every number of tests, the verdict is its own. *)
THEOREM VerdictIsTheAMEs == Spec => []JudgesTheAME
<1>1. VerdictInv => JudgesTheAME
  <2> SUFFICES ASSUME VerdictInv, status # NULL
               PROVE  /\ status = 0 <=> test = NumTests /\ wrong = 0
                      /\ status = 2 <=> wrong > 0
                      /\ told \in {NULL, status} /\ exit \in {NULL, 0, status}
    BY DEF JudgesTheAME
  <2>1. \/ status = 0 /\ test = NumTests /\ wrong = 0
        \/ status = 1 /\ test = 0 /\ wrong = 0
        \/ status = 2 /\ wrong > 0
    BY DEF VerdictInv, StageInv, Testing
  <2>2. told \in {NULL, status} /\ exit \in {NULL, 0, status}
    BY DEF VerdictInv, ToldInv
  <2>3. NumTests # 0 /\ wrong \in Nat
    BY TestAssumption DEF VerdictInv, TestTypes
  <2> QED
    BY <2>1, <2>2, <2>3
<1>2. IInv /\ VerdictInv /\ [Next]_vars => VerdictInv'
  BY VerdictInvKept DEF IInv
<1> QED
  BY <1>1, <1>2, NothingJudgedYet, InductiveInvariant, PTL DEF Spec

-----------------------------------------------------------------------------
(* The pool's part of the verdict.  The calls from k on look at pointer p  *)
(* before the next test is entered.                                        *)
LookedAt(k, p) ==
  \E j \in k..Len(mem_test_calls) :
    /\ p \in Looks(mem_test_calls[j])
    /\ \A m \in k..j : mem_test_calls[m].op # "enter"

(* A refusal leaves a check that failed, or NULL in a pointer that will be *)
(* checked; a buffer that is missing; and no test of the AME.              *)
RefusalInv ==
  /\ total_fail \in Nat /\ refused \in BOOLEAN
  /\ pc = "mem_test" /\ refused =>
       \/ total_fail > 0
       \/ \E p \in Slots : ptr[p] = NULL /\ LookedAt(step, p) /\ AskedBefore(step, p)
  /\ pc = "alloc" /\ refused =>
       \E i \in 1..Count(app) : i < step /\ ptr[Buffers(app)[i]] = NULL
  /\ pc \in Testing \cup {"cleanup"} => ~refused
  /\ status # NULL /\ refused => status = 1

(* The test that call k is part of has given r (Gives).                    *)
GivenBefore(k, r) ==
  \E i \in 1..(k - 1) :
    /\ r \in Gives(mem_test_calls[i])
    /\ \A m \in (i + 1)..(k - 1) : mem_test_calls[m].op # "enter"

Kinds == {"block", "null", "value"}

(* Pointer p of f is of this kind. *)
Has(f, p, kind) ==
  CASE kind = "block" -> f[p] \notin {NULL, UNINIT} /\ Aligned(f[p])
    [] kind = "null" -> f[p] = NULL
    [] kind = "value" -> f[p] # UNINIT

(* Unless the pool was refused, no check has failed, every call has been   *)
(* given what it relies on, and no buffer is missing.                      *)
GrantedInv ==
  /\ pc = "mem_test" /\ ~refused =>
       /\ total_fail = 0
       /\ \A p \in Slots, kind \in Kinds : GivenBefore(step, <<p, kind>>) => Has(ptr, p, kind)
  /\ pc = "alloc" /\ ~refused =>
       \A i \in 1..Count(app) : i < step => ptr[Buffers(app)[i]] # NULL
  /\ status = 1 => refused
  /\ exit = Killed => refused /\ told = NULL

(* The pool has a block for what the next call asks for. *)
RoomFor(size) ==
  size # 0 => \E i \in DOMAIN Pool!ListAfterInit : Pool!Fits(Pool!ListAfterInit[i], Pool!Need(size))

RoomForRequests ==
  /\ InMemTest /\ Call.op = "malloc" => RoomFor(Call.size)
  /\ pc = "alloc" /\ step \in DOMAIN Buffers(app) =>
       RoomFor(BufferSize(Buffers(app)[step]))

LEMMA LookedNext ==
  ASSUME NEW k \in 1..Len(mem_test_calls), NEW p, LookedAt(k, p)
  PROVE  /\ mem_test_calls[k].op # "enter"
         /\ p \in Looks(mem_test_calls[k]) \/ LookedAt(k + 1, p)
<1>1. PICK j \in k..Len(mem_test_calls) :
        /\ p \in Looks(mem_test_calls[j])
        /\ \A m \in k..j : mem_test_calls[m].op # "enter"
  BY DEF LookedAt
<1>2. k \in k..j /\ \A m \in (k + 1)..j : m \in k..j
  BY CallFacts
<1>3. CASE j = k
  BY <1>1, <1>2, <1>3
<1>4. CASE j # k
  <2>1. j \in (k + 1)..Len(mem_test_calls)
    BY <1>4, CallFacts
  <2> QED
    BY <1>1, <1>2, <2>1 DEF LookedAt
<1> QED
  BY <1>3, <1>4

LEMMA LookedLater ==
  ASSUME NEW k \in 1..Len(mem_test_calls), mem_test_calls[k].op = "malloc",
         mem_test_calls[k].size # 0
  PROVE  LookedAt(k + 1, mem_test_calls[k].ptr)
<1>1. mem_test_calls[k].ptr \in Unseen(mem_test_calls[k])
  BY DEF Unseen
<1>2. PICK j \in (k + 1)..Len(mem_test_calls) :
        /\ mem_test_calls[k].ptr \in Looks(mem_test_calls[j])
        /\ \A m \in (k + 1)..j : mem_test_calls[m].op # "enter"
  BY <1>1, EveryPointerChecked DEF Foreseen
<1> QED
  BY <1>2 DEF LookedAt

LEMMA NeededIsGiven ==
  ASSUME NEW k \in 1..Len(mem_test_calls), NEW r \in Needs(mem_test_calls[k])
  PROVE  GivenBefore(k, r)
<1>1. PICK i \in 1..(k - 1) :
        /\ r \in Gives(mem_test_calls[i])
        /\ \A m \in (i + 1)..k : mem_test_calls[m].op # "enter"
  BY EveryPointerChecked DEF Foreseen
<1>2. \A m \in (i + 1)..(k - 1) : m \in (i + 1)..k
  BY CallFacts
<1> QED
  BY <1>1, <1>2 DEF GivenBefore

LEMMA GivenByCall ==
  ASSUME NEW k \in 1..Len(mem_test_calls), NEW r, GivenBefore(k + 1, r)
  PROVE  \/ r \in Gives(mem_test_calls[k])
         \/ mem_test_calls[k].op # "enter" /\ GivenBefore(k, r)
<1>1. PICK i \in 1..((k + 1) - 1) :
        /\ r \in Gives(mem_test_calls[i])
        /\ \A m \in (i + 1)..((k + 1) - 1) : mem_test_calls[m].op # "enter"
  BY DEF GivenBefore
<1>2. CASE i = k
  BY <1>1, <1>2
<1>3. CASE i # k
  <2>1. /\ i \in 1..(k - 1) /\ k \in (i + 1)..((k + 1) - 1)
        /\ \A m \in (i + 1)..(k - 1) : m \in (i + 1)..((k + 1) - 1)
    BY <1>3, CallFacts
  <2> QED
    BY <1>1, <2>1 DEF GivenBefore
<1> QED
  BY <1>2, <1>3

LEMMA GivenIsAsked ==
  ASSUME NEW k, NEW p, NEW kind, GivenBefore(k, <<p, kind>>)
  PROVE  AskedBefore(k, p)
<1>1. \A c : <<p, kind>> \in Gives(c) => c.op = "malloc" /\ c.ptr = p
  BY DEF Gives
<1> QED
  BY <1>1 DEF GivenBefore, AskedBefore

(* How a call of my_malloc ends. *)
LEMMA AskForOutcome ==
  ASSUME PoolInv, NEW p \in DOMAIN ptr, NEW size \in Sizes, AskFor(p, size)
  PROVE  \/ size = 0 /\ ptr' = [ptr EXCEPT ![p] = NULL] /\ refused' = refused
         \/ size # 0 /\ ptr' = [ptr EXCEPT ![p] = NULL] /\ refused' = TRUE
         \/ ~RoomFor(size) /\ ptr' = [ptr EXCEPT ![p] = NULL] /\ refused' = refused
         \/ /\ size # 0 /\ refused' = refused
            /\ \E b : /\ b \notin {NULL, UNINIT} /\ Aligned(b)
                      /\ ptr' = [ptr EXCEPT ![p] = b]
<1>1. CASE size = 0 /\ ptr' = [ptr EXCEPT ![p] = NULL] /\ UNCHANGED refused
  BY <1>1
<1>2. CASE Pool!MallocMapFails(size) /\ ptr' = [ptr EXCEPT ![p] = NULL] /\ refused' = TRUE
  BY <1>2 DEF Pool!MallocMapFails
<1>3. CASE Pool!MallocOutOfMemory(size) /\ ptr' = [ptr EXCEPT ![p] = NULL] /\ UNCHANGED refused
  BY <1>3 DEF Pool!MallocOutOfMemory, RoomFor
<1>4. CASE /\ Pool!MallocFirstFit(size)
           /\ \E b \in live' \ live : ptr' = [ptr EXCEPT ![p] = b]
           /\ UNCHANGED refused
  <2>1. PICK b \in live' : ptr' = [ptr EXCEPT ![p] = b]
    BY <1>4
  <2>2. PoolInv'
    BY <1>4, SameFirstFit, P!FirstFitKeepsIInv, P!FirstFitAccounts, PoolFits
       DEF Sizes, PoolInv
  <2>3. b \in [addr : Nat, size : Nat, req : Sizes]
    BY <2>2 DEF PoolInv, P!IInv, P!GoodLive, P!LiveBlock, Sizes
  <2>4. b \notin {NULL, UNINIT}
    <3>1. b \in [addr : Nat, size : Nat, req : Nat]
      BY <2>3, SizesAreNumbers
    <3> QED
      BY <3>1, TestAssumption
  <2>5. b.addr \in Nat /\ b.addr % 64 = 0
    BY <2>2, <2>3 DEF PoolInv, P!IInv, P!GoodLive, P!Aligned
  <2>6. Aligned(b)
    BY <2>5 DEF Aligned, Pool!ALIGN, Pool!ALLOC_HDR_SIZE
  <2>7. size # 0
    BY <1>4 DEF Pool!MallocFirstFit
  <2> QED
    BY <1>4, <2>1, <2>4, <2>6, <2>7
<1> QED
  BY <1>1, <1>2, <1>3, <1>4 DEF AskFor

(* A pointer that is NULL and to be checked. *)
Missing(k, f, p) == f[p] = NULL /\ LookedAt(k, p) /\ AskedBefore(k, p)

LEMMA MissingStill ==
  ASSUME NEW k \in 1..Len(mem_test_calls), NEW f, NEW p, Missing(k, f, p)
  PROVE  /\ mem_test_calls[k].op # "enter"
         /\ p \in Looks(mem_test_calls[k]) \/ Missing(k + 1, f, p)
BY LookedNext, AskedStill DEF Missing

LEMMA NextCallRefusal ==
  ASSUME HeapInv, StageInv, RefusalInv, InMemTest, NextCall,
         total_fail' \in Nat, refused' \in BOOLEAN,
         refused' => total_fail' > 0 \/ \E p \in Slots : Missing(step + 1, ptr', p)
  PROVE  RefusalInv'
<1>1. pc = "mem_test" /\ pc' = pc /\ step' = step + 1 /\ status' = status /\ status = NULL
  BY TestStep DEF NextCall, verdict, StageInv
<1>2. refused' => total_fail' > 0 \/ \E p \in Slots : Missing(step', ptr', p)
  BY <1>1
<1> QED
  BY <1>1, <1>2 DEF RefusalInv, Missing, Testing

LEMMA MallocKeepsRefusal ==
  ASSUME HeapInv, StageInv, RefusalInv, TestMalloc
  PROVE  RefusalInv'
<1>1. /\ InMemTest /\ NextCall /\ total_fail' = total_fail /\ total_fail \in Nat
      /\ refused \in BOOLEAN
      /\ Call.op = "malloc" /\ Call.ptr \in Slots /\ Call.size \in Sizes
      /\ step \in 1..Len(mem_test_calls) /\ Slots = DOMAIN ptr
  BY TestStep, CallFacts DEF TestMalloc, Call, WellFormed, Sizes, RefusalInv, TestPointers
<1>2. refused => total_fail > 0 \/ \E p \in Slots : Missing(step, ptr, p)
  BY <1>1, TestStep DEF RefusalInv, Missing
<1>3. ASSUME NEW p \in Slots, Missing(step, ptr, p)
      PROVE  p # Call.ptr /\ Missing(step + 1, ptr, p)
  <2>1. p \notin Looks(mem_test_calls[step])
    BY <1>1 DEF Looks, Call
  <2>2. p # Call.ptr
    BY <1>1, <1>3, AskedNow DEF Missing, Call
  <2> QED
    BY <1>1, <1>3, <2>1, <2>2, MissingStill
<1>4. CASE UNCHANGED <<pool, ptr, refused>>
  <2>1. refused' => total_fail' > 0 \/ \E p \in Slots : Missing(step + 1, ptr', p)
    BY <1>1, <1>2, <1>3, <1>4
  <2> QED
    BY <1>1, <1>4, <2>1, NextCallRefusal
<1>5. CASE AskFor(Call.ptr, Call.size)
  <2>1. PICK b : /\ ptr' = [ptr EXCEPT ![Call.ptr] = b]
                 /\ \/ refused' = refused
                    \/ refused' = TRUE /\ b = NULL /\ Call.size # 0
    <3>1. \/ ptr' = [ptr EXCEPT ![Call.ptr] = NULL] /\ refused' = refused
          \/ /\ ptr' = [ptr EXCEPT ![Call.ptr] = NULL] /\ refused' = TRUE
             /\ Call.size # 0
          \/ refused' = refused /\ \E b : ptr' = [ptr EXCEPT ![Call.ptr] = b]
      BY <1>1, <1>5, TestStep, AskForOutcome
    <3>2. CASE refused' = refused /\ \E b : ptr' = [ptr EXCEPT ![Call.ptr] = b]
      BY Zenon, <3>2
    <3>3. CASE /\ ptr' = [ptr EXCEPT ![Call.ptr] = NULL]
               /\ \/ refused' = refused
                  \/ refused' = TRUE /\ Call.size # 0
      BY Zenon, <3>3
    <3> QED
      BY <3>1, <3>2, <3>3
  <2>2. \A p \in Slots : Missing(step, ptr, p) => Missing(step + 1, ptr', p)
    BY <1>1, <1>3, <2>1 DEF Missing
  <2>3. CASE refused' = refused
    <3>1. refused' => total_fail' > 0 \/ \E p \in Slots : Missing(step + 1, ptr', p)
      BY <1>1, <1>2, <2>2, <2>3
    <3> QED
      BY <1>1, <2>3, <3>1, NextCallRefusal
  <2>4. CASE refused' = TRUE /\ b = NULL /\ Call.size # 0
    <3>1. LookedAt(step + 1, Call.ptr) /\ AskedBefore(step + 1, Call.ptr)
      BY <1>1, <2>4, LookedLater, AskedNow DEF Call
    <3>2. Missing(step + 1, ptr', Call.ptr)
      BY <1>1, <2>1, <2>4, <3>1 DEF Missing
    <3> QED
      BY <1>1, <2>4, <3>2, NextCallRefusal
  <2> QED
    BY <2>1, <2>3, <2>4
<1> QED
  BY <1>4, <1>5 DEF TestMalloc

LEMMA MemTestKeepsRefusal ==
  ASSUME HeapInv, StageInv, RefusalInv, mem_test
  PROVE  RefusalInv'
<1>1. /\ total_fail \in Nat /\ refused \in BOOLEAN
      /\ InMemTest /\ refused => total_fail > 0 \/ \E p \in Slots : Missing(step, ptr, p)
  BY TestStep DEF RefusalInv, Missing
<1>2. ASSUME EnterTest
      PROVE  RefusalInv'
  <2>1. /\ InMemTest /\ NextCall /\ total_fail' = total_fail /\ refused' = refused
        /\ step \in 1..Len(mem_test_calls) /\ mem_test_calls[step].op = "enter"
    BY <1>2, TestStep DEF EnterTest, Call
  <2>2. \A p \in Slots : ~Missing(step, ptr, p)
    BY <2>1, MissingStill
  <2> QED
    BY <1>1, <2>1, <2>2, NextCallRefusal
<1>3. ASSUME UNCHANGED <<ptr, refused, total_fail>>, InMemTest, NextCall, Call.op = "free"
      PROVE  RefusalInv'
  <2>1. step \in 1..Len(mem_test_calls) /\ Looks(mem_test_calls[step]) = {}
    BY <1>3, TestStep DEF Looks, Call
  <2>2. \A p \in Slots : Missing(step, ptr, p) => Missing(step + 1, ptr', p)
    BY <1>3, <2>1, MissingStill
  <2> QED
    BY <1>1, <1>3, <2>2, NextCallRefusal
<1>4. ASSUME TestCheck
      PROVE  RefusalInv'
  <2>1. /\ InMemTest /\ NextCall /\ ptr' = ptr /\ refused' = refused
        /\ step \in 1..Len(mem_test_calls) /\ Call = mem_test_calls[step]
        /\ total_fail' = total_fail + (IF CheckHolds THEN 0 ELSE 1)
        /\ Call.op \in {"check_held", "check_null"}
    BY <1>4, TestStep DEF TestCheck, Call
  <2>2. total_fail' \in Nat /\ (total_fail > 0 \/ ~CheckHolds => total_fail' > 0)
    BY <1>1, <2>1
  <2>3. ASSUME NEW p \in Slots, Missing(step, ptr, p)
        PROVE  total_fail' > 0 \/ Missing(step + 1, ptr', p)
    <3>1. CASE p \in Looks(Call)
      <4>1. Call.op = "check_held" /\ p \in Call.ptrs /\ ptr[p] = NULL
        BY <2>3, <3>1 DEF Looks, Missing
      <4>2. ~CheckHolds
        BY <4>1 DEF CheckHolds
      <4> QED
        BY <2>2, <4>2
    <3>2. CASE p \notin Looks(Call)
      BY <2>1, <2>3, <3>2, MissingStill
    <3> QED
      BY <3>1, <3>2
  <2> QED
    BY <1>1, <2>1, <2>2, <2>3, NextCallRefusal
<1>5. ASSUME TestFreeUninitialised
      PROVE  RefusalInv'
  <2>1. InMemTest /\ Call.op = "free" /\ status = NULL
    BY <1>5, TestStep DEF TestFreeUninitialised, StageInv
  <2>3. /\ UNCHANGED <<ptr, refused, total_fail>>
        /\ \/ NextCall
           \/ pc' = "end" /\ status' = status
    <3>1. CASE NextCall /\ UNCHANGED heap
      BY <3>1 DEF heap
    <3>2. CASE pc' = "end" /\ UNCHANGED <<heap, status>>
      BY <3>2 DEF heap
    <3> QED
      BY <1>5, <3>1, <3>2 DEF TestFreeUninitialised
  <2>2. CASE pc' = "end" /\ status' = status
    BY <1>1, <2>1, <2>2, <2>3 DEF RefusalInv, Testing
  <2> QED
    BY <1>3, <2>1, <2>2, <2>3
<1>6. ASSUME MemTestReturns
      PROVE  RefusalInv'
  <2>1. /\ pc = "mem_test" /\ step \notin 1..Len(mem_test_calls)
        /\ total_fail' = total_fail /\ refused' = refused /\ status = NULL
        /\ \/ total_fail = 0 /\ pc' = "alloc" /\ status' = status
           \/ pc' = "no_memory" /\ status' = 1
        /\ TestPointers(step, ptr, live)
    BY <1>6, CallFacts DEF MemTestReturns, StageInv, HeapInv, PointersInv
  <2>2. \A p \in Slots : ~Missing(step, ptr, p)
    <3>1. step..Len(mem_test_calls) = {}
      BY <2>1, CallFacts DEF TestPointers
    <3> QED
      BY <3>1 DEF Missing, LookedAt
  <2>3. refused => total_fail > 0
    BY <2>1, <2>2 DEF RefusalInv, Missing
  <2>4. total_fail = 0 => ~refused
    BY <1>1, <2>3
  <2> QED
    BY <1>1, <2>1, <2>4 DEF RefusalInv, Testing
<1> QED
  BY <1>2, <1>3, <1>4, <1>5, <1>6, MallocKeepsRefusal
     DEF mem_test, TestFree, GiveBack

LEMMA AllocateStep ==
  ASSUME HeapInv, app \in Apps, AllocateBuffer
  PROVE  /\ pc = "alloc" /\ pc' = pc /\ step \in 1..Count(app) /\ step' = step + 1
         /\ app' = app /\ status' = status /\ total_fail' = total_fail
         /\ exit' = exit /\ told' = told
         /\ AskFor(Buffers(app)[step], BufferSize(Buffers(app)[step]))
         /\ BufferSize(Buffers(app)[step]) \in Sizes
         /\ BufferSize(Buffers(app)[step]) # 0
         /\ Buffers(app)[step] \in DOMAIN ptr
         /\ \A i \in 1..Count(app) : i < step =>
              Buffers(app)[i] \in DOMAIN ptr /\ Buffers(app)[i] # Buffers(app)[step]
         /\ PoolInv /\ step \in Nat
         /\ \A i \in 1..Count(app) : i < step + 1 <=> i < step \/ i = step
<1>1. /\ pc = "alloc" /\ pc' = pc /\ step \in 1..Count(app) /\ step' = step + 1
      /\ app' = app /\ status' = status /\ total_fail' = total_fail
      /\ exit' = exit /\ told' = told
      /\ AskFor(Buffers(app)[step], BufferSize(Buffers(app)[step]))
  BY BufferFacts DEF AllocateBuffer, verdict
<1>2. DOMAIN ptr = Range(Buffers(app)) /\ PoolInv
  BY <1>1 DEF HeapInv, PointersInv, Allocated
<1>3. \A b : BufferSize(b) # 0
  BY TestAssumption DEF BufferSize
<1> QED
  BY <1>1, <1>2, <1>3, BufferFacts

LEMMA AllocateKeepsRefusal ==
  ASSUME HeapInv, app \in Apps, StageInv, RefusalInv, AllocateBuffer
  PROVE  RefusalInv'
<1> DEFINE b(i) == Buffers(app)[i]
<1>1. /\ pc = "alloc" /\ pc' = pc /\ step \in 1..Count(app) /\ step' = step + 1
      /\ app' = app /\ status' = status /\ total_fail' = total_fail /\ status = NULL
  BY AllocateStep DEF StageInv
<1>2. \/ ptr' = [ptr EXCEPT ![b(step)] = NULL] /\ refused' = TRUE
      \/ refused' = refused /\ \E c : ptr' = [ptr EXCEPT ![b(step)] = c]
  BY AllocateStep, AskForOutcome
<1>3. refused' \in BOOLEAN
  BY <1>2 DEF RefusalInv
<1>4. ASSUME refused'
      PROVE  \E i \in 1..Count(app) : i < step + 1 /\ ptr'[b(i)] = NULL
  <2>1. CASE ptr' = [ptr EXCEPT ![b(step)] = NULL]
    <3>1. ptr'[b(step)] = NULL /\ step < step + 1
      BY <2>1, AllocateStep
    <3> QED
      BY <1>1, <3>1
  <2>2. CASE refused' = refused /\ \E c : ptr' = [ptr EXCEPT ![b(step)] = c]
    <3>1. PICK i \in 1..Count(app) : i < step /\ ptr[b(i)] = NULL
      BY <1>1, <1>4, <2>2 DEF RefusalInv
    <3>2. i < step + 1 /\ b(i) \in DOMAIN ptr /\ b(i) # b(step)
      BY <3>1, AllocateStep
    <3>3. ptr'[b(i)] = ptr[b(i)]
      BY <2>2, <3>2
    <3> QED
      BY <3>1, <3>2, <3>3
  <2> QED
    BY <1>2, <2>1, <2>2
<1> QED
  BY <1>1, <1>3, <1>4 DEF RefusalInv, Testing

LEMMA AllocatedKeepsRefusal ==
  ASSUME HeapInv, app \in Apps, StageInv, RefusalInv, BuffersAllocated
  PROVE  RefusalInv'
<1>1. /\ pc = "alloc" /\ refused' = refused /\ total_fail' = total_fail
      /\ \/ /\ pc' = "fill" /\ status' = status
            /\ \A b \in Range(Buffers(app)) : ptr[b] # NULL
         \/ pc' = "over" /\ status' = 1
  BY DEF BuffersAllocated, heap
<1>2. status = NULL
  BY <1>1 DEF StageInv
<1>3. CASE pc' = "fill" /\ \A b \in Range(Buffers(app)) : ptr[b] # NULL
  <2>1. ~refused
    BY <1>1, <1>3, BufferFacts DEF RefusalInv
  <2> QED
    BY <1>1, <1>3, <2>1 DEF RefusalInv, Testing
<1>4. CASE pc' = "over" /\ status' = 1
  BY <1>1, <1>4 DEF RefusalInv, Testing
<1> QED
  BY <1>1, <1>3, <1>4

(* Later steps of the program, and those of the AME. *)
LEMMA LaterSteps ==
  ASSUME [Next]_vars, StageInv, ~mem_test, ~AllocateBuffer, ~BuffersAllocated
  PROVE  /\ app' = app /\ UNCHANGED <<refused, total_fail>>
         /\ \/ UNCHANGED <<pc, status, exit, told, step, ptr>>
            \/ pc \in Testing \cup {"cleanup"} /\ pc' \in Testing \cup {"cleanup"}
               /\ UNCHANGED <<status, exit, told>>
            \/ pc = "cleanup" /\ pc' = "over" /\ status' \in {0, 2} /\ exit' = exit
            \/ pc' = "end" /\ status' = status /\ exit' \in {0, status} /\ status # NULL
<1>1. CASE FillBuffers \/ EnterKernel \/ IssueInstruction
  BY <1>1 DEF FillBuffers, EnterKernel, IssueInstruction, heap, verdict, Testing
<1>2. CASE MACQUIRE \/ CompareResult
  BY <1>2 DEF MACQUIRE, CompareResult, heap, verdict, Testing
<1>3. CASE FreeBuffer
  BY <1>3 DEF FreeBuffer, GiveBack, verdict
<1>4. CASE BuffersFreed
  BY <1>4 DEF BuffersFreed, StatusOf, heap
<1>5. CASE main
  <2>1. pc \in {"no_memory", "over"} /\ status # NULL
    BY <1>5, NullIsNoNumber DEF main, StageInv
  <2> QED
    BY <1>5, <2>1 DEF main, heap
<1>6. CASE ame
  BY <1>6 DEF ame, Execute, heap, verdict
<1>7. CASE UNCHANGED vars
  BY <1>7 DEF vars, heap, verdict
<1> QED
  BY <1>1, <1>2, <1>3, <1>4, <1>5, <1>6, <1>7
     DEF Next, program, ggml_ame_gemm_tile_i8_i32_bT

LEMMA RefusalInvKept ==
  ASSUME IInv, StageInv, RefusalInv, [Next]_vars
  PROVE  RefusalInv'
<1>0. HeapInv /\ app \in Apps
  BY DEF IInv
<1>1. CASE mem_test
  BY <1>0, <1>1, MemTestKeepsRefusal
<1>2. CASE AllocateBuffer
  BY <1>0, <1>2, AllocateKeepsRefusal
<1>3. CASE BuffersAllocated
  BY <1>0, <1>3, AllocatedKeepsRefusal
<1>4. CASE ~mem_test /\ ~AllocateBuffer /\ ~BuffersAllocated
  <2>1. /\ app' = app /\ UNCHANGED <<refused, total_fail>>
        /\ \/ UNCHANGED <<pc, status, exit, told, step, ptr>>
           \/ /\ pc \in Testing \cup {"cleanup"} /\ pc' \in Testing \cup {"cleanup"}
              /\ UNCHANGED <<status, exit, told>>
           \/ pc = "cleanup" /\ pc' = "over" /\ status' \in {0, 2} /\ exit' = exit
           \/ pc' = "end" /\ status' = status /\ exit' \in {0, status} /\ status # NULL
    BY <1>4, LaterSteps
  <2>2. CASE UNCHANGED <<pc, status, exit, told, step, ptr>>
    BY <2>1, <2>2 DEF RefusalInv
  <2>3. CASE /\ pc \in Testing \cup {"cleanup"} /\ pc' \in Testing \cup {"cleanup"}
             /\ UNCHANGED <<status, exit, told>>
    BY <2>1, <2>3 DEF RefusalInv, Testing
  <2>4. CASE pc = "cleanup" /\ pc' = "over"
    BY <2>1, <2>4 DEF RefusalInv, Testing
  <2>5. CASE pc' = "end" /\ status' = status
    BY <2>1, <2>5 DEF RefusalInv, Testing
  <2> QED
    BY <2>1, <2>2, <2>3, <2>4, <2>5
<1> QED
  BY <1>1, <1>2, <1>3, <1>4

(* A program whose pool was refused says so: mem_test misses no block it   *)
(* was not given, and no test of the AME runs on a missing buffer.         *)
THEOREM RefusalIsReported == Spec => [](status # NULL /\ refused => status = 1)
<1>1. Init => RefusalInv
  <2> SUFFICES ASSUME Init PROVE RefusalInv
    OBVIOUS
  <2>1. pc \in {"mem_test", "alloc"} /\ total_fail = 0 /\ refused = FALSE /\ status = NULL
    BY DEF Init
  <2> QED
    BY <2>1 DEF RefusalInv, Testing
<1>2. IInv /\ VerdictInv /\ [Next]_vars => VerdictInv'
  BY VerdictInvKept DEF IInv
<1>3. IInv /\ VerdictInv /\ RefusalInv /\ [Next]_vars => RefusalInv'
  BY RefusalInvKept DEF VerdictInv
<1>4. RefusalInv => (status # NULL /\ refused => status = 1)
  BY DEF RefusalInv
<1> QED
  BY <1>1, <1>2, <1>3, <1>4, NothingJudgedYet, InductiveInvariant, PTL DEF Spec

(* What a call of my_malloc gives the pointer, unless it is refused.       *)
LEMMA GrantedCall ==
  ASSUME PoolInv, NEW p \in DOMAIN ptr, NEW size \in Sizes, AskFor(p, size),
         ~refused', RoomFor(size)
  PROVE  /\ ~refused /\ \E b : ptr' = [ptr EXCEPT ![p] = b]
         /\ size = 0 => ptr'[p] = NULL
         /\ size # 0 => ptr'[p] \notin {NULL, UNINIT} /\ Aligned(ptr'[p])
<1>1. \/ size = 0 /\ ptr' = [ptr EXCEPT ![p] = NULL] /\ refused' = refused
      \/ /\ size # 0 /\ refused' = refused
         /\ \E b : /\ b \notin {NULL, UNINIT} /\ Aligned(b)
                   /\ ptr' = [ptr EXCEPT ![p] = b]
  BY AskForOutcome
<1>2. CASE size = 0 /\ ptr' = [ptr EXCEPT ![p] = NULL] /\ refused' = refused
  <2>1. ptr'[p] = NULL
    BY <1>2
  <2> QED
    BY <1>2, <2>1
<1>3. CASE /\ size # 0 /\ refused' = refused
           /\ \E b : /\ b \notin {NULL, UNINIT} /\ Aligned(b)
                     /\ ptr' = [ptr EXCEPT ![p] = b]
  <2>1. PICK b : b \notin {NULL, UNINIT} /\ Aligned(b) /\ ptr' = [ptr EXCEPT ![p] = b]
    BY <1>3
  <2>2. ptr'[p] = b
    BY <2>1
  <2> QED
    BY <1>3, <2>1, <2>2
<1> QED
  BY <1>1, <1>2, <1>3

LEMMA NextCallGranted ==
  ASSUME HeapInv, StageInv, ToldInv, GrantedInv, InMemTest, NextCall,
         ~refused' => /\ total_fail' = 0
                      /\ \A p \in Slots, kind \in Kinds :
                           GivenBefore(step + 1, <<p, kind>>) => Has(ptr', p, kind)
  PROVE  GrantedInv'
<1>1. /\ pc = "mem_test" /\ pc' = pc /\ step' = step + 1 /\ status' = NULL /\ exit' = NULL
  BY TestStep DEF NextCall, verdict, StageInv, ToldInv
<1>2. ~refused' => \A p \in Slots, kind \in Kinds :
                     GivenBefore(step', <<p, kind>>) => Has(ptr', p, kind)
  BY <1>1
<1> QED
  BY <1>1, <1>2, NullIsNoNumber DEF GrantedInv

(* The call relies on nothing it was not given. *)
LEMMA NeedsAreMet ==
  ASSUME HeapInv, GrantedInv, InMemTest, ~refused, NEW p, NEW kind \in Kinds,
         <<p, kind>> \in Needs(mem_test_calls[step])
  PROVE  Has(ptr, p, kind)
<1>1. step \in 1..Len(mem_test_calls) /\ pc = "mem_test"
  BY TestStep
<1>2. GivenBefore(step, <<p, kind>>)
  BY <1>1, NeededIsGiven
<1>3. p \in Slots
  <2>1. PICK i \in 1..(step - 1) : <<p, kind>> \in Gives(mem_test_calls[i])
    BY <1>2 DEF GivenBefore
  <2>2. i \in 1..Len(mem_test_calls)
    BY <1>1, CallFacts
  <2>3. mem_test_calls[i].op = "malloc" /\ mem_test_calls[i].ptr = p
    BY <2>1 DEF Gives
  <2> QED
    BY <2>2, <2>3, CallFacts DEF WellFormed
<1> QED
  BY <1>1, <1>2, <1>3 DEF GrantedInv

LEMMA MallocKeepsGranted ==
  ASSUME HeapInv, StageInv, ToldInv, RefusalInv, GrantedInv, RoomForRequests, TestMalloc
  PROVE  GrantedInv'
<1>1. /\ InMemTest /\ NextCall /\ total_fail' = total_fail /\ Call = mem_test_calls[step]
      /\ Call.op = "malloc" /\ Call.ptr \in Slots /\ Call.size \in Sizes
      /\ step \in 1..Len(mem_test_calls) /\ Slots = DOMAIN ptr /\ RoomFor(Call.size)
      /\ PoolInv /\ pc = "mem_test"
  BY TestStep, CallFacts
     DEF TestMalloc, Call, WellFormed, Sizes, TestPointers, RoomForRequests
<1> SUFFICES ASSUME ~refused'
             PROVE  /\ total_fail' = 0
                    /\ \A p \in Slots, kind \in Kinds :
                         GivenBefore(step + 1, <<p, kind>>) => Has(ptr', p, kind)
  BY <1>1, NextCallGranted
<1>2. ~refused
  <2>1. CASE UNCHANGED <<pool, ptr, refused>>
    BY <2>1
  <2>2. CASE AskFor(Call.ptr, Call.size)
    BY <1>1, <2>2, GrantedCall
  <2> QED
    BY <2>1, <2>2 DEF TestMalloc
<1>3. AskFor(Call.ptr, Call.size)
  <2>1. CASE Call.loop
    <3>1. <<Call.ptr - 1, "block">> \in Needs(mem_test_calls[step])
      BY <1>1, <2>1 DEF Needs
    <3>2. Has(ptr, Call.ptr - 1, "block")
      BY <1>1, <1>2, <3>1, NeedsAreMet DEF Kinds
    <3>3. ptr[Call.ptr - 1] \notin {NULL, UNINIT}
      BY <3>2 DEF Has
    <3> QED
      BY <3>3 DEF TestMalloc
  <2> QED
    BY <2>1 DEF TestMalloc
<1>4. /\ \E b : ptr' = [ptr EXCEPT ![Call.ptr] = b]
      /\ Call.size = 0 => ptr'[Call.ptr] = NULL
      /\ Call.size # 0 => ptr'[Call.ptr] \notin {NULL, UNINIT} /\ Aligned(ptr'[Call.ptr])
  BY <1>1, <1>3, GrantedCall
<1>5. ASSUME NEW p \in Slots, NEW kind \in Kinds, GivenBefore(step + 1, <<p, kind>>)
      PROVE  Has(ptr', p, kind)
  <2>1. CASE <<p, kind>> \in Gives(mem_test_calls[step])
    <3>1. p = Call.ptr /\ kind \in {"value", IF Call.size = 0 THEN "null" ELSE "block"}
      BY <1>1, <2>1 DEF Gives
    <3>2. NULL # UNINIT
      BY TestAssumption
    <3> QED
      BY <1>4, <3>1, <3>2 DEF Has
  <2>2. CASE GivenBefore(step, <<p, kind>>)
    <3>1. p # Call.ptr
      BY <1>1, <2>2, GivenIsAsked, AskedNow
    <3>2. ptr'[p] = ptr[p]
      BY <1>1, <1>4, <3>1
    <3>3. Has(ptr, p, kind)
      BY <1>1, <1>2, <2>2 DEF GrantedInv
    <3> QED
      BY <3>2, <3>3 DEF Has
  <2> QED
    BY <1>1, <1>5, <2>1, <2>2, GivenByCall
<1> QED
  BY <1>1, <1>2, <1>5 DEF GrantedInv

LEMMA MemTestKeepsGranted ==
  ASSUME HeapInv, StageInv, ToldInv, RefusalInv, GrantedInv, RoomForRequests, mem_test
  PROVE  GrantedInv'
<1>1. ASSUME EnterTest
      PROVE  GrantedInv'
  <2>1. /\ InMemTest /\ NextCall /\ total_fail' = total_fail /\ refused' = refused
        /\ step \in 1..Len(mem_test_calls) /\ mem_test_calls[step].op = "enter"
        /\ pc = "mem_test"
    BY <1>1, TestStep DEF EnterTest, Call
  <2>2. \A r : ~GivenBefore(step + 1, r)
    BY <2>1, GivenByCall DEF Gives
  <2> QED
    BY <2>1, <2>2, NextCallGranted DEF GrantedInv
<1>2. ASSUME InMemTest, NextCall, UNCHANGED <<ptr, refused>>, Call.op # "malloc",
             ~refused => total_fail' = 0
      PROVE  GrantedInv'
  <2>1. /\ step \in 1..Len(mem_test_calls) /\ Gives(mem_test_calls[step]) = {}
        /\ pc = "mem_test"
    BY <1>2, TestStep DEF Gives, Call
  <2>2. \A r : GivenBefore(step + 1, r) => GivenBefore(step, r)
    BY <2>1, GivenByCall
  <2>3. ~refused => \A p \in Slots, kind \in Kinds :
                      GivenBefore(step + 1, <<p, kind>>) => Has(ptr, p, kind)
    BY <2>1, <2>2 DEF GrantedInv
  <2> QED
    BY <1>2, <2>3, NextCallGranted
<1>3. ASSUME TestFree
      PROVE  GrantedInv'
  <2>1. /\ InMemTest /\ NextCall /\ UNCHANGED <<ptr, refused, total_fail>>
        /\ Call.op = "free" /\ pc = "mem_test"
    BY <1>3 DEF TestFree, GiveBack, InMemTest
  <2> QED
    BY <1>2, <2>1 DEF GrantedInv
<1>4. ASSUME TestCheck
      PROVE  GrantedInv'
  <2>1. /\ InMemTest /\ NextCall /\ UNCHANGED <<ptr, refused>> /\ pc = "mem_test"
        /\ Call = mem_test_calls[step] /\ Call.op \in {"check_held", "check_null"}
        /\ total_fail' = total_fail + (IF CheckHolds THEN 0 ELSE 1)
    BY <1>4 DEF TestCheck, InMemTest, Call
  <2>2. ASSUME ~refused PROVE CheckHolds
    <3>1. CASE Call.op = "check_null"
      <4>1. <<Call.ptr, "null">> \in Needs(mem_test_calls[step])
        BY <2>1, <3>1 DEF Needs
      <4>2. Has(ptr, Call.ptr, "null")
        BY <2>1, <2>2, <4>1, NeedsAreMet DEF Kinds
      <4> QED
        BY <3>1, <4>2 DEF CheckHolds, Has
    <3>2. CASE Call.op = "check_held"
      <4>1. ASSUME NEW p \in Call.ptrs
            PROVE  ptr[p] \notin {NULL, UNINIT} /\ Aligned(ptr[p])
        <5>1. <<p, "block">> \in Needs(mem_test_calls[step])
          BY <2>1, <3>2, <4>1 DEF Needs
        <5>2. Has(ptr, p, "block")
          BY <2>1, <2>2, <5>1, NeedsAreMet DEF Kinds
        <5> QED
          BY <5>2 DEF Has
      <4> QED
        BY <3>2, <4>1 DEF CheckHolds
    <3> QED
      BY <2>1, <3>1, <3>2
  <2>3. ~refused => total_fail' = 0
    <3>1. ~refused => total_fail = 0
      BY <2>1 DEF GrantedInv
    <3> QED
      BY <2>1, <2>2, <3>1
  <2> QED
    BY <1>2, <2>1, <2>3
<1>5. ASSUME TestFreeUninitialised
      PROVE  GrantedInv'
  <2>1. InMemTest /\ Call = mem_test_calls[step] /\ Call.op = "free" /\ ptr[Call.ptr] = UNINIT
    BY <1>5 DEF TestFreeUninitialised, Call
  <2>2. refused
    <3>1. <<Call.ptr, "value">> \in Needs(mem_test_calls[step])
      BY <2>1 DEF Needs
    <3>2. ~refused => Has(ptr, Call.ptr, "value")
      BY <2>1, <3>1, NeedsAreMet DEF Kinds
    <3> QED
      BY <2>1, <3>2 DEF Has, RefusalInv
  <2>3. refused' = refused
    BY <1>5 DEF TestFreeUninitialised, heap
  <2>4. CASE NextCall
    BY <2>1, <2>2, <2>3, <2>4, NextCallGranted
  <2>5. CASE pc' = "end" /\ UNCHANGED <<status, told>>
    <3>1. told = NULL /\ status = NULL
      BY <2>1 DEF InMemTest, ToldInv, StageInv
    <3> QED
      BY <2>2, <2>3, <2>5, <3>1, NullIsNoNumber DEF GrantedInv
  <2> QED
    BY <1>5, <2>4, <2>5 DEF TestFreeUninitialised
<1>6. ASSUME MemTestReturns
      PROVE  GrantedInv'
  <2>1. /\ pc = "mem_test" /\ refused' = refused /\ exit' = exit /\ exit = NULL
        /\ told' = told /\ step' = 1 /\ status = NULL
        /\ \/ pc' = "alloc" /\ status' = status
           \/ total_fail # 0 /\ pc' = "no_memory" /\ status' = 1
    BY <1>6 DEF MemTestReturns, ToldInv, StageInv
  <2>2. ~refused => total_fail = 0
    BY <2>1 DEF GrantedInv
  <2>3. \A i \in 1..Count(app)' : ~(i < step')
    BY <2>1
  <2> QED
    BY <2>1, <2>2, <2>3, NullIsNoNumber DEF GrantedInv, RefusalInv
<1> QED
  BY <1>1, <1>3, <1>4, <1>5, <1>6, MallocKeepsGranted DEF mem_test

LEMMA AllocateKeepsGranted ==
  ASSUME HeapInv, app \in Apps, StageInv, ToldInv, GrantedInv, RoomForRequests,
         AllocateBuffer
  PROVE  GrantedInv'
<1> DEFINE b(i) == Buffers(app)[i]
<1>1. /\ pc = "alloc" /\ pc' = pc /\ step \in 1..Count(app) /\ step' = step + 1
      /\ app' = app /\ status' = NULL /\ exit' = NULL
  BY AllocateStep DEF StageInv, ToldInv
<1>2. RoomFor(BufferSize(b(step)))
  BY <1>1, BufferFacts DEF RoomForRequests
<1>3. ASSUME ~refused', NEW i \in 1..Count(app), i < step + 1
      PROVE  ptr'[b(i)] # NULL
  <2>1. /\ ~refused /\ \E c : ptr' = [ptr EXCEPT ![b(step)] = c]
        /\ ptr'[b(step)] # NULL
    BY <1>2, <1>3, AllocateStep, GrantedCall
  <2>2. CASE i < step
    <3>1. ptr[b(i)] # NULL
      BY <1>1, <2>1, <2>2 DEF GrantedInv
    <3>2. b(i) \in DOMAIN ptr /\ b(i) # b(step)
      BY <2>2, AllocateStep
    <3>3. ptr'[b(i)] = ptr[b(i)]
      BY <2>1, <3>2
    <3> QED
      BY <3>1, <3>3
  <2> QED
    BY <1>3, <2>1, <2>2, AllocateStep
<1> QED
  BY <1>1, <1>3, NullIsNoNumber DEF GrantedInv

LEMMA GrantedInvKept ==
  ASSUME IInv, StageInv, ToldInv, RefusalInv, GrantedInv, RoomForRequests, [Next]_vars
  PROVE  GrantedInv'
<1>0. HeapInv /\ app \in Apps
  BY DEF IInv
<1>1. CASE mem_test
  BY <1>0, <1>1, MemTestKeepsGranted
<1>2. CASE AllocateBuffer
  BY <1>0, <1>2, AllocateKeepsGranted
<1>3. CASE BuffersAllocated
  <2>1. /\ pc = "alloc" /\ refused' = refused /\ exit' = exit /\ step \notin DOMAIN Buffers(app)
        /\ \/ pc' = "fill" /\ status' = status
           \/ /\ pc' = "over" /\ status' = 1
              /\ ~\A b \in Range(Buffers(app)) : ptr[b] # NULL
    BY <1>3 DEF BuffersAllocated, heap
  <2>2. status = NULL /\ exit = NULL
    BY <2>1 DEF StageInv, ToldInv
  <2>3. ~refused => \A b \in Range(Buffers(app)) : ptr[b] # NULL
    <3>1. \A i \in 1..Count(app) : i < step
      BY <1>0, <2>1, BufferFacts DEF HeapInv, PointersInv, Allocated
    <3> QED
      BY <1>0, <2>1, <3>1, BufferFacts DEF GrantedInv
  <2> QED
    BY <2>1, <2>2, <2>3, NullIsNoNumber DEF GrantedInv, RefusalInv
<1>4. CASE ~mem_test /\ ~AllocateBuffer /\ ~BuffersAllocated
  <2>1. /\ app' = app /\ UNCHANGED <<refused, total_fail>>
        /\ \/ UNCHANGED <<pc, status, exit, told, step, ptr>>
           \/ /\ pc \in Testing \cup {"cleanup"} /\ pc' \in Testing \cup {"cleanup"}
              /\ UNCHANGED <<status, exit, told>>
           \/ pc = "cleanup" /\ pc' = "over" /\ status' \in {0, 2} /\ exit' = exit
           \/ pc' = "end" /\ status' = status /\ exit' \in {0, status} /\ status # NULL
    BY <1>4, LaterSteps
  <2>2. CASE UNCHANGED <<pc, status, exit, told, step, ptr>>
    BY <2>1, <2>2 DEF GrantedInv
  <2>3. CASE /\ pc \in Testing \cup {"cleanup"} /\ pc' \in Testing \cup {"cleanup"}
             /\ UNCHANGED <<status, exit, told>>
    BY <2>1, <2>3 DEF GrantedInv, Testing
  <2>4. CASE /\ pc = "cleanup" /\ pc' = "over" /\ status' \in {0, 2} /\ exit' = exit
    <3>1. exit = NULL
      BY <2>4 DEF ToldInv
    <3> QED
      BY <2>1, <2>4, <3>1, NullIsNoNumber DEF GrantedInv
  <2>5. CASE pc' = "end" /\ status' = status /\ exit' \in {0, status} /\ status # NULL
    <3>1. status \in {0, 1, 2}
      BY <2>5 DEF StageInv, Testing
    <3>2. exit' # Killed
      BY <2>5, <3>1 DEF Killed
    <3> QED
      BY <2>1, <2>5, <3>2 DEF GrantedInv
  <2> QED
    BY <2>1, <2>2, <2>3, <2>4, <2>5
<1> QED
  BY <1>1, <1>2, <1>3, <1>4

(* If the pool has room for what is asked of it, the verdict is honest:    *)
(* mem_test finds no fault in the allocator, and a program fails before    *)
(* its tests, or is killed, only if the pool was refused.                  *)
THEOREM VerdictHolds == Spec /\ []RoomForRequests => []VerdictIsHonest
<1>1. Init => RefusalInv /\ GrantedInv
  <2> SUFFICES ASSUME Init PROVE RefusalInv /\ GrantedInv
    OBVIOUS
  <2>1. /\ pc \in {"mem_test", "alloc"} /\ total_fail = 0 /\ refused = FALSE /\ status = NULL
        /\ exit = NULL /\ step = 1
    BY DEF Init
  <2>2. \A r : ~GivenBefore(step, r)
    BY <2>1 DEF GivenBefore
  <2>3. \A i \in 1..Count(app) : ~(i < step)
    BY <2>1
  <2>4. RefusalInv
    BY <2>1 DEF RefusalInv, Testing
  <2>5. status # 1 /\ exit # Killed
    BY <2>1, NullIsNoNumber
  <2> QED
    BY <2>1, <2>2, <2>3, <2>4, <2>5 DEF GrantedInv
<1>2. IInv /\ VerdictInv /\ [Next]_vars => VerdictInv'
  BY VerdictInvKept DEF IInv
<1>3. IInv /\ VerdictInv /\ RefusalInv /\ [Next]_vars => RefusalInv'
  BY RefusalInvKept DEF VerdictInv
<1>4. IInv /\ VerdictInv /\ RefusalInv /\ GrantedInv /\ RoomForRequests /\ [Next]_vars
        => GrantedInv'
  BY GrantedInvKept DEF VerdictInv
<1>5. RefusalInv /\ GrantedInv => JudgesThePool
  BY DEF RefusalInv, GrantedInv, JudgesThePool
<1>6. JudgesTheAME /\ JudgesThePool => VerdictIsHonest
  BY DEF VerdictIsHonest
<1> QED
  BY <1>1, <1>2, <1>3, <1>4, <1>5, <1>6, NothingJudgedYet, InductiveInvariant,
     VerdictIsTheAMEs, PTL DEF Spec

-----------------------------------------------------------------------------
(* No call of my_malloc needs more than n bytes, and the pool has room for *)
(* as many calls as a program can make.  The code's pool of 1 GB has: the  *)
(* script has 254 calls, of which none needs more than 65600 bytes.        *)
MaxBuffers == 4

LargePool(n) ==
  /\ \A size \in Sizes \ {0} : Pool!Need(size) <= n
  /\ (Len(mem_test_calls) + MaxBuffers) * n + 128 <= RESERVED_MEMORY_SIZE

(* At most so many calls of my_malloc have been made. *)
Spent ==
  IF pc = "mem_test" THEN step - 1 ELSE Len(mem_test_calls) + step - 1

(* They have used up at most n bytes each from the front of the pool,      *)
(* whatever was freed between them, and in whichever order.                *)
RoomInv(n) ==
  pc \in {"mem_test", "alloc"} => P!Reaches(P!ListAfterInit, Spent * n)

LEMMA SameRoom ==
  /\ P!ListAfterInit = Pool!ListAfterInit
  /\ \A size : P!Need(size) = Pool!Need(size)
  /\ \A b, need : P!Fits(b, need) <=> Pool!Fits(b, need)
BY DEF P!ListAfterInit, Pool!ListAfterInit, P!WholePool, Pool!WholePool,
   P!Need, Pool!Need, P!align_up, Pool!align_up, P!Wrap, Pool!Wrap,
   P!Fits, Pool!Fits, P!ALIGN, Pool!ALIGN,
   P!ALLOC_HDR_SIZE, Pool!ALLOC_HDR_SIZE,
   P!FREE_HDR_SIZE, Pool!FREE_HDR_SIZE

LEMMA Products ==
  ASSUME NEW n \in Nat, NEW s \in Nat
  PROVE  /\ s * n \in Nat /\ (s + 1) * n = s * n + n
         /\ \A t \in Nat : s <= t => s * n <= t * n
<1>1. s * n \in Nat /\ (s + 1) * n = s * n + n
  OBVIOUS
<1>2. ASSUME NEW t \in Nat, s <= t PROVE s * n <= t * n
  <2>1. t - s \in Nat /\ t = s + (t - s)
    BY <1>2
  <2>2. t * n = s * n + (t - s) * n /\ (t - s) * n \in Nat
    BY <2>1
  <2> QED
    BY <1>1, <2>2
<1> QED
  BY <1>1, <1>2

(* Free memory that reaches the end of the pool from h does so from h + n. *)
LEMMA ReachesOn ==
  ASSUME NEW list, NEW h \in Nat, NEW n \in Nat, P!Reaches(list, h), P!GoodList(list)
  PROVE  P!Reaches(list, h + n)
<1>1. PICK q \in 1..Len(list) : P!Ends(list[q], h)
  BY DEF P!Reaches
<1>2. list[q].addr \in Nat
  BY PoolFits, P!GoodListFacts
<1>3. P!Ends(list[q], h + n)
  BY <1>1, <1>2 DEF P!Ends
<1> QED
  BY <1>3 DEF P!Reaches

LEMMA SearchedGood == PoolInv => P!GoodList(P!ListAfterInit)
BY PoolFits, P!SearchedListGood DEF PoolInv

(* What a call of my_malloc, or of my_free, leaves of it. *)
LEMMA AskForReaches ==
  ASSUME PoolInv, NEW p, NEW size \in Sizes, AskFor(p, size), NEW n \in Nat,
         size # 0 => Pool!Need(size) <= n, NEW h \in Nat,
         P!Reaches(P!ListAfterInit, h), h + n + 128 <= RESERVED_MEMORY_SIZE
  PROVE  P!Reaches(P!ListAfterInit', h + n)
<1> DEFINE L == P!ListAfterInit
<1>1. P!GoodList(L) /\ P!Reaches(L, h + n)
  BY SearchedGood, ReachesOn
<1>2. CASE UNCHANGED pool
  <2>1. L' = L
    BY <1>2 DEF pool, P!ListAfterInit, P!WholePool
  <2> QED
    BY <1>1, <2>1
<1>3. CASE Pool!MallocOutOfMemory(size)
  <2>1. pool_base' # NULL /\ free_list' = L
    BY <1>3, SameOutOfMemory, TestAssumption DEF P!MallocOutOfMemory
  <2>2. L' = L
    BY <2>1 DEF P!ListAfterInit
  <2> QED
    BY <1>1, <2>2
<1>4. CASE Pool!MallocFirstFit(size)
  <2> DEFINE need == P!Need(size)
  <2>1. P!MallocFirstFit(size)
    BY <1>4, SameFirstFit
  <2>2. PICK i \in DOMAIN L :
          P!IsFirstFit(L, need, i) /\ free_list' = P!Taken(L, i, need)
    BY <2>1 DEF P!MallocFirstFit
  <2>3. pool_base' # NULL /\ size # 0
    BY <2>1, TestAssumption DEF P!MallocFirstFit
  <2>4. L' = P!Taken(L, i, need)
    BY <2>2, <2>3 DEF P!ListAfterInit
  <2>5. need \in Nat /\ need <= n
    BY <2>3, PoolFits, P!NeedProperties, SameRoom DEF Sizes
  <2> HIDE DEF L, need
  <2>6. n - need \in Nat /\ h + need \in Nat /\ (h + need) + (n - need) = h + n
    BY <2>5
  <2>7. h + need + 128 <= RESERVED_MEMORY_SIZE
    BY <2>5, PoolAssumption
  <2>8. P!Roomy(L, need, h)
    BY <1>1, <2>5, <2>7 DEF L, P!Roomy
  <2>9. P!Reaches(L', h + need)
    BY <2>2, <2>4, <2>8, PoolFits, P!TakenReaches
  <2>10. P!GoodList(L')
    <3>1. PoolInv'
      BY AskForEffect
    <3>2. P!GoodList(free_list')
      BY <3>1 DEF PoolInv, P!IInv, P!GoodList, P!Aligned, P!Past, P!FREE_HDR_SIZE
    <3>3. L' = free_list'
      BY <2>3 DEF L, P!ListAfterInit
    <3> QED
      BY <3>2, <3>3
  <2> QED
    BY <2>6, <2>9, <2>10, ReachesOn DEF L
<1> QED
  BY <1>2, <1>3, <1>4
     DEF AskFor, Pool!MallocZero, Pool!MallocMapFails, Pool!vars, pool

LEMMA GiveBackReaches ==
  ASSUME PoolInv, NEW p, ptr[p] \in live \cup {NULL}, GiveBack(p), NEW h \in Nat,
         P!Reaches(P!ListAfterInit, h)
  PROVE  P!Reaches(P!ListAfterInit', h)
<1> DEFINE L == P!ListAfterInit
           b == ptr[p]
           blk == P!FreedBlock(b)
<1>1. CASE UNCHANGED pool
  <2>1. L' = L
    BY <1>1 DEF pool, P!ListAfterInit, P!WholePool
  <2> QED
    BY <2>1
<1>2. CASE b \in live /\ P!my_free(b)
  <2>1. PICK k \in 1..(Len(free_list) + 1) :
          /\ P!IsInsertionPoint(free_list, blk, k)
          /\ free_list' = P!Returned(free_list, blk, k)
    BY <1>2 DEF P!my_free
  <2>2. pool_base # NULL /\ pool_base' = pool_base
    BY <1>2 DEF PoolInv, P!IInv, P!my_free
  <2>3. L = free_list /\ L' = P!Returned(free_list, blk, k)
    BY <2>1, <2>2 DEF P!ListAfterInit
  <2>4. /\ b.addr \in Nat /\ b.size \in Nat
        /\ b.addr + 64 + b.size <= RESERVED_MEMORY_SIZE
    BY <1>2 DEF PoolInv, P!IInv, P!GoodLive, P!LiveBlock, P!Past, P!FREE_HDR_SIZE
  <2>5. blk = [addr |-> b.addr, size |-> b.size + 64 - 64]
    BY DEF P!FreedBlock, P!ALLOC_HDR_SIZE, P!FREE_HDR_SIZE
  <2> HIDE DEF blk, b, L
  <2>6. blk = [addr |-> b.addr, size |-> b.size]
    BY <2>4, <2>5
  <2>7. blk.addr = b.addr /\ blk.size = b.size /\ blk \in P!Block
    BY <2>4, <2>6 DEF P!Block
  <2>8. P!Past(blk) <= RESERVED_MEMORY_SIZE
    BY <2>4, <2>7 DEF P!Past, P!FREE_HDR_SIZE
  <2>9. P!GoodList(free_list) /\ P!Reaches(free_list, h)
    BY <2>3 DEF PoolInv, P!IInv, L
  <2>10. P!Reaches(L', h)
    BY <2>1, <2>3, <2>7, <2>8, <2>9, PoolFits, P!ReturnedReaches
  <2> QED
    BY <2>10 DEF L
<1>3. UNCHANGED pool \/ (b \in live /\ P!my_free(b))
  BY SameFree DEF GiveBack
<1> QED
  BY <1>1, <1>2, <1>3

LEMMA NoBuffersYet ==
  ASSUME HeapInv, app \in Apps, pc \in {"mem_test", "alloc"}
  PROVE  /\ step \in Nat \ {0} /\ Spent \in Nat /\ PoolInv
         /\ InMemTest => Spent + 1 <= Len(mem_test_calls) + MaxBuffers
         /\ pc = "alloc" /\ step \in DOMAIN Buffers(app) =>
              Spent + 1 <= Len(mem_test_calls) + MaxBuffers
         /\ pc = "mem_test" => step \in 1..(Len(mem_test_calls) + 1)
<1>1. Len(mem_test_calls) \in Nat
  BY CallFacts
<1>2. CASE pc = "mem_test"
  <2>1. step \in 1..(Len(mem_test_calls) + 1)
    BY <1>2 DEF HeapInv, PointersInv, TestPointers
  <2>2. InMemTest => step \in 1..Len(mem_test_calls)
    BY CallFacts DEF InMemTest
  <2>3. Spent = step - 1
    BY <1>2 DEF Spent
  <2> QED
    BY <1>1, <1>2, <2>1, <2>2, <2>3 DEF HeapInv, MaxBuffers
<1>3. CASE pc = "alloc"
  <2>1. step \in 1..(Count(app) + 1) /\ DOMAIN Buffers(app) = 1..Count(app)
    BY <1>3, BufferFacts DEF HeapInv, PointersInv, Allocated
  <2>2. Count(app) \in {3, 4}
    BY DEF Count, Buffers, Apps
  <2>3. Spent = Len(mem_test_calls) + step - 1
    BY <1>3 DEF Spent
  <2>4. ~InMemTest
    BY <1>3 DEF InMemTest
  <2> QED
    BY <1>1, <1>3, <2>1, <2>2, <2>3, <2>4 DEF HeapInv, MaxBuffers
<1> QED
  BY <1>2, <1>3

(* So the pool has a block for the next request. *)
LEMMA RoomIsThere ==
  ASSUME HeapInv, app \in Apps, NEW n \in Nat, LargePool(n), RoomInv(n)
  PROVE  /\ RoomForRequests
         /\ InMemTest \/ (pc = "alloc" /\ step \in DOMAIN Buffers(app)) =>
              Spent * n + n + 128 <= RESERVED_MEMORY_SIZE
<1> DEFINE h == Spent * n
           asking == InMemTest \/ (pc = "alloc" /\ step \in DOMAIN Buffers(app))
<1>1. ASSUME asking
      PROVE  /\ h \in Nat /\ h + n + 128 <= RESERVED_MEMORY_SIZE /\ PoolInv
             /\ P!Reaches(P!ListAfterInit, h)
  <2>1. pc \in {"mem_test", "alloc"}
    BY <1>1 DEF InMemTest
  <2>2. /\ Spent \in Nat /\ Spent + 1 <= Len(mem_test_calls) + MaxBuffers /\ PoolInv
        /\ Len(mem_test_calls) + MaxBuffers \in Nat
    BY <1>1, <2>1, NoBuffersYet, CallFacts DEF MaxBuffers
  <2>3. h \in Nat /\ (Spent + 1) * n = h + n
    BY <2>2, Products
  <2>4. (Spent + 1) * n <= (Len(mem_test_calls) + MaxBuffers) * n
    <3>1. Spent + 1 \in Nat
      BY <2>2
    <3> QED
      BY <2>2, <3>1, Products
  <2>5. (Len(mem_test_calls) + MaxBuffers) * n \in Nat
    BY <2>2, Products
  <2>6. P!Reaches(P!ListAfterInit, h)
    BY <2>1 DEF RoomInv
  <2> HIDE DEF h
  <2>7. h + n + 128 <= RESERVED_MEMORY_SIZE
    BY <2>3, <2>4, <2>5, PoolAssumption DEF LargePool
  <2> QED
    BY <2>2, <2>3, <2>6, <2>7
<1>2. ASSUME asking, NEW size \in Sizes
      PROVE  RoomFor(size)
  <2> SUFFICES ASSUME size # 0
               PROVE  \E i \in DOMAIN P!ListAfterInit :
                        P!Fits(P!ListAfterInit[i], P!Need(size))
    BY SameRoom DEF RoomFor
  <2> DEFINE need == P!Need(size)
             L == P!ListAfterInit
  <2>1. need \in Nat /\ need <= n
    BY PoolFits, P!NeedProperties, SameRoom DEF Sizes, LargePool
  <2>2. P!GoodList(L) /\ P!Reaches(L, h) /\ h \in Nat /\ h + n + 128 <= RESERVED_MEMORY_SIZE
    BY <1>1, <1>2, SearchedGood
  <2> HIDE DEF need, L, h
  <2>3. h + need + 128 <= RESERVED_MEMORY_SIZE
    BY <2>1, <2>2, PoolAssumption
  <2>4. P!Roomy(L, need, h)
    BY <2>1, <2>2, <2>3 DEF P!Roomy
  <2>5. \E q \in DOMAIN L : P!Fits(L[q], need)
    BY <2>4, PoolFits, P!RoomyFits
  <2> QED
    BY <2>5 DEF L, need
<1>3. InMemTest /\ Call.op = "malloc" => RoomFor(Call.size)
  <2> SUFFICES ASSUME InMemTest, Call.op = "malloc" PROVE RoomFor(Call.size)
    OBVIOUS
  <2>1. Call.size \in Sizes
    BY TestStep, CallFacts DEF Call, WellFormed, Sizes
  <2> QED
    BY <1>2, <2>1
<1>4. pc = "alloc" /\ step \in DOMAIN Buffers(app) =>
        RoomFor(BufferSize(Buffers(app)[step]))
  <2> SUFFICES ASSUME pc = "alloc", step \in DOMAIN Buffers(app)
               PROVE  RoomFor(BufferSize(Buffers(app)[step]))
    OBVIOUS
  <2>1. BufferSize(Buffers(app)[step]) \in Sizes
    BY BufferFacts
  <2> QED
    BY <1>2, <2>1
<1> QED
  BY <1>1, <1>3, <1>4 DEF RoomForRequests

(* A call of mem_test after which the free block still begins in time.     *)
LEMMA NextCallKeepsRoom ==
  ASSUME HeapInv, app \in Apps, NEW n \in Nat, InMemTest, NextCall,
         P!Reaches(P!ListAfterInit', Spent * n + n)
  PROVE  RoomInv(n)'
<1>1. pc = "mem_test" /\ pc' = "mem_test" /\ step' = step + 1 /\ step \in Nat /\ Spent \in Nat
  BY NoBuffersYet DEF InMemTest, NextCall
<1>2. Spent = step - 1 /\ Spent' = step' - 1
  BY <1>1 DEF Spent
<1>3. Spent' = Spent + 1
  BY <1>1, <1>2
<1> QED
  BY <1>1, <1>3, Products DEF RoomInv

LEMMA UnusedRoom == UNCHANGED pool => P!ListAfterInit' = P!ListAfterInit
BY DEF pool, P!ListAfterInit, P!WholePool

LEMMA RoomInvKept ==
  ASSUME IInv, NEW n \in Nat, LargePool(n), RoomInv(n), [Next]_vars
  PROVE  RoomInv(n)'
<1> DEFINE h == Spent * n
<1>1. HeapInv /\ app \in Apps /\ PoolInv
  BY DEF IInv, HeapInv
<1>2. ASSUME pc \in {"mem_test", "alloc"}
      PROVE  /\ h \in Nat /\ P!Reaches(P!ListAfterInit, h)
             /\ P!Reaches(P!ListAfterInit, h + n)
  <2>1. Spent \in Nat
    BY <1>1, <1>2, NoBuffersYet
  <2>2. h \in Nat /\ P!Reaches(P!ListAfterInit, h)
    BY <1>2, <2>1, Products DEF RoomInv
  <2> HIDE DEF h
  <2> QED
    BY <1>1, <2>2, ReachesOn, SearchedGood
<1>3. ASSUME InMemTest \/ (pc = "alloc" /\ step \in DOMAIN Buffers(app))
      PROVE  h + n + 128 <= RESERVED_MEMORY_SIZE /\ h \in Nat /\ P!Reaches(P!ListAfterInit, h)
  BY <1>1, <1>2, <1>3, RoomIsThere DEF InMemTest
<1>4. \A size \in Sizes : size # 0 => Pool!Need(size) <= n
  BY DEF LargePool
<1>5. ASSUME InMemTest, NextCall, UNCHANGED pool
      PROVE  RoomInv(n)'
  BY <1>1, <1>2, <1>5, UnusedRoom, NextCallKeepsRoom DEF InMemTest
<1>6. CASE EnterTest \/ TestCheck
  BY <1>5, <1>6 DEF EnterTest, TestCheck
<1>7. CASE TestMalloc
  <2>1. InMemTest /\ NextCall /\ Call.size \in Sizes
    BY <1>1, <1>7, TestStep, CallFacts DEF TestMalloc, Call, WellFormed, Sizes
  <2>2. CASE UNCHANGED pool
    BY <1>5, <2>1, <2>2
  <2>3. CASE AskFor(Call.ptr, Call.size)
    <3>1. P!Reaches(P!ListAfterInit', h + n)
      BY <1>1, <1>3, <1>4, <2>1, <2>3, AskForReaches
    <3> QED
      BY <1>1, <2>1, <3>1, NextCallKeepsRoom
  <2> QED
    BY <1>7, <2>2, <2>3 DEF TestMalloc
<1>8. CASE TestFree
  <2>1. /\ InMemTest /\ NextCall /\ mem_test_calls[step].op = "free"
        /\ ptr[Call.ptr] # UNINIT /\ GiveBack(Call.ptr)
    BY <1>8 DEF TestFree, Call
  <2>2. Call.ptr \in Slots /\ FreedFrom(step, Call.ptr)
    BY <1>1, <2>1, TestStep, CallFacts, FreedNow DEF Call, WellFormed
  <2>3. ptr[Call.ptr] \in live \cup {NULL}
    BY <1>1, <2>1, <2>2, TestStep DEF TestPointers
  <2>4. h + n \in Nat /\ P!Reaches(P!ListAfterInit, h + n)
    BY <1>2, <2>1 DEF InMemTest
  <2> HIDE DEF h
  <2>5. P!Reaches(P!ListAfterInit', h + n)
    BY <1>1, <2>1, <2>3, <2>4, GiveBackReaches
  <2> QED
    BY <1>1, <2>1, <2>5, NextCallKeepsRoom DEF h
<1>9. CASE TestFreeUninitialised
  <2>1. CASE NextCall
    BY <1>5, <1>9, <2>1 DEF TestFreeUninitialised, heap
  <2>2. CASE pc' = "end"
    BY <2>2 DEF RoomInv
  <2> QED
    BY <1>9, <2>1, <2>2 DEF TestFreeUninitialised
<1>10. CASE MemTestReturns
  <2>1. /\ pc = "mem_test" /\ step \notin 1..Len(mem_test_calls) /\ step' = 1
        /\ pc' \in {"alloc", "no_memory"} /\ UNCHANGED pool
    BY <1>10, CallFacts DEF MemTestReturns
  <2>2. step \in 1..(Len(mem_test_calls) + 1) /\ Len(mem_test_calls) \in Nat
    BY <1>1, <2>1, NoBuffersYet, CallFacts
  <2>3. step = Len(mem_test_calls) + 1
    BY <2>1, <2>2
  <2>4. CASE pc' = "alloc"
    <3>1. Spent = step - 1 /\ Spent' = Len(mem_test_calls) + step' - 1
      BY <2>1, <2>4 DEF Spent
    <3>2. Spent' = Spent
      BY <2>1, <2>2, <2>3, <3>1
    <3> QED
      BY <1>2, <2>1, <3>2, UnusedRoom DEF RoomInv
  <2>5. CASE pc' = "no_memory"
    BY <2>5 DEF RoomInv
  <2> QED
    BY <2>1, <2>4, <2>5
<1>11. CASE AllocateBuffer
  <2>1. /\ pc = "alloc" /\ pc' = "alloc" /\ step' = step + 1
        /\ step \in DOMAIN Buffers(app)
        /\ AskFor(Buffers(app)[step], BufferSize(Buffers(app)[step]))
        /\ BufferSize(Buffers(app)[step]) \in Sizes
    BY <1>1, <1>11, AllocateStep DEF AllocateBuffer
  <2>2. P!Reaches(P!ListAfterInit', h + n)
    BY <1>1, <1>3, <1>4, <2>1, AskForReaches
  <2>3. step \in Nat /\ Spent \in Nat /\ Len(mem_test_calls) \in Nat
    BY <1>1, <2>1, NoBuffersYet, CallFacts
  <2>4. Spent = Len(mem_test_calls) + step - 1 /\ Spent' = Len(mem_test_calls) + step' - 1
    BY <2>1 DEF Spent
  <2>5. Spent' = Spent + 1
    BY <2>1, <2>3, <2>4
  <2> QED
    BY <2>2, <2>3, <2>5, Products DEF RoomInv
<1>12. CASE UNCHANGED <<pc, step, pool>>
  <2>1. Spent' = Spent
    BY <1>12 DEF Spent
  <2> QED
    BY <1>12, <2>1, UnusedRoom DEF RoomInv
<1>13. CASE pc' \notin {"mem_test", "alloc"}
  BY <1>13 DEF RoomInv
<1>14. BuffersAllocated \/ FillBuffers \/ EnterKernel => pc' \notin {"mem_test", "alloc"}
  BY DEF BuffersAllocated, FillBuffers, EnterKernel
<1>15. IssueInstruction \/ MACQUIRE \/ CompareResult => pc' \notin {"mem_test", "alloc"}
  BY DEF IssueInstruction, MACQUIRE, CompareResult
<1>16. FreeBuffer \/ BuffersFreed \/ main => pc' \notin {"mem_test", "alloc"}
  BY DEF FreeBuffer, BuffersFreed, main
<1>17. ame \/ UNCHANGED vars => UNCHANGED <<pc, step, pool>>
  BY DEF ame, Execute, vars, heap
<1> QED
  BY <1>6, <1>7, <1>8, <1>9, <1>10, <1>11, <1>12, <1>13, <1>14, <1>15, <1>16, <1>17
     DEF Next, program, mem_test, ggml_ame_gemm_tile_i8_i32_bT

(* With a pool as large as all that is asked of it together, the verdict   *)
(* is that of the AME and of the pool, whatever the AME executes first and *)
(* whenever the pool is refused: no test of mem_test fails for want of     *)
(* memory, however the tests before it have cut up the pool.               *)
THEOREM VerdictHoldsInLargePool ==
  ASSUME NEW n \in Nat, LargePool(n)
  PROVE  Spec => []VerdictIsHonest
<1>1. Init => RoomInv(n)
  <2> SUFFICES ASSUME Init PROVE RoomInv(n)
    OBVIOUS
  <2>1. pc \in {"mem_test", "alloc"} /\ step = 1 /\ pool_base = NULL
    BY DEF Init, Pool!Init
  <2>2. P!ListAfterInit = P!WholePool
    BY <2>1 DEF P!ListAfterInit
  <2>3. P!Reaches(P!ListAfterInit, 0)
    BY <2>2, PoolFits, P!WholePoolReaches
  <2>4. Spent \in Nat
    BY <2>1, CallFacts DEF Spent
  <2>5. Spent * n \in Nat
    BY <2>4, Products
  <2>6. P!GoodList(P!WholePool)
    BY <2>2, SearchedGood, InitEstablishes DEF IInv, HeapInv
  <2>7. P!Reaches(P!ListAfterInit, 0 + Spent * n)
    BY <2>2, <2>3, <2>5, <2>6, ReachesOn
  <2> QED
    BY <2>5, <2>7 DEF RoomInv
<1>2. IInv /\ RoomInv(n) /\ [Next]_vars => RoomInv(n)'
  BY RoomInvKept
<1>3. IInv /\ RoomInv(n) => RoomForRequests
  BY RoomIsThere DEF IInv
<1>4. Spec => []RoomForRequests
  BY <1>1, <1>2, <1>3, InductiveInvariant, PTL DEF Spec
<1> QED
  BY <1>4, VerdictHolds, PTL

-----------------------------------------------------------------------------
(* The kernels of test_ame_kernels.c: every case fits in the pools.        *)
Fitting ==
  {d \in [type : {"int8", "bf16", "f16"}, m : 1..MAXM, n : 1..MAXN, k : 1..MAXK,
          tm : 1..MAXM, tn : 1..MAXN, tk : 1..MAXK, primary : BOOLEAN] :
     d.tm * d.tn <= MAXN * MAXN /\ MAXK % d.tk = 0}

LEMMA MinOfTwo ==
  ASSUME NEW x \in Int, NEW y \in Int
  PROVE  /\ Min({x, y}) \in {x, y} /\ Min({x, y}) <= x /\ Min({x, y}) <= y
<1>1. \E z \in {x, y} : \A u \in {x, y} : z <= u
  <2>1. CASE x <= y
    BY <2>1
  <2>2. CASE y <= x
    BY <2>2
  <2> QED
    BY <2>1, <2>2
<1>2. /\ Min({x, y}) \in {x, y} /\ \A u \in {x, y} : Min({x, y}) <= u
  BY <1>1 DEF Min
<1> QED
  BY <1>2

LEMMA CaseFits ==
  ASSUME NEW type \in {"int8", "bf16", "f16"}, NEW s \in Shape, NEW ts \in 1..2, NEW tile,
         NEW primary \in BOOLEAN,
         tile = tile_sets[ts] \/ tile = BF16Tile(ts),
         s.m <= MAXM /\ s.n <= MAXN /\ s.k <= MAXK
  PROVE  CaseOf(type, s, tile, primary) \in Fitting
<1>1. /\ tile_sets[ts] \in Shape /\ BF16Tile(ts) \in Shape
      /\ BF16Tile(ts).m = tile_sets[ts].m /\ BF16Tile(ts).n = tile_sets[ts].n
      /\ BF16Tile(ts).k = bf16_tile_k
  BY ShapeAssumption DEF BF16Tile, Shape
<1>2. /\ tile \in Shape /\ tile.m <= MAXM /\ tile.n <= MAXN /\ tile.k <= MAXK
      /\ tile.m * tile.n <= MAXN * MAXN /\ MAXK % tile.k = 0
  BY <1>1, TileAssumption
<1>3. /\ s.m \in 1..MAXM /\ s.n \in 1..MAXN /\ s.k \in 1..MAXK
      /\ tile.m \in 1..MAXM /\ tile.n \in 1..MAXN /\ tile.k \in 1..MAXK
  <2>1. /\ s.m \in Nat \ {0} /\ s.n \in Nat \ {0} /\ s.k \in Nat \ {0}
        /\ tile.m \in Nat \ {0} /\ tile.n \in Nat \ {0} /\ tile.k \in Nat \ {0}
    BY <1>2 DEF Shape
  <2>2. tile.m <= MAXM /\ tile.n <= MAXN /\ tile.k <= MAXK
    BY <1>2
  <2>3. MAXM \in Nat /\ MAXN \in Nat /\ MAXK \in Nat
    BY ShapeAssumption
  <2> QED
    BY <2>1, <2>2, <2>3
<1> QED
  BY <1>2, <1>3 DEF CaseOf, Fitting

LEMMA ClippedFits ==
  ASSUME NEW s \in Shape
  PROVE  /\ Clipped(s) \in Shape
         /\ Clipped(s).m <= MAXM /\ Clipped(s).n <= MAXN /\ Clipped(s).k <= MAXK
<1>1. /\ s.m \in Nat \ {0} /\ s.n \in Nat \ {0} /\ s.k \in Nat \ {0}
      /\ MAXM \in Nat \ {0} /\ MAXN \in Nat \ {0} /\ MAXK \in Nat \ {0}
  BY ShapeAssumption DEF Shape
<1>2. /\ Min({s.m, MAXM}) \in {s.m, MAXM} /\ Min({s.m, MAXM}) <= MAXM
      /\ Min({s.n, MAXN}) \in {s.n, MAXN} /\ Min({s.n, MAXN}) <= MAXN
      /\ Min({s.k, MAXK}) \in {s.k, MAXK} /\ Min({s.k, MAXK}) <= MAXK
  <2> DEFINE Lesser(x, y) == Min({x, y})
  <2>1. \A x, y \in Int : Lesser(x, y) \in {x, y} /\ Lesser(x, y) <= x /\ Lesser(x, y) <= y
    BY MinOfTwo
  <2> HIDE DEF Lesser
  <2>2. /\ Lesser(s.m, MAXM) \in {s.m, MAXM} /\ Lesser(s.m, MAXM) <= MAXM
        /\ Lesser(s.n, MAXN) \in {s.n, MAXN} /\ Lesser(s.n, MAXN) <= MAXN
        /\ Lesser(s.k, MAXK) \in {s.k, MAXK} /\ Lesser(s.k, MAXK) <= MAXK
    BY <1>1, <2>1
  <2> QED
    BY <2>2 DEF Lesser
<1> QED
  BY <1>1, <1>2 DEF Clipped, Shape

LEMMA CasesFit ==
  ASSUME NEW hw, NEW spec \in 1..2, NEW alt \in BOOLEAN
  PROVE  Cases(hw, spec, alt) \in Seq(Fitting) /\ Len(Cases(hw, spec, alt)) >= 1
<1> DEFINE CasesOf(type, ts, tile) ==
             IF Tried(ts, hw, spec, alt)
             THEN [s \in DOMAIN shapes |-> CaseOf(type, Clipped(shapes[s]), tile, ts = spec)]
             ELSE << >>
           last == <<CaseOf("f16", f16_shape, BF16Tile(spec), TRUE)>>
           bs == <<CasesOf("int8", 1, tile_sets[1]), CasesOf("int8", 2, tile_sets[2]),
                   CasesOf("bf16", 1, BF16Tile(1)), CasesOf("bf16", 1, BF16Tile(1)),
                   CasesOf("bf16", 2, BF16Tile(2)), CasesOf("bf16", 2, BF16Tile(2)), last>>
<1>1. ASSUME NEW type \in {"int8", "bf16"}, NEW ts \in 1..2, NEW tile,
             tile = tile_sets[ts] \/ tile = BF16Tile(ts)
      PROVE  CasesOf(type, ts, tile) \in Seq(Fitting)
  <2>1. \A s \in DOMAIN shapes : CaseOf(type, Clipped(shapes[s]), tile, ts = spec) \in Fitting
    <3> SUFFICES ASSUME NEW s \in DOMAIN shapes
                 PROVE  CaseOf(type, Clipped(shapes[s]), tile, ts = spec) \in Fitting
      OBVIOUS
    <3>1. shapes[s] \in Shape /\ (ts = spec) \in BOOLEAN
      BY ShapeAssumption
    <3>2. type \in {"int8", "bf16", "f16"}
      OBVIOUS
    <3> QED
      BY <1>1, <3>1, <3>2, ClippedFits, CaseFits
  <2>2. Len(shapes) \in Nat /\ DOMAIN shapes = 1..Len(shapes)
    BY ShapeAssumption
  <2> QED
    BY <2>1, <2>2
<1>2. last \in Seq(Fitting) /\ Len(last) = 1
  <2>1. f16_shape \in Shape /\ TRUE \in BOOLEAN
    BY ShapeAssumption
  <2> DEFINE e == CaseOf("f16", f16_shape, BF16Tile(spec), TRUE)
  <2>2. e \in Fitting
    <3>1. "f16" \in {"int8", "bf16", "f16"}
      OBVIOUS
    <3> QED
      BY <2>1, <3>1, TileAssumption, CaseFits
  <2> HIDE DEF e
  <2>3. <<e>> \in Seq(Fitting) /\ Len(<<e>>) = 1
    BY <2>2
  <2> QED
    BY <2>3 DEF e
<1>3. bs \in Seq(Seq(Fitting)) /\ Len(bs) = 7 /\ bs[7] = last
  <2>1. /\ CasesOf("int8", 1, tile_sets[1]) \in Seq(Fitting)
        /\ CasesOf("int8", 2, tile_sets[2]) \in Seq(Fitting)
        /\ CasesOf("bf16", 1, BF16Tile(1)) \in Seq(Fitting)
        /\ CasesOf("bf16", 2, BF16Tile(2)) \in Seq(Fitting)
    <3> HIDE DEF CasesOf
    <3>1. 1 \in 1..2 /\ 2 \in 1..2 /\ "int8" \in {"int8", "bf16"} /\ "bf16" \in {"int8", "bf16"}
      OBVIOUS
    <3> QED
      BY <1>1, <3>1
  <2> HIDE DEF CasesOf, last
  <2> QED
    BY <1>2, <2>1
<1>4. Cases(hw, spec, alt) = FlattenSeq(bs)
  BY DEF Cases
<1> HIDE DEF bs, last
<1>5. PICK g : Flattens(g, bs, Fitting) /\ FlattenSeq(bs) = g[Len(bs)]
  BY <1>3, FlattenExists
<1>6. /\ g[6] \in Seq(Fitting) /\ g[7] \in Seq(Fitting) /\ g[7] = g[6] \o last
  <2>1. 6 \in 0..(Len(bs) - 1) /\ 6 \in 0..Len(bs) /\ 7 \in 0..Len(bs) /\ 6 + 1 = 7
    BY <1>3
  <2>2. g \in [0..Len(bs) -> Seq(Fitting)] /\ g[6 + 1] = g[6] \o bs[6 + 1]
    BY <1>5, <2>1 DEF Flattens
  <2> QED
    BY <1>3, <2>1, <2>2
<1>7. Len(g[7]) = Len(g[6]) + 1 /\ Len(g[6]) \in Nat
  <2> DEFINE h == g[6]
  <2> HIDE DEF h
  <2>1. h \in Seq(Fitting) /\ g[7] = h \o last
    BY <1>6 DEF h
  <2>2. Len(h) \in Nat
    BY <2>1
  <2>3. Len(h \o last) = Len(h) + Len(last)
    BY <1>2, <2>1, ConcatProperties
  <2> QED
    BY <1>2, <2>1, <2>2, <2>3 DEF h
<1> QED
  BY <1>3, <1>4, <1>5, <1>6, <1>7

-----------------------------------------------------------------------------
(* Blocks: element x of row r of block t, of kt blocks of tm rows.         *)
LEMMA InBlocks ==
  ASSUME NEW kt \in Nat, NEW tm \in Nat, NEW tk \in Nat,
         NEW t \in 0..(kt - 1), NEW r \in 0..(tm - 1), NEW x \in 0..(tk - 1),
         NEW p, p = (t * tm + r) * tk + x
  PROVE  /\ p \in 0..(kt * tm * tk - 1)
         /\ p \div (tm * tk) = t /\ (p \div tk) % tm = r /\ p % tk = x
<1> DEFINE u == t * tm + r
           v == r * tk + x
           b == kt * tm
           w == tm * tk
<1>1. u \in 0..(b - 1) /\ u \div tm = t /\ u % tm = r /\ b \in Nat /\ w \in Nat
  BY FlatIndex
<1>2. v \in 0..(w - 1)
  BY FlatIndex
<1>3. p = u * tk + x
  OBVIOUS
<1>4. p = t * w + v
  OBVIOUS
<1>5. u % tm = r
  BY <1>1
<1> HIDE DEF u, v, b, w
<1>6. p \in 0..(b * tk - 1) /\ p \div tk = u /\ p % tk = x
  BY <1>1, <1>3, FlatIndex
<1>7. p \div w = t
  BY <1>1, <1>2, <1>4, FlatIndex
<1> QED
  BY <1>5, <1>6, <1>7 DEF b, w

LEMMA Covered ==
  ASSUME NEW k \in Nat \ {0}, NEW tk \in Nat \ {0}
  PROVE  /\ k_tiles_of(k, tk) \in Nat \ {0}
         /\ k <= k_tiles_of(k, tk) * tk /\ k_tiles_of(k, tk) * tk <= k + tk - 1
<1> DEFINE kt == (k + tk - 1) \div tk
           rest == (k + tk - 1) % tk
<1>1. kt \in Nat /\ rest \in 0..(tk - 1) /\ k + tk - 1 = tk * kt + rest
  <2>1. k + tk - 1 \in Nat
    OBVIOUS
  <2> QED
    BY <2>1, DivMod
<1> HIDE DEF kt, rest
<1>2. tk * kt = kt * tk /\ kt * tk \in Nat
  BY <1>1
<1>3. k <= kt * tk /\ kt * tk <= k + tk - 1
  BY <1>1, <1>2
<1>4. kt # 0
  BY <1>3
<1> QED
  BY <1>1, <1>3, <1>4 DEF kt, k_tiles_of

(* The blocks of a case fit in a pool of rows * MAXK places. *)
LEMMA BlocksFit ==
  ASSUME NEW k \in 1..MAXK, NEW tk \in 1..MAXK, MAXK % tk = 0,
         NEW all \in Nat, NEW tm \in 1..all
  PROVE  /\ k_tiles_of(k, tk) * tm * tk \in Nat
         /\ k_tiles_of(k, tk) * tm * tk <= all * MAXK
<1> DEFINE kt == k_tiles_of(k, tk)
           y == kt * tk
<1>1. MAXK \in Nat /\ k \in Nat \ {0} /\ tk \in Nat \ {0} /\ tm \in Nat /\ tm <= all
  BY ShapeAssumption
<1>2. kt \in Nat /\ y \in Nat /\ y <= MAXK
  <2>1. kt \in Nat \ {0} /\ y <= k + tk - 1
    BY <1>1, Covered
  <2> HIDE DEF kt
  <2>2. PICK q \in Nat : MAXK = tk * q
    <3>1. MAXK \in Nat /\ tk \in Nat \ {0}
      BY <1>1
    <3>2. MAXK \div tk \in Nat /\ MAXK = tk * (MAXK \div tk) + (MAXK % tk)
      BY <3>1, DivMod
    <3> DEFINE d == MAXK \div tk
    <3>3. d \in Nat /\ MAXK = tk * d + 0
      BY <3>2
    <3> HIDE DEF d
    <3> QED
      BY <3>1, <3>3
  <2>3. y \in Nat /\ y = tk * kt /\ tk * q \in Nat
    BY <1>1, <2>1, <2>2
  <2>4. CASE kt <= q
    <3>1. tk * kt <= tk * q
      <4>1. kt \in 0..q
        BY <2>1, <2>2, <2>4
      <4> QED
        BY <1>1, <2>2, <4>1, Multiples
    <3> QED
      BY <2>1, <2>2, <2>3, <3>1
  <2>5. CASE kt > q
    <3>1. tk * (q + 1) <= tk * kt
      <4>1. q + 1 \in 0..kt /\ kt \in Nat
        BY <2>1, <2>2, <2>5
      <4> QED
        BY <1>1, <4>1, Multiples
    <3>2. tk * (q + 1) = tk * q + tk
      BY <1>1, <2>2
    <3> QED
      BY <1>1, <2>1, <2>2, <2>3, <3>1, <3>2
  <2> QED
    BY <2>1, <2>2, <2>4, <2>5
<1>3. kt * tm * tk = y * tm
  <2> HIDE DEF kt
  <2> QED
    BY <1>1, <1>2
<1> HIDE DEF kt, y
<1>4. y * tm \in Nat /\ y * tm <= y * all
  BY <1>1, <1>2, Multiples
<1>5. all * y <= all * MAXK
  <2>1. MAXK \in Nat /\ y \in 0..MAXK
    BY <1>1, <1>2
  <2> QED
    BY <2>1, Multiples
<1>6. y * all = all * y
  BY <1>1, <1>2
<1>7. y * tm <= all * MAXK
  <2>1. y * all \in Nat /\ all * MAXK \in Nat
    BY <1>1, <1>2
  <2> QED
    BY <1>4, <1>5, <1>6, <2>1
<1> QED
  BY <1>3, <1>4, <1>7 DEF kt

(* What the blocks of a tile hold: row r of the tile in column y. *)
Padded(src, row, rows, r, y) ==
  IF r < rows /\ y < tried.k THEN src[(row + r) * tried.k + y] ELSE 0

Packed(blocks, src, row, rows, tm) ==
  \A t \in 0..(k_tiles_of(tried.k, tried.tk) - 1), r \in 0..(tm - 1), x \in 0..(tried.tk - 1) :
    blocks[(t * tm + r) * tried.tk + x] = Padded(src, row, rows, r, t * tried.tk + x)

LEMMA PackRowsPacks ==
  ASSUME tried \in Fitting, NEW all \in Nat, NEW tm \in 1..all,
         NEW dst, DOMAIN dst = 0..(all * MAXK - 1), NEW src, NEW row, NEW rows
  PROVE  /\ DOMAIN pack_rows(dst, src, row, rows, tm) = DOMAIN dst
         /\ Packed(pack_rows(dst, src, row, rows, tm), src, row, rows, tm)
<1> DEFINE k == tried.k
           tk == tried.tk
           kt == k_tiles_of(k, tk)
           blocks == pack_rows(dst, src, row, rows, tm)
<1>1. DOMAIN blocks = DOMAIN dst
  BY DEF pack_rows
<1>2. k \in 1..MAXK /\ tk \in 1..MAXK /\ MAXK \in Nat /\ MAXK % tk = 0
  BY ShapeAssumption DEF Fitting
<1>3. kt \in Nat /\ kt * tm * tk \in Nat /\ kt * tm * tk <= all * MAXK
  <2>1. k \in Nat \ {0} /\ tk \in Nat \ {0}
    BY <1>2
  <2> QED
    BY <1>2, <2>1, Covered, BlocksFit
<1> SUFFICES ASSUME NEW t \in 0..(kt - 1), NEW r \in 0..(tm - 1), NEW x \in 0..(tk - 1)
             PROVE  blocks[(t * tm + r) * tk + x] = Padded(src, row, rows, r, t * tk + x)
  BY <1>1 DEF Packed
<1> DEFINE p == (t * tm + r) * tk + x
<1>4. /\ p \in 0..(kt * tm * tk - 1)
      /\ p \div (tm * tk) = t /\ (p \div tk) % tm = r /\ p % tk = x
  <2>1. tm \in Nat /\ tk \in Nat /\ kt \in Nat
    BY <1>2, <1>3
  <2> HIDE DEF kt, tk
  <2>2. p = (t * tm + r) * tk + x
    OBVIOUS
  <2> HIDE DEF p
  <2> QED
    BY <2>1, <2>2, InBlocks, SMTT(30)
<1>5. p \in DOMAIN dst /\ ~(t >= kt)
  <2>1. all * MAXK \in Nat
    BY <1>2
  <2> HIDE DEF p, kt, tk
  <2> QED
    BY <1>3, <1>4, <2>1
<1> HIDE DEF p
<1>6. blocks[p] = (LET t0 == p \div (tm * tk) IN
                   LET r0 == (p \div tk) % tm IN
                   LET kk == t0 * tk + (p % tk) IN
                   IF t0 >= kt THEN dst[p]
                   ELSE IF r0 < rows /\ kk < k THEN src[(row + r0) * k + kk]
                   ELSE 0)
  BY <1>5 DEF pack_rows
<1> QED
  BY <1>4, <1>5, <1>6, Zenon DEF p, Padded

-----------------------------------------------------------------------------
(* A tile of the product. *)
Tiling == {"pack_b", "pack_a", "kernel", "copy"}

Allocating == {"alloc_a", "alloc_b", "alloc_c", "malloc"}

KernelTypes ==
  /\ cases \in Seq(Fitting) /\ case \in 1..Len(cases)
  /\ at \in Allocating \cup {"fill", "compare", "end", "exit"} \cup Tiling
  /\ at \in {"alloc_b", "alloc_c"} => DOMAIN pool_a = PoolA
  /\ at = "alloc_c" => DOMAIN pool_b = PoolB
  /\ at \in {"malloc", "fill", "compare"} \cup Tiling =>
       DOMAIN pool_a = PoolA /\ DOMAIN pool_b = PoolB /\ DOMAIN pool_c = PoolC
  /\ at \in Tiling \cup {"compare"} =>
       /\ a_rows \in [0..(tried.m * tried.k - 1) -> Int]
       /\ bt_rows \in [0..(tried.n * tried.k - 1) -> Int]
       /\ DOMAIN out = 0..(tried.m * tried.n - 1)
  /\ at \in Tiling => m0 \in 0..(tried.m - 1) /\ n0 \in 0..(tried.n - 1)
  /\ at = "pack_b" => m0 = 0

LEMMA TriedFits ==
  ASSUME KernelTypes
  PROVE  /\ tried \in Fitting
         /\ tried.m \in 1..MAXM /\ tried.n \in 1..MAXN /\ tried.k \in 1..MAXK
         /\ tried.tm \in 1..MAXM /\ tried.tn \in 1..MAXN /\ tried.tk \in 1..MAXK
         /\ tried.m \in Nat \ {0} /\ tried.n \in Nat \ {0} /\ tried.k \in Nat \ {0}
         /\ tried.tm \in Nat \ {0} /\ tried.tn \in Nat \ {0} /\ tried.tk \in Nat \ {0}
         /\ tried.primary \in BOOLEAN
<1>1. tried \in Fitting
  BY DEF KernelTypes, tried
<1>2. /\ tried.m \in 1..MAXM /\ tried.n \in 1..MAXN /\ tried.k \in 1..MAXK
      /\ tried.tm \in 1..MAXM /\ tried.tn \in 1..MAXN /\ tried.tk \in 1..MAXK
      /\ tried.primary \in BOOLEAN
  BY <1>1 DEF Fitting
<1>3. MAXM \in Nat /\ MAXN \in Nat /\ MAXK \in Nat
  BY ShapeAssumption
<1> QED
  BY <1>1, <1>2, <1>3

LEMMA RowsFromIs ==
  ASSUME NEW all \in Nat, NEW first \in 0..(all - 1), NEW tile \in Nat \ {0}
  PROVE  /\ RowsFrom(first, all, tile) \in 1..tile
         /\ first + RowsFrom(first, all, tile) <= all
         /\ RowsFrom(first, all, tile) < tile => first + RowsFrom(first, all, tile) = all
<1> DEFINE rows == Min({all - first, tile})
<1>1. rows \in {all - first, tile} /\ rows <= all - first /\ rows <= tile
  BY MinOfTwo
<1> HIDE DEF rows
<1>2. /\ rows \in 1..tile /\ first + rows <= all
      /\ rows < tile => first + rows = all
  BY <1>1
<1> QED
  BY <1>2 DEF rows, RowsFrom

LEMMA TileRows ==
  ASSUME KernelTypes, at \in Tiling
  PROVE  /\ mrows \in 1..tried.tm /\ m0 + mrows <= tried.m
         /\ mrows < tried.tm => m0 + mrows = tried.m
         /\ nrows \in 1..tried.tn /\ n0 + nrows <= tried.n
         /\ nrows < tried.tn => n0 + nrows = tried.n
<1>1. /\ m0 \in 0..(tried.m - 1) /\ n0 \in 0..(tried.n - 1)
      /\ tried.m \in Nat /\ tried.n \in Nat
  BY TriedFits DEF KernelTypes
<1>2. tried.tm \in Nat \ {0} /\ tried.tn \in Nat \ {0}
  BY TriedFits
<1> QED
  BY <1>1, <1>2, RowsFromIs DEF mrows, nrows

(* The products that a scalar product of rows of two matrices adds up.     *)
Factors(G, row, col, i, j, m, n, k) ==
  /\ m \in Nat /\ n \in Nat /\ k \in Nat /\ i \in 0..(m - 1) /\ j \in 0..(n - 1)
  /\ row \in [0..(m * k - 1) -> Int] /\ col \in [0..(n * k - 1) -> Int]
  /\ G = [x \in 0..(k - 1) |-> row[i * k + x] * col[j * k + x]]

LEMMA DotIsNumber ==
  ASSUME NEW G, NEW row, NEW col, NEW i, NEW j, NEW m, NEW n, NEW k,
         Factors(G, row, col, i, j, m, n, k)
  PROVE  /\ IntOn(G, 0..(k - 1))
         /\ Dot(row, col, i, j, k) = SumFunctionOnSet(G, 0..(k - 1))
         /\ Dot(row, col, i, j, k) \in Int
<1>0. /\ m \in Nat /\ n \in Nat /\ k \in Nat /\ i \in 0..(m - 1) /\ j \in 0..(n - 1)
      /\ row \in [0..(m * k - 1) -> Int] /\ col \in [0..(n * k - 1) -> Int]
      /\ G = [x \in 0..(k - 1) |-> row[i * k + x] * col[j * k + x]]
  BY DEF Factors
<1>1. \A x \in 0..(k - 1) : G[x] \in Int
  <2> SUFFICES ASSUME NEW x \in 0..(k - 1) PROVE row[i * k + x] * col[j * k + x] \in Int
    BY <1>0
  <2>1. i * k + x \in 0..(m * k - 1) /\ j * k + x \in 0..(n * k - 1)
    BY <1>0, FlatIndex
  <2>2. row[i * k + x] \in Int /\ col[j * k + x] \in Int
    BY <1>0, <2>1
  <2> QED
    BY <2>2
<1>2. IsFiniteSet(0..(k - 1))
  <2>1. 0 \in Int /\ k - 1 \in Int
    BY <1>0
  <2> QED
    BY <2>1, FS_Interval
<1>3. IntOn(G, 0..(k - 1)) /\ DOMAIN G = 0..(k - 1)
  BY <1>0, <1>1, <1>2 DEF IntOn
<1>4. SumFunctionOnSet(G, 0..(k - 1)) \in Int
  BY <1>3, SumType
<1>5. Dot(row, col, i, j, k) = SumFunction(G)
  BY <1>0 DEF Dot
<1> QED
  BY <1>3, <1>4, <1>5 DEF SumFunction

(* The kernel's sum over the blocks is the scalar product: beyond the last *)
(* column the blocks hold zeros.                                           *)
LEMMA ElementIsDot ==
  ASSUME KernelTypes, at \in Tiling,
         Packed(pool_a, a_rows, m0, mrows, tried.tm),
         Packed(pool_b, bt_rows, n0, nrows, tried.tn),
         NEW i \in 0..(mrows - 1), NEW j \in 0..(nrows - 1)
  PROVE  TileElement(i, j) = Dot(a_rows, bt_rows, m0 + i, n0 + j, tried.k)
<1> DEFINE k == tried.k
           tk == tried.tk
           kt == k_tiles_of(k, tk)
           S == 0..(kt * tk - 1)
           T == 0..(k - 1)
           A(t, x) == pool_a[(t * tried.tm + i) * tk + x]
           B(t, x) == pool_b[(t * tried.tn + j) * tk + x]
           F == [x \in S |-> LET t == x \div tk IN
                   pool_a[(t * tried.tm + i) * tk + (x % tk)]
                     * pool_b[(t * tried.tn + j) * tk + (x % tk)]]
           G == [x \in T |-> a_rows[(m0 + i) * k + x] * bt_rows[(n0 + j) * k + x]]
<1>1. /\ k \in Nat \ {0} /\ tk \in Nat \ {0} /\ kt \in Nat \ {0} /\ kt * tk \in Nat
      /\ k <= kt * tk
  <2>1. k \in Nat \ {0} /\ tk \in Nat \ {0}
    BY TriedFits
  <2>2. kt \in Nat \ {0} /\ k <= kt * tk
    BY <2>1, Covered
  <2> HIDE DEF kt
  <2> QED
    BY <2>1, <2>2
<1>2. /\ m0 + i \in 0..(tried.m - 1) /\ n0 + j \in 0..(tried.n - 1)
      /\ i \in 0..(tried.tm - 1) /\ j \in 0..(tried.tn - 1)
      /\ i < mrows /\ j < nrows
  <2>1. tried.m \in Nat /\ tried.n \in Nat /\ tried.tm \in Nat /\ tried.tn \in Nat
    BY TriedFits
  <2>2. m0 \in Nat /\ n0 \in Nat
    BY <2>1 DEF KernelTypes
  <2> QED
    BY <2>1, <2>2, TileRows
<1>3. ASSUME NEW x \in S
      PROVE  F[x] = IF x < k THEN a_rows[(m0 + i) * k + x] * bt_rows[(n0 + j) * k + x] ELSE 0
  <2> DEFINE t == x \div tk
             y == x % tk
  <2>1. t \in 0..(kt - 1) /\ y \in 0..(tk - 1) /\ t * tk + y = x
    BY <1>1, FlatInverse
  <2>2. F[x] = A(t, y) * B(t, y)
    BY <1>3
  <2> HIDE DEF t, y, F
  <2>3. A(t, y) = Padded(a_rows, m0, mrows, i, x) /\ B(t, y) = Padded(bt_rows, n0, nrows, j, x)
    BY <1>2, <2>1 DEF Packed
  <2>4. CASE x < k
    BY <1>2, <2>2, <2>3, <2>4 DEF Padded
  <2>5. CASE ~(x < k)
    <3>1. A(t, y) = 0 /\ B(t, y) = 0
      BY <2>3, <2>5 DEF Padded
    <3> QED
      BY <2>2, <2>5, <3>1
  <2> QED
    BY <2>4, <2>5
<1>4. /\ IntOn(G, T)
      /\ Dot(a_rows, bt_rows, m0 + i, n0 + j, k) = SumFunctionOnSet(G, T)
  <2>1. /\ a_rows \in [0..(tried.m * k - 1) -> Int] /\ bt_rows \in [0..(tried.n * k - 1) -> Int]
        /\ tried.m \in Nat /\ tried.n \in Nat
    BY TriedFits DEF KernelTypes
  <2>2. Factors(G, a_rows, bt_rows, m0 + i, n0 + j, tried.m, tried.n, k)
    BY <1>1, <1>2, <2>1 DEF Factors
  <2> HIDE DEF G
  <2> QED
    BY <2>2, DotIsNumber
<1>5. TileElement(i, j) = SumFunctionOnSet(F, S)
  <2>1. DOMAIN F = S
    OBVIOUS
  <2> QED
    BY <2>1 DEF TileElement, SumFunction
<1>6. T \subseteq S /\ IsFiniteSet(S)
  <2>1. 0 \in Int /\ kt * tk - 1 \in Int
    BY <1>1
  <2>2. IsFiniteSet(S)
    BY <2>1, FS_Interval
  <2> HIDE DEF kt
  <2> QED
    BY <1>1, <2>2
<1>7. \A x \in T : G[x] = a_rows[(m0 + i) * k + x] * bt_rows[(n0 + j) * k + x] /\ G[x] \in Int
  BY <1>4 DEF IntOn
<1>8. \A x \in T : x < k /\ x \in Int
  BY <1>1
<1>9. \A x \in S \ T : ~(x < k)
  <2> HIDE DEF kt
  <2> QED
    BY <1>1
<1> HIDE DEF F, G, S, T, kt
<1>10. \A x \in T : F[x] = G[x]
  BY <1>3, <1>6, <1>7, <1>8
<1>11. \A x \in S \ T : F[x] = 0
  BY <1>3, <1>9
<1>12. IntOn(F, S)
  <2>1. \A x \in S : F[x] \in Int
    BY <1>7, <1>10, <1>11
  <2> QED
    BY <1>6, <2>1 DEF IntOn
<1>13. IntOn(F, T) /\ SumFunctionOnSet(F, S) = SumFunctionOnSet(F, T)
  BY <1>6, <1>11, <1>12, SumPart
<1>14. SumFunctionOnSet(F, T) = SumFunctionOnSet(G, T)
  BY <1>10, <1>13, SumSame
<1> QED
  BY <1>4, <1>5, <1>13, <1>14

-----------------------------------------------------------------------------
(* The invariant: the pools hold the blocks of the tile at hand, and the   *)
(* AME has erred only in tiles that come before it.                        *)
PoolsPacked ==
  /\ at \in {"pack_a", "kernel", "copy"} => Packed(pool_b, bt_rows, n0, nrows, tried.tn)
  /\ at = "kernel" => Packed(pool_a, a_rows, m0, mrows, tried.tm)

(* In the column of tiles at hand, the rows the AME is done with. *)
Reached == IF at = "copy" THEN m0 + tried.tm ELSE m0

FaultsBehind ==
  /\ at \in Allocating => faults = << >>
  /\ \A d, i, j : <<d, i, j>> \in DOMAIN faults =>
       /\ faults[<<d, i, j>>] \in {"near", "far", "nan"}
       /\ d \in 1..case /\ i \in Nat /\ j \in Nat
       /\ d = case =>
            /\ at # "fill"
            /\ at \in Tiling => j < n0 \/ (j < n0 + tried.tn /\ i < Reached)

TileDone ==
  at = "copy" =>
    \A i \in 0..(mrows - 1), j \in 0..(nrows - 1) :
      pool_c[i * tried.tn + j]
        = Element(Dot(a_rows, bt_rows, m0 + i, n0 + j, tried.k), Error(m0 + i, n0 + j))

TilesInv == PoolsPacked /\ FaultsBehind /\ TileDone /\ TilesMatchReference

LEMMA PoolAllocKeeps ==
  ASSUME KernelTypes, TilesInv, pool_alloc \/ host_malloc
  PROVE  KernelTypes' /\ TilesInv'
<1>1. /\ at \in Allocating /\ at' \in Allocating \cup {"fill", "exit"}
      /\ UNCHANGED <<cases, case, faults>> /\ faults = << >>
  BY DEF pool_alloc, host_malloc, NoMemory, TilesInv, FaultsBehind, Allocating
<1>2. /\ at' \in {"alloc_b", "alloc_c"} => DOMAIN pool_a' = PoolA
      /\ at' = "alloc_c" => DOMAIN pool_b' = PoolB
      /\ at' \in {"malloc", "fill"} =>
           DOMAIN pool_a' = PoolA /\ DOMAIN pool_b' = PoolB /\ DOMAIN pool_c' = PoolC
      /\ at' # "alloc_a"
  <2>1. CASE pool_alloc
    BY <2>1 DEF pool_alloc, NoMemory, KernelTypes
  <2>2. CASE host_malloc
    BY <2>2 DEF host_malloc, NoMemory, KernelTypes
  <2> QED
    BY <2>1, <2>2
<1>3. KernelTypes'
  BY <1>1, <1>2 DEF KernelTypes, Tiling, Allocating
<1>4. DOMAIN << >> = {}
  OBVIOUS
<1>5. PoolsPacked' /\ FaultsBehind' /\ TileDone' /\ TilesMatchReference'
  BY <1>1, <1>4 DEF PoolsPacked, FaultsBehind, TileDone, TilesMatchReference, Allocating
<1> QED
  BY <1>3, <1>5 DEF TilesInv

LEMMA BeginCaseKeeps ==
  ASSUME KernelTypes, TilesInv, BeginCase
  PROVE  KernelTypes' /\ TilesInv'
<1>1. /\ at = "fill" /\ at' = "pack_b" /\ m0' = 0 /\ n0' = 0
      /\ UNCHANGED <<cases, case, pool_a, pool_b, pool_c, faults>>
      /\ a_rows' = [i \in 0..(tried.m * tried.k - 1) |-> Random(i)]
      /\ bt_rows' = [i \in 0..(tried.n * tried.k - 1) |-> Random(tried.m * tried.k + i)]
      /\ out' = [q \in 0..(tried.m * tried.n - 1) |-> Element(0, "none")]
  BY DEF BeginCase
<1>2. tried' = tried
  BY <1>1 DEF tried
<1>3. \A i \in Int : Random(i) \in Int
  <2> SUFFICES ASSUME NEW i \in Int PROVE Random(i) \in Int
    OBVIOUS
  <2> DEFINE x == case + 3 * i + i * i
  <2>1. x \in Int
    BY DEF KernelTypes
  <2> HIDE DEF x
  <2>2. x % 11 \in Int
    BY <2>1
  <2> QED
    BY <2>2 DEF x, Random
<1>4. /\ a_rows' \in [0..(tried.m * tried.k - 1) -> Int]
      /\ bt_rows' \in [0..(tried.n * tried.k - 1) -> Int]
  <2>1. tried.m * tried.k \in Int
    BY TriedFits
  <2>2. \A i \in 0..(tried.m * tried.k - 1) : Random(i) \in Int
    BY <1>3
  <2>3. \A i \in 0..(tried.n * tried.k - 1) : Random(tried.m * tried.k + i) \in Int
    BY <1>3, <2>1
  <2> QED
    BY <1>1, <2>2, <2>3
<1>5. /\ 0 \in 0..(tried.m - 1) /\ 0 \in 0..(tried.n - 1)
      /\ tried.m \in Nat \ {0} /\ tried.n \in Nat \ {0}
  BY TriedFits
<1>6. KernelTypes'
  BY <1>1, <1>2, <1>4, <1>5 DEF KernelTypes, Tiling, Allocating
<1>7. PoolsPacked' /\ TileDone'
  BY <1>1 DEF PoolsPacked, TileDone
<1>8. FaultsBehind'
  BY <1>1 DEF TilesInv, FaultsBehind, Tiling, Allocating
<1>9. TilesMatchReference'
  <2> SUFFICES ASSUME NEW q \in DOMAIN out' PROVE ~Computed(q)' /\ out'[q] = Element(0, "none")
    BY DEF TilesMatchReference
  <2>1. q \in 0..(tried.m * tried.n - 1)
    BY <1>1
  <2>2. q \div tried.n \in 0..(tried.m - 1) /\ q % tried.n \in 0..(tried.n - 1)
    <3> DEFINE R == tried.m
               N == tried.n
    <3>1. R \in Nat /\ N \in Nat \ {0} /\ q \in 0..(R * N - 1)
      BY <1>5, <2>1
    <3> HIDE DEF R, N
    <3>2. q \div N \in 0..(R - 1) /\ q % N \in 0..(N - 1)
      BY <3>1, FlatInverse
    <3> QED
      BY <3>2 DEF R, N
  <2>3. Computed(q)' => q % tried.n < 0 \/ q \div tried.n < 0
    BY <1>1, <1>2 DEF Computed
  <2> QED
    BY <1>1, <2>1, <2>2, <2>3
<1> QED
  BY <1>6, <1>7, <1>8, <1>9 DEF TilesInv

LEMMA PackKeeps ==
  ASSUME KernelTypes, TilesInv, PackB \/ PackA
  PROVE  KernelTypes' /\ TilesInv'
<1>1. /\ at \in {"pack_b", "pack_a"} /\ at' \in {"pack_a", "kernel"}
      /\ UNCHANGED <<cases, case, m0, n0, a_rows, bt_rows, pool_c, out, faults>>
  BY DEF PackB, PackA
<1>2. tried' = tried /\ mrows' = mrows /\ nrows' = nrows /\ reference' = reference
  BY <1>1 DEF tried, mrows, nrows, reference
<1>3. /\ DOMAIN pool_a = 0..(MAXM * MAXK - 1) /\ DOMAIN pool_b = 0..(MAXN * MAXK - 1)
      /\ tried \in Fitting /\ tried.tm \in 1..MAXM /\ tried.tn \in 1..MAXN
      /\ MAXM \in Nat /\ MAXN \in Nat
  BY <1>1, TriedFits, ShapeAssumption DEF KernelTypes, PoolA, PoolB, Tiling
<1>4. /\ DOMAIN pool_a' = DOMAIN pool_a /\ DOMAIN pool_b' = DOMAIN pool_b
      /\ PoolsPacked'
  <2>1. CASE PackB
    <3>1. /\ at' = "pack_a" /\ pool_b' = pack_rows(pool_b, bt_rows, n0, nrows, tried.tn)
          /\ pool_a' = pool_a
      BY <2>1 DEF PackB
    <3>2. DOMAIN pool_b' = DOMAIN pool_b /\ Packed(pool_b', bt_rows, n0, nrows, tried.tn)
      BY <1>3, <3>1, PackRowsPacks
    <3>3. Packed(pool_b, bt_rows, n0, nrows, tried.tn)'
      BY <1>1, <1>2, <3>2 DEF Packed, Padded
    <3> QED
      BY <3>1, <3>2, <3>3 DEF PoolsPacked
  <2>2. CASE PackA
    <3>1. /\ at = "pack_a" /\ at' = "kernel" /\ pool_b' = pool_b
          /\ pool_a' = pack_rows(pool_a, a_rows, m0, mrows, tried.tm)
      BY <2>2 DEF PackA
    <3>2. DOMAIN pool_a' = DOMAIN pool_a /\ Packed(pool_a', a_rows, m0, mrows, tried.tm)
      BY <1>3, <3>1, PackRowsPacks
    <3>3. Packed(pool_a, a_rows, m0, mrows, tried.tm)'
      BY <1>1, <1>2, <3>2 DEF Packed, Padded
    <3>4. Packed(pool_b, bt_rows, n0, nrows, tried.tn)
      BY <3>1 DEF TilesInv, PoolsPacked
    <3>5. Packed(pool_b, bt_rows, n0, nrows, tried.tn)'
      BY <1>1, <1>2, <3>1, <3>4 DEF Packed, Padded
    <3> QED
      BY <3>1, <3>2, <3>3, <3>5 DEF PoolsPacked
  <2> QED
    BY <2>1, <2>2
<1>5. KernelTypes'
  BY <1>1, <1>2, <1>4 DEF KernelTypes, Tiling, Allocating
<1>6. FaultsBehind'
  BY <1>1, <1>2 DEF TilesInv, FaultsBehind, Tiling, Reached, Allocating
<1>7. TileDone'
  BY <1>1 DEF TileDone
<1>8. TilesMatchReference'
  <2> SUFFICES ASSUME NEW q \in DOMAIN out'
               PROVE  out'[q] = IF ~Computed(q)' THEN Element(0, "none")
                                ELSE Element(reference'[q], Error(q \div tried.n, q % tried.n)')
    BY DEF TilesMatchReference
  <2>1. Computed(q)' <=> Computed(q)
    BY <1>1, <1>2 DEF Computed
  <2>2. out[q] = IF ~Computed(q) THEN Element(0, "none")
                 ELSE Element(reference[q], Error(q \div tried.n, q % tried.n))
    BY <1>1 DEF TilesInv, TilesMatchReference
  <2>3. Error(q \div tried.n, q % tried.n)' = Error(q \div tried.n, q % tried.n)
    BY <1>1, <1>2 DEF Error
  <2> QED
    BY <1>1, <1>2, <2>1, <2>2, <2>3, Zenon
<1> QED
  BY <1>4, <1>5, <1>6, <1>7, <1>8 DEF TilesInv

LEMMA PositionInProduct ==
  ASSUME KernelTypes, NEW q \in 0..(tried.m * tried.n - 1)
  PROVE  /\ q \div tried.n \in 0..(tried.m - 1) /\ q % tried.n \in 0..(tried.n - 1)
         /\ q = (q \div tried.n) * tried.n + (q % tried.n)
<1> DEFINE R == tried.m
           N == tried.n
<1>1. R \in Nat /\ N \in Nat \ {0} /\ q \in 0..(R * N - 1)
  BY TriedFits
<1> HIDE DEF R, N
<1>2. q \div N \in 0..(R - 1) /\ q % N \in 0..(N - 1) /\ q = (q \div N) * N + (q % N)
  BY <1>1, FlatInverse
<1> QED
  BY <1>2 DEF R, N

LEMMA PositionInTile ==
  ASSUME KernelTypes, NEW i \in 0..(tried.tm - 1), NEW j \in 0..(tried.tn - 1)
  PROVE  /\ i * tried.tn + j \in 0..(tried.tm * tried.tn - 1) /\ i * tried.tn + j \in PoolC
         /\ (i * tried.tn + j) \div tried.tn = i /\ (i * tried.tn + j) % tried.tn = j
<1> DEFINE R == tried.tm
           N == tried.tn
<1>1. /\ R \in Nat /\ N \in Nat /\ i \in 0..(R - 1) /\ j \in 0..(N - 1)
      /\ R * N <= MAXN * MAXN /\ MAXN \in Nat
  BY TriedFits, ShapeAssumption DEF Fitting
<1> HIDE DEF R, N
<1>2. /\ i * N + j \in 0..(R * N - 1)
      /\ (i * N + j) \div N = i /\ (i * N + j) % N = j
  BY <1>1, FlatIndex
<1>3. R * N \in Int /\ MAXN * MAXN \in Int
  BY <1>1
<1>4. i * N + j \in 0..(MAXN * MAXN - 1)
  <2> DEFINE p == i * N + j
             u == R * N
             v == MAXN * MAXN
  <2>1. p \in 0..(u - 1) /\ u <= v /\ u \in Int /\ v \in Int
    BY <1>1, <1>2, <1>3
  <2> HIDE DEF p, u, v
  <2>2. p \in 0..(v - 1)
    BY <2>1
  <2> QED
    BY <2>2 DEF p, v
<1> QED
  BY <1>2, <1>4 DEF R, N, PoolC

(* What the AME gets wrong in a tile: the elements erred, each with the    *)
(* error kind says.                                                        *)
Spoils(erred, kind) ==
  /\ erred \subseteq {0, tried.tm * tried.tn - 1} /\ kind \in [erred -> Errors(tried.type)]
  /\ pool_c' = [p \in DOMAIN pool_c |->
       IF p >= tried.tm * tried.tn THEN pool_c[p]
       ELSE Element(TileElement(p \div tried.tn, p % tried.tn),
                    IF p \in erred THEN kind[p] ELSE "none")]
  /\ \A d, i, j :
       /\ <<d, i, j>> \in DOMAIN faults' <=>
            \/ <<d, i, j>> \in DOMAIN faults
            \/ /\ d = case
               /\ \E p \in erred : i = m0 + (p \div tried.tn) /\ j = n0 + (p % tried.tn)
       /\ <<d, i, j>> \in DOMAIN faults => faults'[<<d, i, j>>] = faults[<<d, i, j>>]
       /\ <<d, i, j>> \in DOMAIN faults' \ DOMAIN faults =>
            faults'[<<d, i, j>>] = kind[(i - m0) * tried.tn + (j - n0)]

LEMMA KernelSpoils ==
  ASSUME xsai_ame_gemm_tile_kloop
  PROVE  \E erred : \E kind : Spoils(erred, kind)
<1>1. PICK erred \in SUBSET {0, tried.tm * tried.tn - 1} :
      \E kind \in [erred -> Errors(tried.type)] :
        /\ pool_c' = [p \in DOMAIN pool_c |->
             IF p >= tried.tm * tried.tn THEN pool_c[p]
             ELSE Element(TileElement(p \div tried.tn, p % tried.tn),
                          IF p \in erred THEN kind[p] ELSE "none")]
        /\ faults' =
             [x \in DOMAIN faults \cup
                   {<<case, m0 + (p \div tried.tn), n0 + (p % tried.tn)>> : p \in erred} |->
                IF x \in DOMAIN faults THEN faults[x]
                ELSE kind[(x[2] - m0) * tried.tn + (x[3] - n0)]]
  BY DEF xsai_ame_gemm_tile_kloop
<1>2. PICK kind \in [erred -> Errors(tried.type)] :
        /\ pool_c' = [p \in DOMAIN pool_c |->
             IF p >= tried.tm * tried.tn THEN pool_c[p]
             ELSE Element(TileElement(p \div tried.tn, p % tried.tn),
                          IF p \in erred THEN kind[p] ELSE "none")]
        /\ faults' =
             [x \in DOMAIN faults \cup
                   {<<case, m0 + (p \div tried.tn), n0 + (p % tried.tn)>> : p \in erred} |->
                IF x \in DOMAIN faults THEN faults[x]
                ELSE kind[(x[2] - m0) * tried.tn + (x[3] - n0)]]
  BY <1>1
<1> DEFINE places == {<<case, m0 + (p \div tried.tn), n0 + (p % tried.tn)>> : p \in erred}
<1>3. faults' = [x \in DOMAIN faults \cup places |->
                   IF x \in DOMAIN faults THEN faults[x]
                   ELSE kind[(x[2] - m0) * tried.tn + (x[3] - n0)]]
  BY <1>2, Zenon
<1>5. \A d, i, j : <<d, i, j>> \in places <=>
        /\ d = case
        /\ \E p \in erred : i = m0 + (p \div tried.tn) /\ j = n0 + (p % tried.tn)
  OBVIOUS
<1> HIDE DEF places
<1>7. DOMAIN faults' = DOMAIN faults \cup places
  BY <1>3
<1>8. /\ \A x \in DOMAIN faults : faults'[x] = faults[x]
      /\ \A x \in places \ DOMAIN faults :
           faults'[x] = kind[(x[2] - m0) * tried.tn + (x[3] - n0)]
  BY <1>3
<1>9. \A d, i, j :
        /\ <<d, i, j>> \in DOMAIN faults' <=>
             \/ <<d, i, j>> \in DOMAIN faults
             \/ /\ d = case
                /\ \E p \in erred : i = m0 + (p \div tried.tn) /\ j = n0 + (p % tried.tn)
        /\ <<d, i, j>> \in DOMAIN faults => faults'[<<d, i, j>>] = faults[<<d, i, j>>]
        /\ <<d, i, j>> \in DOMAIN faults' \ DOMAIN faults =>
             faults'[<<d, i, j>>] = kind[(i - m0) * tried.tn + (j - n0)]
  <2> TAKE d, i, j
  <2>1. <<d, i, j>> \in DOMAIN faults' <=> <<d, i, j>> \in DOMAIN faults \/ <<d, i, j>> \in places
    BY <1>7
  <2>2. <<d, i, j>> \in DOMAIN faults' \ DOMAIN faults =>
          faults'[<<d, i, j>>] = kind[(i - m0) * tried.tn + (j - n0)]
    BY <1>8, <2>1
  <2>3. <<d, i, j>> \in DOMAIN faults => faults'[<<d, i, j>>] = faults[<<d, i, j>>]
    BY <1>8
  <2>4. <<d, i, j>> \in places <=>
          /\ d = case
          /\ \E p \in erred : i = m0 + (p \div tried.tn) /\ j = n0 + (p % tried.tn)
    BY <1>5
  <2> QED
    BY <2>1, <2>2, <2>3, <2>4, Zenon
<1>10. erred \subseteq {0, tried.tm * tried.tn - 1} /\ kind \in [erred -> Errors(tried.type)]
  OBVIOUS
<1>11. pool_c' = [p \in DOMAIN pool_c |->
         IF p >= tried.tm * tried.tn THEN pool_c[p]
         ELSE Element(TileElement(p \div tried.tn, p % tried.tn),
                      IF p \in erred THEN kind[p] ELSE "none")]
  BY <1>2
<1>12. Spoils(erred, kind)
  BY <1>9, <1>10, <1>11, Zenon DEF Spoils
<1> HIDE DEF Spoils
<1> QED
  BY <1>12, Zenon

LEMMA KernelKeeps ==
  ASSUME KernelTypes, TilesInv, xsai_ame_gemm_tile_kloop
  PROVE  KernelTypes' /\ TilesInv'
<1>1. /\ at = "kernel" /\ at' = "copy"
      /\ UNCHANGED <<cases, case, m0, n0, a_rows, bt_rows, pool_a, pool_b, out>>
  BY DEF xsai_ame_gemm_tile_kloop
<1>2. PICK erred, kind : Spoils(erred, kind)
  BY KernelSpoils
<1>3. tried' = tried /\ mrows' = mrows /\ nrows' = nrows /\ reference' = reference
  BY <1>1 DEF tried, mrows, nrows, reference
<1>4. /\ DOMAIN pool_c = PoolC /\ at \in Tiling
      /\ tried.tm \in Nat \ {0} /\ tried.tn \in Nat \ {0} /\ m0 \in Nat /\ n0 \in Nat
      /\ case \in 1..case /\ case \in Nat
  <2>1. tried.m \in Nat /\ tried.n \in Nat /\ tried.tm \in Nat \ {0} /\ tried.tn \in Nat \ {0}
    BY TriedFits
  <2> QED
    BY <1>1, <2>1 DEF KernelTypes, Tiling, Allocating
<1>5. ASSUME NEW p \in erred
      PROVE  /\ p \div tried.tn \in 0..(tried.tm - 1) /\ p % tried.tn \in 0..(tried.tn - 1)
             /\ p = (p \div tried.tn) * tried.tn + (p % tried.tn)
  <2> DEFINE R == tried.tm
             N == tried.tn
  <2>1. R \in Nat \ {0} /\ N \in Nat \ {0} /\ p \in {0, R * N - 1}
    BY <1>2, <1>4 DEF Spoils
  <2> HIDE DEF R, N
  <2>2. p \in 0..(R * N - 1)
    <3>1. R * N \in Nat /\ R * N >= N
      <4>1. R * N = N * R /\ R >= 1 /\ N \in Nat \ {0}
        BY <2>1
      <4> QED
        BY <2>1, <4>1, Multiple
    <3> QED
      BY <2>1, <3>1
  <2>3. p \div N \in 0..(R - 1) /\ p % N \in 0..(N - 1) /\ p = (p \div N) * N + (p % N)
    BY <2>1, <2>2, FlatInverse
  <2> QED
    BY <2>3 DEF R, N
<1>6. ASSUME NEW d, NEW i, NEW j
      PROVE  /\ <<d, i, j>> \in DOMAIN faults' <=>
                  \/ <<d, i, j>> \in DOMAIN faults
                  \/ /\ d = case
                     /\ \E p \in erred : i = m0 + (p \div tried.tn) /\ j = n0 + (p % tried.tn)
             /\ <<d, i, j>> \in DOMAIN faults => faults'[<<d, i, j>>] = faults[<<d, i, j>>]
             /\ <<d, i, j>> \in DOMAIN faults' \ DOMAIN faults =>
                  faults'[<<d, i, j>>] = kind[(i - m0) * tried.tn + (j - n0)]
  BY <1>2 DEF Spoils
<1>12. \A p \in erred : kind[p] \in {"near", "far", "nan"}
  BY <1>2 DEF Spoils, Errors
<1>7. KernelTypes'
  <2>1. DOMAIN pool_c' = DOMAIN pool_c
    BY <1>2 DEF Spoils
  <2> QED
    BY <1>1, <1>3, <2>1 DEF KernelTypes, Tiling, Allocating
<1>8. PoolsPacked'
  <2>1. Packed(pool_b, bt_rows, n0, nrows, tried.tn)
    BY <1>1 DEF TilesInv, PoolsPacked
  <2>2. Packed(pool_b, bt_rows, n0, nrows, tried.tn)'
    BY <1>1, <1>3, <2>1 DEF Packed, Padded
  <2> QED
    BY <1>1, <2>2 DEF PoolsPacked
<1>9. FaultsBehind'
  <2> SUFFICES ASSUME NEW d, NEW i, NEW j, <<d, i, j>> \in DOMAIN faults'
               PROVE  /\ faults'[<<d, i, j>>] \in {"near", "far", "nan"}
                      /\ d \in 1..case /\ i \in Nat /\ j \in Nat
                      /\ d = case =>
                           j < n0 \/ (j < n0 + tried.tn /\ i < m0 + tried.tm)
    BY <1>1, <1>3 DEF FaultsBehind, Reached, Allocating
  <2>1. CASE <<d, i, j>> \in DOMAIN faults
    <3>1. /\ faults[<<d, i, j>>] \in {"near", "far", "nan"}
          /\ d \in 1..case /\ i \in Nat /\ j \in Nat
          /\ d = case => j < n0 \/ (j < n0 + tried.tn /\ i < m0)
      BY <1>1, <2>1 DEF TilesInv, FaultsBehind, Reached, Tiling
    <3>2. faults'[<<d, i, j>>] = faults[<<d, i, j>>]
      BY <1>6, <2>1
    <3> QED
      BY <1>4, <3>1, <3>2
  <2>2. CASE <<d, i, j>> \notin DOMAIN faults
    <3>1. PICK p \in erred : /\ d = case
                            /\ i = m0 + (p \div tried.tn) /\ j = n0 + (p % tried.tn)
      BY <1>6, <2>2
    <3>2. /\ i \in Nat /\ j \in Nat /\ j < n0 + tried.tn /\ i < m0 + tried.tm
          /\ (i - m0) * tried.tn + (j - n0) = p
      <4>1. /\ p \div tried.tn \in 0..(tried.tm - 1) /\ p % tried.tn \in 0..(tried.tn - 1)
            /\ p = (p \div tried.tn) * tried.tn + (p % tried.tn)
        BY <1>5
      <4>2. i - m0 = p \div tried.tn /\ j - n0 = p % tried.tn
        BY <1>4, <3>1, <4>1
      <4> QED
        BY <1>4, <3>1, <4>1, <4>2
    <3>3. faults'[<<d, i, j>>] = kind[p]
      BY <1>6, <2>2, <3>2
    <3> QED
      BY <1>4, <1>12, <3>1, <3>2, <3>3
  <2> QED
    BY <2>1, <2>2
<1>10. TileDone'
  <2> SUFFICES ASSUME NEW i \in 0..(mrows - 1), NEW j \in 0..(nrows - 1)
               PROVE  pool_c'[i * tried.tn + j]
                        = Element(Dot(a_rows, bt_rows, m0 + i, n0 + j, tried.k),
                                  Error(m0 + i, n0 + j)')
    BY <1>1, <1>3 DEF TileDone
  <2> DEFINE p == i * tried.tn + j
  <2>1. i \in 0..(tried.tm - 1) /\ j \in 0..(tried.tn - 1)
    BY <1>4, TileRows
  <2>2. /\ p \in 0..(tried.tm * tried.tn - 1) /\ p \in PoolC
        /\ p \div tried.tn = i /\ p % tried.tn = j
    BY <2>1, PositionInTile
  <2>3. ~(p >= tried.tm * tried.tn)
    <3> HIDE DEF p
    <3>1. tried.tm * tried.tn \in Int
      BY <1>4
    <3> QED
      BY <2>2, <3>1
  <2> HIDE DEF p
  <2>4. pool_c'[p] = Element(TileElement(i, j), IF p \in erred THEN kind[p] ELSE "none")
    BY <1>2, <1>4, <2>2, <2>3 DEF Spoils
  <2>5. TileElement(i, j) = Dot(a_rows, bt_rows, m0 + i, n0 + j, tried.k)
    BY <1>1, <1>4, ElementIsDot DEF TilesInv, PoolsPacked
  <2>6. <<case, m0 + i, n0 + j>> \notin DOMAIN faults
    <3> SUFFICES ASSUME <<case, m0 + i, n0 + j>> \in DOMAIN faults PROVE FALSE
      OBVIOUS
    <3>1. n0 + j < n0 \/ (n0 + j < n0 + tried.tn /\ m0 + i < m0)
      BY <1>1 DEF TilesInv, FaultsBehind, Reached, Tiling
    <3> QED
      BY <1>4, <2>1, <3>1
  <2>7. <<case, m0 + i, n0 + j>> \in DOMAIN faults' <=> p \in erred
    <3>1. ASSUME p \in erred PROVE <<case, m0 + i, n0 + j>> \in DOMAIN faults'
      BY <1>6, <2>2, <3>1
    <3>2. ASSUME <<case, m0 + i, n0 + j>> \in DOMAIN faults' PROVE p \in erred
      <4>1. PICK r \in erred : m0 + i = m0 + (r \div tried.tn) /\ n0 + j = n0 + (r % tried.tn)
        BY <1>6, <2>6, <3>2
      <4>2. i = r \div tried.tn /\ j = r % tried.tn
        <5>1. r \div tried.tn \in Int /\ r % tried.tn \in Int
          BY <1>4, <1>5
        <5> QED
          BY <1>4, <2>1, <4>1, <5>1
      <4>3. r = p
        BY <1>5, <4>2 DEF p
      <4> QED
        BY <4>3
    <3> QED
      BY <3>1, <3>2
  <2>10. p \in erred => faults'[<<case, m0 + i, n0 + j>>] = kind[p]
    <3> DEFINE u == m0 + i
               v == n0 + j
    <3>1. (u - m0) * tried.tn + (v - n0) = p
      BY <1>4, <2>1 DEF p
    <3>2. /\ <<case, u, v>> \notin DOMAIN faults
          /\ <<case, u, v>> \in DOMAIN faults' <=> p \in erred
      BY <2>6, <2>7
    <3> HIDE DEF u, v
    <3>3. p \in erred => faults'[<<case, u, v>>] = kind[(u - m0) * tried.tn + (v - n0)]
      BY <1>6, <3>2
    <3> QED
      BY <3>1, <3>3 DEF u, v
  <2>8. Error(m0 + i, n0 + j)' = IF p \in erred THEN kind[p] ELSE "none"
    BY <1>1, <2>7, <2>10 DEF Error
  <2> QED
    BY <2>4, <2>5, <2>8 DEF p
<1>11. TilesMatchReference'
  <2> SUFFICES ASSUME NEW q \in DOMAIN out'
               PROVE  out'[q] = IF ~Computed(q)' THEN Element(0, "none")
                                ELSE Element(reference'[q], Error(q \div tried.n, q % tried.n)')
    BY DEF TilesMatchReference
  <2> DEFINE i == q \div tried.n
             j == q % tried.n
  <2>1. Computed(q)' <=> Computed(q)
    BY <1>1, <1>3 DEF Computed
  <2>2. out[q] = IF ~Computed(q) THEN Element(0, "none") ELSE Element(reference[q], Error(i, j))
    BY <1>1 DEF TilesInv, TilesMatchReference
  <2>3. i \in Nat /\ j \in Nat
    <3>1. q \in 0..(tried.m * tried.n - 1) /\ tried.m \in Nat /\ tried.n \in Nat
      BY <1>1, <1>4, TriedFits DEF KernelTypes
    <3>2. i \in 0..(tried.m - 1) /\ j \in 0..(tried.n - 1)
      BY <3>1, PositionInProduct
    <3> QED
      BY <3>1, <3>2
  <2>4. Computed(q) => j < n0 \/ i < m0
    BY <1>1 DEF Computed
  <2>7. i' = i /\ j' = j
    BY <1>3
  <2> HIDE DEF i, j
  <2>5. Computed(q) => (<<case, i, j>> \in DOMAIN faults' <=> <<case, i, j>> \in DOMAIN faults)
    <3> SUFFICES ASSUME j < n0 \/ i < m0, NEW p \in erred,
                        i = m0 + (p \div tried.tn), j = n0 + (p % tried.tn)
                 PROVE  FALSE
      BY <1>6, <2>4
    <3> QED
      BY <1>4, <1>5, <2>3
  <2>6. Computed(q) => Error(i, j)' = Error(i, j)
    <3>1. <<case, i, j>> \in DOMAIN faults => faults'[<<case, i, j>>] = faults[<<case, i, j>>]
      BY <1>6
    <3> QED
      BY <1>1, <2>5, <2>7, <3>1 DEF Error
  <2> QED
    BY <1>1, <1>3, <2>1, <2>2, <2>6, Zenon DEF i, j
<1> QED
  BY <1>7, <1>8, <1>9, <1>10, <1>11 DEF TilesInv

LEMMA CopyKeeps ==
  ASSUME KernelTypes, TilesInv, CopyTile
  PROVE  KernelTypes' /\ TilesInv'
<1> DEFINE last == m0 + tried.tm >= tried.m
           Inside(i, j) == i - m0 \in 0..(mrows - 1) /\ j - n0 \in 0..(nrows - 1)
<1>1. /\ at = "copy" /\ at \in Tiling
      /\ UNCHANGED <<cases, case, a_rows, bt_rows, pool_a, pool_b, pool_c, faults>>
      /\ out' = [q \in DOMAIN out |->
           LET i == (q \div tried.n) - m0 IN
           LET j == (q % tried.n) - n0 IN
           IF i \in 0..(mrows - 1) /\ j \in 0..(nrows - 1)
           THEN pool_c[i * tried.tn + j] ELSE out[q]]
  BY DEF CopyTile, Tiling
<1>2. tried' = tried /\ reference' = reference
  BY <1>1 DEF tried, reference
<1>3. /\ tried.m \in Nat \ {0} /\ tried.n \in Nat \ {0}
      /\ tried.tm \in Nat \ {0} /\ tried.tn \in Nat \ {0}
      /\ m0 \in 0..(tried.m - 1) /\ n0 \in 0..(tried.n - 1)
  BY <1>1, TriedFits DEF KernelTypes
<1>4. ~last => at' = "pack_a" /\ m0' = m0 + tried.tm /\ n0' = n0
  BY <1>3 DEF CopyTile
<1>5. last => /\ m0' = 0 /\ n0' = n0 + tried.tn
              /\ at' = IF n0' < tried.n THEN "pack_b" ELSE "compare"
  BY <1>3 DEF CopyTile
<1>6. KernelTypes'
  <2>1. at' \in {"pack_a", "pack_b", "compare"} /\ DOMAIN out' = DOMAIN out
    BY <1>1, <1>4, <1>5
  <2>2. at' \in Tiling => m0' \in 0..(tried.m - 1) /\ n0' \in 0..(tried.n - 1)
    BY <1>3, <1>4, <1>5 DEF Tiling
  <2>3. at' = "pack_b" => m0' = 0
    BY <1>4, <1>5
  <2> HIDE DEF last
  <2> QED
    BY <1>1, <1>2, <2>1, <2>2, <2>3 DEF KernelTypes, Tiling, Allocating
<1>7. PoolsPacked' /\ TileDone'
  <2>1. CASE last
    BY <1>5, <2>1 DEF PoolsPacked, TileDone
  <2>2. CASE ~last
    <3>1. nrows' = nrows
      BY <1>2, <1>4, <2>2 DEF nrows
    <3>2. Packed(pool_b, bt_rows, n0, nrows, tried.tn)
      BY <1>1 DEF TilesInv, PoolsPacked
    <3>3. Packed(pool_b, bt_rows, n0, nrows, tried.tn)'
      BY <1>1, <1>2, <1>4, <2>2, <3>1, <3>2 DEF Packed, Padded
    <3> QED
      BY <1>4, <2>2, <3>3 DEF PoolsPacked, TileDone
  <2> QED
    BY <2>1, <2>2
<1>8. FaultsBehind'
  <2>1. at' \in {"pack_a", "pack_b", "compare"}
    BY <1>4, <1>5
  <2> SUFFICES ASSUME NEW d, NEW i, NEW j, <<d, i, j>> \in DOMAIN faults
               PROVE  /\ faults[<<d, i, j>>] \in {"near", "far", "nan"}
                      /\ d \in 1..case /\ i \in Nat /\ j \in Nat
                      /\ d = case /\ at' \in Tiling =>
                           j < n0' \/ (j < n0' + tried.tn /\ i < m0')
    BY <1>1, <1>2, <2>1 DEF FaultsBehind, Reached, Allocating
  <2>2. /\ faults[<<d, i, j>>] \in {"near", "far", "nan"}
        /\ d \in 1..case /\ i \in Nat /\ j \in Nat
        /\ d = case => j < n0 \/ (j < n0 + tried.tn /\ i < m0 + tried.tm)
    BY <1>1 DEF TilesInv, FaultsBehind, Reached
  <2> QED
    BY <1>3, <1>4, <1>5, <2>2
<1>9. ASSUME NEW i \in 0..(tried.m - 1), NEW j \in 0..(tried.n - 1)
       PROVE  /\ ~last => (j < n0' \/ (j < n0' + tried.tn /\ i < m0')
                             <=> j < n0 \/ (j < n0 + tried.tn /\ i < m0) \/ Inside(i, j))
              /\ last => (j < n0 + tried.tn
                             <=> j < n0 \/ (j < n0 + tried.tn /\ i < m0) \/ Inside(i, j))
  <2>1. /\ mrows \in 1..tried.tm /\ m0 + mrows <= tried.m
        /\ mrows < tried.tm => m0 + mrows = tried.m
        /\ nrows \in 1..tried.tn /\ n0 + nrows <= tried.n
        /\ nrows < tried.tn => n0 + nrows = tried.n
    BY <1>1, TileRows
  <2> QED
    BY <1>3, <1>4, <2>1
<1>10. TilesMatchReference'
  <2> SUFFICES ASSUME NEW q \in DOMAIN out
               PROVE  out'[q] = IF ~Computed(q)' THEN Element(0, "none")
                                ELSE Element(reference[q], Error(q \div tried.n, q % tried.n))
    BY <1>1, <1>2 DEF TilesMatchReference, Error
  <2> DEFINE i == q \div tried.n
             j == q % tried.n
  <2>1. /\ q \in 0..(tried.m * tried.n - 1)
        /\ i \in 0..(tried.m - 1) /\ j \in 0..(tried.n - 1)
    <3>1. q \in 0..(tried.m * tried.n - 1)
      BY <1>1 DEF KernelTypes
    <3> QED
      BY <3>1, PositionInProduct
  <2>2. out[q] = IF ~Computed(q) THEN Element(0, "none") ELSE Element(reference[q], Error(i, j))
    BY <1>1 DEF TilesInv, TilesMatchReference, Error
  <2>3. Computed(q) <=> j < n0 \/ (j < n0 + tried.tn /\ i < m0)
    BY <1>1 DEF Computed
  <2>4. reference[q] = Dot(a_rows, bt_rows, i, j, tried.k)
    BY <2>1 DEF reference
  <2>5. out'[q] = IF Inside(i, j) THEN pool_c[(i - m0) * tried.tn + (j - n0)] ELSE out[q]
    BY <1>1
  <2>6. Computed(q)' <=>
          at' = "compare" \/ j < n0' \/ (j < n0' + tried.tn /\ i < m0')
    BY <1>2 DEF Computed
  <2> HIDE DEF i, j
  <2>7. Computed(q)' <=> Computed(q) \/ Inside(i, j)
    <3>1. CASE last
      <4>1. Computed(q)' <=> j < n0 + tried.tn
        BY <1>3, <1>5, <2>1, <2>6, <3>1
      <4> QED
        BY <1>9, <2>1, <2>3, <3>1, <4>1
    <3>2. CASE ~last
      <4>1. Computed(q)' <=> j < n0' \/ (j < n0' + tried.tn /\ i < m0')
        BY <1>4, <2>6, <3>2
      <4> QED
        BY <1>9, <2>1, <2>3, <3>2, <4>1
    <3> QED
      BY <3>1, <3>2
  <2>8. Inside(i, j) => out'[q] = Element(reference[q], Error(i, j))
    <3> SUFFICES ASSUME Inside(i, j)
                 PROVE  out'[q] = Element(reference[q], Error(i, j))
      OBVIOUS
    <3> DEFINE r == i - m0
               s == j - n0
    <3>1. r \in 0..(mrows - 1) /\ s \in 0..(nrows - 1) /\ m0 + r = i /\ n0 + s = j
      BY <1>3, <2>1
    <3> HIDE DEF r, s
    <3>2. pool_c[r * tried.tn + s]
            = Element(Dot(a_rows, bt_rows, m0 + r, n0 + s, tried.k), Error(m0 + r, n0 + s))
      BY <1>1, <3>1 DEF TilesInv, TileDone
    <3>3. out'[q] = pool_c[r * tried.tn + s]
      BY <2>5 DEF r, s
    <3> QED
      BY <2>4, <3>1, <3>2, <3>3
  <2> HIDE DEF Inside
  <2> QED
    BY <2>2, <2>5, <2>7, <2>8 DEF i, j
<1> QED
  BY <1>6, <1>7, <1>8, <1>10 DEF TilesInv

LEMMA ReportKeeps ==
  ASSUME KernelTypes, TilesInv, report_case
  PROVE  KernelTypes' /\ TilesInv'
<1>1. /\ at = "compare" /\ UNCHANGED <<cases, pool_a, pool_b, pool_c, faults>>
      /\ \/ case < Len(cases) /\ case' = case + 1 /\ at' = "fill"
         \/ case' = case /\ at' = "end"
  BY DEF report_case
<1>2. Len(cases) \in Nat /\ case \in 1..Len(cases)
  BY DEF KernelTypes
<1>3. KernelTypes'
  BY <1>1, <1>2 DEF KernelTypes, Tiling, Allocating
<1>4. PoolsPacked' /\ TileDone' /\ TilesMatchReference'
  BY <1>1 DEF PoolsPacked, TileDone, TilesMatchReference
<1>5. FaultsBehind'
  <2> SUFFICES ASSUME NEW d, NEW i, NEW j, <<d, i, j>> \in DOMAIN faults
               PROVE  /\ faults[<<d, i, j>>] \in {"near", "far", "nan"}
                      /\ d \in 1..case' /\ i \in Nat /\ j \in Nat
                      /\ d = case' => at' # "fill"
    BY <1>1 DEF FaultsBehind, Tiling, Allocating
  <2>1. faults[<<d, i, j>>] \in {"near", "far", "nan"} /\ d \in 1..case /\ i \in Nat /\ j \in Nat
    BY DEF TilesInv, FaultsBehind
  <2> QED
    BY <1>1, <1>2, <2>1
<1> QED
  BY <1>3, <1>4, <1>5 DEF TilesInv

LEMMA KernelsInvariant == KernelsSpec => [](KernelTypes /\ TilesInv)
<1>1. KernelsInit => KernelTypes /\ TilesInv
  <2> SUFFICES ASSUME KernelsInit PROVE KernelTypes /\ TilesInv
    OBVIOUS
  <2>1. /\ at = "alloc_a" /\ case = 1 /\ faults = << >> /\ DOMAIN faults = {}
        /\ cases \in Seq(Fitting) /\ Len(cases) >= 1
    BY CasesFit DEF KernelsInit
  <2>2. KernelTypes
    <3>1. Len(cases) \in Nat
      BY <2>1
    <3> QED
      BY <2>1, <3>1 DEF KernelTypes, Tiling, Allocating
  <2>3. PoolsPacked /\ FaultsBehind /\ TileDone /\ TilesMatchReference
    BY <2>1 DEF PoolsPacked, FaultsBehind, TileDone, TilesMatchReference, Allocating
  <2> QED
    BY <2>2, <2>3 DEF TilesInv
<1>2. KernelTypes /\ TilesInv /\ [KernelsNext]_kernels_vars => KernelTypes' /\ TilesInv'
  <2> SUFFICES ASSUME KernelTypes, TilesInv, [KernelsNext]_kernels_vars
               PROVE  KernelTypes' /\ TilesInv'
    OBVIOUS
  <2>1. CASE pool_alloc \/ host_malloc
    BY <2>1, PoolAllocKeeps
  <2>2. CASE BeginCase
    BY <2>2, BeginCaseKeeps
  <2>3. CASE run_int8_case
    BY <2>3, PackKeeps, KernelKeeps, CopyKeeps DEF run_int8_case
  <2>4. CASE report_case
    BY <2>4, ReportKeeps
  <2>5. CASE UNCHANGED kernels_vars
    <3>1. UNCHANGED <<at, cases, case, m0, n0, a_rows, bt_rows, pool_a, pool_b, pool_c, out, faults>>
      BY <2>5 DEF kernels_vars
    <3>2. tried' = tried /\ mrows' = mrows /\ nrows' = nrows /\ reference' = reference
      BY <3>1 DEF tried, mrows, nrows, reference
    <3>3. KernelTypes'
      BY <3>1, <3>2 DEF KernelTypes
    <3>4. PoolsPacked' /\ FaultsBehind'
      BY <3>1, <3>2 DEF TilesInv, PoolsPacked, Packed, Padded, FaultsBehind, Reached
    <3>5. TileDone'
      BY <3>1, <3>2 DEF TilesInv, TileDone, Error
    <3>6. TilesMatchReference'
      BY <3>1, <3>2 DEF TilesInv, TilesMatchReference, Computed, Error
    <3> QED
      BY <3>3, <3>4, <3>5, <3>6 DEF TilesInv
  <2> QED
    BY <2>1, <2>2, <2>3, <2>4, <2>5 DEF KernelsNext
<1> QED
  BY <1>1, <1>2, PTL DEF KernelsSpec

(* Whatever the shapes and the tiles that fit in the pools, whatever an    *)
(* earlier tile or case left there, and wherever the AME errs: as much of  *)
(* the product as has been copied is the scalar product of the rows, but   *)
(* for the elements that the AME got wrong.                                *)
THEOREM EveryTileMatches == KernelsSpec => []TilesMatchReference
BY KernelsInvariant, PTL DEF TilesInv

-----------------------------------------------------------------------------
(* The verdict.  Decided are the cases that have been reported.            *)
Decided == IF at = "end" THEN 1..case ELSE 1..(case - 1)

Tallied ==
  /\ fails = Cardinality({d \in BadCases : cases[d].primary} \cap Decided)
  /\ altFails = Cardinality({d \in BadCases : ~cases[d].primary} \cap Decided)
  /\ at = "end" => case = Len(cases) /\ exit_code = IF fails > 0 THEN 1 ELSE 0
  /\ at = "exit" => exit_code = 1

(* The comparison finds a fault where the AME noticeably erred within the  *)
(* matrix, and nowhere else.                                               *)
LEMMA BadIsSeen ==
  ASSUME KernelTypes, TilesInv, at = "compare"
  PROVE  IsBad <=> case \in BadCases
<1> DEFINE Spoilt(q) == /\ <<case, q \div tried.n, q % tried.n>> \in DOMAIN faults
                        /\ Noticed(tried.type, faults[<<case, q \div tried.n, q % tried.n>>])
           Seen(q) == IF tried.type = "int8" THEN Unequal(out[q], reference[q])
                      ELSE Exceeds(out[q], reference[q])
<1>1. /\ tried.m \in Nat /\ tried.n \in Nat \ {0} /\ case \in 1..Len(cases)
      /\ DOMAIN out = 0..(tried.m * tried.n - 1)
  BY TriedFits DEF KernelTypes, Tiling
<1>2. ASSUME NEW q \in DOMAIN out PROVE Seen(q) <=> Spoilt(q)
  <2> DEFINE i == q \div tried.n
             j == q % tried.n
             e == Error(i, j)
  <2>1. out[q] = Element(reference[q], e)
    BY DEF TilesInv, TilesMatchReference, Computed
  <2> HIDE DEF e
  <2>2. /\ Unequal(out[q], reference[q]) <=> e # "none"
        /\ Exceeds(out[q], reference[q]) <=> e = "far"
    <3>1. out[q].sum = reference[q] /\ out[q].error = e
      BY <2>1 DEF Element
    <3> QED
      BY <3>1 DEF Unequal, Exceeds
  <2>3. /\ e # "none" <=> <<case, i, j>> \in DOMAIN faults
        /\ e = "far" <=> <<case, i, j>> \in DOMAIN faults /\ faults[<<case, i, j>>] = "far"
    <3>1. <<case, i, j>> \in DOMAIN faults => faults[<<case, i, j>>] # "none"
      BY DEF TilesInv, FaultsBehind
    <3> QED
      BY <3>1 DEF Error, e
  <2> HIDE DEF i, j
  <2>4. Spoilt(q) <=> /\ <<case, i, j>> \in DOMAIN faults
                      /\ Noticed(tried.type, faults[<<case, i, j>>])
    BY DEF i, j
  <2> HIDE DEF Spoilt
  <2> QED
    BY <2>2, <2>3, <2>4 DEF Noticed
<1>3. (\E q \in DOMAIN out : Spoilt(q)) <=> case \in BadCases
  <2>1. ASSUME NEW q \in DOMAIN out, Spoilt(q) PROVE case \in BadCases
    <3>1. q \div tried.n \in 0..(tried.m - 1) /\ q % tried.n \in 0..(tried.n - 1)
      BY <1>1, PositionInProduct
    <3> QED
      BY <1>1, <2>1, <3>1 DEF BadCases, tried
  <2>2. ASSUME case \in BadCases PROVE \E q \in DOMAIN out : Spoilt(q)
    <3>1. PICK i \in 0..(tried.m - 1), j \in 0..(tried.n - 1) :
            /\ <<case, i, j>> \in DOMAIN faults
            /\ Noticed(tried.type, faults[<<case, i, j>>])
      BY <2>2 DEF BadCases, tried
    <3> DEFINE q == i * tried.n + j
    <3>2. q \in 0..(tried.m * tried.n - 1) /\ q \div tried.n = i /\ q % tried.n = j
      <4> DEFINE R == tried.m
                 N == tried.n
      <4>1. R \in Nat /\ N \in Nat /\ i \in 0..(R - 1) /\ j \in 0..(N - 1)
        BY <1>1
      <4> HIDE DEF R, N
      <4>2. /\ i * N + j \in 0..(R * N - 1)
            /\ (i * N + j) \div N = i /\ (i * N + j) % N = j
        BY <4>1, FlatIndex
      <4> QED
        BY <4>2 DEF R, N
    <3> HIDE DEF q
    <3> QED
      BY <1>1, <3>1, <3>2
  <2> QED
    BY <2>1, <2>2
<1>4. IsBad <=> \E q \in DOMAIN out : Seen(q)
  BY DEF IsBad
<1> HIDE DEF Spoilt, Seen
<1> QED
  BY <1>2, <1>3, <1>4

(* One more case has been reported. *)
LEMMA CountOneMore ==
  ASSUME NEW c \in Nat \ {0}, NEW S
  PROVE  Cardinality(S \cap 1..c)
           = Cardinality(S \cap 1..(c - 1)) + IF c \in S THEN 1 ELSE 0
<1> DEFINE A == S \cap 1..(c - 1)
           B == S \cap 1..c
<1>1. IsFiniteSet(A) /\ c \notin A
  <2>1. A \subseteq 1..(c - 1) /\ IsFiniteSet(1..(c - 1)) /\ c \notin 1..(c - 1)
    BY FS_Interval
  <2> QED
    BY <2>1, FS_Subset
<1>2. Cardinality(A) \in Nat
  BY <1>1, FS_CardinalityType
<1>3. 1..c = 1..(c - 1) \cup {c}
  OBVIOUS
<1>4. CASE c \in S
  <2>1. B = A \cup {c}
    BY <1>3, <1>4
  <2> HIDE DEF A, B
  <2>2. Cardinality(B) = Cardinality(A) + 1
    BY <1>1, <2>1, FS_AddElement
  <2> QED
    BY <1>4, <2>2 DEF A, B
<1>5. CASE c \notin S
  <2>1. B = A
    BY <1>3, <1>5
  <2> HIDE DEF A, B
  <2>2. Cardinality(B) = Cardinality(A) + 0
    BY <1>2, <2>1
  <2> QED
    BY <1>5, <2>2 DEF A, B
<1> QED
  BY <1>4, <1>5

LEMMA ReportCounts ==
  ASSUME KernelTypes, TilesInv, Tallied, report_case
  PROVE  Tallied'
<1>1. /\ at = "compare" /\ UNCHANGED <<cases, faults>>
      /\ fails' = fails + (IF IsBad /\ tried.primary THEN 1 ELSE 0)
      /\ altFails' = altFails + (IF IsBad /\ ~tried.primary THEN 1 ELSE 0)
      /\ IF case < Len(cases)
         THEN case' = case + 1 /\ at' = "fill"
         ELSE at' = "end" /\ exit_code' = (IF fails' > 0 THEN 1 ELSE 0) /\ case' = case
  BY DEF report_case
<1>2. case \in Nat \ {0} /\ case \in 1..Len(cases) /\ Len(cases) \in Nat
  BY DEF KernelTypes
<1>3. Decided = 1..(case - 1) /\ Decided' = 1..case /\ BadCases' = BadCases
  <2>1. BadCases' = BadCases
    BY <1>1 DEF BadCases
  <2>2. Decided = 1..(case - 1)
    BY <1>1 DEF Decided
  <2>3. Decided' = 1..case
    <3>1. CASE case < Len(cases)
      <4>1. case' - 1 = case /\ at' = "fill"
        BY <1>1, <1>2, <3>1
      <4> QED
        BY <4>1 DEF Decided
    <3>2. CASE ~(case < Len(cases))
      BY <1>1, <3>2 DEF Decided
    <3> QED
      BY <3>1, <3>2
  <2> QED
    BY <2>1, <2>2, <2>3
<1>4. /\ fails = Cardinality({d \in BadCases : cases[d].primary} \cap 1..(case - 1))
      /\ altFails = Cardinality({d \in BadCases : ~cases[d].primary} \cap 1..(case - 1))
  BY <1>1, <1>3 DEF Tallied
<1>5. IsBad <=> case \in BadCases
  BY <1>1, BadIsSeen
<1> DEFINE Own == {d \in BadCases : cases[d].primary}
           Other == {d \in BadCases : ~cases[d].primary}
<1>6. fails' = Cardinality(Own \cap 1..case)
  <2>1. case \in Own <=> IsBad /\ tried.primary
    BY <1>5 DEF tried
  <2> HIDE DEF Own
  <2>2. Cardinality(Own \cap 1..case)
          = Cardinality(Own \cap 1..(case - 1)) + IF case \in Own THEN 1 ELSE 0
    BY <1>2, CountOneMore
  <2> QED
    BY <1>1, <1>4, <2>1, <2>2 DEF Own
<1>7. altFails' = Cardinality(Other \cap 1..case)
  <2>1. case \in Other <=> IsBad /\ ~tried.primary
    BY <1>5 DEF tried
  <2> HIDE DEF Other
  <2>2. Cardinality(Other \cap 1..case)
          = Cardinality(Other \cap 1..(case - 1)) + IF case \in Other THEN 1 ELSE 0
    BY <1>2, CountOneMore
  <2> QED
    BY <1>1, <1>4, <2>1, <2>2 DEF Other
<1>8. at' = "end" => case' = Len(cases') /\ exit_code' = IF fails' > 0 THEN 1 ELSE 0
  BY <1>1, <1>2
<1> QED
  BY <1>1, <1>3, <1>6, <1>7, <1>8 DEF Tallied

LEMMA KernelCounts ==
  ASSUME KernelTypes, TilesInv, Tallied, xsai_ame_gemm_tile_kloop
  PROVE  Tallied'
<1>1. at = "kernel" /\ at' = "copy" /\ UNCHANGED <<cases, case, fails, altFails>>
  BY DEF xsai_ame_gemm_tile_kloop, counts
<1>2. PICK erred, kind : Spoils(erred, kind)
  BY KernelSpoils
<1>3. ASSUME NEW d \in 1..(case - 1), NEW i, NEW j
      PROVE  /\ <<d, i, j>> \in DOMAIN faults' <=> <<d, i, j>> \in DOMAIN faults
             /\ <<d, i, j>> \in DOMAIN faults => faults'[<<d, i, j>>] = faults[<<d, i, j>>]
  <2>1. d # case
    BY DEF KernelTypes
  <2> QED
    BY <1>2, <2>1 DEF Spoils
<1>4. BadCases' \cap 1..(case - 1) = BadCases \cap 1..(case - 1)
  BY <1>1, <1>3 DEF BadCases
<1>5. Decided = 1..(case - 1) /\ Decided' = 1..(case - 1)
  BY <1>1 DEF Decided
<1> QED
  BY <1>1, <1>4, <1>5 DEF Tallied

LEMMA VerdictInvariant == KernelsSpec => []Tallied
<1>1. KernelsInit => Tallied
  <2> SUFFICES ASSUME KernelsInit PROVE Tallied
    OBVIOUS
  <2>1. at = "alloc_a" /\ case = 1 /\ fails = 0 /\ altFails = 0 /\ Decided = {}
    BY DEF KernelsInit, Decided
  <2>2. Cardinality({}) = 0
    BY FS_EmptySet
  <2>3. /\ {d \in BadCases : cases[d].primary} \cap Decided = {}
        /\ {d \in BadCases : ~cases[d].primary} \cap Decided = {}
    BY <2>1
  <2> QED
    BY <2>1, <2>2, <2>3 DEF Tallied
<1>2. KernelTypes /\ TilesInv /\ Tallied /\ [KernelsNext]_kernels_vars => Tallied'
  <2> SUFFICES ASSUME KernelTypes, TilesInv, Tallied, [KernelsNext]_kernels_vars
               PROVE  Tallied'
    OBVIOUS
  <2>1. CASE pool_alloc \/ host_malloc
    <3>1. /\ at # "end" /\ at' # "end" /\ (at' = "exit" => exit_code' = 1)
          /\ UNCHANGED <<cases, case, fails, altFails, faults>>
      BY <2>1 DEF pool_alloc, host_malloc, NoMemory
    <3>2. Decided' = Decided /\ BadCases' = BadCases
      BY <3>1 DEF Decided, BadCases
    <3> QED
      BY <3>1, <3>2 DEF Tallied
  <2>2. CASE BeginCase \/ PackB \/ PackA \/ CopyTile
    <3>1. /\ at # "end" /\ at' \notin {"end", "exit"}
          /\ UNCHANGED <<cases, case, fails, altFails, faults>>
      BY <2>2 DEF BeginCase, PackB, PackA, CopyTile, counts
    <3>2. Decided' = Decided /\ BadCases' = BadCases
      BY <3>1 DEF Decided, BadCases
    <3> QED
      BY <3>1, <3>2 DEF Tallied
  <2>3. CASE xsai_ame_gemm_tile_kloop
    BY <2>3, KernelCounts
  <2>4. CASE report_case
    BY <2>4, ReportCounts
  <2>5. CASE UNCHANGED kernels_vars
    <3>1. UNCHANGED <<at, cases, case, fails, altFails, faults, exit_code>>
      BY <2>5 DEF kernels_vars
    <3>2. Decided' = Decided /\ BadCases' = BadCases
      BY <3>1 DEF Decided, BadCases
    <3> QED
      BY <3>1, <3>2 DEF Tallied
  <2> QED
    BY <2>1, <2>2, <2>3, <2>4, <2>5 DEF KernelsNext, run_int8_case
<1> QED
  BY <1>1, <1>2, KernelsInvariant, PTL DEF KernelsSpec

(* At the end every case that the AME noticeably spoilt within the matrix, *)
(* and no other, has been counted once against its tile; the program       *)
(* succeeds only after trying every case, if the target's own tile has not *)
(* failed.                                                                 *)
THEOREM VerdictIsRight == KernelsSpec => []VerdictCountsFaults
<1> DEFINE Own == {d \in BadCases : cases[d].primary}
           Other == {d \in BadCases : ~cases[d].primary}
<1>1. KernelTypes /\ Tallied => VerdictCountsFaults
  <2> SUFFICES ASSUME KernelTypes, Tallied PROVE VerdictCountsFaults
    OBVIOUS
  <2>1. CASE at = "end"
    <3>1. case = Len(cases) /\ Decided = 1..Len(cases)
      BY <2>1 DEF Tallied, Decided
    <3>2. Own \cap Decided = Own /\ Other \cap Decided = Other
      BY <3>1 DEF BadCases
    <3>3. fails = Cardinality(Own) /\ altFails = Cardinality(Other)
      BY <3>2 DEF Tallied
    <3>4. fails \in Nat /\ (fails = 0 <=> Own = {})
      <4>1. Own \subseteq 1..Len(cases) /\ 1 \in Int /\ Len(cases) \in Int
        BY DEF BadCases, KernelTypes
      <4>2. IsFiniteSet(Own)
        BY <4>1, FS_Interval, FS_Subset
      <4> HIDE DEF Own
      <4> QED
        BY <3>3, <4>2, FS_CardinalityType, FS_EmptySet
    <3>5. exit_code = 0 <=> fails = 0
      BY <2>1, <3>4 DEF Tallied
    <3> QED
      BY <2>1, <3>3, <3>4, <3>5 DEF VerdictCountsFaults
  <2>2. CASE at = "exit"
    BY <2>2 DEF Tallied, VerdictCountsFaults
  <2>3. CASE at \notin {"end", "exit"}
    BY <2>3 DEF VerdictCountsFaults
  <2> QED
    BY <2>1, <2>2, <2>3
<1> QED
  BY <1>1, KernelsInvariant, VerdictInvariant, PTL
=============================================================================
