--------------------------- MODULE XsaiInit_proofs ---------------------------
(***************************************************************************)
(* Proofs about XsaiInit, for every set of workload names, exit codes,     *)
(* missing binaries and room in the scratch directory, and for every       *)
(* number of cases of the NCNN smoke test.                                 *)
(***************************************************************************)
EXTENDS XsaiInit, DataFacts

(* The tables are written with tuples of these lengths. *)
LEMMA Tuples ==
  ASSUME NEW a, NEW b, NEW c, NEW d, NEW e
  PROVE  /\ IsSequence(<< >>) /\ IsSequence(<<a>>) /\ IsSequence(<<a, b>>)
         /\ IsSequence(<<a, b, c, d>>) /\ IsSequence(<<a, b, c, d, e>>)
<1>1. << >> \in Seq({})
  OBVIOUS
<1>2. <<a>> \in Seq({a})
  OBVIOUS
<1>3. <<a, b>> \in Seq({a, b})
  OBVIOUS
<1>4. <<a, b, c, d>> \in Seq({a, b, c, d})
  OBVIOUS
<1>5. <<a, b, c, d, e>> \in Seq({a, b, c, d, e})
  OBVIOUS
<1> QED
  BY <1>1, <1>2, <1>3, <1>4, <1>5, SequenceOf

-----------------------------------------------------------------------------
(* Stages and the tests around them. *)
IsStage(st) ==
  /\ \E name, bin, kind, tests :
       st = [name |-> name, bin |-> bin, kind |-> kind, tests |-> tests]
  /\ IsSequence(st.tests)

Stages(s) == IsSequence(s) /\ \A k \in 1..Len(s) : IsStage(s[k])

(* Stages of a function that have no test of their own. *)
Untested(s) == Stages(s) /\ \A k \in 1..Len(s) : s[k].tests = << >>

(* Stages whose failure ends the function. *)
Returning(s) == Stages(s) /\ \A k \in 1..Len(s) : Innermost(s[k]) = "return"

(* A test stops the failure of the stage before it has left the last call. *)
Guarded(st) == \E i \in DOMAIN st.tests : st.tests[i] # "return"

(* Only the last stage may have no test but the one of the selection.      *)
NoneLost(s) == \A k \in 1..Len(s) : Innermost(s[k]) = "capture" => k = Len(s)

LEMMA StageFacts ==
  ASSUME NEW name, NEW bin, NEW kind
  PROVE  LET st == Stage(name, bin, kind) IN
         /\ IsStage(st) /\ st.tests = << >> /\ st.name = name /\ st.kind = kind
<1>1. IsSequence(<< >>)
  BY Tuples
<1> QED
  BY <1>1 DEF Stage, IsStage

LEMMA OneMoreTest ==
  ASSUME NEW tests, IsSequence(tests), NEW test
  PROVE  LET more == Append(tests, test) IN
         /\ IsSequence(more) /\ more # << >>
         /\ more[1] = IF tests = << >> THEN test ELSE tests[1]
         /\ \E i \in DOMAIN more : more[i] = test
<1> DEFINE S == Elements(tests) \cup {test}
           more == Append(tests, test)
<1>1. tests \in Seq(S) /\ test \in S
  <2>1. tests \in Seq(Elements(tests)) /\ Elements(tests) \subseteq S
    BY DEF IsSequence
  <2> HIDE DEF S
  <2>2. tests \in Seq(S)
    BY <2>1
  <2> QED
    BY <2>2 DEF S
<1> HIDE DEF S
<1>2. /\ more \in Seq(S) /\ Len(tests) \in Nat /\ Len(more) = Len(tests) + 1
      /\ more[Len(tests) + 1] = test
      /\ \A k \in 1..Len(tests) : more[k] = tests[k]
      /\ DOMAIN more = 1..Len(more)
      /\ tests = << >> <=> Len(tests) = 0
  BY <1>1
<1>3. IsSequence(more)
  BY <1>2, SequenceOf
<1> HIDE DEF more
<1>4. Len(tests) + 1 \in DOMAIN more
  BY <1>2
<1>5. more # << >>
  BY <1>4
<1>6. more[1] = IF tests = << >> THEN test ELSE tests[1]
  BY <1>2
<1> QED
  BY <1>2, <1>3, <1>4, <1>5, <1>6 DEF more

(* What a further test around the call changes. *)
LEMMA UnderFacts ==
  ASSUME NEW s, Stages(s), NEW test
  PROVE  LET u == Under(test, s) IN
         /\ Stages(u) /\ Len(u) = Len(s) /\ Len(s) \in Nat
         /\ \A k \in 1..Len(s) :
              /\ u[k].name = s[k].name /\ u[k].kind = s[k].kind
              /\ u[k].tests = Append(s[k].tests, test)
              /\ Innermost(u[k]) =
                   IF s[k].tests = << >> THEN test ELSE Innermost(s[k])
<1> DEFINE u == Under(test, s)
<1>1. DOMAIN s = 1..Len(s) /\ Len(s) \in Nat
  BY DEF Stages, IsSequence
<1>2. u = [k \in 1..Len(s) |-> [s[k] EXCEPT !.tests = Append(s[k].tests, test)]]
  BY <1>1 DEF Under
<1> HIDE DEF u
<1>3. ASSUME NEW k \in 1..Len(s)
      PROVE  /\ IsStage(u[k])
             /\ u[k].name = s[k].name /\ u[k].kind = s[k].kind
             /\ u[k].tests = Append(s[k].tests, test)
             /\ Innermost(u[k]) = IF s[k].tests = << >> THEN test ELSE Innermost(s[k])
  <2>1. PICK name, bin, kind, tests :
          s[k] = [name |-> name, bin |-> bin, kind |-> kind, tests |-> tests]
    BY DEF Stages, IsStage
  <2> DEFINE more == Append(tests, test)
  <2>2. u[k] = [s[k] EXCEPT !.tests = Append(s[k].tests, test)]
    BY <1>2
  <2>3. s[k].tests = tests /\ s[k].name = name /\ s[k].kind = kind
    BY <2>1
  <2>4. u[k] = [s[k] EXCEPT !.tests = more]
    BY <2>2, <2>3
  <2>5. IsSequence(tests)
    BY <2>3 DEF Stages, IsStage
  <2>6. IsSequence(more) /\ more # << >> /\ more[1] = IF tests = << >> THEN test ELSE tests[1]
    BY <2>5, OneMoreTest
  <2> HIDE DEF more
  <2>7. u[k] = [name |-> name, bin |-> bin, kind |-> kind, tests |-> more]
    BY <2>1, <2>4
  <2>8. u[k].name = name /\ u[k].kind = kind /\ u[k].tests = more
    BY <2>7
  <2>9. IsStage(u[k])
    BY <2>6, <2>7, <2>8 DEF IsStage
  <2>10. Innermost(u[k]) = IF s[k].tests = << >> THEN test ELSE Innermost(s[k])
    BY <2>3, <2>6, <2>8 DEF Innermost
  <2> QED
    BY <2>3, <2>8, <2>9, <2>10 DEF more
<1> DEFINE T == {u[k] : k \in 1..Len(s)}
<1>4. u \in [1..Len(s) -> T]
  BY <1>2
<1> HIDE DEF T
<1>5. IsSequence(u) /\ Len(u) = Len(s)
  BY <1>1, <1>4, FunctionIsSequence, SequenceOf
<1> QED
  BY <1>1, <1>3, <1>5 DEF Stages, u

LEMMA UnderReturn ==
  ASSUME NEW s, Untested(s)
  PROVE  Returning(Under("return", s)) /\ Len(Under("return", s)) = Len(s)
BY UnderFacts DEF Untested, Returning

LEMMA StillReturning ==
  ASSUME NEW s, Returning(s), NEW test
  PROVE  Returning(Under(test, s)) /\ Len(Under(test, s)) = Len(s)
<1>1. \A k \in 1..Len(s) : s[k].tests # << >>
  BY DEF Returning, Innermost
<1> QED
  BY <1>1, UnderFacts DEF Returning

(* Whatever a workload is made of, its selection stops every failure.      *)
LEMMA UnderCapture ==
  ASSUME NEW s, Stages(s)
  PROVE  \A k \in 1..Len(s) : Guarded(Under("capture", s)[k])
<1> DEFINE u == Under("capture", s)
<1> SUFFICES ASSUME NEW k \in 1..Len(s) PROVE Guarded(u[k])
  OBVIOUS
<1>1. u[k].tests = Append(s[k].tests, "capture")
  BY UnderFacts
<1>2. IsSequence(s[k].tests)
  BY DEF Stages, IsStage
<1> HIDE DEF u
<1>3. \E i \in DOMAIN u[k].tests : u[k].tests[i] = "capture"
  BY <1>1, <1>2, OneMoreTest
<1> QED
  BY <1>3 DEF Guarded

LEMMA JoinedStages ==
  ASSUME NEW s, NEW t, Stages(s), Stages(t)
  PROVE  Stages(s \o t)
<1>1. /\ IsSequence(s \o t) /\ Len(s) \in Nat
      /\ \A k \in 1..Len(s) : (s \o t)[k] = s[k]
      /\ \A k \in 1..Len(s \o t) :
           k > Len(s) => /\ k - Len(s) \in 1..Len(t)
                         /\ (s \o t)[k] = t[k - Len(s)]
  BY Concatenation DEF Stages
<1>2. Len(s \o t) \in Nat
  BY <1>1 DEF IsSequence
<1>3. ASSUME NEW k \in 1..Len(s \o t) PROVE IsStage((s \o t)[k])
  <2>1. CASE k > Len(s)
    BY <2>1, <1>1 DEF Stages
  <2>2. CASE k <= Len(s)
    <3>1. k \in 1..Len(s)
      BY <2>2, <1>1, <1>2
    <3> QED
      BY <3>1, <1>1 DEF Stages
  <2> QED
    BY <2>1, <2>2, <1>1, <1>2
<1> QED
  BY <1>1, <1>3 DEF Stages

(* Commands and checks are stages without a test of their own.             *)
LEMMA Kinds ==
  /\ \A name, bin : LET st == Command(name, bin) IN
       IsStage(st) /\ st.tests = << >> /\ st.name = name /\ st.kind = "run"
  /\ \A name : LET st == Check(name) IN
       IsStage(st) /\ st.tests = << >> /\ st.name = name /\ st.kind = "check"
  /\ \A bin : LET st == Present(bin) IN
       IsStage(st) /\ st.tests = << >> /\ st.name = "present" /\ st.kind = "present"
  /\ \A kind, name : LET st == Smoke(kind, name) IN
       IsStage(st) /\ st.tests = << >> /\ st.name = name /\ st.kind = kind
BY StageFacts DEF Command, Check, Present, Smoke

LEMMA SmallNumbers ==
  \A m : /\ m \in {0, 1, 4, 5, 6} => m <= 8
         /\ m \in {5, 6} => /\ 1 \in 1..m /\ 2 \in 1..m /\ 3 \in 1..m
                            /\ 4 \in 1..m /\ 5 \in 1..m
OBVIOUS

LEMMA LastOne ==
  \A l, k, n : l \in Nat /\ k \in Nat /\ l + k = n /\ n = l + 1 => k = 1
OBVIOUS

-----------------------------------------------------------------------------
(* The table of workloads. *)
GateFirst(s) ==
  /\ Len(s) >= 5
  /\ \A j \in 1..5 : Innermost(s[j]) = "return" /\ s[j].name \in GateStages
  /\ \A g \in GateStages : \E j \in 1..5 : s[j].name = g

LEMMA GateTable ==
  ASSUME NEW gate \in BOOLEAN
  PROVE  LET s == run_llama_test_backend_ops(gate) IN
         /\ Returning(s)
         /\ gate => Len(s) = 5 /\ GateFirst(s)
         /\ ~gate => s = << >> /\ Len(s) = 0
<1>1. CASE ~gate
  <2>1. run_llama_test_backend_ops(gate) = << >>
    BY <1>1 DEF run_llama_test_backend_ops
  <2>2. IsSequence(<< >>) /\ Len(<< >>) = 0
    BY Tuples
  <2> QED
    BY <1>1, <2>1, <2>2 DEF Returning, Stages
<1>2. CASE gate
  <2> DEFINE bin == "test-backend-ops"
             b == <<Command("q8_0", bin), Command("soft_max", bin), Command("bf16_1", bin),
                    Command("bf16_2", bin), Command("bf16_3", bin)>>
             s == Under("return", b)
  <2>1. run_llama_test_backend_ops(gate) = s
    BY <1>2 DEF run_llama_test_backend_ops
  <2>2. IsSequence(b) /\ Len(b) = 5
    BY Tuples
  <2>3. /\ b[1] = Command("q8_0", bin) /\ b[2] = Command("soft_max", bin)
        /\ b[3] = Command("bf16_1", bin) /\ b[4] = Command("bf16_2", bin)
        /\ b[5] = Command("bf16_3", bin)
    OBVIOUS
  <2> HIDE DEF b
  <2>4. \A j \in 1..5 : j = 1 \/ j = 2 \/ j = 3 \/ j = 4 \/ j = 5
    OBVIOUS
  <2>5. ASSUME NEW j \in 1..5
        PROVE  IsStage(b[j]) /\ b[j].tests = << >> /\ b[j].name \in GateStages
    BY <2>3, <2>4, Kinds DEF GateStages
  <2>6. Untested(b)
    BY <2>2, <2>5 DEF Untested, Stages
  <2>7. Returning(s) /\ Len(s) = 5
    BY <2>2, <2>6, UnderReturn
  <2>8. \A j \in 1..5 : s[j].name = b[j].name
    BY <2>2, <2>6, UnderFacts DEF Untested
  <2> HIDE DEF s
  <2>9. \A j \in 1..5 : Innermost(s[j]) = "return" /\ s[j].name \in GateStages
    BY <2>5, <2>7, <2>8 DEF Returning
  <2>10. /\ s[1].name = "q8_0" /\ s[2].name = "soft_max" /\ s[3].name = "bf16_1"
         /\ s[4].name = "bf16_2" /\ s[5].name = "bf16_3"
    BY <2>3, <2>8, Kinds
  <2>11. \A g \in GateStages : \E j \in 1..5 : s[j].name = g
    BY <2>10 DEF GateStages
  <2>12. GateFirst(s)
    BY <2>7, <2>9, <2>11 DEF GateFirst
  <2> QED
    BY <1>2, <2>1, <2>7, <2>12
<1> QED
  BY <1>1, <1>2

(* A test around the whole gate changes nothing of that. *)
LEMMA GateUnder ==
  ASSUME NEW s, Stages(s), GateFirst(s), NEW test
  PROVE  GateFirst(Under(test, s))
<1> DEFINE u == Under(test, s)
<1>1. /\ Len(u) = Len(s) /\ Len(s) \in Nat /\ Len(s) >= 5
      /\ \A k \in 1..Len(s) :
           /\ u[k].name = s[k].name
           /\ Innermost(u[k]) = IF s[k].tests = << >> THEN test ELSE Innermost(s[k])
  BY UnderFacts DEF GateFirst
<1> HIDE DEF u
<1>2. \A j \in 1..5 : j \in 1..Len(s)
  BY <1>1
<1>3. \A j \in 1..5 : Innermost(s[j]) = "return" /\ s[j].tests # << >>
  BY DEF GateFirst, Innermost
<1>4. \A j \in 1..5 : u[j].name = s[j].name /\ Innermost(u[j]) = "return"
  BY <1>1, <1>2, <1>3
<1> QED
  BY <1>1, <1>4 DEF GateFirst, u

LEMMA SuiteTable ==
  ASSUME NEW gate \in BOOLEAN
  PROVE  LET s == run_llama_fake_bench_suite(gate) IN
         /\ Stages(s) /\ Len(s) <= 8
         /\ gate => GateFirst(s)
         /\ \A k \in 1..Len(s) : Innermost(s[k]) # "capture"
         /\ \A k \in 1..Len(s) : s[k].tests = << >> => k = Len(s)
<1> DEFINE g == Under("return", run_llama_test_backend_ops(gate))
           c == <<Command("bench_15M", "llama-bench"), Command("bench_1B", "llama-bench")>>
           b == Under("keep", c)
           r == <<Stage("suite", "sh", "result")>>
           gb == g \o b
           s == gb \o r
<1>1. Untested(c) /\ Len(c) = 2
  <2>1. IsSequence(c) /\ Len(c) = 2
    BY Tuples
  <2>2. c[1] = Command("bench_15M", "llama-bench") /\ c[2] = Command("bench_1B", "llama-bench")
    OBVIOUS
  <2> HIDE DEF c
  <2>3. \A k \in 1..2 : k = 1 \/ k = 2
    OBVIOUS
  <2>4. \A k \in 1..2 : IsStage(c[k]) /\ c[k].tests = << >>
    BY <2>2, <2>3, Kinds
  <2> QED
    BY <2>1, <2>4 DEF Untested, Stages
<1> HIDE DEF c
<1>2. /\ Stages(b) /\ Len(b) = 2
      /\ \A k \in 1..2 : Innermost(b[k]) = "keep"
  BY <1>1, UnderFacts DEF Untested
<1>3. /\ Returning(g) /\ Len(g) \in {0, 5}
      /\ gate => Len(g) = 5 /\ GateFirst(g)
  <2>1. Returning(run_llama_test_backend_ops(gate))
    BY GateTable
  <2>2. Returning(g) /\ Len(g) = Len(run_llama_test_backend_ops(gate))
    BY <2>1, StillReturning
  <2>3. gate => GateFirst(g)
    BY <2>1, GateTable, GateUnder DEF Returning
  <2>4. Len(run_llama_test_backend_ops(gate)) \in {0, 5}
        /\ (gate => Len(run_llama_test_backend_ops(gate)) = 5)
    BY GateTable
  <2> QED
    BY <2>2, <2>3, <2>4
<1>4. /\ Stages(r) /\ Len(r) = 1 /\ Innermost(r[1]) = "none"
  <2>1. IsSequence(r) /\ Len(r) = 1 /\ r[1] = Stage("suite", "sh", "result")
    BY Tuples
  <2>2. IsStage(r[1]) /\ r[1].tests = << >>
    BY <2>1, StageFacts
  <2> HIDE DEF r
  <2>3. \A k \in 1..1 : k = 1
    OBVIOUS
  <2> QED
    BY <2>1, <2>2, <2>3 DEF Stages, Innermost
<1> HIDE DEF g, b, r
<1> DEFINE n == Len(g)
<1>5. n \in {0, 5} /\ n \in Nat
  BY <1>3
<1>6. /\ Stages(gb) /\ Len(gb) = n + 2
      /\ \A k \in 1..n : gb[k] = g[k]
      /\ \A k \in 1..Len(gb) : k > n => k - n \in 1..2 /\ gb[k] = b[k - n]
  <2>1. Stages(gb)
    BY <1>2, <1>3, JoinedStages DEF Returning
  <2>2. /\ Len(gb) = Len(g) + Len(b)
        /\ \A k \in 1..Len(g) : gb[k] = g[k]
        /\ \A k \in 1..Len(gb) : k > Len(g) => /\ k - Len(g) \in 1..Len(b)
                                               /\ gb[k] = b[k - Len(g)]
    <3>1. IsSequence(g) /\ IsSequence(b)
      BY <1>2, <1>3 DEF Stages, Returning
    <3> QED
      BY <3>1, Concatenation, Zenon
  <2> HIDE DEF gb
  <2> QED
    BY <1>2, <2>1, <2>2
<1> HIDE DEF gb
<1>7. /\ Stages(s) /\ Len(s) = n + 3
      /\ \A k \in 1..(n + 2) : s[k] = gb[k]
      /\ \A k \in 1..Len(s) : k > n + 2 => k - (n + 2) \in 1..1 /\ s[k] = r[k - (n + 2)]
  <2>1. Stages(s)
    BY <1>4, <1>6, JoinedStages
  <2>2. /\ Len(s) = Len(gb) + Len(r)
        /\ \A k \in 1..Len(gb) : s[k] = gb[k]
        /\ \A k \in 1..Len(s) : k > Len(gb) => /\ k - Len(gb) \in 1..Len(r)
                                               /\ s[k] = r[k - Len(gb)]
    BY <1>4, <1>6, Concatenation, ZenonT(60) DEF Stages
  <2> HIDE DEF s
  <2>3. n + 2 + 1 = n + 3
    BY <1>5
  <2> QED
    BY <1>4, <1>6, <2>1, <2>2, <2>3
<1> HIDE DEF s
<1>8. ASSUME NEW k \in 1..Len(s)
      PROVE  \/ k \in 1..n /\ s[k] = g[k]
             \/ k - n \in 1..2 /\ s[k] = b[k - n]
             \/ k = Len(s) /\ s[k] = r[1]
  <2>1. CASE k <= n
    <3>1. k \in 1..n /\ k \in 1..(n + 2)
      BY <2>1, <1>5
    <3> QED
      BY <3>1, <1>6, <1>7
  <2>2. CASE k > n /\ k <= n + 2
    <3>1. k \in 1..(n + 2) /\ k \in 1..Len(gb)
      BY <2>2, <1>5, <1>6
    <3> QED
      BY <2>2, <3>1, <1>6, <1>7
  <2>3. CASE k > n + 2
    <3>1. k - (n + 2) = 1 /\ s[k] = r[k - (n + 2)]
      BY <2>3, <1>5, <1>7
    <3>2. k = n + 3
      BY <3>1, <1>5, <1>7
    <3> QED
      BY <3>1, <3>2, <1>7
  <2> QED
    BY <2>1, <2>2, <2>3, <1>5, <1>7
<1>9. ASSUME NEW k \in 1..Len(s)
      PROVE  Innermost(s[k]) # "capture" /\ (s[k].tests = << >> => k = Len(s))
  <2>1. \/ Innermost(s[k]) \in {"return", "keep"}
        \/ k = Len(s) /\ Innermost(s[k]) = "none"
    <3>1. CASE k \in 1..n /\ s[k] = g[k]
      <4>1. Innermost(g[k]) = "return"
        BY <3>1, <1>3 DEF Returning
      <4>2. Innermost(s[k]) = Innermost(g[k])
        BY <3>1, Zenon
      <4> QED
        BY <4>1, <4>2
    <3>2. CASE k - n \in 1..2 /\ s[k] = b[k - n]
      <4>1. Innermost(b[k - n]) = "keep"
        BY <3>2, <1>2
      <4>2. Innermost(s[k]) = Innermost(b[k - n])
        BY <3>2, Zenon
      <4> QED
        BY <4>1, <4>2
    <3>3. CASE k = Len(s) /\ s[k] = r[1]
      BY <3>3, <1>4
    <3> QED
      BY <3>1, <3>2, <3>3, <1>8
  <2>2. s[k].tests = << >> => Innermost(s[k]) = "none"
    BY DEF Innermost
  <2> QED
    BY <2>1, <2>2
<1>10. ASSUME gate PROVE GateFirst(s)
  <2>1. n = 5 /\ GateFirst(g)
    BY <1>3, <1>10
  <2>2. \A j \in 1..5 : s[j] = g[j]
    BY <2>1, <1>6, <1>7
  <2>3. Len(s) >= 5
    BY <2>1, <1>7
  <2> QED
    BY <2>1, <2>2, <2>3 DEF GateFirst
<1>11. Len(s) <= 8
  <2> DEFINE m == Len(s)
  <2>1. m = n + 3
    BY <1>7
  <2> HIDE DEF n, m
  <2>2. m <= 8
    BY <2>1, <1>5
  <2> QED
    BY <2>2 DEF m
<1>12. run_llama_fake_bench_suite(gate) = s
  BY DEF run_llama_fake_bench_suite, g, b, c, r, gb, s
<1> QED
  BY <1>7, <1>9, <1>10, <1>11, <1>12

Bench == {"bench_15M", "bench_1B"}

NoBench(s) == \A k \in 1..Len(s) : s[k].name \notin Bench

LEMMA NoBenchUnder ==
  ASSUME NEW s, Stages(s), NoBench(s), NEW test
  PROVE  NoBench(Under(test, s))
BY UnderFacts DEF NoBench

(* ncnn-smoke: the two runs of the program come before the comparison. *)
LEMMA SmokeBody ==
  ASSUME NEW test \in BOOLEAN
  PROVE  LET s == run_ncnn_smoke(test) IN
         /\ Returning(s) /\ Len(s) \in {5, 6} /\ NoBench(s)
         /\ s[1].kind = "present" /\ s[2].kind = "mktemp"
         /\ s[3].kind = "smoke" /\ s[3].name = "ref"
         /\ s[4].kind = "smoke" /\ s[4].name = "ame"
         /\ s[5].kind = "cmp"
         /\ \A k \in 1..Len(s) : k > 5 => s[k].kind = "run"
<1> DEFINE five == <<Present("ncnn_ame_smoke"), Smoke("mktemp", "scratch"),
                    Smoke("smoke", "ref"), Smoke("smoke", "ame"), Smoke("cmp", "cmp")>>
           more == IF test THEN <<Command("convolution", "ncnn_test_convolution_3")>>
                   ELSE << >>
<1>1. IsSequence(five) /\ Len(five) = 5
  BY Tuples
<1>2. /\ five[1] = Present("ncnn_ame_smoke") /\ five[2] = Smoke("mktemp", "scratch")
      /\ five[3] = Smoke("smoke", "ref") /\ five[4] = Smoke("smoke", "ame")
      /\ five[5] = Smoke("cmp", "cmp")
  OBVIOUS
<1>3. IsSequence(more) /\ Len(more) \in {0, 1}
  <2>1. CASE test
    BY <2>1, Tuples
  <2>2. CASE ~test
    BY <2>2, Tuples
  <2> QED
    BY <2>1, <2>2
<1>4. \A k \in 1..Len(more) : more[k] = Command("convolution", "ncnn_test_convolution_3")
  OBVIOUS
<1>5. run_ncnn_smoke(test) = Under("return", five \o more)
  BY DEF run_ncnn_smoke
<1> HIDE DEF five, more
<1> DEFINE b == five \o more
           s == Under("return", b)
<1>6. /\ IsSequence(b) /\ Len(b) = 5 + Len(more)
      /\ \A k \in 1..5 : b[k] = five[k]
      /\ \A k \in 1..Len(b) : k > 5 => k - 5 \in 1..Len(more) /\ b[k] = more[k - 5]
  <2>1. /\ IsSequence(b) /\ Len(b) = Len(five) + Len(more)
        /\ \A k \in 1..Len(five) : b[k] = five[k]
        /\ \A k \in 1..Len(b) :
             k > Len(five) => /\ k - Len(five) \in 1..Len(more)
                              /\ b[k] = more[k - Len(five)]
    BY <1>1, <1>3, Concatenation, Zenon
  <2> HIDE DEF b
  <2> QED
    BY <1>1, <2>1
<1> HIDE DEF b
<1>7. b[1] = five[1] /\ b[2] = five[2] /\ b[3] = five[3] /\ b[4] = five[4] /\ b[5] = five[5]
  BY <1>6
<1>8. Len(b) \in {5, 6}
  BY <1>3, <1>6
<1>9. ASSUME NEW k \in 1..Len(b), k > 5
      PROVE  b[k] = Command("convolution", "ncnn_test_convolution_3")
  BY <1>4, <1>6, <1>9
<1>10. ASSUME NEW k \in 1..Len(b)
       PROVE  IsStage(b[k]) /\ b[k].tests = << >> /\ b[k].name \notin Bench
  <2>1. CASE k > 5
    BY <2>1, <1>9, Kinds DEF Bench
  <2>2. CASE k = 1 \/ k = 2 \/ k = 3 \/ k = 4 \/ k = 5
    BY <2>2, <1>2, <1>7, Kinds DEF Bench
  <2> QED
    BY <2>1, <2>2, <1>8
<1>11. Untested(b) /\ NoBench(b)
  BY <1>6, <1>10 DEF Untested, Stages, NoBench
<1>12. /\ Returning(s) /\ Len(s) = Len(b) /\ NoBench(s)
       /\ \A k \in 1..Len(b) : s[k].name = b[k].name /\ s[k].kind = b[k].kind
  BY <1>11, UnderReturn, UnderFacts, NoBenchUnder DEF Untested
<1> HIDE DEF s
<1>13. 1 \in 1..Len(b) /\ 2 \in 1..Len(b) /\ 3 \in 1..Len(b) /\ 4 \in 1..Len(b) /\ 5 \in 1..Len(b)
  BY <1>8, SmallNumbers
<1>14. /\ s[1].kind = "present" /\ s[2].kind = "mktemp"
       /\ s[3].kind = "smoke" /\ s[3].name = "ref"
       /\ s[4].kind = "smoke" /\ s[4].name = "ame" /\ s[5].kind = "cmp"
  BY <1>2, <1>7, <1>12, <1>13, Kinds
<1>15. \A k \in 1..Len(s) : k > 5 => s[k].kind = "run"
  BY <1>9, <1>12, Kinds
<1>16. run_ncnn_smoke(test) = s
  BY <1>5 DEF s, b
<1> QED
  BY <1>8, <1>12, <1>14, <1>15, <1>16

LEMMA SmokeTable ==
  ASSUME NEW test \in BOOLEAN
  PROVE  LET s == Under("capture", run_ncnn_smoke(test)) IN
         /\ Len(s) \in {5, 6}
         /\ s[3].kind = "smoke" /\ s[3].name = "ref"
         /\ s[4].kind = "smoke" /\ s[4].name = "ame"
         /\ s[5].kind = "cmp"
         /\ \A k \in 1..Len(s) : k > 5 => s[k].kind = "run"
<1> DEFINE b == run_ncnn_smoke(test)
           s == Under("capture", b)
<1>1. /\ Stages(b) /\ Len(b) \in {5, 6}
      /\ b[3].kind = "smoke" /\ b[3].name = "ref"
      /\ b[4].kind = "smoke" /\ b[4].name = "ame" /\ b[5].kind = "cmp"
      /\ \A k \in 1..Len(b) : k > 5 => b[k].kind = "run"
  BY SmokeBody DEF Returning
<1> HIDE DEF b
<1>2. /\ Len(s) = Len(b)
      /\ \A k \in 1..Len(b) : s[k].name = b[k].name /\ s[k].kind = b[k].kind
  BY <1>1, UnderFacts
<1> HIDE DEF s
<1>3. 3 \in 1..Len(b) /\ 4 \in 1..Len(b) /\ 5 \in 1..Len(b)
  BY <1>1
<1> QED
  BY <1>1, <1>2, <1>3 DEF s, b

-----------------------------------------------------------------------------
(* What the theorems use of the table: a benchmark comes after the stages  *)
(* of an enabled gate, each of which stops the workload if it fails; only  *)
(* the names of the table have stages; and every stage is called under a   *)
(* test that stops its failure and, unless it is the last, under one that  *)
(* does not lose it.                                                       *)
TableFacts(s, gate) ==
  /\ IsSequence(s) /\ Len(s) <= 8
  /\ NoBench(s) \/ (gate => GateFirst(s))
  /\ \A k \in 1..Len(s) : Guarded(s[k])
  /\ NoneLost(s)

LEMMA NoStages == \A gate : TableFacts(<< >>, gate)
<1>1. IsSequence(<< >>) /\ Len(<< >>) = 0
  BY Tuples
<1> QED
  BY <1>1 DEF TableFacts, NoBench, NoneLost

(* The selection captures what a function leaves. *)
LEMMA Captured ==
  ASSUME NEW b, Stages(b), Len(b) <= 8, NEW gate,
         NoBench(b) \/ (gate => GateFirst(b)),
         \A k \in 1..Len(b) : Innermost(b[k]) # "capture",
         \A k \in 1..Len(b) : b[k].tests = << >> => k = Len(b)
  PROVE  TableFacts(Under("capture", b), gate)
<1> DEFINE s == Under("capture", b)
<1>1. /\ Stages(s) /\ Len(s) = Len(b)
      /\ \A k \in 1..Len(b) :
           Innermost(s[k]) = IF b[k].tests = << >> THEN "capture" ELSE Innermost(b[k])
  BY UnderFacts
<1>2. \A k \in 1..Len(b) : Guarded(s[k])
  BY UnderCapture
<1>3. NoBench(s) \/ (gate => GateFirst(s))
  BY NoBenchUnder, GateUnder
<1> HIDE DEF s
<1>4. NoneLost(s)
  BY <1>1 DEF NoneLost
<1> QED
  BY <1>1, <1>2, <1>3, <1>4 DEF TableFacts, Stages, s

LEMMA CapturedReturning ==
  ASSUME NEW b, Returning(b), Len(b) <= 8, NEW gate,
         NoBench(b) \/ (gate => GateFirst(b))
  PROVE  TableFacts(Under("capture", b), gate)
<1>1. \A k \in 1..Len(b) : Innermost(b[k]) # "capture" /\ b[k].tests # << >>
  BY DEF Returning, Innermost
<1> QED
  BY <1>1, Captured DEF Returning

LEMMA CapturedCommand ==
  ASSUME NEW w, NEW bin, w \notin Bench, NEW gate
  PROVE  TableFacts(Under("capture", <<Command(w, bin)>>), gate)
<1> DEFINE b == <<Command(w, bin)>>
<1>1. IsSequence(b) /\ Len(b) = 1 /\ b[1] = Command(w, bin)
  BY Tuples
<1> HIDE DEF b
<1>2. \A k \in 1..1 : k = 1
  OBVIOUS
<1>3. Stages(b) /\ NoBench(b) /\ \A k \in 1..1 : b[k].tests = << >>
  BY <1>1, <1>2, Kinds DEF Stages, NoBench
<1>4. \A k \in 1..Len(b) : Innermost(b[k]) = "none"
  BY <1>1, <1>3 DEF Innermost
<1>5. Len(b) <= 8
  BY <1>1
<1>6. TableFacts(Under("capture", b), gate)
  BY <1>1, <1>2, <1>3, <1>4, <1>5, Captured
<1> QED
  BY <1>6 DEF b

LEMMA Bf16Table == Returning(run_llama_bf16_test_ops) /\ Len(run_llama_bf16_test_ops) = 4
                   /\ NoBench(run_llama_bf16_test_ops)
<1> DEFINE bin == "test-backend-ops"
           b == <<Present(bin), Command("CPY", bin), Command("MUL_MAT", bin),
                  Command("SOFT_MAX", bin)>>
<1>1. run_llama_bf16_test_ops = Under("return", b)
  BY DEF run_llama_bf16_test_ops
<1>2. IsSequence(b) /\ Len(b) = 4
  BY Tuples
<1>3. /\ b[1] = Present(bin) /\ b[2] = Command("CPY", bin)
      /\ b[3] = Command("MUL_MAT", bin) /\ b[4] = Command("SOFT_MAX", bin)
  OBVIOUS
<1> HIDE DEF b
<1>4. \A k \in 1..4 : k = 1 \/ k = 2 \/ k = 3 \/ k = 4
  OBVIOUS
<1>5. \A k \in 1..4 : IsStage(b[k]) /\ b[k].tests = << >> /\ b[k].name \notin Bench
  BY <1>3, <1>4, Kinds DEF Bench
<1>6. Untested(b) /\ NoBench(b)
  BY <1>2, <1>5 DEF Untested, Stages, NoBench
<1> QED
  BY <1>1, <1>2, <1>6, UnderReturn, NoBenchUnder DEF Untested

LEMMA MnnTable ==
  Returning(run_mnn_smoke) /\ Len(run_mnn_smoke) = 5 /\ NoBench(run_mnn_smoke)
<1> DEFINE b == <<Check("inputs"), Check("scratch"), Command("mnn", "MNNV2Basic.out"),
                  Check("output"), Check("argmax")>>
<1>1. run_mnn_smoke = Under("return", b)
  BY DEF run_mnn_smoke
<1>2. IsSequence(b) /\ Len(b) = 5
  BY Tuples
<1>3. /\ b[1] = Check("inputs") /\ b[2] = Check("scratch")
      /\ b[3] = Command("mnn", "MNNV2Basic.out")
      /\ b[4] = Check("output") /\ b[5] = Check("argmax")
  OBVIOUS
<1> HIDE DEF b
<1>4. \A k \in 1..5 : k = 1 \/ k = 2 \/ k = 3 \/ k = 4 \/ k = 5
  OBVIOUS
<1>5. \A k \in 1..5 : IsStage(b[k]) /\ b[k].tests = << >> /\ b[k].name \notin Bench
  BY <1>3, <1>4, Kinds DEF Bench
<1>6. Untested(b) /\ NoBench(b)
  BY <1>2, <1>5 DEF Untested, Stages, NoBench
<1> QED
  BY <1>1, <1>2, <1>6, UnderReturn, NoBenchUnder DEF Untested

LEMMA Table ==
  ASSUME NEW w, NEW gate \in BOOLEAN, NEW test \in BOOLEAN
  PROVE  LET s == StagesOf(w, gate, test) IN
         TableFacts(s, gate) /\ (w \notin Known => s = << >>)
<1> DEFINE s == StagesOf(w, gate, test)
<1>1. CASE w \in Single
  <2>1. w \notin Bench /\ w \in Known
    BY <1>1 DEF Single, Bench, Known
  <2>2. \E bin : s = Under("capture", <<Command(w, bin)>>)
    BY <1>1 DEF StagesOf, Single, run_and_capture
  <2> HIDE DEF s
  <2>3. TableFacts(s, gate)
    BY <2>1, <2>2, CapturedCommand
  <2> QED
    BY <2>1, <2>3 DEF s
<1>2. CASE w = "test-backend-ops"
  <2> DEFINE b == run_llama_test_backend_ops(gate)
  <2>1. s = Under("capture", b) /\ w \in Known
    BY <1>2 DEF StagesOf, Known, Staged
  <2>2. Returning(b) /\ (gate => GateFirst(b)) /\ (Len(b) = 0 \/ Len(b) = 5)
    BY GateTable
  <2> HIDE DEF b, s
  <2>3. Len(b) <= 8
    BY <2>2, SmallNumbers, Zenon
  <2>4. TableFacts(s, gate)
    BY <2>1, <2>2, <2>3, CapturedReturning
  <2> QED
    BY <2>1, <2>4 DEF s
<1>3. CASE w = "llama-bf16-test-ops"
  <2>1. s = Under("capture", run_llama_bf16_test_ops) /\ w \in Known
    BY <1>3 DEF StagesOf, Known, Staged
  <2> HIDE DEF s
  <2>2. Len(run_llama_bf16_test_ops) <= 8
    BY Bf16Table, SmallNumbers, Zenon
  <2>3. TableFacts(s, gate)
    BY <2>1, <2>2, Bf16Table, CapturedReturning
  <2> QED
    BY <2>1, <2>3 DEF s
<1>4. CASE w = "llama-fake-bench-suite"
  <2> DEFINE b == run_llama_fake_bench_suite(gate)
  <2>1. s = Under("capture", b) /\ w \in Known
    BY <1>4 DEF StagesOf, Known, Staged
  <2>2. /\ Stages(b) /\ Len(b) <= 8 /\ (gate => GateFirst(b))
        /\ \A k \in 1..Len(b) : Innermost(b[k]) # "capture"
        /\ \A k \in 1..Len(b) : b[k].tests = << >> => k = Len(b)
    BY SuiteTable
  <2> HIDE DEF b, s
  <2>3. TableFacts(s, gate)
    BY <2>1, <2>2, Captured
  <2> QED
    BY <2>1, <2>3 DEF s
<1>5. CASE w = "mnn-smoke"
  <2>1. s = Under("capture", run_mnn_smoke) /\ w \in Known
    BY <1>5 DEF StagesOf, Known, Staged
  <2> HIDE DEF s
  <2>2. Len(run_mnn_smoke) <= 8
    BY MnnTable, SmallNumbers, Zenon
  <2>3. TableFacts(s, gate)
    BY <2>1, <2>2, MnnTable, CapturedReturning
  <2> QED
    BY <2>1, <2>3 DEF s
<1>6. CASE w = "ncnn-smoke"
  <2> DEFINE b == run_ncnn_smoke(test)
  <2>1. s = Under("capture", b) /\ w \in Known
    BY <1>6 DEF StagesOf, Known, Staged
  <2>2. Returning(b) /\ NoBench(b) /\ Len(b) \in {5, 6}
    BY SmokeBody
  <2> HIDE DEF b, s
  <2>3. Len(b) <= 8
    <3>1. Len(b) \in {0, 1, 4, 5, 6}
      BY <2>2
    <3> QED
      BY <3>1, SmallNumbers, Zenon
  <2>4. TableFacts(s, gate)
    BY <2>1, <2>2, <2>3, CapturedReturning
  <2> QED
    BY <2>1, <2>4 DEF s
<1>7. CASE w \notin Single \cup Staged
  <2>1. s = << >>
    BY <1>7 DEF StagesOf, Staged, Single
  <2> QED
    BY <2>1, NoStages
<1> QED
  BY <1>1, <1>2, <1>3, <1>4, <1>5, <1>6, <1>7 DEF Staged

-----------------------------------------------------------------------------
(* The inductive invariant.  All is what the workload is made of; ran is a *)
(* prefix of it, and stages what is left or, after a failure, nothing.     *)
All == IF RunsWorkload THEN StagesOf(cfg.workload, cfg.gate, cfg.ncnn_test)
       ELSE << >>

Text == Seq({"reference", "other"})

ScratchType ==
  [room : Nat, ref_txt : Text, ame_txt : Text,
   ame : [int8 : Text, bf16 : Seq({"near", "far", "nan"})]]

Typed ==
  /\ cfg \in Config /\ scratch \in ScratchType /\ status \in Nat
  /\ IsSequence(stages) /\ IsSequence(ran)

(* No workload has been started, nor will one where PID 1 has died.        *)
NotYet == phase \in {"env", "main", "panic"}

NothingRun == stages = << >> /\ ran = << >> /\ status = 0 /\ scratch = NoScratch

RanPrefix ==
  /\ Len(ran) <= Len(All)
  /\ \A i \in 1..Len(ran) : ran[i].name = All[i].name

Left ==
  \/ stages = << >> /\ (status = 0 => Len(ran) = Len(All))
  \/ /\ Len(ran) + Len(stages) = Len(All)
     /\ \A k \in 1..Len(stages) : stages[k] = All[Len(ran) + k]

(* A stage that stops the workload if it fails can only be the last one to *)
(* have failed.                                                            *)
FailureStops ==
  \A i \in 1..Len(ran) :
    ran[i].rc # 0 /\ Innermost(All[i]) = "return" => i = Len(ran) /\ stages = << >>

FirstFailureAt(i) == ran[i].rc = status /\ \A j \in 1..(i - 1) : ran[j].rc = 0

StatusKept ==
  /\ status = 0 => \A i \in 1..Len(ran) : ran[i].rc = 0
  /\ status # 0 /\ ran # << >> => \E i \in 1..Len(ran) : FirstFailureAt(i)
  /\ status # 0 /\ ran = << >> => status = 2 /\ (RunsWorkload => cfg.workload \notin Known)
  /\ RunsWorkload /\ cfg.workload \notin Known => status # 0

Running == RanPrefix /\ Left /\ FailureStops /\ StatusKept

IInv ==
  /\ Typed
  /\ NotYet => NothingRun
  /\ ~NotYet => Running
  /\ Reported => stages = << >>
  /\ phase = "simulation_over" => told = status

-----------------------------------------------------------------------------
LEMMA EmptyFacts == \A s : IsSequence(s) => (Len(s) = 0 <=> s = << >>) /\ Len(s) \in Nat
BY DEF IsSequence

LEMMA TailFacts ==
  ASSUME NEW s, IsSequence(s), s # << >>
  PROVE  /\ IsSequence(Tail(s)) /\ Len(s) \in Nat /\ Len(s) >= 1
         /\ Len(Tail(s)) = Len(s) - 1 /\ Head(s) = s[1]
         /\ \A k \in 1..(Len(s) - 1) : Tail(s)[k] = s[k + 1]
<1> DEFINE S == Elements(s)
<1>1. s \in Seq(S)
  BY DEF IsSequence
<1> HIDE DEF S
<1>2. /\ Tail(s) \in Seq(S) /\ Len(s) \in Nat /\ Len(s) >= 1
      /\ Len(Tail(s)) = Len(s) - 1 /\ Head(s) = s[1]
  BY <1>1
<1>3. \A k \in 1..(Len(s) - 1) : Tail(s)[k] = s[k + 1]
  BY <1>1, <1>2
<1> QED
  BY <1>2, <1>3, SequenceOf

LEMMA AppendFacts ==
  ASSUME NEW s, IsSequence(s), NEW x
  PROVE  /\ IsSequence(Append(s, x)) /\ Len(s) \in Nat
         /\ Len(Append(s, x)) = Len(s) + 1 /\ Append(s, x)[Len(s) + 1] = x
         /\ \A k \in 1..Len(s) : Append(s, x)[k] = s[k]
<1> DEFINE S == Elements(s) \cup {x}
<1>1. s \in Seq(S) /\ x \in S
  <2>1. s \in Seq(Elements(s)) /\ Elements(s) \subseteq S
    BY DEF IsSequence
  <2> HIDE DEF S
  <2>2. s \in Seq(S)
    BY <2>1
  <2> QED
    BY <2>2 DEF S
<1> HIDE DEF S
<1>2. /\ Append(s, x) \in Seq(S) /\ Len(s) \in Nat
      /\ Len(Append(s, x)) = Len(s) + 1 /\ Append(s, x)[Len(s) + 1] = x
  BY <1>1
<1>3. \A k \in 1..Len(s) : Append(s, x)[k] = s[k]
  BY <1>1, <1>2
<1> QED
  BY <1>2, <1>3, SequenceOf

LEMMA AllFacts ==
  ASSUME Typed
  PROVE  /\ IsSequence(All) /\ Len(All) \in Nat
         /\ TableFacts(All, cfg.gate)
         /\ ~RunsWorkload => All = << >> /\ Len(All) = 0
         /\ cfg.workload \notin Known => All = << >> /\ Len(All) = 0
<1>1. cfg.gate \in BOOLEAN /\ cfg.ncnn_test \in BOOLEAN
  BY DEF Typed, Config
<1>2. CASE ~RunsWorkload
  <2>1. All = << >>
    BY <1>2 DEF All
  <2>2. Len(All) = 0
    BY <2>1
  <2>3. TableFacts(All, cfg.gate)
    BY <2>1, NoStages
  <2> QED
    BY <2>1, <2>2, <2>3 DEF TableFacts
<1>3. CASE RunsWorkload
  <2>1. All = StagesOf(cfg.workload, cfg.gate, cfg.ncnn_test)
    BY <1>3 DEF All
  <2>2. TableFacts(All, cfg.gate) /\ (cfg.workload \notin Known => All = << >>)
    BY <1>1, <2>1, Table
  <2>3. IsSequence(All)
    BY <2>2 DEF TableFacts
  <2> QED
    BY <1>3, <2>2, <2>3, EmptyFacts
<1> QED
  BY <1>2, <1>3

-----------------------------------------------------------------------------
LEMMA InitIInv == Init => IInv
<1> SUFFICES ASSUME Init PROVE IInv
  OBVIOUS
<1>1. cfg \in Config
  BY DEF Init, Config, ImageConfig, Modes
<1>2. NoScratch \in ScratchType
  BY DEF NoScratch, ScratchType, Text
<1>3. IsSequence(<< >>)
  BY Tuples
<1>4. Typed
  BY <1>1, <1>2, <1>3 DEF Init, Typed
<1> QED
  BY <1>4 DEF Init, IInv, NotYet, NothingRun, Reported

-----------------------------------------------------------------------------
(* A call whose failure is ignored is followed by the next one. *)
LEMMA IgnoredFailures ==
  ASSUME NEW rc, NEW next
  PROVE  Onward(dump_thp_counters, rc, next) = next /\ Onward(after_workload, rc, next) = next
<1>1. <<"ignore">>[1] = "ignore" /\ 1 \in DOMAIN <<"ignore">>
  OBVIOUS
<1>2. ~EndsShell(<<"ignore">>, rc)
  BY <1>1 DEF EndsShell
<1> QED
  BY <1>2 DEF Onward, dump_thp_counters, after_workload

(* Steps that leave the workload's progress alone. *)
LEMMA SameProgress ==
  ASSUME IInv, ~NotYet, phase' \notin {"env", "main", "panic"},
         UNCHANGED <<cfg, stages, ran, status, scratch>>,
         Reported' => stages = << >>,
         phase' = "simulation_over" => told' = status
  PROVE  IInv'
<1>1. All' = All /\ (RunsWorkload' <=> RunsWorkload)
  BY DEF All, RunsWorkload
<1>2. Typed'
  BY DEF IInv, Typed
<1>3. Running'
  <2>1. Running
    BY DEF IInv
  <2> QED
    BY <1>1, <2>1 DEF Running, RanPrefix, Left, FailureStops, StatusKept, FirstFailureAt
<1> QED
  BY <1>2, <1>3 DEF IInv, NotYet

LEMMA EnvStepKeepsIInv == IInv /\ EnvStep => IInv'
<1> SUFFICES ASSUME IInv, EnvStep PROVE IInv'
  OBVIOUS
<1>1. phase = "env" /\ phase' \in {"env", "main"}
  BY DEF EnvStep
<1>2. NothingRun /\ Typed
  BY <1>1 DEF IInv, NotYet
<1>3. NothingRun'
  BY <1>2 DEF EnvStep, NothingRun
<1>4. cfg' \in Config
  <2>1. cfg \in Config
    BY <1>2 DEF Typed
  <2>2. CASE cfg' = cfg
    BY <2>1, <2>2
  <2>3. CASE cfg' \in Overridden(cfg)
    <3>1. PICK m \in {cfg.mode, "none", "other"}, w \in {cfg.workload, "none"},
               a \in BOOLEAN, d \in BOOLEAN, r \in BOOLEAN :
            cfg' = Override(cfg, m, w, a, d, r)
      BY <2>3 DEF Overridden
    <3>2. m \in Modes /\ w \in Workloads \cup {"none"}
      BY <2>1 DEF Config, Modes
    <3> QED
      BY <2>1, <3>1, <3>2 DEF Config, Override
  <2> QED
    BY <2>2, <2>3 DEF EnvStep
<1>5. Typed'
  BY <1>2, <1>4 DEF Typed, EnvStep
<1> QED
  BY <1>1, <1>3, <1>5 DEF IInv, NotYet, Reported

LEMMA EnvStepFailsKeepsIInv == IInv /\ EnvStepFails => IInv'
<1> SUFFICES ASSUME IInv, EnvStepFails PROVE IInv'
  OBVIOUS
<1>1. phase = "env" /\ phase' = "panic"
  BY DEF EnvStepFails
<1>2. NothingRun' /\ Typed'
  BY <1>1 DEF IInv, NotYet, EnvStepFails, NothingRun, Typed
<1> QED
  BY <1>1, <1>2 DEF IInv, NotYet, Reported

LEMMA MainKeepsIInv == IInv /\ main => IInv'
<1> SUFFICES ASSUME IInv, main PROVE IInv'
  OBVIOUS
<1>1. /\ phase = "main" /\ phase' = IF RunsWorkload THEN "workload" ELSE "finish"
      /\ cfg' = cfg /\ ran' = ran /\ scratch' = scratch
  BY IgnoredFailures DEF main, RunsWorkload
<1>2. NothingRun /\ Typed
  BY <1>1 DEF IInv, NotYet
<1>3. All' = All /\ (RunsWorkload' <=> RunsWorkload)
  BY <1>1 DEF All, RunsWorkload
<1>4. stages' = All
  BY <1>1 DEF main, All
<1>5. /\ IsSequence(All) /\ Len(All) \in Nat
      /\ ~RunsWorkload => Len(All) = 0
  BY <1>2, AllFacts
<1>6. /\ status' \in {0, 2}
      /\ RunsWorkload => (status' = 2 <=> cfg.workload \notin Known)
  BY DEF main, RunsWorkload, StatusOfUnknown
<1>7. Typed'
  BY <1>1, <1>2, <1>4, <1>5, <1>6 DEF Typed
<1>8. ran' = << >> /\ Len(ran') = 0
  BY <1>1, <1>2 DEF NothingRun
<1>9. Running'
  <2>1. RanPrefix'
    BY <1>3, <1>5, <1>8 DEF RanPrefix
  <2>2. Left'
    BY <1>3, <1>4, <1>5, <1>8 DEF Left
  <2>3. FailureStops'
    BY <1>8 DEF FailureStops
  <2>4. StatusKept'
    BY <1>1, <1>3, <1>6, <1>8 DEF StatusKept
  <2> QED
    BY <2>1, <2>2, <2>3, <2>4 DEF Running
<1>10. Reported' => stages' = << >>
  <2>1. Reported' => ~RunsWorkload
    BY <1>1 DEF Reported
  <2> QED
    BY <2>1, <1>2, <1>4, AllFacts
<1> QED
  BY <1>1, <1>7, <1>9, <1>10 DEF IInv, NotYet

-----------------------------------------------------------------------------
(* What a stage does to the progress of the workload. *)
LEMMA RunStageKeepsRunning ==
  ASSUME Typed, Running, RunStage
  PROVE  /\ phase' = "workload" /\ ~Lost(stages)
         /\ Running' /\ IsSequence(stages') /\ IsSequence(ran') /\ status' \in Nat
         /\ Len(ran) \in Nat /\ Len(ran') = Len(ran) + 1
         /\ Len(ran) + 1 \in 1..Len(All) /\ Head(stages) = All[Len(ran) + 1]
<1> DEFINE n == Len(ran) + 1
<1>1. PICK rc \in {0, 1, 2, 127, 255} \cup ExitCodes :
        /\ ran' = Append(ran, [name |-> Head(stages).name, rc |-> rc])
        /\ stages' = Remaining(stages, rc)
        /\ status' = IF Lost(stages) THEN status ELSE FirstFailure(status, rc)
        /\ phase' = Onward(Head(stages).tests, rc, "workload")
  BY DEF RunStage
<1>2. rc \in Nat /\ status \in Nat
  BY <1>1, CodeAssumption DEF Typed
<1>3. cfg' = cfg /\ stages # << >>
  BY DEF RunStage
<1>4. /\ IsSequence(Tail(stages)) /\ Len(stages) \in Nat /\ Len(stages) >= 1
      /\ Len(Tail(stages)) = Len(stages) - 1 /\ Head(stages) = stages[1]
      /\ \A k \in 1..(Len(stages) - 1) : Tail(stages)[k] = stages[k + 1]
  BY <1>3, TailFacts DEF Typed
<1>5. /\ Len(ran) + Len(stages) = Len(All)
      /\ \A k \in 1..Len(stages) : stages[k] = All[Len(ran) + k]
  BY <1>3 DEF Running, Left
<1>6. /\ IsSequence(ran') /\ Len(ran) \in Nat /\ Len(ran') = n
      /\ ran'[n].name = Head(stages).name /\ ran'[n].rc = rc
      /\ \A k \in 1..Len(ran) : ran'[k] = ran[k]
  <2> DEFINE entry == [name |-> Head(stages).name, rc |-> rc]
  <2>1. entry.name = Head(stages).name /\ entry.rc = rc
    OBVIOUS
  <2> HIDE DEF entry
  <2>2. ran' = Append(ran, entry)
    BY <1>1 DEF entry
  <2> QED
    BY <2>1, <2>2, AppendFacts DEF Typed
<1>7. n \in 1..Len(All) /\ Head(stages) = All[n]
  BY <1>4, <1>5, <1>6
<1>8. stages' = IF rc # 0 /\ Innermost(All[n]) = "return" THEN << >> ELSE Tail(stages)
  BY <1>1, <1>7 DEF Remaining
<1>16. ~Lost(stages) /\ Guarded(Head(stages))
  <2>1. Guarded(All[n]) /\ (Innermost(All[n]) = "capture" => n = Len(All))
    BY <1>7, AllFacts DEF TableFacts, NoneLost
  <2>2. ASSUME n = Len(All) PROVE Tail(stages) = << >>
    <3>1. Len(stages) = 1
      BY <2>2, <1>4, <1>5, <1>6, LastOne, Zenon
    <3>2. Len(Tail(stages)) = 0
      BY <3>1, <1>4
    <3> QED
      BY <3>2, <1>4, EmptyFacts
  <2> QED
    BY <1>7, <2>1, <2>2 DEF Lost
<1>17. phase' = "workload"
  <2>1. ~EndsShell(Head(stages).tests, rc)
    BY <1>16 DEF Guarded, EndsShell
  <2> QED
    BY <1>1, <2>1 DEF Onward
<1>9. /\ status' \in Nat /\ (status' = 0 <=> status = 0 /\ rc = 0)
      /\ status # 0 => status' = status
      /\ status = 0 => status' = rc
  BY <1>1, <1>2, <1>16 DEF FirstFailure
<1>10. All' = All /\ (RunsWorkload' <=> RunsWorkload)
  BY <1>3 DEF All, RunsWorkload
<1>11. IsSequence(stages')
  BY <1>4, <1>8, Tuples
<1>12. RanPrefix'
  <2>1. ASSUME NEW i \in 1..n PROVE ran'[i].name = All[i].name
    <3>1. CASE i = n
      BY <3>1, <1>6, <1>7
    <3>2. CASE i \in 1..Len(ran)
      BY <3>2, <1>6 DEF Running, RanPrefix
    <3> QED
      BY <3>1, <3>2, <1>6
  <2> QED
    BY <2>1, <1>6, <1>7, <1>10 DEF RanPrefix
<1>13. Left'
  <2>1. CASE rc # 0 /\ Innermost(All[n]) = "return"
    BY <2>1, <1>2, <1>8, <1>9 DEF Left
  <2>2. CASE ~(rc # 0 /\ Innermost(All[n]) = "return")
    <3>1. stages' = Tail(stages)
      BY <2>2, <1>8
    <3>2. n + Len(stages') = Len(All)
      <4>1. Len(stages') = Len(stages) - 1
        BY <3>1, <1>4
      <4>2. Len(All) = Len(ran) + Len(stages)
        BY <1>5
      <4> QED
        BY <4>1, <4>2, <1>4, <1>6
    <3>3. ASSUME NEW k \in 1..Len(stages') PROVE stages'[k] = All[n + k]
      <4>1. k \in 1..(Len(stages) - 1) /\ k + 1 \in 1..Len(stages)
            /\ Len(ran) + (k + 1) = n + k
        <5> DEFINE l == Len(stages)
                   m == Len(ran)
        <5>1. l \in Nat /\ m \in Nat /\ n = m + 1
          BY <1>4, <1>6
        <5>2. Len(stages') = l - 1
          BY <3>1, <1>4
        <5>3. k \in 1..(l - 1)
          BY <5>2
        <5> HIDE DEF l, m
        <5>4. k + 1 \in 1..l /\ m + (k + 1) = n + k
          BY <5>1, <5>3
        <5> QED
          BY <5>3, <5>4 DEF l, m
      <4>2. stages'[k] = stages[k + 1] /\ stages[k + 1] = All[Len(ran) + (k + 1)]
        BY <4>1, <3>1, <1>4, <1>5
      <4> QED
        BY <4>1, <4>2
    <3> QED
      BY <3>2, <3>3, <1>6, <1>10 DEF Left
  <2> QED
    BY <2>1, <2>2
<1>14. FailureStops'
  <2>1. ASSUME NEW i \in 1..n, ran'[i].rc # 0, Innermost(All[i]) = "return"
        PROVE  i = n /\ stages' = << >>
    <3>1. CASE i = n
      BY <3>1, <2>1, <1>6, <1>8
    <3>2. CASE i \in 1..Len(ran)
      BY <3>2, <2>1, <1>3, <1>6 DEF Running, FailureStops
    <3> QED
      BY <3>1, <3>2, <1>6
  <2> QED
    BY <2>1, <1>6, <1>10 DEF FailureStops
<1>15. StatusKept'
  <2>1. RunsWorkload /\ cfg.workload \in Known
    BY <1>7, AllFacts
  <2>2. status' = 0 => \A i \in 1..n : ran'[i].rc = 0
    BY <1>6, <1>9 DEF Running, StatusKept
  <2>3. ASSUME status' # 0
        PROVE  \E i \in 1..n : ran'[i].rc = status' /\ \A j \in 1..(i - 1) : ran'[j].rc = 0
    <3>1. CASE status = 0
      <4>1. \A j \in 1..Len(ran) : ran'[j].rc = 0
        BY <3>1, <1>6 DEF Running, StatusKept
      <4>2. n \in 1..n /\ n - 1 = Len(ran)
        BY <1>6
      <4>3. ran'[n].rc = status'
        BY <3>1, <1>6, <1>9
      <4> QED
        BY <4>1, <4>2, <4>3
    <3>2. CASE status # 0
      <4>1. PICK i \in 1..Len(ran) : FirstFailureAt(i)
        BY <3>2, <2>1 DEF Running, StatusKept
      <4>2. ran'[i].rc = status' /\ \A j \in 1..(i - 1) : ran'[j].rc = 0
        BY <3>2, <4>1, <1>6, <1>9 DEF FirstFailureAt
      <4> QED
        BY <4>1, <4>2, <1>6
    <3> QED
      BY <3>1, <3>2
  <2>4. ran' # << >>
    BY <1>6, EmptyFacts
  <2> QED
    BY <2>1, <2>2, <2>3, <2>4, <1>3, <1>6, <1>10 DEF StatusKept, FirstFailureAt
<1> QED
  BY <1>6, <1>7, <1>9, <1>11, <1>12, <1>13, <1>14, <1>15, <1>16, <1>17 DEF Running

-----------------------------------------------------------------------------
(* What the stages of ncnn-smoke leave in the scratch directory. *)
LEMMA ResultTypes ==
  ASSUME NEW mode, NEW int8, NEW bf16,
         int8 \in UpTo(Int8Results(mode), Int8Cases),
         bf16 \in UpTo(Bf16Results(mode), Bf16Cases)
  PROVE  /\ int8 \in Text /\ bf16 \in Seq({"near", "far", "nan"})
         /\ mode = "ref" => int8 \in Seq({"reference"})
<1>1. Int8Cases \in Nat /\ Bf16Cases \in Nat
  BY CasesAssumption
<1>2. PICK k \in 0..Int8Cases : int8 \in [1..k -> Int8Results(mode)]
  BY DEF UpTo
<1>3. PICK l \in 0..Bf16Cases : bf16 \in [1..l -> Bf16Results(mode)]
  BY DEF UpTo
<1>4. int8 \in Seq(Int8Results(mode)) /\ bf16 \in Seq(Bf16Results(mode))
  BY <1>1, <1>2, <1>3, SeqDef
<1>5. /\ Int8Results(mode) \subseteq {"reference", "other"}
      /\ Bf16Results(mode) \subseteq {"near", "far", "nan"}
      /\ mode = "ref" => Int8Results(mode) = {"reference"}
  BY DEF Int8Results, Bf16Results
<1> QED
  BY <1>4, <1>5 DEF Text

(* The lines of a file that fit, where the room runs out.                  *)
LEMMA FitsFacts ==
  ASSUME NEW S, NEW results \in Seq(S), NEW room \in Nat
  PROVE  LET kept == Fits(results, room) IN
         /\ kept \in Seq(S) /\ Len(kept) <= Len(results) /\ Len(kept) <= room
         /\ Len(kept) = Len(results) => kept = results
         /\ Len(results) < room => kept = results
<1> DEFINE m == IF Len(results) < room THEN Len(results) ELSE room
<1>1. m \in Nat /\ m <= Len(results) /\ m <= room /\ Len(results) \in Nat
  OBVIOUS
<1>2. Fits(results, room) = SubSeq(results, 1, m)
  BY DEF Fits
<1> HIDE DEF m
<1>3. /\ SubSeq(results, 1, m) \in Seq(S) /\ Len(SubSeq(results, 1, m)) = m
      /\ \A k \in 1..m : SubSeq(results, 1, m)[k] = results[k]
  BY <1>1
<1>4. m = Len(results) => SubSeq(results, 1, m) = results
  BY <1>1, <1>3
<1>5. Len(results) < room => m = Len(results)
  BY DEF m
<1> QED
  BY <1>1, <1>2, <1>3, <1>4, <1>5

LEMMA WrittenFacts ==
  ASSUME NEW sc \in ScratchType, NEW mode, NEW int8 \in Text,
         NEW bf16 \in Seq({"near", "far", "nan"})
  PROVE  LET w == Written(sc, mode, int8, bf16) IN
         /\ w \in ScratchType
         /\ w.room = RoomAfter(sc.room, int8, bf16)
         /\ mode = "ref" => w.ref_txt = Fits(int8, sc.room)
         /\ mode # "ref" => /\ w.ref_txt = sc.ref_txt
                            /\ w.ame_txt = Fits(int8, sc.room)
                            /\ w.ame.int8 = int8 /\ w.ame.bf16 = bf16
<1> DEFINE kept == Fits(int8, sc.room)
           room == RoomAfter(sc.room, int8, bf16)
           left == [sc EXCEPT !.room = room]
<1>1. sc.room \in Nat
  BY DEF ScratchType
<1>2. kept \in Text
  BY <1>1, FitsFacts DEF Text
<1>3. room \in Nat
  <2>1. Len(int8) \in Nat /\ Len(bf16) \in Nat
    BY DEF Text
  <2> QED
    BY <1>1, <2>1 DEF RoomAfter
<1>4. Written(sc, mode, int8, bf16) =
        IF mode = "ref" THEN [left EXCEPT !.ref_txt = kept]
        ELSE [left EXCEPT !.ame_txt = kept, !.ame = [int8 |-> int8, bf16 |-> bf16]]
  BY DEF Written
<1> HIDE DEF kept, room
<1>5. left \in ScratchType /\ left.room = room /\ left.ref_txt = sc.ref_txt
  BY <1>3 DEF ScratchType
<1> HIDE DEF left
<1>6. CASE mode = "ref"
  <2> DEFINE w == [left EXCEPT !.ref_txt = kept]
  <2>1. w \in ScratchType /\ w.room = room /\ w.ref_txt = kept
    BY <1>2, <1>5 DEF ScratchType
  <2> QED
    BY <1>4, <1>6, <2>1 DEF kept, room
<1>7. CASE mode # "ref"
  <2> DEFINE result == [int8 |-> int8, bf16 |-> bf16]
             w == [left EXCEPT !.ame_txt = kept, !.ame = result]
  <2>1. /\ result \in [int8 : Text, bf16 : Seq({"near", "far", "nan"})]
        /\ result.int8 = int8 /\ result.bf16 = bf16
    OBVIOUS
  <2> HIDE DEF result
  <2>2. /\ w \in ScratchType /\ w.room = room /\ w.ref_txt = sc.ref_txt
        /\ w.ame_txt = kept /\ w.ame = result
    BY <1>2, <1>5, <2>1 DEF ScratchType
  <2> QED
    BY <1>4, <1>7, <2>1, <2>2 DEF kept, room, result
<1> QED
  BY <1>6, <1>7

LEMMA RunStageKeepsScratchType ==
  ASSUME Typed, RunStage
  PROVE  scratch' \in ScratchType
<1>1. PICK rc :
        IF Head(stages).kind \in {"mktemp", "smoke", "cmp"}
        THEN SmokeStage(Head(stages), rc)
        ELSE UNCHANGED scratch
  BY DEF RunStage
<1> DEFINE stage == Head(stages)
<1>2. CASE scratch' = scratch
  BY <1>2 DEF Typed
<1>3. ASSUME NEW room \in Rooms, scratch' = [NoScratch EXCEPT !.room = room]
      PROVE  scratch' \in ScratchType
  <2>1. NoScratch \in ScratchType
    BY DEF NoScratch, ScratchType, Text
  <2>2. room \in Nat
    BY CodeAssumption
  <2> QED
    BY <1>3, <2>1, <2>2 DEF ScratchType
<1>4. ASSUME NEW int8 \in UpTo(Int8Results(stage.name), Int8Cases),
             NEW bf16 \in UpTo(Bf16Results(stage.name), Bf16Cases),
             scratch' = Written(scratch, stage.name, int8, bf16)
      PROVE  scratch' \in ScratchType
  BY <1>4, ResultTypes, WrittenFacts DEF Typed
<1> QED
  BY <1>1, <1>2, <1>3, <1>4 DEF SmokeStage

LEMMA RunStageKeepsIInv == IInv /\ RunStage => IInv'
<1> SUFFICES ASSUME IInv, RunStage PROVE IInv'
  OBVIOUS
<1>1. phase = "workload" /\ cfg' = cfg
  BY DEF RunStage
<1>2. Typed /\ Running
  BY <1>1 DEF IInv, NotYet
<1>3. phase' = "workload" /\ Running' /\ Typed'
  BY <1>1, <1>2, RunStageKeepsRunning, RunStageKeepsScratchType DEF Typed
<1> QED
  BY <1>1, <1>3 DEF IInv, NotYet, Reported

LEMMA AfterWorkloadKeepsIInv == IInv /\ run_after_workload => IInv'
<1> SUFFICES ASSUME IInv, run_after_workload PROVE IInv'
  OBVIOUS
<1>1. /\ phase = "workload" /\ phase' \in {"simulation_over", "finish"}
      /\ phase' = "simulation_over" => told' = status
      /\ stages = << >> /\ UNCHANGED <<cfg, stages, ran, status, scratch>>
  BY IgnoredFailures DEF run_after_workload, WorkloadOver
<1> QED
  BY <1>1, SameProgress DEF NotYet

LEMMA FinishKeepsIInv == IInv /\ finish_init => IInv'
<1> SUFFICES ASSUME IInv, finish_init PROVE IInv'
  OBVIOUS
<1>1. /\ phase = "finish" /\ phase' \in {"shell", "power_off", "exited"}
      /\ UNCHANGED <<cfg, stages, ran, status, scratch>>
  BY DEF finish_init
<1>2. stages = << >>
  BY <1>1 DEF IInv, Reported
<1> QED
  BY <1>1, <1>2, SameProgress DEF NotYet

LEMMA StutterKeepsIInv == IInv /\ UNCHANGED vars => IInv'
<1> SUFFICES ASSUME IInv, UNCHANGED vars PROVE IInv'
  OBVIOUS
<1>1. UNCHANGED <<phase, cfg, stages, ran, status, scratch, told>>
  BY DEF vars
<1>2. All' = All /\ (RunsWorkload' <=> RunsWorkload) /\ (NotYet' <=> NotYet)
      /\ (Reported' <=> Reported) /\ (NothingRun' <=> NothingRun) /\ (Typed' <=> Typed)
  BY <1>1 DEF All, RunsWorkload, NotYet, Reported, NothingRun, Typed
<1>3. Running' <=> Running
  BY <1>1, <1>2 DEF Running, RanPrefix, Left, FailureStops, StatusKept, FirstFailureAt
<1> QED
  BY <1>1, <1>2, <1>3 DEF IInv

(* The inductive invariant holds of every state the guest reaches.         *)
THEOREM InductiveInvariant == Spec => []IInv
<1>1. Init => IInv
  BY InitIInv
<1>2. IInv /\ [Next]_vars => IInv'
  BY EnvStepKeepsIInv, EnvStepFailsKeepsIInv, MainKeepsIInv, RunStageKeepsIInv,
     AfterWorkloadKeepsIInv, FinishKeepsIInv, StutterKeepsIInv DEF Next
<1> QED
  BY <1>1, <1>2, PTL DEF Spec

-----------------------------------------------------------------------------
(* In the tables a gated benchmark comes behind the stages of the gate,     *)
(* each of which stops the workload where it fails.                  *)
LEMMA GateFromIInv == IInv => BenchOnlyAfterGate
<1> SUFFICES ASSUME IInv, NEW i \in DOMAIN ran, ran[i].name \in Bench, cfg.gate,
                    NEW g \in GateStages
             PROVE  \E j \in 1..(i - 1) : ran[j].name = g /\ ran[j].rc = 0
  BY DEF BenchOnlyAfterGate, Bench
<1>1. Typed /\ i \in 1..Len(ran) /\ Len(ran) \in Nat
  BY DEF IInv, Typed, IsSequence
<1>2. ~NotYet
  BY <1>1, EmptyFacts DEF IInv, NothingRun, Typed
<1>3. Running
  BY <1>2 DEF IInv
<1>4. /\ Len(All) \in Nat /\ Len(ran) <= Len(All)
      /\ \A k \in 1..Len(ran) : ran[k].name = All[k].name
  BY <1>1, <1>3, AllFacts DEF Running, RanPrefix
<1>5. i \in 1..Len(All) /\ All[i].name \in Bench
  BY <1>1, <1>4
<1>6. GateFirst(All)
  BY <1>1, <1>5, AllFacts DEF NoBench, TableFacts
<1>7. i > 5
  <2>1. All[i].name \notin GateStages
    BY <1>5 DEF Bench, GateStages
  <2> QED
    BY <1>5, <1>6, <2>1 DEF GateFirst
<1>8. PICK j \in 1..5 : All[j].name = g
  BY <1>6 DEF GateFirst
<1>9. j \in 1..Len(ran) /\ j \in 1..(i - 1) /\ j # Len(ran)
  BY <1>1, <1>7
<1>10. ran[j].rc = 0
  <2>1. Innermost(All[j]) = "return"
    BY <1>6 DEF GateFirst
  <2> QED
    BY <1>3, <1>9, <2>1 DEF Running, FailureStops
<1> QED
  BY <1>4, <1>8, <1>9, <1>10

(* No model is benchmarked behind a failed or unfinished gate. *)
THEOREM NoBenchBehindAFailedGate == Spec => []BenchOnlyAfterGate
BY InductiveInvariant, GateFromIInv, PTL

LEMMA StatusFromIInv == IInv => StatusIsFirstFailure
<1> SUFFICES ASSUME IInv, Reported, RunsWorkload PROVE StatusIsFirstFailure
  BY DEF StatusIsFirstFailure
<1>1. ~NotYet /\ Typed /\ Running /\ stages = << >>
      /\ (phase = "simulation_over" => told = status)
  BY DEF IInv, NotYet, Reported
<1>2. DOMAIN ran = 1..Len(ran) /\ Len(ran) \in Nat
  BY <1>1 DEF Typed, IsSequence
<1> DEFINE all == StagesOf(cfg.workload, cfg.gate, cfg.ncnn_test)
<1>3. all = All /\ DOMAIN All = 1..Len(All) /\ Len(All) \in Nat
  BY <1>1, AllFacts DEF All, IsSequence
<1>4. ASSUME status = 0
      PROVE  /\ cfg.workload \in Known
             /\ [i \in DOMAIN ran |-> ran[i].name] = [i \in DOMAIN all |-> all[i].name]
             /\ \A i \in DOMAIN ran : ran[i].rc = 0
  <2>1. cfg.workload \in Known /\ \A i \in DOMAIN ran : ran[i].rc = 0
    BY <1>1, <1>2, <1>4 DEF Running, StatusKept
  <2>2. Len(ran) = Len(All)
    <3>1. Len(stages) = 0
      BY <1>1, EmptyFacts DEF Typed
    <3>2. Len(ran) = Len(All) \/ Len(ran) + Len(stages) = Len(All)
      BY <1>1, <1>4 DEF Running, Left
    <3>3. Len(ran) \in Nat /\ Len(All) \in Nat
      BY <1>2, <1>3
    <3> QED
      BY <3>1, <3>2, <3>3
  <2>3. \A i \in DOMAIN ran : ran[i].name = All[i].name
    BY <1>1, <1>2 DEF Running, RanPrefix
  <2> QED
    BY <1>2, <1>3, <2>1, <2>2, <2>3
<1>5. ASSUME status # 0
      PROVE  \/ ran = << >> /\ cfg.workload \notin Known /\ status = 2
             \/ \E i \in DOMAIN ran : /\ ran[i].rc = status
                                      /\ \A j \in 1..(i - 1) : ran[j].rc = 0
  BY <1>1, <1>2, <1>5 DEF Running, StatusKept, FirstFailureAt
<1> QED
  BY <1>1, <1>4, <1>5 DEF StatusIsFirstFailure

(* Success means that every stage was run and succeeded, and a failure is  *)
(* reported with the code of the first stage that failed.                  *)
THEOREM StatusIsHonest == Spec => []StatusIsFirstFailure
BY InductiveInvariant, StatusFromIInv, PTL

LEMMA StepsAfterEnv ==
  ASSUME IInv, [Next]_vars, phase # "env", phase' = "panic"
  PROVE  UNCHANGED vars
<1>1. CASE EnvStep \/ EnvStepFails
  BY <1>1 DEF EnvStep, EnvStepFails
<1>2. CASE main
  BY <1>2, IgnoredFailures DEF main
<1>3. CASE RunStage
  <2>1. Typed /\ Running
    BY <1>3 DEF IInv, NotYet, RunStage
  <2> QED
    BY <1>3, <2>1, RunStageKeepsRunning
<1>4. CASE run_after_workload
  BY <1>4, IgnoredFailures DEF run_after_workload
<1>5. CASE finish_init
  BY <1>5 DEF finish_init
<1> QED
  BY <1>1, <1>2, <1>3, <1>4, <1>5 DEF Next

(* No failure of a command of a workload, of after_workload or of a dump   *)
(* ends PID 1: in the table every stage is called under a test that stops  *)
(* its failure, whichever stages are left to run.                          *)
THEOREM WorkloadsAreGuarded == Spec => WorkloadNeverKillsInit
<1>1. IInv /\ [Next]_vars => [phase # "env" => phase' # "panic"]_vars
  BY StepsAfterEnv
<1> QED
  BY <1>1, InductiveInvariant, PTL DEF Spec, WorkloadNeverKillsInit

-----------------------------------------------------------------------------
(* Types.  A status is a code that some stage returned, or the code of an  *)
(* unknown workload.                                                       *)
Codes == {0, 1, 2, 127, 255} \cup ExitCodes

Typing ==
  /\ phase \in {"env", "main", "workload", "finish"} \cup Ended
  /\ step \in 1..(Len(EnvSteps) + 1)
  /\ status \in Codes
  /\ told \in {NoStatus} \cup Codes

LEMMA TenSteps == Len(EnvSteps) = 10
BY DEF EnvSteps

LEMMA StepKeepsTyping == Typing /\ [Next]_vars => Typing'
<1> SUFFICES ASSUME Typing, [Next]_vars PROVE Typing'
  OBVIOUS
<1>1. CASE EnvStep
  <2>1. step \in 1..10 /\ step' = step + 1
    <3>1. DOMAIN EnvSteps = 1..10
      BY DEF EnvSteps
    <3> QED
      BY <1>1, <3>1 DEF EnvStep
  <2>2. /\ phase' \in {"main", "env"}
        /\ status' = status /\ told' = told
    BY <1>1 DEF EnvStep
  <2>3. step' \in 1..(Len(EnvSteps) + 1)
    BY <2>1, TenSteps
  <2> QED
    BY <2>2, <2>3 DEF Typing
<1>2. CASE EnvStepFails
  BY <1>2 DEF EnvStepFails, Typing, Ended
<1>3. CASE main
  <2>1. /\ phase' \in {"workload", "panic", "finish"}
        /\ step' = step /\ told' = told /\ status' \in {0, 2}
    BY <1>3 DEF main, Onward, StatusOfUnknown
  <2> QED
    BY <2>1 DEF Typing, Codes, Ended
<1>4. CASE RunStage
  <2>1. \E rc \in Codes : status' \in {status, FirstFailure(status, rc)}
    BY <1>4 DEF RunStage, Codes
  <2>2. phase' \in {"workload", "panic"} /\ step' = step /\ told' = told
    BY <1>4 DEF RunStage, Onward
  <2> QED
    BY <2>1, <2>2 DEF Typing, FirstFailure, Ended
<1>5. CASE run_after_workload
  BY <1>5, IgnoredFailures DEF run_after_workload, Typing, Ended
<1>6. CASE finish_init
  BY <1>6 DEF finish_init, Typing, Ended
<1>7. CASE UNCHANGED vars
  BY <1>7 DEF vars, Typing
<1> QED
  BY <1>1, <1>2, <1>3, <1>4, <1>5, <1>6, <1>7 DEF Next

(* The stages run and the stages left are together no more than the        *)
(* workload has.                                                           *)
LEMMA AtMostEight == IInv => Len(stages) + Len(ran) <= 8
<1> SUFFICES ASSUME IInv PROVE Len(stages) + Len(ran) <= 8
  OBVIOUS
<1>1. /\ Typed /\ Len(All) \in Nat /\ Len(All) <= 8
      /\ Len(stages) \in Nat /\ Len(ran) \in Nat
      /\ stages = << >> => Len(stages) = 0
      /\ ran = << >> => Len(ran) = 0
  BY AllFacts, EmptyFacts DEF IInv, Typed, TableFacts
<1>2. CASE NotYet
  BY <1>1, <1>2 DEF IInv, NothingRun
<1>3. CASE ~NotYet
  BY <1>1, <1>3 DEF IInv, Running, RanPrefix, Left
<1> QED
  BY <1>2, <1>3

LEMMA TypesFromIInv == IInv /\ Typing => TypeOK
BY AtMostEight DEF IInv, Typed, Typing, Codes, TypeOK

(* The state has its types: the status is one that a stage or main can     *)
(* give, and no workload has more than eight stages.                       *)
THEOREM TypesHold == Spec => []TypeOK
<1>1. Init => Typing
  BY TenSteps DEF Init, Typing, Codes
<1> QED
  BY <1>1, StepKeepsTyping, InductiveInvariant, TypesFromIInv, PTL DEF Spec

-----------------------------------------------------------------------------
(* ncnn-smoke.  If the run of the stock kernels left room, its file is     *)
(* whole; if the file of the other run has anything in it, there was room. *)
Whole(txt) == txt \in Seq({"reference"}) /\ Len(txt) = Int8Cases

RefWritten == scratch.room > 0 => Whole(scratch.ref_txt)

AmeRan ==
  /\ AllRun(scratch.ame.int8, scratch.ame.bf16)
  /\ \A i \in 1..Bf16Cases : scratch.ame.bf16[i] # "far"

AmeWritten ==
  /\ scratch.ame_txt # << >> => Whole(scratch.ref_txt)
  /\ Len(scratch.ame_txt) = Int8Cases => scratch.ame_txt = scratch.ame.int8

Compared == \A i \in 1..Int8Cases : scratch.ame.int8[i] = "reference"

RunsSmoke == RunsWorkload /\ cfg.workload = "ncnn-smoke"

SmokeInv ==
  RunsSmoke /\ ~NotYet /\ status = 0 =>
    /\ Len(ran) = 3 => RefWritten
    /\ Len(ran) = 4 => AmeWritten
    /\ Len(ran) >= 4 => AmeRan
    /\ Len(ran) >= 5 => Compared

(* A run of the program that ends with 0. *)
LEMMA SmokeMainFacts ==
  ASSUME NEW mode, NEW int8, NEW bf16, SmokeMain(mode, int8, bf16, 0, ExitCodes)
  PROVE  /\ AllRun(int8, bf16)
         /\ mode # "ref" => \A i \in DOMAIN bf16 : bf16[i] # "far"
BY CodeAssumption DEF SmokeMain, Accepted

LEMMA RefStage ==
  ASSUME Typed, NEW stage, stage.kind = "smoke", stage.name = "ref",
         SmokeStage(stage, 0)
  PROVE  RefWritten'
<1>1. PICK int8 \in UpTo(Int8Results("ref"), Int8Cases),
           bf16 \in UpTo(Bf16Results("ref"), Bf16Cases) :
        /\ SmokeMain("ref", int8, bf16, 0, ExitCodes)
        /\ scratch' = Written(scratch, "ref", int8, bf16)
  BY DEF SmokeStage
<1>2. /\ int8 \in Text /\ bf16 \in Seq({"near", "far", "nan"})
      /\ int8 \in Seq({"reference"}) /\ Len(int8) = Int8Cases
  BY <1>1, ResultTypes, SmokeMainFacts DEF AllRun
<1>3. scratch \in ScratchType /\ scratch.room \in Nat
  BY DEF Typed, ScratchType
<1>4. /\ scratch'.room = RoomAfter(scratch.room, int8, bf16)
      /\ scratch'.ref_txt = Fits(int8, scratch.room)
  BY <1>1, <1>2, <1>3, WrittenFacts
<1>5. ASSUME scratch'.room > 0 PROVE Whole(scratch'.ref_txt)
  <2>1. Len(int8) \in Nat /\ Len(bf16) \in Nat
    BY <1>2
  <2>2. Len(int8) < scratch.room
    BY <1>3, <1>4, <1>5, <2>1 DEF RoomAfter
  <2>3. scratch'.ref_txt = int8
    BY <1>2, <1>3, <1>4, <2>2, FitsFacts
  <2> QED
    BY <1>2, <2>3 DEF Whole
<1> QED
  BY <1>5 DEF RefWritten, Whole

LEMMA AmeStage ==
  ASSUME Typed, RefWritten, NEW stage, stage.kind = "smoke", stage.name = "ame",
         SmokeStage(stage, 0)
  PROVE  AmeWritten' /\ AmeRan'
<1>1. PICK int8 \in UpTo(Int8Results("ame"), Int8Cases),
           bf16 \in UpTo(Bf16Results("ame"), Bf16Cases) :
        /\ SmokeMain("ame", int8, bf16, 0, ExitCodes)
        /\ scratch' = Written(scratch, "ame", int8, bf16)
  BY DEF SmokeStage
<1>2. int8 \in Text /\ bf16 \in Seq({"near", "far", "nan"})
  BY <1>1, ResultTypes
<1>3. AllRun(int8, bf16) /\ \A i \in DOMAIN bf16 : bf16[i] # "far"
  BY <1>1, SmokeMainFacts
<1>4. scratch \in ScratchType /\ scratch.room \in Nat
  BY DEF Typed, ScratchType
<1>5. /\ scratch'.ref_txt = scratch.ref_txt
      /\ scratch'.ame_txt = Fits(int8, scratch.room)
      /\ scratch'.ame.int8 = int8 /\ scratch'.ame.bf16 = bf16
  BY <1>1, <1>2, <1>4, WrittenFacts
<1>6. AmeRan'
  <2>1. DOMAIN bf16 = 1..Bf16Cases
    BY <1>2, <1>3 DEF AllRun
  <2> QED
    BY <1>3, <1>5, <2>1 DEF AmeRan
<1>7. ASSUME scratch'.ame_txt # << >> PROVE Whole(scratch.ref_txt)
  <2> DEFINE kept == Fits(int8, scratch.room)
  <2>1. kept \in Text /\ Len(kept) <= scratch.room
    BY <1>2, <1>4, FitsFacts DEF Text
  <2> HIDE DEF kept
  <2>2. kept # << >>
    BY <1>5, <1>7 DEF kept
  <2>3. Len(kept) \in Nat /\ Len(kept) # 0
    BY <2>1, <2>2 DEF Text
  <2> QED
    BY <1>4, <2>1, <2>3 DEF RefWritten
<1>8. ASSUME Len(scratch'.ame_txt) = Int8Cases PROVE scratch'.ame_txt = int8
  <2>1. Len(int8) = Int8Cases
    BY <1>3 DEF AllRun
  <2> QED
    BY <1>2, <1>4, <1>5, <1>8, <2>1, FitsFacts DEF Text
<1>9. AmeWritten'
  BY <1>5, <1>7, <1>8 DEF AmeWritten, Whole
<1> QED
  BY <1>6, <1>9

(* cmp found no difference: no file was cut short.                         *)
LEMMA CmpStage ==
  ASSUME Typed, AmeWritten, AmeRan, NEW stage, stage.kind = "cmp", SmokeStage(stage, 0)
  PROVE  AmeRan' /\ Compared'
<1>1. scratch' = scratch /\ SameOutputs(scratch)
  BY DEF SmokeStage
<1>2. scratch.ame_txt # << >> /\ scratch.ref_txt = scratch.ame_txt
  BY <1>1 DEF SameOutputs
<1>3. Whole(scratch.ame_txt) /\ scratch.ame_txt = scratch.ame.int8
  BY <1>2 DEF AmeWritten, Whole
<1>4. \A i \in 1..Int8Cases : scratch.ame.int8[i] = "reference"
  <2> DEFINE txt == scratch.ame_txt
  <2>1. txt \in Seq({"reference"}) /\ Len(txt) = Int8Cases
    BY <1>3 DEF Whole
  <2> HIDE DEF txt
  <2>2. \A i \in 1..Int8Cases : txt[i] \in {"reference"}
    BY <2>1
  <2> QED
    BY <1>3, <2>2 DEF txt
<1> QED
  BY <1>1, <1>4 DEF AmeRan, Compared

(* The number of the next stage and the number of stages that have run. *)
LEMMA StageNumbers ==
  \A k \in Nat : /\ k + 1 = 4 => k = 3
                 /\ k + 1 = 5 => k = 4
                 /\ k + 1 >= 5 => k >= 4
                 /\ k + 1 >= 6 => k >= 5
OBVIOUS

LEMMA RunStageKeepsSmokeInv == IInv /\ SmokeInv /\ RunStage => SmokeInv'
<1> SUFFICES ASSUME IInv, SmokeInv, RunStage, RunsSmoke', status' = 0
             PROVE  /\ Len(ran)' = 3 => RefWritten'
                    /\ Len(ran)' = 4 => AmeWritten'
                    /\ Len(ran)' >= 4 => AmeRan'
                    /\ Len(ran)' >= 5 => Compared'
  BY DEF SmokeInv
<1>1. phase = "workload" /\ cfg' = cfg /\ RunsSmoke
  BY DEF RunStage, RunsSmoke, RunsWorkload
<1>2. Typed /\ Running /\ ~NotYet
  BY <1>1 DEF IInv, NotYet
<1> DEFINE stage == Head(stages)
           n == Len(ran) + 1
<1>3. PICK rc \in {0, 1, 2, 127, 255} \cup ExitCodes :
        /\ IF stage.kind \in {"mktemp", "smoke", "cmp"}
           THEN SmokeStage(stage, rc)
           ELSE UNCHANGED scratch
        /\ status' = IF Lost(stages) THEN status ELSE FirstFailure(status, rc)
  BY DEF RunStage
<1>4. rc = 0 /\ status = 0
  BY <1>2, <1>3, RunStageKeepsRunning DEF FirstFailure
<1>5. /\ Len(ran) \in Nat /\ Len(ran') = n /\ n \in 1..Len(All) /\ stage = All[n]
  BY <1>2, RunStageKeepsRunning
<1>6. All = Under("capture", run_ncnn_smoke(cfg.ncnn_test)) /\ cfg.ncnn_test \in BOOLEAN
  BY <1>1, <1>2 DEF All, RunsSmoke, StagesOf, Single, Typed, Config
<1>7. /\ Len(All) \in {5, 6}
      /\ All[3].kind = "smoke" /\ All[3].name = "ref"
      /\ All[4].kind = "smoke" /\ All[4].name = "ame"
      /\ All[5].kind = "cmp"
      /\ \A k \in 1..Len(All) : k > 5 => All[k].kind = "run"
  BY <1>6, SmokeTable
<1> HIDE DEF stage
<1>8. /\ n = 4 => RefWritten
      /\ n = 5 => AmeWritten
      /\ n >= 5 => AmeRan
      /\ n >= 6 => Compared
  <2>1. /\ Len(ran) = 3 => RefWritten
        /\ Len(ran) = 4 => AmeWritten
        /\ Len(ran) >= 4 => AmeRan
        /\ Len(ran) >= 5 => Compared
    BY <1>1, <1>2, <1>4 DEF SmokeInv
  <2>2. /\ n = 4 => Len(ran) = 3
        /\ n = 5 => Len(ran) = 4
        /\ n >= 5 => Len(ran) >= 4
        /\ n >= 6 => Len(ran) >= 5
    BY <1>5, StageNumbers
  <2> QED
    BY <2>1, <2>2
<1>9. CASE n < 3
  BY <1>5, <1>9
<1>10. CASE n = 3
  <2>1. RefWritten'
    BY <1>2, <1>3, <1>4, <1>5, <1>7, <1>10, RefStage
  <2> QED
    BY <1>5, <1>10, <2>1
<1>11. CASE n = 4
  <2>1. AmeWritten' /\ AmeRan'
    BY <1>2, <1>3, <1>4, <1>5, <1>7, <1>8, <1>11, AmeStage
  <2> QED
    BY <1>5, <1>11, <2>1
<1>12. CASE n = 5
  <2>1. AmeRan' /\ Compared'
    BY <1>2, <1>3, <1>4, <1>5, <1>7, <1>8, <1>12, CmpStage
  <2> QED
    BY <1>5, <1>12, <2>1
<1>13. CASE n = 6
  <2>1. stage.kind = "run"
    BY <1>5, <1>7, <1>13
  <2>2. scratch' = scratch
    BY <1>3, <2>1
  <2>3. AmeRan' /\ Compared'
    BY <1>8, <1>13, <2>2 DEF AmeRan, Compared
  <2> QED
    BY <1>5, <1>13, <2>3
<1> QED
  BY <1>5, <1>7, <1>9, <1>10, <1>11, <1>12, <1>13

LEMMA OthersKeepSmokeInv ==
  IInv /\ IInv' /\ SmokeInv /\ [Next]_vars /\ ~RunStage => SmokeInv'
<1> SUFFICES ASSUME IInv, IInv', SmokeInv, [Next]_vars, ~RunStage
             PROVE  SmokeInv'
  OBVIOUS
<1>1. CASE UNCHANGED <<phase, cfg, ran, status, scratch>>
  BY <1>1 DEF SmokeInv, RunsSmoke, RunsWorkload, NotYet, RefWritten, AmeWritten,
              AmeRan, Compared
<1>2. CASE NotYet'
  BY <1>2 DEF SmokeInv
<1>3. CASE ran' = << >>
  <2>1. Len(ran)' = 0
    BY <1>3
  <2> QED
    BY <2>1 DEF SmokeInv
<1>4. CASE ~NotYet /\ UNCHANGED <<cfg, ran, status, scratch>>
  BY <1>4 DEF SmokeInv, RunsSmoke, RunsWorkload, RefWritten, AmeWritten, AmeRan, Compared
<1>5. CASE EnvStep \/ EnvStepFails
  BY <1>2, <1>5 DEF EnvStep, EnvStepFails, NotYet
<1>6. CASE main
  <2>1. ran = << >> /\ ran' = ran
    BY <1>6 DEF main, IInv, NotYet, NothingRun
  <2> QED
    BY <1>3, <2>1
<1>7. CASE run_after_workload \/ finish_init
  BY <1>4, <1>7 DEF run_after_workload, finish_init, NotYet
<1>8. CASE UNCHANGED vars
  BY <1>1, <1>8 DEF vars
<1> QED
  BY <1>5, <1>6, <1>7, <1>8 DEF Next

LEMMA SmokeFromIInv == IInv /\ SmokeInv => SmokePassIsReal
<1> SUFFICES ASSUME IInv, SmokeInv, Reported, RunsSmoke, status = 0
             PROVE  AmeRan /\ Compared
  BY DEF SmokePassIsReal, RunsSmoke, AmeRan, Compared
<1>1. ~NotYet /\ Typed /\ Running /\ stages = << >>
  BY DEF IInv, NotYet, Reported
<1>2. All = Under("capture", run_ncnn_smoke(cfg.ncnn_test)) /\ cfg.ncnn_test \in BOOLEAN
  BY <1>1 DEF All, RunsSmoke, StagesOf, Single, Typed, Config
<1>3. Len(All) \in {5, 6}
  BY <1>2, SmokeTable
<1>4. Len(ran) = Len(All) \/ Len(ran) + Len(stages) = Len(All)
  BY <1>1 DEF Running, Left
<1>5. Len(stages) = 0 /\ Len(ran) \in Nat
  BY <1>1, EmptyFacts DEF Typed
<1>6. Len(ran) >= 5
  <2>1. Len(All) \in Nat /\ Len(All) >= 5
    <3>1. CASE Len(All) = 5
      BY <3>1
    <3>2. CASE Len(All) = 6
      BY <3>2
    <3> QED
      BY <1>3, <3>1, <3>2
  <2>2. Len(ran) = Len(All)
    BY <1>4, <1>5, <2>1
  <2> QED
    BY <2>1, <2>2
<1> QED
  BY <1>1, <1>5, <1>6 DEF SmokeInv

(* ncnn-smoke passes only if the matrix extension computed every case, and *)
(* the int8 cases as the stock kernels do, however small /tmp is.          *)
THEOREM SmokePassNeedsAllCases == Spec => []SmokePassIsReal
<1>1. Init => SmokeInv
  BY DEF Init, SmokeInv, NotYet
<1>2. IInv /\ IInv' /\ SmokeInv /\ [Next]_vars => SmokeInv'
  BY RunStageKeepsSmokeInv, OthersKeepSmokeInv
<1> QED
  BY <1>1, <1>2, InductiveInvariant, SmokeFromIInv, PTL DEF Spec
=============================================================================
