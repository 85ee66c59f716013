----------------------- MODULE WorkflowAnswersProofs -----------------------
(***************************************************************************)
(* Theorems about a call of a workflow, for any inputs, documents,         *)
(* recognizers, languages, replies and lengths of meetings: nothing that   *)
(* is detected leaves, what was masked comes back, answers are fit to show *)
(* and agendas fill the meeting.  Before them, what they need of sequences *)
(* of any length: induction over the natural numbers is derived from the   *)
(* well-founded order on them, without operators as parameters.            *)
(***************************************************************************)
EXTENDS WorkflowAnswers, WellFoundedInduction, FiniteSetTheorems, SequenceTheorems, TLAPS

-----------------------------------------------------------------------------
(* Induction, and short sequences. *)


\* Induction over the natural numbers, for the members of a set.
LEMMA NatSetInduction ==
  ASSUME NEW S, 0 \in S, \A n \in Nat : n \in S => n + 1 \in S
  PROVE  \A n \in Nat : n \in S
<1>1. SUFFICES ASSUME NEW m \in Nat, m \notin S PROVE FALSE
  OBVIOUS
<1>. DEFINE R == OpToRel(<, Nat)
            U == Nat \ S
<1>2. \E x \in U : \A y \in U : <<y, x>> \notin R
  <2>1. IsWellFoundedOn(R, Nat)
    BY NatLessThanWellFounded
  <2>2. U \subseteq Nat /\ U # {}
    BY <1>1
  <2>. HIDE DEF R, U
  <2>. QED BY <2>1, <2>2, WFMin, Zenon
<1>3. PICK k \in U : \A j \in U : <<j, k>> \notin R
  BY <1>2
<1>4. \A j \in Nat : j < k => <<j, k>> \in R
  BY DEF OpToRel
<1>. HIDE DEF R
<1>5. \A j \in Nat : j < k => j \in S
  BY <1>3, <1>4
<1>6. k \in Nat /\ k # 0 /\ k \notin S
  OBVIOUS
<1>7. k - 1 \in Nat /\ k - 1 < k
  BY <1>6
<1>8. k - 1 \in S
  BY <1>5, <1>7
<1>9. (k - 1) + 1 \in S
  BY <1>7, <1>8
<1>. QED BY <1>6, <1>9

\* ... and up to a bound.
LEMMA UpToInduction ==
  ASSUME NEW n \in Nat, NEW S, 0 \in S, \A k \in 0..n - 1 : k \in S => k + 1 \in S
  PROVE  \A k \in 0..n : k \in S
<1>. DEFINE T == {k \in Nat : k <= n => k \in S}
<1>1. 0 \in T
  OBVIOUS
<1>2. \A k \in Nat : k \in T => k + 1 \in T
  OBVIOUS
<1>. HIDE DEF T
<1>3. \A k \in Nat : k \in T
  BY <1>1, <1>2, NatSetInduction
<1>. QED BY <1>3 DEF T

\* Sequences of no tokens and of one.
LEMMA ShortSequences ==
  ASSUME NEW V
  PROVE  <<>> \in Seq(V) /\ \A x \in V : <<x>> \in Seq(V)
OBVIOUS

\* ... and what is in them.
LEMMA ShortRanges == Range(<<>>) = {} /\ \A x : Range(<<x>>) = {x}
BY DEF Range

-----------------------------------------------------------------------------
(* FlattenSeq *)

\* F holds the flattened prefixes of a sequence of n sequences.
Flattens(F, s, n, T) ==
    /\ F \in [0..n -> Seq(T)]
    /\ F[0] = <<>>
    /\ \A k \in 1..n : F[k] = F[k - 1] \o s[k]
    /\ FlattenSeq(s) = F[n]

\* A sequence of sequences is flattened prefix by prefix.
LEMMA FlattenPrefixes ==
  ASSUME NEW T, NEW s \in Seq(Seq(T))
  PROVE  \E F : Flattens(F, s, Len(s), T)
<1>1. CASE Len(s) = 0
  <2>1. s = <<>>
    BY <1>1
  <2>2. FlattenSeq(s) = <<>>
    BY <1>1, <2>1 DEF FlattenSeq
  <2>. DEFINE F == [k \in 0..Len(s) |-> <<>>]
  <2>3. F \in [0..Len(s) -> Seq(T)] /\ F[0] = <<>> /\ F[Len(s)] = <<>>
    BY <1>1
  <2>4. \A k \in 1..Len(s) : F[k] = F[k - 1] \o s[k]
    BY <1>1
  <2>. HIDE DEF F
  <2>. QED BY <1>1, <2>2, <2>3, <2>4 DEF Flattens
<1>2. CASE Len(s) # 0
  <2>. DEFINE n == Len(s)
              Step(g, i) == IF i = 1 THEN s[i] ELSE g[i - 1] \o s[i]
              Good == {k \in 0..n : \E g \in [1..k -> Seq(T)] : g = [i \in 1..k |-> Step(g, i)]}
  <2>1. n \in Nat /\ n > 0 /\ \A i \in 1..n : s[i] \in Seq(T)
    BY <1>2
  <2>2. 0 \in Good
    <3>. DEFINE empty == [i \in 1..0 |-> <<>>]
    <3>1. empty = [i \in 1..0 |-> Step(empty, i)] /\ empty \in [1..0 -> Seq(T)]
      OBVIOUS
    <3>2. 0 \in 0..n
      BY <2>1
    <3>. HIDE DEF empty
    <3>. QED BY <3>1, <3>2
  <2>3. \A k \in 0..n - 1 : k \in Good => k + 1 \in Good
    <3>. SUFFICES ASSUME NEW k \in 0..n - 1, k \in Good PROVE k + 1 \in Good
      OBVIOUS
    <3>1. PICK g \in [1..k -> Seq(T)] : g = [i \in 1..k |-> Step(g, i)]
      OBVIOUS
    <3>. DEFINE h == [i \in 1..k + 1 |-> IF i = k + 1 THEN Step(g, i) ELSE g[i]]
    <3>2. \A i \in 1..k + 1 : h[i] = Step(h, i)
      <4>. TAKE i \in 1..k + 1
      <4>1. CASE i = k + 1
        BY <4>1
      <4>2. CASE i # k + 1
        <5>1. i \in 1..k /\ h[i] = g[i]
          BY <4>2
        <5>2. i # 1 => i - 1 \in 1..k /\ i - 1 \in 1..k + 1 /\ i - 1 # k + 1
          BY <5>1
        <5>3. i # 1 => h[i - 1] = g[i - 1]
          BY <5>2
        <5>4. g[i] = Step(g, i)
          BY <3>1, <5>1
        <5>. QED BY <5>1, <5>3, <5>4
      <4>. QED BY <4>1, <4>2
    <3>3. \A i \in 1..k + 1 : h[i] \in Seq(T)
      <4>. TAKE i \in 1..k + 1
      <4>1. CASE i = k + 1 /\ i = 1
        BY <4>1, <2>1
      <4>2. CASE i = k + 1 /\ i # 1
        <5>1. k \in 1..k /\ i \in 1..n
          BY <4>2
        <5>2. g[k] \in Seq(T) /\ s[i] \in Seq(T)
          BY <5>1, <2>1
        <5>3. i - 1 = k
          BY <4>2, <2>1
        <5>4. h[i] = g[k] \o s[i]
          BY <4>2, <5>3
        <5>. QED BY <5>2, <5>4
      <4>3. CASE i # k + 1
        BY <4>3
      <4>. QED BY <4>1, <4>2, <4>3
    <3>4. h \in [1..k + 1 -> Seq(T)]
      BY <3>3
    <3>5. h = [i \in 1..k + 1 |-> Step(h, i)]
      BY <3>2
    <3>6. k + 1 \in 0..n
      BY <2>1
    <3>. HIDE DEF h
    <3>. QED BY <3>4, <3>5, <3>6
  <2>4. n \in Good
    <3>. HIDE DEF Good
    <3>1. \A k \in 0..n : k \in Good
      BY <2>1, <2>2, <2>3, UpToInduction
    <3>. QED BY <2>1, <3>1
  <2>. DEFINE flat == CHOOSE g : g = [i \in 1..n |-> Step(g, i)]
  <2>5. flat = [i \in 1..n |-> Step(flat, i)]
    BY <2>4
  <2>6. FlattenSeq(s) = flat[n]
    BY <1>2 DEF FlattenSeq
  <2>. DEFINE F == [k \in 0..n |-> IF k = 0 THEN <<>> ELSE flat[k]]
  <2>7. \A k \in 1..n : F[k] = F[k - 1] \o s[k]
    <3>. TAKE k \in 1..n
    <3>1. flat[k] = Step(flat, k)
      BY <2>5
    <3>. HIDE DEF flat
    <3>2. CASE k = 1
      BY <3>1, <3>2, <2>1
    <3>3. CASE k # 1
      <4>1. k - 1 \in 0..n /\ k - 1 # 0 /\ k \in 0..n /\ k # 0
        BY <3>3, <2>1
      <4>2. F[k - 1] = flat[k - 1] /\ F[k] = flat[k]
        BY <4>1
      <4>. HIDE DEF F
      <4>. QED BY <3>1, <3>3, <4>2
    <3>. QED BY <3>2, <3>3
  <2>. HIDE DEF flat
  <2>8. F[0] = <<>> /\ F[n] = flat[n]
    BY <2>1
  <2>9. \A k \in 0..n : F[k] \in Seq(T)
    <3>. DEFINE S == {k \in 0..n : F[k] \in Seq(T)}
    <3>. HIDE DEF F
    <3>1. 0 \in S
      <4>1. F[0] \in Seq(T) /\ 0 \in 0..n
        BY <2>8, <2>1
      <4>. QED BY <4>1
    <3>2. \A k \in 0..n - 1 : k \in S => k + 1 \in S
      <4>. SUFFICES ASSUME NEW k \in 0..n - 1, F[k] \in Seq(T) PROVE F[k + 1] \in Seq(T) /\ k + 1 \in 0..n
        OBVIOUS
      <4>1. k + 1 \in 1..n /\ (k + 1) - 1 = k
        BY <2>1
      <4>2. F[k + 1] = F[k] \o s[k + 1] /\ s[k + 1] \in Seq(T)
        BY <4>1, <2>7, <2>1
      <4>. QED BY <4>1, <4>2
    <3>. HIDE DEF S
    <3>3. \A k \in 0..n : k \in S
      BY <2>1, <3>1, <3>2, UpToInduction
    <3>. QED BY <3>3 DEF S
  <2>10. F \in [0..n -> Seq(T)]
    BY <2>9
  <2>. HIDE DEF F
  <2>. QED BY <2>6, <2>7, <2>8, <2>10 DEF Flattens
<1>. QED BY <1>1, <1>2

\* No sequences flatten to nothing.
LEMMA FlattenEmpty == FlattenSeq(<<>>) = <<>>
BY DEF FlattenSeq

\* The members of the flattened sequence are the members of its parts.
LEMMA FlattenRange ==
  ASSUME NEW T, NEW s \in Seq(Seq(T))
  PROVE  /\ FlattenSeq(s) \in Seq(T)
         /\ Range(FlattenSeq(s)) = UNION {Range(s[k]) : k \in 1..Len(s)}
<1>0. PICK n \in Nat : n = Len(s)
  OBVIOUS
<1>. DEFINE Parts_(k) == UNION {Range(s[j]) : j \in 1..k}
<1>1a. PICK F : Flattens(F, s, n, T)
  BY <1>0, FlattenPrefixes
<1>1. /\ F \in [0..n -> Seq(T)] /\ F[0] = <<>>
      /\ (\A k \in 1..n : F[k] = F[k - 1] \o s[k]) /\ FlattenSeq(s) = F[n]
  BY <1>1a DEF Flattens
<1>2. \A k \in 1..n : s[k] \in Seq(T)
  BY <1>0
<1>. DEFINE S == {k \in 0..n : Range(F[k]) = Parts_(k)}
<1>3. 0 \in S
  <2>1. Range(<<>>) = {}
    BY DEF Range
  <2>2. 1..0 = {}
    OBVIOUS
  <2>2a. 0 \in 0..n
    BY <1>0
  <2>3. Parts_(0) = {}
    BY <2>2, Zenon
  <2>4. Range(F[0]) = {}
    BY <1>1, <2>1, Zenon
  <2>. QED BY <2>2a, <2>3, <2>4, Zenon
<1>4. \A k \in 0..n - 1 : k \in S => k + 1 \in S
  <2>. SUFFICES ASSUME NEW k \in 0..n - 1, Range(F[k]) = Parts_(k)
                PROVE  Range(F[k + 1]) = Parts_(k + 1) /\ k + 1 \in 0..n
    OBVIOUS
  <2>. HIDE DEF Parts_, S
  <2>1. k + 1 \in 1..n /\ k \in 0..n /\ (k + 1) - 1 = k /\ k + 1 \in 0..n
    OBVIOUS
  <2>2. F[k + 1] = F[k] \o s[k + 1] /\ F[k] \in Seq(T) /\ s[k + 1] \in Seq(T)
    BY <1>1, <1>2, <2>1
  <2>3. Range(F[k + 1]) = Range(F[k]) \union Range(s[k + 1])
    BY <2>2, RangeConcatenation
  <2>4. 1..k + 1 = 1..k \union {k + 1}
    BY <2>1, <1>2
  <2>5. Parts_(k + 1) = Parts_(k) \union Range(s[k + 1])
    BY <2>4 DEF Parts_
  <2>. QED BY <2>1, <2>3, <2>5
<1>. HIDE DEF S
<1>5. \A k \in 0..n : k \in S
  BY <1>3, <1>4, UpToInduction
<1>. QED BY <1>0, <1>1, <1>5 DEF S

\* Keeping the members of a sequence that are in a set.
LEMMA Filtering ==
  ASSUME NEW T, NEW s \in Seq(T), NEW U,
         NEW q, q = [i \in DOMAIN s |-> IF s[i] \in U THEN <<s[i]>> ELSE <<>>]
  PROVE  /\ FlattenSeq(q) \in Seq(T \intersect U)
         /\ Range(FlattenSeq(q)) = Range(s) \intersect U
<1>0. PICK n \in Nat : n = Len(s) /\ DOMAIN s = 1..n
  OBVIOUS
<1>. DEFINE V == T \intersect U
<1>0a. \A i \in 1..n : s[i] \in U => s[i] \in V
  BY <1>0
<1>. HIDE DEF V
<1>1. \A i \in 1..n : q[i] \in Seq(V)
  <2>. TAKE i \in 1..n
  <2>1. CASE s[i] \in U
    <3>1. q[i] = <<s[i]>> /\ s[i] \in V
      BY <2>1, <1>0, <1>0a
    <3>. QED BY <3>1, ShortSequences, Zenon
  <2>2. CASE s[i] \notin U
    <3>1. q[i] = <<>>
      BY <2>2, <1>0
    <3>. QED BY <3>1, ShortSequences, Zenon
  <2>. QED BY <2>1, <2>2
<1>2. q \in Seq(Seq(V)) /\ Len(q) = n
  BY <1>0, <1>1
<1>3. \A i \in 1..n : Range(q[i]) = {s[i]} \intersect U
  <2>. TAKE i \in 1..n
  <2>1. CASE s[i] \in U
    <3>1. q[i] = <<s[i]>>
      BY <2>1, <1>0
    <3>2. Range(q[i]) = {s[i]}
      BY <3>1, ShortRanges, Zenon
    <3>. QED BY <2>1, <3>2
  <2>2. CASE s[i] \notin U
    <3>1. q[i] = <<>>
      BY <2>2, <1>0
    <3>2. Range(q[i]) = {}
      BY <3>1, ShortRanges, Zenon
    <3>. QED BY <2>2, <3>2
  <2>. QED BY <2>1, <2>2
<1>4. /\ FlattenSeq(q) \in Seq(V)
      /\ Range(FlattenSeq(q)) = UNION {Range(q[i]) : i \in 1..n}
  <2>1. /\ FlattenSeq(q) \in Seq(V)
        /\ Range(FlattenSeq(q)) = UNION {Range(q[i]) : i \in 1..Len(q)}
    BY <1>2, FlattenRange, Zenon
  <2>. QED BY <1>2, <2>1, Zenon
<1>5. UNION {Range(q[i]) : i \in 1..n} = UNION {{s[i]} \intersect U : i \in 1..n}
  BY <1>3
<1>6. Range(s) = {s[i] : i \in 1..n}
  BY <1>0 DEF Range
<1>7. UNION {{s[i]} \intersect U : i \in 1..n} = Range(s) \intersect U
  BY <1>6
<1>. QED BY <1>4, <1>5, <1>7 DEF V

Filters(flat, s, T, U) == flat \in Seq(T \intersect U) /\ Range(flat) = Range(s) \intersect U

\* The same under a name.
LEMMA FilteringFilters ==
  ASSUME NEW T, NEW s \in Seq(T), NEW U,
         NEW q, q = [i \in DOMAIN s |-> IF s[i] \in U THEN <<s[i]>> ELSE <<>>]
  PROVE  Filters(FlattenSeq(q), s, T, U)
BY Filtering DEF Filters

-----------------------------------------------------------------------------
(* FoldLeft *)

\* A non-empty set of numbers up to a bound has a greatest one.
LEMMA MaxExists ==
  ASSUME NEW n \in Nat, NEW t \in SUBSET (1..n), t # {}
  PROVE  Max(t) \in t /\ \A y \in t : y <= Max(t)
<1>. DEFINE Has(u) == \E x \in u : \A y \in u : x >= y
            All(k) == \A u \in SUBSET (1..k) : u # {} => Has(u)
<1>1. All(0)
  <2>1. \A u \in SUBSET (1..0) : u = {}
    OBVIOUS
  <2>. QED BY <2>1
<1>2. \A k \in 0..n - 1 : All(k) => All(k + 1)
  <2>. SUFFICES ASSUME NEW k \in 0..n - 1, \A u \in SUBSET (1..k) : u # {} => Has(u),
                       NEW u \in SUBSET (1..k + 1), u # {}
                PROVE  Has(u)
    OBVIOUS
  <2>1. CASE k + 1 \in u
    BY <2>1
  <2>2. CASE k + 1 \notin u
    <3>1. u \in SUBSET (1..k)
      BY <2>2
    <3>. QED BY <3>1
  <2>. QED BY <2>1, <2>2
<1>3. All(n)
  <2>. DEFINE S == {k \in 0..n : All(k)}
  <2>. HIDE DEF All
  <2>1. 0 \in S /\ \A k \in 0..n - 1 : k \in S => k + 1 \in S
    BY <1>1, <1>2
  <2>. HIDE DEF S
  <2>2. \A k \in 0..n : k \in S
    BY <2>1, UpToInduction
  <2>. QED BY <2>2 DEF S
<1>4. Has(t)
  BY <1>3
<1>. QED BY <1>4 DEF Max

IsFold(it, n, V, b, g) ==
    /\ it \in [SUBSET (1..n) -> V]
    /\ it[{}] = b
    /\ \A t \in SUBSET (1..n) : t # {} => it[t] = g[<<it[t \ {Max(t)}], Max(t)>>]

\* What a fold over an interval from its greatest number down computes exists.
LEMMA FoldExists ==
  ASSUME NEW n \in Nat, NEW V, NEW b \in V, NEW g \in [V \X (1..n) -> V]
  PROVE  \E it : IsFold(it, n, V, b, g)
<1>. DEFINE Step(it, t) == IF t = {} THEN b ELSE g[<<it[t \ {Max(t)}], Max(t)>>]
            Has(k) == \E it \in [SUBSET (1..k) -> V] : \A t \in SUBSET (1..k) : it[t] = Step(it, t)
<1>1. Has(0)
  <2>. DEFINE it0 == [t \in SUBSET (1..0) |-> b]
  <2>1. it0 \in [SUBSET (1..0) -> V] /\ \A t \in SUBSET (1..0) : t = {} /\ it0[t] = b
    OBVIOUS
  <2>. HIDE DEF it0
  <2>. QED BY <2>1
<1>2. \A k \in 0..n - 1 : Has(k) => Has(k + 1)
  <2>. SUFFICES ASSUME NEW k \in 0..n - 1, Has(k) PROVE Has(k + 1)
    OBVIOUS
  <2>1. PICK it \in [SUBSET (1..k) -> V] : \A t \in SUBSET (1..k) : it[t] = Step(it, t)
    OBVIOUS
  <2>. DEFINE new == [t \in SUBSET (1..k + 1) |->
                        IF k + 1 \in t THEN g[<<it[t \ {k + 1}], k + 1>>] ELSE it[t]]
  <2>2. \A t \in SUBSET (1..k + 1) :
          /\ k + 1 \in t => t \ {k + 1} \in SUBSET (1..k) /\ Max(t) = k + 1
          /\ k + 1 \notin t => t \in SUBSET (1..k)
    <3>. TAKE t \in SUBSET (1..k + 1)
    <3>1. k + 1 \in Nat
      OBVIOUS
    <3>2. t # {} => Max(t) \in t /\ \A y \in t : y <= Max(t)
      BY <3>1, MaxExists
    <3>3. ASSUME k + 1 \in t PROVE t \ {k + 1} \in SUBSET (1..k) /\ Max(t) = k + 1
      <4>1. Max(t) \in 1..k + 1 /\ k + 1 <= Max(t)
        BY <3>2, <3>3
      <4>. QED BY <4>1
    <3>4. ASSUME k + 1 \notin t PROVE t \in SUBSET (1..k)
      BY <3>4
    <3>. QED BY <3>3, <3>4
  <2>3. new \in [SUBSET (1..k + 1) -> V]
    <3>. SUFFICES ASSUME NEW t \in SUBSET (1..k + 1) PROVE new[t] \in V
      OBVIOUS
    <3>1. CASE k + 1 \in t
      <4>1. it[t \ {k + 1}] \in V /\ k + 1 \in 1..n
        BY <3>1, <2>2
      <4>2. <<it[t \ {k + 1}], k + 1>> \in V \X (1..n)
        BY <4>1
      <4>. QED BY <3>1, <4>2
    <3>2. CASE k + 1 \notin t
      BY <3>2, <2>2
    <3>. QED BY <3>1, <3>2
  <2>4. \A t \in SUBSET (1..k + 1) : new[t] = Step(new, t)
    <3>. TAKE t \in SUBSET (1..k + 1)
    <3>1. CASE k + 1 \in t
      <4>1. t # {} /\ Max(t) = k + 1 /\ t \ {k + 1} \in SUBSET (1..k)
        BY <3>1, <2>2
      <4>2. t \ {k + 1} \in SUBSET (1..k + 1) /\ k + 1 \notin t \ {k + 1}
        OBVIOUS
      <4>3. new[t \ {k + 1}] = it[t \ {k + 1}]
        BY <4>2
      <4>4. new[t] = g[<<it[t \ {k + 1}], k + 1>>]
        BY <3>1
      <4>. HIDE DEF new
      <4>. QED BY <4>1, <4>3, <4>4
    <3>2. CASE k + 1 \notin t /\ t # {}
      <4>0. k \in Nat /\ t \in SUBSET (1..k)
        BY <3>2, <2>2
      <4>1. t \in SUBSET (1..k) /\ Max(t) \in t
        BY <3>2, <4>0, MaxExists
      <4>2. t \ {Max(t)} \in SUBSET (1..k + 1) /\ k + 1 \notin t \ {Max(t)}
        BY <3>2
      <4>3. new[t] = it[t] /\ new[t \ {Max(t)}] = it[t \ {Max(t)}]
        BY <3>2, <4>2
      <4>4. it[t] = Step(it, t)
        BY <2>1, <4>1
      <4>. HIDE DEF new
      <4>. QED BY <3>2, <4>3, <4>4
    <3>3. CASE t = {}
      <4>1. t \in SUBSET (1..k) /\ k + 1 \notin t
        BY <3>3
      <4>2. new[t] = it[t] /\ it[t] = Step(it, t)
        BY <4>1, <2>1
      <4>. HIDE DEF new
      <4>. QED BY <3>3, <4>2
    <3>. QED BY <3>1, <3>2, <3>3
  <2>. HIDE DEF new
  <2>. QED BY <2>3, <2>4
<1>3. Has(n)
  <2>. DEFINE S == {k \in 0..n : Has(k)}
  <2>. HIDE DEF Has
  <2>1. 0 \in S /\ \A k \in 0..n - 1 : k \in S => k + 1 \in S
    BY <1>1, <1>2
  <2>. HIDE DEF S
  <2>2. \A k \in 0..n : k \in S
    BY <2>1, UpToInduction
  <2>. QED BY <2>2 DEF S
<1>4. PICK it \in [SUBSET (1..n) -> V] : \A t \in SUBSET (1..n) : it[t] = Step(it, t)
  BY <1>3
<1>5. it[{}] = b /\ \A t \in SUBSET (1..n) : t # {} => it[t] = g[<<it[t \ {Max(t)}], Max(t)>>]
  BY <1>4
<1>. QED BY <1>5 DEF IsFold

\* 1 up to a number, without the number.
LEMMA PrefixWithoutLast ==
  ASSUME NEW n \in Nat, NEW k \in 1..n
  PROVE  /\ 1..k \in SUBSET (1..n) /\ 1..k # {} /\ Max(1..k) = k
         /\ (1..k) \ {k} = 1..k - 1 /\ 1..k - 1 \in SUBSET (1..n)
<1>1. 1..k \in SUBSET (1..n) /\ 1..k # {} /\ 1..k - 1 \in SUBSET (1..n)
  OBVIOUS
<1>2. Max(1..k) \in 1..k /\ \A y \in 1..k : y <= Max(1..k)
  BY <1>1, MaxExists
<1>3. Max(1..k) = k
  BY <1>2
<1>4. (1..k) \ {k} = 1..k - 1
  OBVIOUS
<1>. QED BY <1>1, <1>3, <1>4

\* A sum is computed prefix by prefix.
LEMMA SumPrefixes ==
  ASSUME NEW s \in Seq(Int)
  PROVE  \E F \in [0..Len(s) -> Int] :
            /\ F[0] = 0
            /\ \A k \in 1..Len(s) : F[k] = F[k - 1] + s[k]
            /\ FoldLeft(+, 0, s) = F[Len(s)]
<1>0. PICK n \in Nat : n = Len(s)
  OBVIOUS
<1>1. DOMAIN s = 1..n /\ \A k \in 1..n : s[k] \in Int
  BY <1>0
<1>. DEFINE Step(it, t) == IF t = {} THEN 0 ELSE it[t \ {Max(t)}] + s[Max(t)]
            Sum(it) == it = [t \in SUBSET (1..n) |-> Step(it, t)]
            iter == CHOOSE it : Sum(it)
<1>2. FoldLeft(+, 0, s) = iter[1..n]
  BY <1>1 DEF FoldLeft, MapThenFoldSet
<1>3. Sum(iter)
  <2>. DEFINE g == [p \in Int \X (1..n) |-> p[1] + s[p[2]]]
  <2>1. g \in [Int \X (1..n) -> Int]
    BY <1>1
  <2>2. \A v \in Int, k \in 1..n : g[<<v, k>>] = v + s[k]
    OBVIOUS
  <2>. HIDE DEF g
  <2>. HIDE DEF Sum, Step, iter
  <2>3a. \E it : IsFold(it, n, Int, 0, g)
    <3>1. 0 \in Int
      OBVIOUS
    <3>. QED BY <2>1, <3>1, FoldExists
  <2>3. PICK it : IsFold(it, n, Int, 0, g)
    BY <2>3a
  <2>4. \A t \in SUBSET (1..n) : it[t] = Step(it, t)
    <3>. TAKE t \in SUBSET (1..n)
    <3>1. CASE t = {}
      BY <3>1, <2>3 DEF IsFold, Step
    <3>2. CASE t # {}
      <4>1. Max(t) \in 1..n /\ t \ {Max(t)} \in SUBSET (1..n)
        BY <3>2, MaxExists
      <4>2. it[t \ {Max(t)}] \in Int
        BY <4>1, <2>3 DEF IsFold
      <4>3. it[t] = g[<<it[t \ {Max(t)}], Max(t)>>]
        BY <3>2, <2>3 DEF IsFold
      <4>. QED BY <2>2, <3>2, <4>1, <4>2, <4>3 DEF Step
    <3>. QED BY <3>1, <3>2
  <2>5. it = [t \in SUBSET (1..n) |-> it[t]]
    BY <2>3 DEF IsFold
  <2>6. it = [t \in SUBSET (1..n) |-> Step(it, t)]
    <3>. HIDE DEF Step
    <3>. QED BY <2>4, <2>5
  <2>7. \E any : Sum(any)
    BY <2>6 DEF Sum
  <2>. QED BY <2>7 DEF iter
<1>. HIDE DEF iter
<1>4. iter[{}] = 0 /\ \A k \in 1..n : iter[1..k] = iter[1..k - 1] + s[k]
  <2>1. iter[{}] = 0
    BY <1>3
  <2>2. \A k \in 1..n : iter[1..k] = iter[1..k - 1] + s[k]
    <3>. TAKE k \in 1..n
    <3>1. iter[1..k] = Step(iter, 1..k)
      BY <1>3, PrefixWithoutLast
    <3>. QED BY <3>1, PrefixWithoutLast
  <2>. QED BY <2>1, <2>2
<1>. HIDE DEF Sum
<1>. DEFINE F == [k \in 0..n |-> iter[1..k]]
<1>5. F[0] = 0
  <2>1. 1..0 = {}
    OBVIOUS
  <2>. QED BY <1>4, <2>1
<1>6. \A k \in 1..n : F[k] = F[k - 1] + s[k]
  BY <1>4
<1>7. F = [k \in 0..n |-> F[k]] /\ F[n] = iter[1..n]
  OBVIOUS
<1>. HIDE DEF F
<1>8. \A k \in 0..n : F[k] \in Int
  <2>. DEFINE S == {k \in 0..n : F[k] \in Int}
  <2>1. 0 \in S
    BY <1>5
  <2>2. \A k \in 0..n - 1 : k \in S => k + 1 \in S
    <3>. SUFFICES ASSUME NEW k \in 0..n - 1, F[k] \in Int PROVE F[k + 1] \in Int /\ k + 1 \in 0..n
      OBVIOUS
    <3>1. k + 1 \in 1..n /\ (k + 1) - 1 = k
      OBVIOUS
    <3>. QED BY <1>1, <1>6, <3>1
  <2>. HIDE DEF S
  <2>3. \A k \in 0..n : k \in S
    BY <2>1, <2>2, UpToInduction
  <2>. QED BY <2>3 DEF S
<1>9. F \in [0..n -> Int]
  BY <1>7, <1>8
<1>. QED BY <1>0, <1>2, <1>5, <1>6, <1>7, <1>9

\* The total of numbers is the last of their partial sums.
LEMMA TotalPrefixes ==
  ASSUME NEW s \in Seq(Int)
  PROVE  \E F \in [0..Len(s) -> Int] :
            /\ F[0] = 0
            /\ \A k \in 1..Len(s) : F[k] = F[k - 1] + s[k]
            /\ Total(s) = F[Len(s)]
BY SumPrefixes DEF Total

\* One number more adds to the sum.
LEMMA TotalOfPrefix ==
  ASSUME NEW s \in Seq(Int)
  PROVE  /\ Total(SubSeq(s, 1, 0)) = 0
         /\ \A k \in 1..Len(s) : Total(SubSeq(s, 1, k)) = Total(SubSeq(s, 1, k - 1)) + s[k]
         /\ \A k \in 0..Len(s) : Total(SubSeq(s, 1, k)) \in Int
         /\ Total(s) = Total(SubSeq(s, 1, Len(s)))
<1>0. PICK n \in Nat : n = Len(s)
  OBVIOUS
<1>1. PICK F \in [0..n -> Int] : F[0] = 0 /\ \A k \in 1..n : F[k] = F[k - 1] + s[k]
  BY <1>0, TotalPrefixes
<1>2. \A k \in 0..n : Total(SubSeq(s, 1, k)) = F[k]
  <2>. TAKE k \in 0..n
  <2>1. /\ SubSeq(s, 1, k) \in Seq(Int) /\ Len(SubSeq(s, 1, k)) = k
        /\ \A i \in 1..k : SubSeq(s, 1, k)[i] = s[i]
    BY <1>0
  <2>. DEFINE t == SubSeq(s, 1, k)
  <2>. HIDE DEF t
  <2>2. PICK G \in [0..k -> Int] :
           G[0] = 0 /\ (\A i \in 1..k : G[i] = G[i - 1] + t[i]) /\ Total(t) = G[k]
    BY <2>1, TotalPrefixes DEF t
  <2>. DEFINE S == {i \in 0..k : G[i] = F[i]}
  <2>3. 0 \in S
    BY <1>1, <2>2
  <2>4. \A i \in 0..k - 1 : i \in S => i + 1 \in S
    <3>. SUFFICES ASSUME NEW i \in 0..k - 1, G[i] = F[i] PROVE G[i + 1] = F[i + 1] /\ i + 1 \in 0..k
      OBVIOUS
    <3>1. i + 1 \in 1..k /\ i + 1 \in 1..n /\ (i + 1) - 1 = i
      OBVIOUS
    <3>2. t[i + 1] = s[i + 1]
      BY <2>1, <3>1 DEF t
    <3>. QED BY <1>1, <2>2, <3>1, <3>2
  <2>. HIDE DEF S
  <2>5. \A i \in 0..k : i \in S
    <3>1. k \in Nat
      OBVIOUS
    <3>. QED BY <2>3, <2>4, <3>1, UpToInduction
  <2>. QED BY <2>2, <2>5 DEF S, t
<1>3. s = SubSeq(s, 1, Len(s))
  OBVIOUS
<1>. DEFINE T(k) == Total(SubSeq(s, 1, k))
<1>. HIDE DEF T
<1>4. \A k \in 0..n : T(k) = F[k]
  BY <1>2 DEF T
<1>5. T(0) = 0 /\ (\A k \in 1..n : T(k) = T(k - 1) + s[k]) /\ \A k \in 0..n : T(k) \in Int
  BY <1>1, <1>4
<1>. QED BY <1>0, <1>3, <1>5 DEF T

-----------------------------------------------------------------------------
(* Sorted *)

StrictOrder(R, S) ==
    /\ \A x \in S : <<x, x>> \notin R
    /\ \A x, y, z \in S : <<x, y>> \in R /\ <<y, z>> \in R => <<x, z>> \in R
    /\ \A x, y \in S : x # y => <<x, y>> \in R \/ <<y, x>> \in R

\* f lists the members of S, each once, in the order R.
Lists(f, R, S) ==
    /\ f \in [1..Cardinality(S) -> S]
    /\ \A x \in S : \E i \in 1..Cardinality(S) : f[i] = x
    /\ \A i, j \in 1..Cardinality(S) : i < j => <<f[i], f[j]>> \in R

Before(R, S, x) == {y \in S : <<y, x>> \in R}

\* The members of a finite set at the places their predecessors leave them.
LEMMA SortedLists ==
  ASSUME NEW S, IsFiniteSet(S), NEW R, StrictOrder(R, S),
         NEW f, f = [i \in 1..Cardinality(S) |-> f[i]],
         \A i \in 1..Cardinality(S) :
            (\E x \in S : Cardinality(Before(R, S, x)) = i - 1) =>
               f[i] \in S /\ Cardinality(Before(R, S, f[i])) = i - 1
  PROVE  Lists(f, R, S)
<1>. DEFINE n == Cardinality(S)
            Below(x) == Before(R, S, x)
            rank == [x \in S |-> Cardinality(Below(x)) + 1]
<1>1. n \in Nat
  BY FS_CardinalityType
<1>2. \A x \in S : IsFiniteSet(Below(x)) /\ Cardinality(Below(x)) \in Nat /\ Cardinality(Below(x)) < n
  <2>. TAKE x \in S
  <2>1. Below(x) \in SUBSET (S \ {x})
    BY DEF StrictOrder, Before
  <2>2. IsFiniteSet(S \ {x}) /\ Cardinality(S \ {x}) = n - 1
    BY FS_RemoveElement
  <2>. HIDE DEF Below, n
  <2>3. IsFiniteSet(Below(x)) /\ Cardinality(Below(x)) <= n - 1
    BY <2>1, <2>2, FS_Subset
  <2>4. Cardinality(Below(x)) \in Nat
    BY <2>3, FS_CardinalityType
  <2>. QED BY <1>1, <2>3, <2>4
<1>3. \A x, z \in S : <<x, z>> \in R => Cardinality(Below(x)) < Cardinality(Below(z))
  <2>. SUFFICES ASSUME NEW x \in S, NEW z \in S, <<x, z>> \in R
                PROVE  Cardinality(Below(x)) < Cardinality(Below(z))
    OBVIOUS
  <2>1. Below(x) \in SUBSET Below(z) /\ x \in Below(z) /\ x \notin Below(x)
    BY DEF StrictOrder, Before
  <2>. HIDE DEF Below, n
  <2>2. /\ Cardinality(Below(x)) <= Cardinality(Below(z))
        /\ Cardinality(Below(z)) = Cardinality(Below(x)) => Below(z) = Below(x)
    BY <1>2, <2>1, FS_Subset
  <2>. QED BY <1>2, <2>1, <2>2
<1>. HIDE DEF n, Below
<1>4. rank \in [S -> 1..n]
  BY <1>1, <1>2
<1>5. \A x, z \in S : rank[x] = rank[z] => x = z
  <2>. SUFFICES ASSUME NEW x \in S, NEW z \in S, rank[x] = rank[z], x # z PROVE FALSE
    OBVIOUS
  <2>1. Cardinality(Below(x)) = Cardinality(Below(z))
    BY <1>2
  <2>2. <<x, z>> \in R \/ <<z, x>> \in R
    BY DEF StrictOrder
  <2>. QED BY <1>2, <1>3, <2>1, <2>2
<1>6. rank \in Injection(S, 1..n)
  BY <1>4, <1>5 DEF Injection, IsInjective
<1>7. IsFiniteSet(1..n) /\ Cardinality(1..n) = n
  BY <1>1, FS_Interval
<1>8. rank \in Surjection(S, 1..n)
  <2>. HIDE DEF rank
  <2>. QED BY <1>6, <1>7, FS_Injection DEF n
<1>9. \A i \in 1..n : \E x \in S : rank[x] = i
  BY <1>8 DEF Surjection
<1>10. \A i \in 1..n : f[i] \in S /\ Cardinality(Below(f[i])) = i - 1
  <2>. TAKE i \in 1..n
  <2>1. PICK x \in S : rank[x] = i
    BY <1>9
  <2>2. Cardinality(Below(x)) = i - 1
    BY <2>1, <1>2
  <2>. QED BY <2>2 DEF Below, n
<1>11. \A i \in 1..n : rank[f[i]] = i
  <2>. TAKE i \in 1..n
  <2>1. f[i] \in S /\ Cardinality(Below(f[i])) = i - 1
    BY <1>10
  <2>2. rank[f[i]] = Cardinality(Below(f[i])) + 1
    BY <2>1
  <2>. HIDE DEF rank
  <2>. QED BY <2>1, <2>2
<1>12. f \in [1..n -> S]
  BY <1>10 DEF n
<1>13. \A x \in S : \E i \in 1..n : f[i] = x
  <2>. TAKE x \in S
  <2>1. rank[x] \in 1..n
    BY <1>4
  <2>2. rank[f[rank[x]]] = rank[x] /\ f[rank[x]] \in S
    BY <2>1, <1>10, <1>11
  <2>. QED BY <2>1, <2>2, <1>5
<1>14. \A i, j \in 1..n : i < j => <<f[i], f[j]>> \in R
  <2>. SUFFICES ASSUME NEW i \in 1..n, NEW j \in 1..n, i < j PROVE <<f[i], f[j]>> \in R
    OBVIOUS
  <2>1. f[i] # f[j] /\ f[i] \in S /\ f[j] \in S
    BY <1>10
  <2>2. <<f[j], f[i]>> \notin R
    BY <1>3, <1>10
  <2>. QED BY <2>1, <2>2 DEF StrictOrder
<1>. QED BY <1>12, <1>13, <1>14 DEF Lists, n

-----------------------------------------------------------------------------
(* Detections *)

\* What can be detected in a text of a number of tokens.
Spans(n) ==
    {d \in [type : DefaultEntities, from : 1..n, to : 2..n + 1, score : Int] : d.from < d.to}

\* Both analyses yield what is wanted of what the models detect.
LEMMA AnalyzedRange ==
  ASSUME NEW n \in Nat, NEW found, \A l \in {"nl", "en"} : found[l] \in Seq(Spans(n)),
         NEW w, NEW confident
  PROVE  LET results == Analyzed(found, w, confident) IN
         /\ results \in Seq(Spans(n))
         /\ Range(results) =
               UNION {{d \in Range(found[l]) : d.type \in Wanted(w, l, confident)} :
                        l \in {"nl", "en"}}
<1>. DEFINE U(l) == {d \in Spans(n) : d.type \in Wanted(w, l, confident)}
            wanted(l) == FlattenSeq([i \in DOMAIN found[l] |->
                            IF found[l][i] \in U(l) THEN <<found[l][i]>> ELSE <<>>])
            both == [i \in 1..2 |-> wanted(Languages[i])]
<1>1. \A l \in {"nl", "en"} :
         wanted(l) \in Seq(Spans(n)) /\ Range(wanted(l)) = Range(found[l]) \intersect U(l)
  <2>. TAKE l \in {"nl", "en"}
  <2>1. found[l] \in Seq(Spans(n))
    OBVIOUS
  <2>. DEFINE f == found[l]
              W == U(l)
              q == [i \in DOMAIN f |-> IF f[i] \in W THEN <<f[i]>> ELSE <<>>]
  <2>2. /\ wanted(l) \in Seq(Spans(n) \intersect U(l))
        /\ Range(wanted(l)) = Range(found[l]) \intersect U(l)
    <3>1. wanted(l) = FlattenSeq(q) /\ W = U(l) /\ f = found[l] /\ f \in Seq(Spans(n))
      BY <2>1
    <3>2. q = [i \in DOMAIN f |-> IF f[i] \in W THEN <<f[i]>> ELSE <<>>]
      OBVIOUS
    <3>. HIDE DEF q, W, f, wanted, U
    <3>3. Filters(FlattenSeq(q), f, Spans(n), W)
      BY <3>1, <3>2, FilteringFilters
    <3>. QED BY <3>1, <3>3 DEF Filters
  <2>. HIDE DEF U
  <2>3. wanted(l) \in Seq(Spans(n))
    BY <2>2
  <2>. QED BY <2>2, <2>3
<1>2. Analyzed(found, w, confident) = FlattenSeq(both)
  <2>1. \A l \in {"nl", "en"} : \A i \in DOMAIN found[l] : found[l][i] \in Spans(n)
    OBVIOUS
  <2>2. \A l \in {"nl", "en"} :
           [i \in DOMAIN found[l] |->
              IF found[l][i].type \in Wanted(w, l, confident) THEN <<found[l][i]>> ELSE <<>>]
           = [i \in DOMAIN found[l] |-> IF found[l][i] \in U(l) THEN <<found[l][i]>> ELSE <<>>]
    BY <2>1
  <2>. HIDE DEF U
  <2>3. Languages[1] = "nl" /\ Languages[2] = "en"
    BY DEF Languages
  <2>. DEFINE picked(l) ==
           FlattenSeq([i \in DOMAIN found[l] |->
              IF found[l][i].type \in Wanted(w, l, confident) THEN <<found[l][i]>> ELSE <<>>])
  <2>4. Analyzed(found, w, confident) = FlattenSeq([i \in 1..2 |-> picked(Languages[i])])
    BY DEF Analyzed, Only
  <2>5. picked("nl") = wanted("nl") /\ picked("en") = wanted("en")
    BY <2>2
  <2>. HIDE DEF picked, wanted
  <2>6. [i \in 1..2 |-> picked(Languages[i])] = both
    <3>1. \A i \in 1..2 : i = 1 \/ i = 2
      OBVIOUS
    <3>. QED BY <2>3, <2>5, <3>1
  <2>. QED BY <2>4, <2>6
<1>. HIDE DEF wanted
<1>3. both \in Seq(Seq(Spans(n))) /\ Len(both) = 2 /\ both[1] = wanted("nl") /\ both[2] = wanted("en")
  BY <1>1 DEF Languages
<1>4. /\ FlattenSeq(both) \in Seq(Spans(n))
      /\ Range(FlattenSeq(both)) = UNION {Range(both[i]) : i \in 1..2}
  BY <1>3, FlattenRange
<1>5. UNION {Range(both[i]) : i \in 1..2} = Range(wanted("nl")) \union Range(wanted("en"))
  <2>1. 1..2 = {1, 2}
    OBVIOUS
  <2>. HIDE DEF both
  <2>. QED BY <1>3, <2>1
<1>6. \A l \in {"nl", "en"} : Range(found[l]) \intersect U(l)
                              = {d \in Range(found[l]) : d.type \in Wanted(w, l, confident)}
  <2>1. \A l \in {"nl", "en"} : Range(found[l]) \subseteq Spans(n)
    BY DEF Range
  <2>. QED BY <2>1
<1>. QED BY <1>1, <1>2, <1>4, <1>5, <1>6

\* A recognizer detects spans of the text.
LEMMA DetectedSpans ==
  ASSUME NEW n \in Nat, NEW text, Len(text) = n, DOMAIN text = 1..n,
         NEW p, NEW m \in Nat, Len(p.words) = m, m > 0, p.type \in DefaultEntities, p.score \in Int
  PROVE  DetectedBy(p, text) \in Seq(Spans(n))
<1>. DEFINE At(i) == [type |-> p.type, from |-> i, to |-> i + m, score |-> p.score]
            places == [i \in 1..n |-> At(i)]
            A == {d \in [type : DefaultEntities, from : 1..n, to : Nat, score : Int] : d.from < d.to}
            U == {d \in A : d.to <= n + 1 /\ Value(text, d) = p.words}
            q == [i \in DOMAIN places |-> IF places[i] \in U THEN <<places[i]>> ELSE <<>>]
<1>1. \A i \in 1..n : At(i) \in A
  OBVIOUS
<1>2. places \in Seq(A)
  <2>. HIDE DEF A, At
  <2>. QED BY <1>1
<1>3. DetectedBy(p, text) = FlattenSeq(q)
  <2>1. DetectedBy(p, text) = FlattenSeq([i \in DOMAIN places |->
           IF places[i].to <= n + 1 /\ Value(text, places[i]) = p.words THEN <<places[i]>> ELSE <<>>])
    BY DEF DetectedBy, Only
  <2>2. \A i \in DOMAIN places : places[i] \in A
    BY <1>1
  <2>. HIDE DEF places, A
  <2>3. [i \in DOMAIN places |->
           IF places[i].to <= n + 1 /\ Value(text, places[i]) = p.words THEN <<places[i]>> ELSE <<>>] = q
    BY <2>2
  <2>. QED BY <2>1, <2>3, Zenon
<1>4. FlattenSeq(q) \in Seq(A \intersect U)
  <2>. HIDE DEF places, A, U
  <2>. QED BY <1>2, Filtering
<1>5. A \intersect U \subseteq Spans(n)
  BY DEF Spans
<1>6. FlattenSeq(q) \in Seq(Spans(n))
  <2>. DEFINE B == A \intersect U
  <2>. HIDE DEF q, B
  <2>1. B \subseteq Spans(n) /\ FlattenSeq(q) \in Seq(B)
    BY <1>4, <1>5 DEF B
  <2>. QED BY <2>1
<1>. QED BY <1>3, <1>6, Zenon

\* Presidio detects spans of the text.
LEMMA FoundSpans ==
  ASSUME NEW T, NEW text \in Seq(T), NEW l \in {"nl", "en"}
  PROVE  Found(text)[l] \in Seq(Spans(Len(text)))
<1>0. PICK n \in Nat : n = Len(text) /\ DOMAIN text = 1..n
  OBVIOUS
<1>. DEFINE R == [words : Seq(Token) \ {<<>>}, type : DefaultEntities, score : Int]
<1>1. Recognized[l] \in Seq(R)
  <2>1. Recognized \in [{"nl", "en"} -> Seq(R)]
    BY AnswersAssumption
  <2>. HIDE DEF R
  <2>. QED BY <2>1
<1>2. \A p \in R : p.words \in Seq(Token) /\ p.words # <<>> /\ p.type \in DefaultEntities /\ p.score \in Int
  OBVIOUS
<1>. HIDE DEF R
<1>3. \A p \in R : DetectedBy(p, text) \in Seq(Spans(n))
  <2>. TAKE p \in R
  <2>1. PICK m \in Nat : m = Len(p.words)
    BY <1>2
  <2>2. m > 0
    BY <1>2, <2>1
  <2>. QED BY <1>0, <1>2, <2>1, <2>2, DetectedSpans
<1>. DEFINE all == [k \in DOMAIN Recognized[l] |-> DetectedBy(Recognized[l][k], text)]
<1>4. \A k \in DOMAIN Recognized[l] : all[k] \in Seq(Spans(n))
  BY <1>1, <1>3
<1>5. all \in Seq(Seq(Spans(n)))
  <2>1. PICK m \in Nat : DOMAIN Recognized[l] = 1..m
    BY <1>1
  <2>2. DOMAIN all = 1..m /\ \A k \in 1..m : all[k] \in Seq(Spans(n))
    BY <1>4, <2>1
  <2>3. all = [k \in 1..m |-> all[k]]
    BY <2>1
  <2>. HIDE DEF all
  <2>. QED BY <2>2, <2>3
<1>6. FlattenSeq(all) \in Seq(Spans(n))
  BY <1>5, FlattenRange
<1>. QED BY <1>0, <1>6 DEF Found

\* A non-empty set of numbers up to a bound has a least one.
LEMMA MinExists ==
  ASSUME NEW n \in Nat, NEW t \in SUBSET (1..n), t # {}
  PROVE  \E x \in t : \A y \in t : x <= y
<1>. DEFINE Has(u) == \E x \in u : \A y \in u : x <= y
            All(k) == \A u \in SUBSET (1..k) : u # {} => Has(u)
<1>1. All(0)
  <2>1. \A u \in SUBSET (1..0) : u = {}
    OBVIOUS
  <2>. QED BY <2>1
<1>2. \A k \in 0..n - 1 : All(k) => All(k + 1)
  <2>. SUFFICES ASSUME NEW k \in 0..n - 1, \A u \in SUBSET (1..k) : u # {} => Has(u),
                       NEW u \in SUBSET (1..k + 1), u # {}
                PROVE  Has(u)
    OBVIOUS
  <2>1. CASE u = {k + 1}
    BY <2>1
  <2>2. CASE u # {k + 1}
    <3>1. u \ {k + 1} \in SUBSET (1..k) /\ u \ {k + 1} # {}
      BY <2>2
    <3>2. PICK x \in u \ {k + 1} : \A y \in u \ {k + 1} : x <= y
      BY <3>1
    <3>3. x \in u /\ \A y \in u : x <= y
      BY <3>2
    <3>. QED BY <3>3
  <2>. QED BY <2>1, <2>2
<1>3. All(n)
  <2>. DEFINE S == {k \in 0..n : All(k)}
  <2>. HIDE DEF All
  <2>1. 0 \in S /\ \A k \in 0..n - 1 : k \in S => k + 1 \in S
    BY <1>1, <1>2
  <2>. HIDE DEF S
  <2>2. \A k \in 0..n : k \in S
    BY <2>1, UpToInduction
  <2>. QED BY <2>2 DEF S
<1>4. Has(t)
  BY <1>3
<1>. QED BY <1>4

BetterThan(results) ==
    {p \in (DOMAIN results) \X (DOMAIN results) : Better(results, p[1], p[2])}

\* The detections in order are all of them, each once, the better ones first
\* (the sort of _resolve_overlaps).
LEMMA OrderedLists ==
  ASSUME NEW n \in Nat, NEW results \in Seq(Spans(n))
  PROVE  Lists(Ordered(results), BetterThan(results), DOMAIN results)
<1>0. PICK m \in Nat : m = Len(results) /\ DOMAIN results = 1..m
  OBVIOUS
<1>. DEFINE D == DOMAIN results
            R == BetterThan(results)
            f == Ordered(results)
<1>1. \A i \in D : results[i].score \in Int /\ results[i].from \in Int /\ i \in Int
  <2>1. \A i \in D : results[i] \in Spans(n)
    OBVIOUS
  <2>2. \A d \in Spans(n) : d.score \in Int /\ d.from \in Int
    BY DEF Spans
  <2>. QED BY <1>0, <2>1, <2>2
<1>2. \A i, j \in D : <<i, j>> \in R <=> Better(results, i, j)
  BY DEF BetterThan
<1>3. StrictOrder(R, D)
  <2>. HIDE DEF R, D
  <2>1. \A i \in D : ~Better(results, i, i)
    BY <1>1 DEF Better
  <2>2. \A i, j, k \in D : Better(results, i, j) /\ Better(results, j, k) => Better(results, i, k)
    BY <1>1 DEF Better
  <2>3. \A i, j \in D : i # j => Better(results, i, j) \/ Better(results, j, i)
    BY <1>1 DEF Better
  <2>. QED BY <1>2, <2>1, <2>2, <2>3 DEF StrictOrder
<1>4. IsFiniteSet(D)
  BY <1>0, FS_Interval
<1>5. \A x \in D : Before(R, D, x) = {y \in D : Better(results, y, x)}
  BY <1>2 DEF Before
<1>. DEFINE place(i) == CHOOSE x \in D : Cardinality({y \in D : Better(results, y, x)}) = i - 1
<1>6. f = [i \in 1..Cardinality(D) |-> place(i)]
  BY DEF Ordered, Sorted
<1>. HIDE DEF f, R, D, place
<1>7. f = [i \in 1..Cardinality(D) |-> f[i]]
  BY <1>6
<1>8. \A i \in 1..Cardinality(D) :
         (\E x \in D : Cardinality(Before(R, D, x)) = i - 1) =>
            f[i] \in D /\ Cardinality(Before(R, D, f[i])) = i - 1
  BY <1>5, <1>6 DEF place
<1>9. Lists(f, R, D)
  BY <1>3, <1>4, <1>7, <1>8, SortedLists
<1>. QED BY <1>9 DEF f, R, D

Selects(F, results, order, m, R) ==
    /\ F \in [0..m -> SUBSET R]
    /\ F[0] = {}
    /\ \A k \in 1..m : F[k] = Take(F[k - 1], results[order[k]])
    /\ Selected(results) = F[m]

\* What the greedy pass keeps, detection by detection.
LEMMA SelectedPrefixes ==
  ASSUME NEW R, NEW results \in Seq(R), NEW m \in Nat,
         NEW order, order \in [1..m -> DOMAIN results], Ordered(results) = order
  PROVE  \E F : Selects(F, results, order, m, R)
<1>1. DOMAIN order = 1..m /\ \A k \in 1..m : results[order[k]] \in R
  OBVIOUS
<1>. DEFINE Step(it, t) == IF t = {} THEN {} ELSE Take(it[t \ {Max(t)}], results[order[Max(t)]])
            Picks(it) == it = [t \in SUBSET (1..m) |-> Step(it, t)]
            iter == CHOOSE it : Picks(it)
<1>2. Selected(results) = iter[1..m]
  BY <1>1 DEF Selected, FoldLeft, MapThenFoldSet
<1>3. Picks(iter)
  <2>. DEFINE V == SUBSET R
              g == [p \in V \X (1..m) |-> Take(p[1], results[order[p[2]]])]
  <2>0. \A v \in V, k \in 1..m : Take(v, results[order[k]]) \in V
    BY <1>1 DEF Take
  <2>1. \A p \in V \X (1..m) : p[1] \in V /\ p[2] \in 1..m
    OBVIOUS
  <2>1a. {} \in V
    OBVIOUS
  <2>. HIDE DEF V
  <2>1b. g \in [V \X (1..m) -> V]
    BY <2>0, <2>1
  <2>2. \A v \in V, k \in 1..m : g[<<v, k>>] = Take(v, results[order[k]])
    OBVIOUS
  <2>. HIDE DEF g
  <2>. HIDE DEF Picks, Step, iter
  <2>3a. \E it : IsFold(it, m, V, {}, g)
    BY <2>1a, <2>1b, FoldExists
  <2>3. PICK it : IsFold(it, m, V, {}, g)
    BY <2>3a
  <2>4. \A t \in SUBSET (1..m) : it[t] = Step(it, t)
    <3>. TAKE t \in SUBSET (1..m)
    <3>1. CASE t = {}
      BY <3>1, <2>3 DEF IsFold, Step
    <3>2. CASE t # {}
      <4>1. Max(t) \in 1..m /\ t \ {Max(t)} \in SUBSET (1..m)
        BY <3>2, MaxExists
      <4>2. it[t \ {Max(t)}] \in V
        BY <4>1, <2>3 DEF IsFold
      <4>3. it[t] = g[<<it[t \ {Max(t)}], Max(t)>>]
        BY <3>2, <2>3 DEF IsFold
      <4>. QED BY <2>2, <3>2, <4>1, <4>2, <4>3 DEF Step
    <3>. QED BY <3>1, <3>2
  <2>5. it = [t \in SUBSET (1..m) |-> it[t]]
    BY <2>3 DEF IsFold
  <2>6. it = [t \in SUBSET (1..m) |-> Step(it, t)]
    <3>. HIDE DEF Step
    <3>. QED BY <2>4, <2>5
  <2>7. \E any : Picks(any)
    BY <2>6 DEF Picks
  <2>. QED BY <2>7 DEF iter
<1>. HIDE DEF iter
<1>4. iter[{}] = {} /\ \A k \in 1..m : iter[1..k] = Take(iter[1..k - 1], results[order[k]])
  <2>1. iter[{}] = {}
    BY <1>3
  <2>2. \A k \in 1..m : iter[1..k] = Take(iter[1..k - 1], results[order[k]])
    <3>. TAKE k \in 1..m
    <3>1. iter[1..k] = Step(iter, 1..k)
      BY <1>3, PrefixWithoutLast
    <3>. QED BY <3>1, PrefixWithoutLast
  <2>. QED BY <2>1, <2>2
<1>. HIDE DEF Picks
<1>. DEFINE F == [k \in 0..m |-> iter[1..k]]
<1>5. F[0] = {}
  <2>1. 1..0 = {}
    OBVIOUS
  <2>. QED BY <1>4, <2>1
<1>6. \A k \in 1..m : F[k] = Take(F[k - 1], results[order[k]])
  BY <1>4
<1>7. F = [k \in 0..m |-> F[k]] /\ F[m] = iter[1..m]
  OBVIOUS
<1>. HIDE DEF F
<1>8. \A k \in 0..m : F[k] \in SUBSET R
  <2>. DEFINE S == {k \in 0..m : F[k] \in SUBSET R}
  <2>1. 0 \in S
    BY <1>5
  <2>2. \A k \in 0..m - 1 : k \in S => k + 1 \in S
    <3>. SUFFICES ASSUME NEW k \in 0..m - 1, F[k] \in SUBSET R PROVE F[k + 1] \in SUBSET R /\ k + 1 \in 0..m
      OBVIOUS
    <3>1. k + 1 \in 1..m /\ (k + 1) - 1 = k
      OBVIOUS
    <3>2. F[k + 1] = Take(F[k], results[order[k + 1]]) /\ results[order[k + 1]] \in R
      BY <1>1, <1>6, <3>1
    <3>. QED BY <3>1, <3>2 DEF Take
  <2>. HIDE DEF S
  <2>3. \A k \in 0..m : k \in S
    BY <2>1, <2>2, UpToInduction
  <2>. QED BY <2>3 DEF S
<1>9. F \in [0..m -> SUBSET R]
  BY <1>7, <1>8
<1>. QED BY <1>2, <1>5, <1>6, <1>7, <1>9 DEF Selects

\* The greedy pass keeps detections that do not overlap, and for each detection one that overlaps
\* it and has at least its score.
LEMMA SelectedCovers ==
  ASSUME NEW n \in Nat, NEW results \in Seq(Spans(n))
  PROVE  LET chosen == Selected(results) IN
         /\ chosen \subseteq Range(results)
         /\ \A d, e \in chosen : d # e => ~Overlap(d, e)
         /\ \A d \in Range(results) : \E e \in chosen : Overlap(e, d) /\ e.score >= d.score
<1>0. PICK m \in Nat : m = Len(results) /\ DOMAIN results = 1..m
  OBVIOUS
<1>. DEFINE order == Ordered(results)
            d(k) == results[order[k]]
<1>1. /\ Cardinality(1..m) = m
      /\ order \in [1..m -> 1..m] /\ (\A x \in 1..m : \E k \in 1..m : order[k] = x)
      /\ \A j, k \in 1..m : j < k => Better(results, order[j], order[k])
  <2>1. Cardinality(1..m) = m
    BY FS_Interval
  <2>2. Lists(order, BetterThan(results), 1..m)
    BY <1>0, OrderedLists
  <2>. HIDE DEF order
  <2>. QED BY <2>1, <2>2, <1>0 DEF Lists, BetterThan
<1>2. \A x \in Spans(n) : x.score \in Int /\ x.from \in Int /\ x.to \in Int /\ x.from < x.to
  BY DEF Spans
<1>. HIDE DEF order
<1>3. \A k \in 1..m : d(k) \in Spans(n) /\ d(k) \in Range(results)
  <2>1. \A i \in 1..m : results[i] \in Spans(n) /\ results[i] \in Range(results)
    <3>. HIDE DEF Spans
    <3>. QED BY <1>0 DEF Range
  <2>2. \A k \in 1..m : order[k] \in 1..m
    BY <1>1
  <2>. QED BY <2>1, <2>2
<1>4. \A j, k \in 1..m : j < k => d(j).score >= d(k).score
  <2>. HIDE DEF Spans
  <2>1. \A j, k \in 1..m : d(j).score \in Int /\ d(k).score \in Int
    BY <1>2, <1>3
  <2>. SUFFICES ASSUME NEW j \in 1..m, NEW k \in 1..m, j < k PROVE d(j).score >= d(k).score
    OBVIOUS
  <2>2. Better(results, order[j], order[k])
    BY <1>1
  <2>3. d(j).score > d(k).score \/ d(j).score = d(k).score
    BY <2>2, Zenon DEF Better
  <2>. HIDE DEF d
  <2>. QED BY <2>1, <2>3
<1>. HIDE DEF d
<1>5. \E F : Selects(F, results, order, m, Spans(n))
  <2>1. order \in [1..m -> DOMAIN results] /\ Ordered(results) = order
    BY <1>0, <1>1 DEF order
  <2>. QED BY <2>1, SelectedPrefixes
<1>6. PICK F : /\ F \in [0..m -> SUBSET Spans(n)]
               /\ F[0] = {}
               /\ \A k \in 1..m : F[k] = Take(F[k - 1], d(k))
               /\ Selected(results) = F[m]
  BY <1>5 DEF Selects, d
<1>. DEFINE Good(k) ==
       /\ \A x \in F[k] : \E j \in 1..k : x = d(j)
       /\ \A x, y \in F[k] : x # y => ~Overlap(x, y)
       /\ \A j \in 1..k : \E e \in F[k] : Overlap(e, d(j)) /\ e.score >= d(j).score
<1>7. Good(0)
  BY <1>6
<1>8. \A k \in 0..m - 1 : Good(k) => Good(k + 1)
  <2>. SUFFICES ASSUME NEW k \in 0..m - 1, Good(k) PROVE Good(k + 1)
    OBVIOUS
  <2>1. k + 1 \in 1..m /\ (k + 1) - 1 = k /\ k \in 0..m /\ 1..k + 1 = 1..k \union {k + 1}
        /\ \A j \in 1..k : j \in 1..m /\ j < k + 1
    OBVIOUS
  <2>2. F[k + 1] = Take(F[k], d(k + 1)) /\ d(k + 1) \in Spans(n) /\ F[k] \subseteq Spans(n)
    <3>1. F[k] \in SUBSET Spans(n)
      BY <1>6, <2>1
    <3>. QED BY <1>3, <1>6, <2>1, <3>1
  <2>3. CASE \E e \in F[k] : Overlap(e, d(k + 1))
    <3>1. F[k + 1] = F[k]
      BY <2>2, <2>3 DEF Take
    <3>2. \E e \in F[k] : Overlap(e, d(k + 1)) /\ e.score >= d(k + 1).score
      <4>1. PICK e \in F[k] : Overlap(e, d(k + 1))
        BY <2>3
      <4>2. PICK j \in 1..k : e = d(j)
        OBVIOUS
      <4>3. d(j).score >= d(k + 1).score
        BY <1>4, <2>1
      <4>. QED BY <4>1, <4>2, <4>3
    <3>. QED BY <2>1, <3>1, <3>2
  <2>4. CASE ~\E e \in F[k] : Overlap(e, d(k + 1))
    <3>1. F[k + 1] = F[k] \union {d(k + 1)}
      BY <2>2, <2>4 DEF Take
    <3>2. \A x \in Spans(n) : Overlap(x, x) /\ x.score >= x.score
      BY <1>2 DEF Overlap
    <3>3. \A x, y \in Spans(n) : Overlap(x, y) <=> Overlap(y, x)
      BY <1>2 DEF Overlap
    <3>4. \A x \in F[k + 1] : \E j \in 1..k + 1 : x = d(j)
      BY <2>1, <3>1
    <3>5. \A x, y \in F[k + 1] : x # y => ~Overlap(x, y)
      BY <2>2, <2>4, <3>1, <3>3
    <3>6. \A j \in 1..k + 1 : \E e \in F[k + 1] : Overlap(e, d(j)) /\ e.score >= d(j).score
      BY <2>1, <2>2, <3>1, <3>2
    <3>. QED BY <3>4, <3>5, <3>6
  <2>. QED BY <2>3, <2>4
<1>9. Good(m)
  <2>. DEFINE S == {k \in 0..m : Good(k)}
  <2>. HIDE DEF Good
  <2>1. 0 \in S /\ \A k \in 0..m - 1 : k \in S => k + 1 \in S
    BY <1>7, <1>8
  <2>. HIDE DEF S
  <2>2. \A k \in 0..m : k \in S
    BY <2>1, UpToInduction
  <2>. QED BY <2>2 DEF S
<1>10. \A x \in Range(results) : \E k \in 1..m : x = d(k)
  BY <1>0, <1>1 DEF Range, d
<1>11. F[m] \subseteq Range(results)
  BY <1>3, <1>9
<1>12. \A x, y \in F[m] : x # y => ~Overlap(x, y)
  BY <1>9
<1>13. \A x \in Range(results) : \E e \in F[m] : Overlap(e, x) /\ e.score >= x.score
  BY <1>9, <1>10
<1>. HIDE DEF Good
<1>. QED BY <1>6, <1>11, <1>12, <1>13

\* What is masked: spans of the text, from left to right, none overlapping another.
IsKept(list, n) ==
    /\ list \in Seq(Spans(n))
    /\ \A i, j \in DOMAIN list : i < j => list[i].to <= list[j].from

\* What is kept are spans apart from one another, in text order, and every detection
\* overlaps one of at least its score (_resolve_overlaps).
LEMMA ResolvedCovers ==
  ASSUME NEW n \in Nat, NEW results \in Seq(Spans(n))
  PROVE  LET list == Resolved(results) IN
         /\ IsKept(list, n)
         /\ Range(list) \subseteq Range(results)
         /\ \A d \in Range(results) :
               \E i \in DOMAIN list : Overlap(list[i], d) /\ list[i].score >= d.score
<1>0. PICK m \in Nat : m = Len(results) /\ DOMAIN results = 1..m
  OBVIOUS
<1>. DEFINE S == Selected(results)
            R == {p \in S \X S : p[1].from < p[2].from}
            N == Cardinality(S)
            f == Resolved(results)
            place(i) == CHOOSE x \in S : Cardinality({y \in S : y.from < x.from}) = i - 1
<1>1. /\ S \subseteq Range(results)
      /\ \A d, e \in S : d # e => ~Overlap(d, e)
      /\ \A d \in Range(results) : \E e \in S : Overlap(e, d) /\ e.score >= d.score
  BY SelectedCovers
<1>2. Range(results) \subseteq Spans(n)
  BY DEF Range
<1>3. \A x \in Spans(n) : x.from \in Int /\ x.to \in Int /\ x.from < x.to
  BY DEF Spans
<1>4. IsFiniteSet(S)
  <2>1. results \in Surjection(1..m, Range(results))
    BY <1>0 DEF Surjection, Range
  <2>2. IsFiniteSet(1..m)
    BY FS_Interval
  <2>3. IsFiniteSet(Range(results))
    BY <2>1, <2>2, FS_Surjection
  <2>. HIDE DEF S
  <2>. QED BY <1>1, <2>3, FS_Subset
<1>5. f = [i \in 1..N |-> place(i)]
  BY DEF Resolved, Sorted
<1>. HIDE DEF S
<1>6. \A x, y \in S : <<x, y>> \in R <=> x.from < y.from
  OBVIOUS
<1>7. StrictOrder(R, S)
  <2>. HIDE DEF R
  <2>1. \A x \in S : x.from \in Int /\ x.to \in Int /\ x.from < x.to
    BY <1>1, <1>2, <1>3
  <2>2. \A x, y \in S : x # y => x.from < y.from \/ y.from < x.from
    BY <1>1, <2>1 DEF Overlap
  <2>. QED BY <1>6, <2>1, <2>2 DEF StrictOrder
<1>8. \A x \in S : Before(R, S, x) = {y \in S : y.from < x.from}
  BY <1>6 DEF Before
<1>. HIDE DEF f, R, place
<1>9. f = [i \in 1..N |-> f[i]]
  BY <1>5
<1>10. \A i \in 1..N :
         (\E x \in S : Cardinality(Before(R, S, x)) = i - 1) =>
            f[i] \in S /\ Cardinality(Before(R, S, f[i])) = i - 1
  BY <1>5, <1>8 DEF place
<1>11. Lists(f, R, S)
  BY <1>4, <1>7, <1>9, <1>10, SortedLists
<1>12. N \in Nat
  BY <1>4, FS_CardinalityType
<1>. HIDE DEF N
<1>13. f \in [1..N -> S] /\ (\A x \in S : \E i \in 1..N : f[i] = x)
       /\ \A i, j \in 1..N : i < j => f[i].from < f[j].from
  <2>1. f \in [1..N -> S] /\ (\A x \in S : \E i \in 1..N : f[i] = x)
        /\ \A i, j \in 1..N : i < j => <<f[i], f[j]>> \in R
    BY <1>11 DEF Lists, N
  <2>. QED BY <1>6, <2>1
<1>14. f \in Seq(Spans(n)) /\ DOMAIN f = 1..N
  <2>. DEFINE P == Spans(n)
  <2>1. S \subseteq P
    BY <1>1, <1>2
  <2>. HIDE DEF P
  <2>2. f \in Seq(P)
    BY <1>12, <1>13, <2>1
  <2>. QED BY <1>13, <2>2 DEF P
<1>15. \A i, j \in 1..N : i < j => f[i].to <= f[j].from
  <2>. SUFFICES ASSUME NEW i \in 1..N, NEW j \in 1..N, i < j PROVE f[i].to <= f[j].from
    OBVIOUS
  <2>1. f[i] \in S /\ f[j] \in S /\ f[i].from < f[j].from
    BY <1>13
  <2>2. f[i].from \in Int /\ f[i].to \in Int /\ f[j].from \in Int /\ f[j].to \in Int /\ f[j].from < f[j].to
    BY <1>1, <1>2, <1>3, <2>1
  <2>3. f[i] # f[j]
    BY <2>1, <2>2
  <2>4. ~Overlap(f[i], f[j])
    BY <1>1, <2>1, <2>3
  <2>. QED BY <2>1, <2>2, <2>4 DEF Overlap
<1>16. IsKept(f, n)
  BY <1>14, <1>15 DEF IsKept
<1>17. Range(f) \subseteq Range(results)
  BY <1>1, <1>13 DEF Range
<1>18. \A d \in Range(results) : \E i \in DOMAIN f : Overlap(f[i], d) /\ f[i].score >= d.score
  BY <1>1, <1>13, <1>14
<1>. QED BY <1>16, <1>17, <1>18 DEF f

Associates(V) == \A x, y, z \in Seq(V) : (x \o y) \o z = x \o (y \o z)

\* Concatenation is associative.
LEMMA ConcatAssociates ==
  ASSUME NEW V
  PROVE  Associates(V)
BY ConcatAssociative DEF Associates

\* Flattening goes over to the parts of a sequence.
LEMMA FlattenConcat ==
  ASSUME NEW T, NEW s \in Seq(Seq(T)), NEW t \in Seq(Seq(T))
  PROVE  FlattenSeq(s \o t) = FlattenSeq(s) \o FlattenSeq(t)
<1>0. PICK m \in Nat, n \in Nat : m = Len(s) /\ n = Len(t)
  OBVIOUS
<1>. DEFINE V == Seq(T)
            u == s \o t
<1>1. /\ u \in Seq(V) /\ Len(u) = m + n
      /\ \A k \in 1..m : u[k] = s[k]
      /\ \A k \in 1..n : u[m + k] = t[k]
  <2>. HIDE DEF V
  <2>1. s \in Seq(V) /\ t \in Seq(V)
    BY DEF V
  <2>. QED BY <1>0, <2>1
<1>2. \A k \in 1..m : s[k] \in Seq(T)
  BY <1>0
<1>3. \A k \in 1..n : t[k] \in Seq(T)
  BY <1>0
<1>. HIDE DEF u
<1>4a. PICK F : Flattens(F, s, m, T)
  BY <1>0, FlattenPrefixes
<1>4. /\ F \in [0..m -> Seq(T)] /\ F[0] = <<>>
      /\ (\A k \in 1..m : F[k] = F[k - 1] \o s[k]) /\ FlattenSeq(s) = F[m]
  BY <1>4a DEF Flattens
<1>5a. PICK G : Flattens(G, t, n, T)
  BY <1>0, FlattenPrefixes
<1>5. /\ G \in [0..n -> Seq(T)] /\ G[0] = <<>>
      /\ (\A k \in 1..n : G[k] = G[k - 1] \o t[k]) /\ FlattenSeq(t) = G[n]
  BY <1>5a DEF Flattens
<1>6a. PICK H : Flattens(H, u, m + n, T)
  BY <1>1, FlattenPrefixes
<1>6. /\ H \in [0..m + n -> Seq(T)] /\ H[0] = <<>>
      /\ (\A k \in 1..m + n : H[k] = H[k - 1] \o u[k]) /\ FlattenSeq(u) = H[m + n]
  BY <1>6a DEF Flattens
<1>7. \A k \in 0..m : H[k] = F[k]
  <2>. DEFINE S == {k \in 0..m : H[k] = F[k]}
  <2>1. 0 \in S
    BY <1>4, <1>6
  <2>2. \A k \in 0..m - 1 : k \in S => k + 1 \in S
    <3>. SUFFICES ASSUME NEW k \in 0..m - 1, H[k] = F[k] PROVE H[k + 1] = F[k + 1] /\ k + 1 \in 0..m
      OBVIOUS
    <3>1. k + 1 \in 1..m /\ k + 1 \in 1..m + n /\ (k + 1) - 1 = k
      OBVIOUS
    <3>2. H[k + 1] = H[k] \o u[k + 1] /\ F[k + 1] = F[k] \o s[k + 1] /\ u[k + 1] = s[k + 1]
      BY <1>1, <1>4, <1>6, <3>1
    <3>. QED BY <3>1, <3>2
  <2>. HIDE DEF S
  <2>3. \A k \in 0..m : k \in S
    BY <2>1, <2>2, UpToInduction
  <2>. QED BY <2>3 DEF S
<1>8. \A k \in 0..n : H[m + k] = F[m] \o G[k]
  <2>. DEFINE S == {k \in 0..n : H[m + k] = F[m] \o G[k]}
  <2>1. 0 \in S
    <3>1. H[m] = F[m]
      <4>1. m \in 0..m
        OBVIOUS
      <4>. QED BY <1>7, <4>1
    <3>2. F[m] \in Seq(T)
      BY <1>4
    <3>3. F[m] \o <<>> = F[m]
      BY <3>2, ConcatEmptySeq
    <3>4. m + 0 = m /\ 0 \in 0..n
      OBVIOUS
    <3>. QED BY <1>5, <3>1, <3>3, <3>4
  <2>2. \A k \in 0..n - 1 : k \in S => k + 1 \in S
    <3>. SUFFICES ASSUME NEW k \in 0..n - 1, H[m + k] = F[m] \o G[k]
                  PROVE  H[m + (k + 1)] = F[m] \o G[k + 1] /\ k + 1 \in 0..n
      OBVIOUS
    <3>1. k + 1 \in 1..n /\ (k + 1) - 1 = k /\ m + (k + 1) \in 1..m + n /\ (m + (k + 1)) - 1 = m + k
          /\ k \in 0..n /\ m \in 0..m
      OBVIOUS
    <3>2. H[m + (k + 1)] = H[m + k] \o t[k + 1] /\ G[k + 1] = G[k] \o t[k + 1]
      BY <1>1, <1>5, <1>6, <3>1
    <3>3. F[m] \in Seq(T) /\ G[k] \in Seq(T) /\ t[k + 1] \in Seq(T)
      BY <1>3, <1>4, <1>5, <3>1
    <3>4. (F[m] \o G[k]) \o t[k + 1] = F[m] \o (G[k] \o t[k + 1])
      <4>. DEFINE x == F[m]
                  y == G[k]
                  z == t[k + 1]
                  All == Seq(T)
      <4>0. Associates(T)
        BY ConcatAssociates
      <4>1. \A a, b, c \in All : (a \o b) \o c = a \o (b \o c)
        BY <4>0 DEF Associates
      <4>2. x \in All /\ y \in All /\ z \in All
        BY <3>3
      <4>. HIDE DEF x, y, z, All
      <4>3. (x \o y) \o z = x \o (y \o z)
        BY <4>1, <4>2, Zenon
      <4>. QED BY <4>3 DEF x, y, z
    <3>. QED BY <3>1, <3>2, <3>4
  <2>. HIDE DEF S
  <2>3. \A k \in 0..n : k \in S
    BY <2>1, <2>2, UpToInduction
  <2>. QED BY <2>3 DEF S
<1>9. H[m + n] = F[m] \o G[n]
  <2>1. n \in 0..n
    OBVIOUS
  <2>. QED BY <1>8, <2>1
<1>. QED BY <1>4, <1>5, <1>6, <1>9 DEF u

\* A sequence of one sequence.
LEMMA FlattenOne ==
  ASSUME NEW T, NEW x \in Seq(T)
  PROVE  FlattenSeq(<<x>>) = x
<1>. DEFINE s == <<x>>
<1>1. s \in Seq(Seq(T)) /\ Len(s) = 1 /\ s[1] = x
  <2>. DEFINE V == Seq(T)
  <2>. HIDE DEF V
  <2>1. x \in V
    BY DEF V
  <2>2. s \in Seq(V) /\ Len(s) = 1 /\ s[1] = x
    BY <2>1
  <2>. QED BY <2>2 DEF V
<1>. HIDE DEF s
<1>2a. PICK F : Flattens(F, s, 1, T)
  BY <1>1, FlattenPrefixes
<1>2. /\ F \in [0..1 -> Seq(T)] /\ F[0] = <<>>
      /\ (\A k \in 1..1 : F[k] = F[k - 1] \o s[k]) /\ FlattenSeq(s) = F[1]
  BY <1>2a DEF Flattens
<1>3. F[1] = F[1 - 1] \o s[1] /\ 1 - 1 = 0
  BY <1>2
<1>4. <<>> \o x = x
  OBVIOUS
<1>. QED BY <1>1, <1>2, <1>3, <1>4 DEF s

\* A sequence taken apart member by member.
LEMMA FlattenSingles ==
  ASSUME NEW T, NEW s \in Seq(T), NEW q, q \in Seq(Seq(T)), Len(q) = Len(s),
         \A i \in 1..Len(s) : q[i] = <<s[i]>>
  PROVE  FlattenSeq(q) = s
<1>0. PICK n \in Nat : n = Len(s)
  OBVIOUS
<1>1a. PICK F : Flattens(F, q, n, T)
  BY <1>0, FlattenPrefixes
<1>1. /\ F \in [0..n -> Seq(T)] /\ F[0] = <<>>
      /\ (\A k \in 1..n : F[k] = F[k - 1] \o q[k]) /\ FlattenSeq(q) = F[n]
  BY <1>1a DEF Flattens
<1>. DEFINE S == {k \in 0..n : F[k] = SubSeq(s, 1, k)}
<1>2. 0 \in S
  <2>1. SubSeq(s, 1, 0) = <<>> /\ 0 \in 0..n
    OBVIOUS
  <2>2. F[0] = <<>>
    BY <1>1
  <2>. QED BY <2>1, <2>2, Zenon
<1>3. \A k \in 0..n - 1 : k \in S => k + 1 \in S
  <2>. SUFFICES ASSUME NEW k \in 0..n - 1, F[k] = SubSeq(s, 1, k)
                PROVE  F[k + 1] = SubSeq(s, 1, k + 1) /\ k + 1 \in 0..n
    OBVIOUS
  <2>1. k + 1 \in 1..n /\ (k + 1) - 1 = k /\ 1 \in 1..Len(s) /\ k + 1 \in 1..Len(s) /\ k + 1 \in 0..n
    BY <1>0
  <2>2. F[k + 1] = SubSeq(s, 1, k) \o <<s[k + 1]>>
    BY <1>0, <1>1, <2>1
  <2>3. SubSeq(s, 1, k + 1) = SubSeq(s, 1, (k + 1) - 1) \o <<s[k + 1]>>
    BY <2>1, SubSeqRecursiveSecond
  <2>. QED BY <2>1, <2>2, <2>3
<1>. HIDE DEF S
<1>4. \A k \in 0..n : k \in S
  BY <1>2, <1>3, UpToInduction
<1>5. F[n] = SubSeq(s, 1, Len(s))
  BY <1>0, <1>4 DEF S
<1>. QED BY <1>1, <1>5, SubSeqFull

\* Empty parts leave nothing.
LEMMA FlattenEmpties ==
  ASSUME NEW T, NEW q \in Seq(Seq(T)), \A i \in 1..Len(q) : q[i] = <<>>
  PROVE  FlattenSeq(q) = <<>>
<1>1. FlattenSeq(q) \in Seq(T) /\ Range(FlattenSeq(q)) = UNION {Range(q[k]) : k \in 1..Len(q)}
  BY FlattenRange
<1>2. \A k \in 1..Len(q) : Range(q[k]) = {}
  BY ShortRanges
<1>3. Range(FlattenSeq(q)) = {}
  BY <1>1, <1>2
<1>. DEFINE r == FlattenSeq(q)
<1>. HIDE DEF r
<1>4. r \in Seq(T) /\ Range(r) = {}
  BY <1>1, <1>3 DEF r
<1>5. r = <<>>
  BY <1>4 DEF Range
<1>. QED BY <1>5 DEF r

-----------------------------------------------------------------------------
(* Replacing every member of a sequence by a sequence. *)

Images(s, h) == [i \in DOMAIN s |-> h[s[i]]]

Mapped(s, h) == FlattenSeq(Images(s, h))

\* The images are sequences over T, one for each member.
ImagesOver(s, h, T) ==
    /\ Images(s, h) \in Seq(Seq(T)) /\ Len(Images(s, h)) = Len(s)
    /\ \A i \in 1..Len(s) : Images(s, h)[i] = h[s[i]]

\* A text mapped token by token is the flattened images, a text over what the images are over.
LEMMA MappedParts ==
  ASSUME NEW D, NEW T, NEW h \in [D -> Seq(T)], NEW s \in Seq(D)
  PROVE  ImagesOver(s, h, T) /\ Mapped(s, h) \in Seq(T)
<1>0. PICK n \in Nat : n = Len(s) /\ DOMAIN s = 1..n
  OBVIOUS
<1>. DEFINE q == Images(s, h)
            V == Seq(T)
<1>1. \A i \in 1..n : q[i] = h[s[i]] /\ q[i] \in V
  <2>. HIDE DEF V
  <2>1. h \in [D -> V]
    BY DEF V
  <2>. QED BY <1>0, <2>1 DEF Images
<1>2. q = [i \in 1..n |-> q[i]]
  BY <1>0 DEF Images
<1>. HIDE DEF q, V
<1>3. q \in Seq(V) /\ Len(q) = n
  <2>1. q \in [1..n -> V]
    BY <1>1, <1>2
  <2>. QED BY <2>1
<1>4. q \in Seq(Seq(T))
  BY <1>3 DEF V
<1>5. FlattenSeq(q) \in Seq(T)
  BY <1>4, FlattenRange
<1>6. \A i \in 1..Len(s) : q[i] = h[s[i]]
  BY <1>0, <1>1
<1>. QED BY <1>0, <1>3, <1>4, <1>5, <1>6 DEF Mapped, ImagesOver, q

\* Mapping goes through concatenation ...
LEMMA MappedConcat ==
  ASSUME NEW D, NEW T, NEW h \in [D -> Seq(T)], NEW s \in Seq(D), NEW t \in Seq(D)
  PROVE  /\ s \o t \in Seq(D)
         /\ Mapped(s \o t, h) = Mapped(s, h) \o Mapped(t, h)
<1>. DEFINE P(r) == Images(r, h)
<1>0. PICK m \in Nat, n \in Nat : m = Len(s) /\ n = Len(t)
  OBVIOUS
<1>1. /\ s \o t \in Seq(D) /\ Len(s \o t) = m + n
      /\ \A k \in 1..m : (s \o t)[k] = s[k]
      /\ \A k \in 1..n : (s \o t)[m + k] = t[k]
  BY <1>0
<1>2. \A r \in Seq(D) : P(r) \in Seq(Seq(T)) /\ Len(P(r)) = Len(r) /\ \A i \in 1..Len(r) : P(r)[i] = h[r[i]]
  <2>. TAKE r \in Seq(D)
  <2>1. ImagesOver(r, h, T)
    BY MappedParts
  <2>. QED BY <2>1 DEF ImagesOver
<1>. DEFINE V == Seq(T)
<1>. HIDE DEF P, V
<1>3. P(s) \in Seq(V) /\ P(t) \in Seq(V) /\ P(s \o t) \in Seq(V)
  BY <1>1, <1>2 DEF V
<1>4. P(s) \o P(t) \in Seq(V) /\ Len(P(s) \o P(t)) = m + n
      /\ (\A k \in 1..m : (P(s) \o P(t))[k] = P(s)[k])
      /\ \A k \in 1..n : (P(s) \o P(t))[m + k] = P(t)[k]
  <2>1. Len(P(s)) = m /\ Len(P(t)) = n
    BY <1>0, <1>2
  <2>2. /\ P(s) \o P(t) \in Seq(V) /\ Len(P(s) \o P(t)) = m + n
        /\ \A i \in 1..m + n : (P(s) \o P(t))[i] = IF i <= m THEN P(s)[i] ELSE P(t)[i - m]
    BY <1>3, <2>1, ConcatProperties
  <2>. QED BY <2>2
<1>5. Len(P(s \o t)) = m + n
      /\ (\A k \in 1..m : P(s \o t)[k] = P(s)[k])
      /\ \A k \in 1..n : P(s \o t)[m + k] = P(t)[k]
  <2>1. Len(P(s \o t)) = m + n /\ \A i \in 1..m + n : P(s \o t)[i] = h[(s \o t)[i]]
    BY <1>1, <1>2
  <2>2. \A k \in 1..m : k \in 1..m + n /\ P(s)[k] = h[s[k]]
    BY <1>0, <1>2
  <2>3. \A k \in 1..n : m + k \in 1..m + n /\ P(t)[k] = h[t[k]]
    BY <1>0, <1>2
  <2>4. \A k \in 1..m : P(s \o t)[k] = P(s)[k]
    <3>. TAKE k \in 1..m
    <3>1. P(s \o t)[k] = h[(s \o t)[k]] /\ (s \o t)[k] = s[k]
      BY <1>1, <2>1, <2>2
    <3>. QED BY <2>2, <3>1
  <2>5. \A k \in 1..n : P(s \o t)[m + k] = P(t)[k]
    <3>. TAKE k \in 1..n
    <3>1. P(s \o t)[m + k] = h[(s \o t)[m + k]]
      BY <2>1, <2>3
    <3>. QED BY <1>1, <2>3, <3>1
  <2>. QED BY <2>1, <2>4, <2>5
<1>6. P(s \o t) = P(s) \o P(t)
  <2>1. \A i \in 1..m + n : i \in 1..m \/ (i - m \in 1..n /\ i = m + (i - m))
    OBVIOUS
  <2>. DEFINE a == P(s \o t)
              b == P(s) \o P(t)
  <2>2. \A i \in 1..m + n : a[i] = b[i]
    <3>. TAKE i \in 1..m + n
    <3>1. CASE i \in 1..m
      BY <1>4, <1>5, <3>1
    <3>2. CASE i - m \in 1..n /\ i = m + (i - m)
      <4>1. P(s \o t)[m + (i - m)] = P(t)[i - m]
        BY <1>5, <3>2
      <4>2. (P(s) \o P(t))[m + (i - m)] = P(t)[i - m]
        BY <1>4, <3>2
      <4>. QED BY <3>2, <4>1, <4>2
    <3>. QED BY <2>1, <3>1, <3>2
  <2>3. Len(a) = m + n /\ Len(b) = m + n /\ a \in Seq(V) /\ b \in Seq(V)
    BY <1>3, <1>4, <1>5
  <2>. HIDE DEF a, b
  <2>4. a = b
    BY <2>2, <2>3, SeqEqual
  <2>. QED BY <2>4 DEF a, b
<1>7. FlattenSeq(P(s) \o P(t)) = FlattenSeq(P(s)) \o FlattenSeq(P(t))
  BY <1>2, FlattenConcat
<1>8. FlattenSeq(P(s \o t)) = FlattenSeq(P(s)) \o FlattenSeq(P(t))
  BY <1>6, <1>7
<1>. QED BY <1>1, <1>8 DEF Mapped, P

GoesThrough(D, h) ==
    \A s, t \in Seq(D) : s \o t \in Seq(D) /\ Mapped(s \o t, h) = Mapped(s, h) \o Mapped(t, h)

\* ... of any two texts ...
LEMMA MappedConcats ==
  ASSUME NEW D, NEW T, NEW h \in [D -> Seq(T)]
  PROVE  GoesThrough(D, h)
BY MappedConcat DEF GoesThrough

\* ... a single token becomes its image ...
LEMMA MappedOne ==
  ASSUME NEW D, NEW T, NEW h \in [D -> Seq(T)], NEW x \in D
  PROVE  Mapped(<<x>>, h) = h[x]
<1>. DEFINE s == <<x>>
            q == Images(s, h)
<1>1. s \in Seq(D) /\ Len(s) = 1 /\ s[1] = x
  OBVIOUS
<1>. HIDE DEF s
<1>2. q \in Seq(Seq(T)) /\ Len(q) = 1 /\ q[1] = h[x]
  <2>1. ImagesOver(s, h, T)
    BY <1>1, MappedParts
  <2>. QED BY <1>1, <2>1 DEF ImagesOver
<1>3. h[x] \in Seq(T)
  OBVIOUS
<1>. DEFINE v == h[x]
            V == Seq(T)
<1>4. q = <<v>>
  <2>. HIDE DEF q, v, V
  <2>1. q \in Seq(V) /\ Len(q) = 1 /\ q[1] = v
    BY <1>2 DEF V, v
  <2>. QED BY <2>1
<1>5. FlattenSeq(<<v>>) = v
  BY <1>3, FlattenOne
<1>. HIDE DEF q
<1>6. FlattenSeq(q) = h[x]
  BY <1>4, <1>5
<1>. QED BY <1>6 DEF Mapped, q, s

\* ... and a text whose tokens stay stays.
LEMMA MappedSame ==
  ASSUME NEW D, NEW T, NEW h \in [D -> Seq(T)], NEW s \in Seq(D), s \in Seq(T),
         \A i \in 1..Len(s) : h[s[i]] = <<s[i]>>
  PROVE  Mapped(s, h) = s
<1>. DEFINE q == Images(s, h)
<1>1. q \in Seq(Seq(T)) /\ Len(q) = Len(s) /\ \A i \in 1..Len(s) : q[i] = h[s[i]]
  <2>1. ImagesOver(s, h, T)
    BY MappedParts
  <2>. QED BY <2>1 DEF ImagesOver
<1>. HIDE DEF q
<1>2. \A i \in 1..Len(s) : q[i] = <<s[i]>>
  BY <1>1
<1>3. FlattenSeq(q) = s
  BY <1>1, <1>2, FlattenSingles
<1>. QED BY <1>3 DEF Mapped, q

-----------------------------------------------------------------------------
(* Placeholders *)

Placeholder == {Base[type] : type \in DefaultEntities} \X Nat

FirstKind(text, list, i) ==
    CHOOSE j \in 1..i : SameKey(text, list, i, j) /\ FirstOfItsKind(text, list, j)

KindsUpTo(text, list, f, type) ==
    {j \in 1..f : list[j].type = type /\ FirstOfItsKind(text, list, j)}

\* A value has a first occurrence.
LEMMA FirstKindExists ==
  ASSUME NEW text, NEW list, NEW i \in Nat, i > 0
  PROVE  LET f == FirstKind(text, list, i) IN
         f \in 1..i /\ SameKey(text, list, i, f) /\ FirstOfItsKind(text, list, f)
<1>. DEFINE Same(j, k) == SameKey(text, list, j, k)
            u == {j \in 1..i : Same(i, j)}
<1>0. \A j, k, l : Same(j, j) /\ (Same(i, j) /\ Same(j, k) => Same(i, k))
  BY DEF SameKey
<1>. HIDE DEF Same
<1>1. u \in SUBSET (1..i) /\ u # {}
  BY <1>0
<1>2. PICK x \in u : \A y \in u : x <= y
  BY <1>1, MinExists
<1>3. \A y \in 1..x - 1 : ~Same(x, y)
  <2>. SUFFICES ASSUME NEW y \in 1..x - 1, Same(x, y) PROVE FALSE
    OBVIOUS
  <2>1. y \in 1..i /\ y < x
    BY <1>1
  <2>2. Same(i, y)
    BY <1>0
  <2>. QED BY <1>2, <2>1, <2>2
<1>4. x \in 1..i /\ SameKey(text, list, i, x) /\ FirstOfItsKind(text, list, x)
  BY <1>3 DEF Same, FirstOfItsKind
<1>. QED BY <1>4 DEF FirstKind

\* A placeholder: the name of the type, and the number of values of it up to the first
\* occurrence of this one (anonymize_text_with_mapping).
LEMMA TagIs ==
  ASSUME NEW text, NEW list, NEW i
  PROVE  Tag(text, list, i) = <<Base[list[i].type],
            Cardinality(KindsUpTo(text, list, FirstKind(text, list, i), list[i].type))>>
BY DEF Tag, KindsUpTo, FirstKind

\* The first values of a type can be counted.
LEMMA KindsCounted ==
  ASSUME NEW text, NEW list, NEW f \in Nat, NEW type
  PROVE  /\ IsFiniteSet(KindsUpTo(text, list, f, type))
         /\ Cardinality(KindsUpTo(text, list, f, type)) \in Nat
<1>1. IsFiniteSet(1..f)
  BY FS_Interval
<1>2. KindsUpTo(text, list, f, type) \subseteq 1..f
  BY DEF KindsUpTo
<1>. QED BY <1>1, <1>2, FS_Subset, FS_CardinalityType

\* A placeholder is a name of the detection's type with a number.
LEMMA TagIsPlaceholder ==
  ASSUME NEW text, NEW list, NEW i \in Nat, i > 0, list[i].type \in DefaultEntities
  PROVE  Tag(text, list, i) \in Placeholder
<1>1. FirstKind(text, list, i) \in Nat
  BY FirstKindExists
<1>2. Cardinality(KindsUpTo(text, list, FirstKind(text, list, i), list[i].type)) \in Nat
  BY <1>1, KindsCounted
<1>. QED BY <1>2, TagIs DEF Placeholder

\* Later first values of a type have higher numbers.
LEMMA KindsGrow ==
  ASSUME NEW text, NEW list, NEW f \in Nat, NEW g \in Nat, 0 < f, f < g, NEW type,
         list[g].type = type, FirstOfItsKind(text, list, g)
  PROVE  Cardinality(KindsUpTo(text, list, f, type)) < Cardinality(KindsUpTo(text, list, g, type))
<1>. DEFINE K(h) == KindsUpTo(text, list, h, type)
<1>1. K(f) \subseteq K(g) /\ g \in K(g) /\ g \notin K(f)
  BY DEF KindsUpTo
<1>2. /\ IsFiniteSet(K(g)) /\ Cardinality(K(f)) \in Nat /\ Cardinality(K(g)) \in Nat
  BY KindsCounted
<1>. HIDE DEF K
<1>3. /\ Cardinality(K(f)) <= Cardinality(K(g))
      /\ Cardinality(K(g)) = Cardinality(K(f)) => K(g) = K(f)
  BY <1>1, <1>2, FS_Subset
<1>4. Cardinality(K(f)) < Cardinality(K(g))
  BY <1>1, <1>2, <1>3
<1>. QED BY <1>4 DEF K

\* Two values of one type with one placeholder are one value.
LEMMA TagsTellValuesApart ==
  ASSUME NEW text, NEW list, NEW i \in Nat, i > 0, NEW j \in Nat, j > 0,
         list[i].type = list[j].type, Tag(text, list, i) = Tag(text, list, j)
  PROVE  Value(text, list[i]) = Value(text, list[j])
<1>. DEFINE f == FirstKind(text, list, i)
            g == FirstKind(text, list, j)
            type == list[i].type
            Count(h) == Cardinality(KindsUpTo(text, list, h, type))
<1>1. f \in Nat /\ f > 0 /\ SameKey(text, list, i, f) /\ FirstOfItsKind(text, list, f)
  BY FirstKindExists
<1>2. g \in Nat /\ g > 0 /\ SameKey(text, list, j, g) /\ FirstOfItsKind(text, list, g)
  BY FirstKindExists
<1>3. Count(f) = Count(g)
  BY TagIs
<1>4. Count(f) \in Nat /\ Count(g) \in Nat
  BY <1>1, <1>2, KindsCounted
<1>5. list[f].type = type /\ list[g].type = type
  BY <1>1, <1>2 DEF SameKey
<1>6. ~(f < g) /\ ~(g < f)
  <2>1. f < g => Count(f) < Count(g)
    BY <1>1, <1>2, <1>5, KindsGrow
  <2>2. g < f => Count(g) < Count(f)
    BY <1>1, <1>2, <1>5, KindsGrow
  <2>. HIDE DEF f, g, Count
  <2>. QED BY <1>3, <1>4, <2>1, <2>2
<1>7. f = g
  <2>. HIDE DEF f, g
  <2>. QED BY <1>1, <1>2, <1>6
<1>. QED BY <1>1, <1>2, <1>7 DEF SameKey

\* The two kinds of telephone number share a name, no other types do.
LEMMA NamesTellTypesApart ==
  ASSUME NEW s \in DefaultEntities, NEW t \in DefaultEntities, Base[s] = Base[t]
  PROVE  s = t \/ (s = "PHONE_NUMBER" /\ t = "NL_PHONE") \/ (s = "NL_PHONE" /\ t = "PHONE_NUMBER")
BY DEF DefaultEntities, Base

\* The mapping has every placeholder, with a value that has it.
LEMMA MappingOwners ==
  ASSUME NEW text, NEW list, NEW m \in Nat, DOMAIN list = 1..m
  PROVE  /\ \A i \in 1..m : Tag(text, list, i) \in DOMAIN Mapping(text, list)
         /\ \A tag \in DOMAIN Mapping(text, list) : \E i \in 1..m :
               Tag(text, list, i) = tag /\ Mapping(text, list)[tag] = Value(text, list[i])
<1>. DEFINE firsts == {i \in 1..m : FirstOfItsKind(text, list, i)}
            T(i) == Tag(text, list, i)
            Owner(tag) == CHOOSE i \in firsts : T(i) = tag /\ \A j \in firsts : T(j) = tag => j <= i
            map == [tag \in {T(i) : i \in firsts} |-> Value(text, list[Owner(tag)])]
<1>1. Mapping(text, list) = map
  BY DEF Mapping
<1>2. \A i \in 1..m : \E f \in firsts : T(f) = T(i)
  <2>. TAKE i \in 1..m
  <2>. DEFINE f == FirstKind(text, list, i)
              e == FirstKind(text, list, f)
  <2>1. f \in 1..i /\ SameKey(text, list, i, f) /\ FirstOfItsKind(text, list, f)
    BY FirstKindExists
  <2>2. e \in 1..f /\ SameKey(text, list, f, e) /\ FirstOfItsKind(text, list, e)
    <3>. HIDE DEF f
    <3>1. f \in Nat /\ f > 0
      BY <2>1
    <3>. QED BY <3>1, FirstKindExists
  <2>. HIDE DEF f, e
  <2>3. e = f
    <3>1. ~(e \in 1..f - 1)
      BY <2>1, <2>2 DEF FirstOfItsKind
    <3>. QED BY <2>1, <2>2, <3>1
  <2>4. list[f].type = list[i].type
    BY <2>1 DEF SameKey
  <2>5. T(f) = T(i)
    BY <2>3, <2>4, TagIs DEF f, e
  <2>6. f \in firsts
    BY <2>1
  <2>. QED BY <2>5, <2>6
<1>3. \A tag \in {T(i) : i \in firsts} : Owner(tag) \in firsts /\ T(Owner(tag)) = tag
  <2>. TAKE tag \in {T(i) : i \in firsts}
  <2>. DEFINE u == {i \in firsts : T(i) = tag}
  <2>. HIDE DEF T
  <2>1. u \in SUBSET (1..m) /\ u # {}
    OBVIOUS
  <2>2. Max(u) \in u /\ \A y \in u : y <= Max(u)
    BY <2>1, MaxExists
  <2>. QED BY <2>2
<1>. HIDE DEF T, Owner, firsts
<1>4. \A i \in 1..m : T(i) \in DOMAIN map
  BY <1>2
<1>5. \A tag \in DOMAIN map :
         /\ T(Owner(tag)) = tag /\ Owner(tag) \in 1..m
         /\ map[tag] = Value(text, list[Owner(tag)])
  BY <1>3 DEF firsts
<1>. HIDE DEF map
<1>. QED BY <1>1, <1>4, <1>5 DEF T

\* A number is found as one kind of telephone number only, or as both with the same digits.
PhonesAgree(text, list, m) ==
    \A i, j \in 1..m : list[i].type = "PHONE_NUMBER" /\ list[j].type = "NL_PHONE" =>
                           Value(text, list[i]) = Value(text, list[j])

\* What is masked comes back with its placeholder unless both kinds of telephone number do.
LEMMA MappingGivesValues ==
  ASSUME NEW text, NEW list, NEW m \in Nat, DOMAIN list = 1..m,
         \A i \in 1..m : list[i].type \in DefaultEntities,
         PhonesAgree(text, list, m)
  PROVE  \A i \in 1..m : Mapping(text, list)[Tag(text, list, i)] = Value(text, list[i])
<1>. TAKE i \in 1..m
<1>1. PICK j \in 1..m : /\ Tag(text, list, j) = Tag(text, list, i)
                        /\ Mapping(text, list)[Tag(text, list, i)] = Value(text, list[j])
  BY MappingOwners
<1>2. Base[list[i].type] = Base[list[j].type]
  BY <1>1, TagIs
<1>3. CASE list[i].type = list[j].type
  BY <1>1, <1>3, TagsTellValuesApart
<1>4. CASE list[i].type # list[j].type
  BY <1>1, <1>2, <1>4, NamesTellTypesApart DEF PhonesAgree
<1>. QED BY <1>3, <1>4

-----------------------------------------------------------------------------
(* The masked text *)

\* Where the text is cut: every masked span starts after the one before it.
LEMMA Cuts ==
  ASSUME NEW n \in Nat, NEW list, IsKept(list, n), NEW m \in Nat, m = Len(list)
  PROVE  /\ DOMAIN list = 1..m
         /\ EndBefore(list, 1) = 1
         /\ \A k \in 1..m : /\ list[k].type \in DefaultEntities /\ list[k].score \in Int
                            /\ list[k].from \in 1..n /\ list[k].to \in 1..n + 1
                            /\ list[k].from < list[k].to
                            /\ EndBefore(list, k) <= list[k].from
                            /\ EndBefore(list, k + 1) = list[k].to
         /\ \A k \in 1..m + 1 : EndBefore(list, k) \in 1..n + 1
<1>1. list \in Seq(Spans(n)) /\ DOMAIN list = 1..m
  BY DEF IsKept
<1>2. \A d \in Spans(n) : /\ d.type \in DefaultEntities /\ d.score \in Int
                          /\ d.from \in 1..n /\ d.to \in 1..n + 1 /\ d.from < d.to
  BY DEF Spans
<1>3. \A k \in 1..m : list[k] \in Spans(n)
  BY <1>1
<1>4. \A k \in 1..m : /\ list[k].type \in DefaultEntities /\ list[k].score \in Int
                      /\ list[k].from \in 1..n /\ list[k].to \in 1..n + 1 /\ list[k].from < list[k].to
  <2>. HIDE DEF Spans
  <2>. QED BY <1>2, <1>3
<1>5. EndBefore(list, 1) = 1
  BY DEF EndBefore
<1>6. \A k \in 1..m : EndBefore(list, k + 1) = list[k].to
  BY DEF EndBefore
<1>7. \A k \in 1..m : EndBefore(list, k) <= list[k].from
  <2>. TAKE k \in 1..m
  <2>1. CASE k = 1
    BY <1>4, <1>5, <2>1
  <2>2. CASE k # 1
    <3>1. k - 1 \in 1..m /\ k - 1 < k
      BY <2>2
    <3>2. list[k - 1].to <= list[k].from
      BY <1>1, <3>1 DEF IsKept
    <3>. QED BY <2>2, <3>2 DEF EndBefore
  <2>. QED BY <2>1, <2>2
<1>8. \A k \in 1..m + 1 : EndBefore(list, k) \in 1..n + 1
  <2>. TAKE k \in 1..m + 1
  <2>1. CASE k = 1
    BY <1>5, <2>1
  <2>2. CASE k # 1
    <3>1. k - 1 \in 1..m
      BY <2>2
    <3>2. list[k - 1].to \in 1..n + 1
      BY <1>4, <3>1
    <3>. QED BY <2>2, <3>2 DEF EndBefore
  <2>. QED BY <2>1, <2>2
<1>. QED BY <1>1, <1>4, <1>5, <1>6, <1>7, <1>8

\* The stretch before the k-th masked span, or after the last.
Stretch(text, list, k) ==
    SubSeq(text, EndBefore(list, k), IF k > Len(list) THEN Len(text) ELSE list[k].from - 1)

\* P holds the masked text up to and with each masked span.
Masks(P, text, list, m, T) ==
    /\ P \in [0..m -> Seq(T)]
    /\ P[0] = <<>>
    /\ \A k \in 1..m : P[k] = P[k - 1] \o (Stretch(text, list, k) \o <<Tag(text, list, k)>>)
    /\ Masked(text, list) = P[m] \o Stretch(text, list, m + 1)

\* What stands between masked spans is part of the text.
LEMMA StretchesOfText ==
  ASSUME NEW G, NEW text \in Seq(G), NEW list, IsKept(list, Len(text)),
         NEW k \in 1..Len(list) + 1
  PROVE  Stretch(text, list, k) \in Seq(G)
<1>0. PICK n \in Nat, m \in Nat : n = Len(text) /\ m = Len(list)
  BY DEF IsKept
<1>1. EndBefore(list, k) \in 1..n + 1
  BY <1>0, Cuts
<1>2. CASE k > m
  <2>1. \A i \in EndBefore(list, k)..n : text[i] \in G
    BY <1>0, <1>1
  <2>2. SubSeq(text, EndBefore(list, k), n) \in Seq(G)
    BY <1>1, <2>1, SubSeqProperties
  <2>. QED BY <1>0, <1>2, <2>2 DEF Stretch
<1>3. CASE ~(k > m)
  <2>0. k \in 1..m
    BY <1>0, <1>3
  <2>1. list[k].from \in 1..n
    BY <1>0, <2>0, Cuts
  <2>2. \A i \in EndBefore(list, k)..list[k].from - 1 : text[i] \in G
    BY <1>0, <1>1, <2>1
  <2>3. EndBefore(list, k) \in Int /\ list[k].from - 1 \in Int
    BY <1>1, <2>1
  <2>4. SubSeq(text, EndBefore(list, k), list[k].from - 1) \in Seq(G)
    BY <2>2, <2>3, SubSeqProperties
  <2>. QED BY <1>0, <1>3, <2>4 DEF Stretch
<1>. QED BY <1>2, <1>3

\* The masked text grows span by span.
LEMMA MaskedPrefixes ==
  ASSUME NEW G, NEW text \in Seq(G), NEW list, IsKept(list, Len(text)), NEW m \in Nat, m = Len(list),
         NEW T, G \subseteq T, \A k \in 1..m : Tag(text, list, k) \in T
  PROVE  \E P : Masks(P, text, list, m, T)
<1>. DEFINE part(k) == Stretch(text, list, k) \o <<Tag(text, list, k)>>
            parts == [k \in DOMAIN list |-> part(k)]
            tail == Stretch(text, list, m + 1)
<1>0. DOMAIN list = 1..m
  BY DEF IsKept
<1>1. \A k \in 1..m : part(k) \in Seq(T)
  <2>. TAKE k \in 1..m
  <2>1. Stretch(text, list, k) \in Seq(G)
    BY StretchesOfText
  <2>. DEFINE s == Stretch(text, list, k)
              t == Tag(text, list, k)
  <2>. HIDE DEF s, t
  <2>2. s \in Seq(T) /\ <<t>> \in Seq(T)
    BY <2>1 DEF s, t
  <2>3. s \o <<t>> \in Seq(T)
    BY <2>2, ConcatProperties
  <2>. QED BY <2>3 DEF s, t
<1>2. Masked(text, list) = FlattenSeq(parts) \o tail
  <2>1. parts = [i \in DOMAIN list |->
                   SubSeq(text, EndBefore(list, i), list[i].from - 1) \o <<Tag(text, list, i)>>]
    <3>1. \A k \in 1..m : ~(k > Len(list))
      OBVIOUS
    <3>2. \A k \in 1..m :
             Stretch(text, list, k) = SubSeq(text, EndBefore(list, k), list[k].from - 1)
      BY <3>1, Zenon DEF Stretch
    <3>. QED BY <1>0, <3>2, Zenon
  <2>2. tail = SubSeq(text, EndBefore(list, Len(list) + 1), Len(text))
    <3>1. m + 1 > Len(list)
      OBVIOUS
    <3>. QED BY <3>1, Zenon DEF Stretch
  <2>. HIDE DEF parts, tail
  <2>. QED BY <2>1, <2>2 DEF Masked
<1>. HIDE DEF part, tail
<1>3. parts \in Seq(Seq(T)) /\ Len(parts) = m /\ \A k \in 1..m : parts[k] = part(k)
  <2>. DEFINE V == Seq(T)
  <2>1. \A k \in 1..m : part(k) \in V
    BY <1>1
  <2>. HIDE DEF V
  <2>2. parts \in Seq(V) /\ Len(parts) = m /\ \A k \in 1..m : parts[k] = part(k)
    BY <1>0, <2>1
  <2>. QED BY <2>2 DEF V
<1>. HIDE DEF parts
<1>4. PICK P : Flattens(P, parts, m, T)
  BY <1>3, FlattenPrefixes
<1>5. /\ P \in [0..m -> Seq(T)] /\ P[0] = <<>>
      /\ (\A k \in 1..m : P[k] = P[k - 1] \o part(k)) /\ FlattenSeq(parts) = P[m]
  BY <1>3, <1>4 DEF Flattens
<1>6. Masks(P, text, list, m, T)
  BY <1>2, <1>5 DEF Masks, part, tail
<1>. QED BY <1>6

-----------------------------------------------------------------------------
(* Putting back *)

\* What a token is turned into.
Back(m, D) ==
    [t \in D |-> IF ~IsTag(t) THEN <<t>> ELSE IF t \in DOMAIN m THEN m[t] ELSE <<Omitted>>]

\* Putting back maps token by token (restore_placeholders).
LEMMA RestoredIsMapped ==
  ASSUME NEW D, NEW s \in Seq(D), NEW m
  PROVE  Restored(s, m) = Mapped(s, Back(m, D))
<1>. DEFINE b(t) == IF ~IsTag(t) THEN <<t>> ELSE IF t \in DOMAIN m THEN m[t] ELSE <<Omitted>>
<1>1. \A i \in DOMAIN s : s[i] \in D
  OBVIOUS
<1>2. Back(m, D) = [t \in D |-> b(t)]
  BY DEF Back
<1>3. Restored(s, m) = FlattenSeq([i \in DOMAIN s |-> b(s[i])])
  BY DEF Restored
<1>. HIDE DEF b
<1>4. [i \in DOMAIN s |-> b(s[i])] = Images(s, Back(m, D))
  BY <1>1, <1>2 DEF Images
<1>. QED BY <1>3, <1>4, Zenon DEF Mapped

\* Where words, values and the filler are among the tokens, so is what a token is turned into.
LEMMA BackStays ==
  ASSUME NEW D, NEW G, NEW m,
         \A t \in D : ~IsTag(t) => t \in G,
         \A t \in D : IsTag(t) /\ t \in DOMAIN m => m[t] \in Seq(G),
         \A t \in D : IsTag(t) /\ t \notin DOMAIN m => Omitted \in G
  PROVE  Back(m, D) \in [D -> Seq(G)]
<1>. DEFINE b(t) == IF ~IsTag(t) THEN <<t>> ELSE IF t \in DOMAIN m THEN m[t] ELSE <<Omitted>>
<1>1. \A t \in D : b(t) \in Seq(G)
  <2>. TAKE t \in D
  <2>1. CASE ~IsTag(t)
    BY <2>1, ShortSequences, Zenon
  <2>2. CASE IsTag(t) /\ t \in DOMAIN m
    BY <2>2, Zenon
  <2>3. CASE IsTag(t) /\ t \notin DOMAIN m
    BY <2>3, ShortSequences, Zenon
  <2>. QED BY <2>1, <2>2, <2>3
<1>2. Back(m, D) = [t \in D |-> b(t)]
  BY DEF Back
<1>. HIDE DEF b
<1>. DEFINE V == Seq(G)
<1>. HIDE DEF V
<1>3. Back(m, D) \in [D -> V]
  BY <1>1, <1>2 DEF V
<1>. QED BY <1>3 DEF V

\* Putting back turns texts over some tokens into texts over others.
LEMMA RestoredStays ==
  ASSUME NEW D, NEW G, NEW m,
         \A t \in D : ~IsTag(t) => t \in G,
         \A t \in D : IsTag(t) /\ t \in DOMAIN m => m[t] \in Seq(G),
         \A t \in D : IsTag(t) /\ t \notin DOMAIN m => Omitted \in G
  PROVE  \A s \in Seq(D) : Restored(s, m) \in Seq(G)
<1>. TAKE s \in Seq(D)
<1>1. Back(m, D) \in [D -> Seq(G)]
  BY BackStays
<1>2. Mapped(s, Back(m, D)) \in Seq(G)
  BY <1>1, MappedParts
<1>. QED BY <1>2, RestoredIsMapped

\* Placeholders look like placeholders.
LEMMA TagsAreTags == \A text, list, i : IsTag(Tag(text, list, i))
BY TagIs DEF IsTag

\* The masked values are part of the text.
LEMMA ValuesOfText ==
  ASSUME NEW G, NEW text \in Seq(G), NEW list, IsKept(list, Len(text)), NEW k \in 1..Len(list)
  PROVE  Value(text, list[k]) \in Seq(G)
<1>0. PICK n \in Nat, m \in Nat : n = Len(text) /\ m = Len(list)
  BY DEF IsKept
<1>1. list[k].from \in 1..n /\ list[k].to \in 1..n + 1
  BY <1>0, Cuts
<1>2. \A i \in list[k].from..list[k].to - 1 : text[i] \in G
  BY <1>0, <1>1
<1>3. list[k].from \in Int /\ list[k].to - 1 \in Int
  BY <1>1
<1>. QED BY <1>2, <1>3, SubSeqProperties DEF Value

\* The tokens of what is sent, and the values of the mapping.
LEMMA SentStays ==
  ASSUME NEW G, NEW text \in Seq(G), NEW list, IsKept(list, Len(text)), NEW m \in Nat, m = Len(list)
  PROVE  /\ Masked(text, list) \in Seq(G \union DOMAIN Mapping(text, list))
         /\ \A tag \in DOMAIN Mapping(text, list) :
               IsTag(tag) /\ tag \in Placeholder /\ Mapping(text, list)[tag] \in Seq(G)
<1>. DEFINE map == Mapping(text, list)
            D == G \union DOMAIN map
<1>0. DOMAIN list = 1..m /\ \A k \in 1..m : list[k].type \in DefaultEntities
  <2>1. Len(text) \in Nat
    OBVIOUS
  <2>. QED BY <2>1, Cuts
<1>1. /\ \A i \in 1..m : Tag(text, list, i) \in DOMAIN map
      /\ \A tag \in DOMAIN map : \E i \in 1..m :
               Tag(text, list, i) = tag /\ map[tag] = Value(text, list[i])
  BY <1>0, MappingOwners
<1>. HIDE DEF map
<1>2. \A tag \in DOMAIN map : IsTag(tag) /\ tag \in Placeholder /\ map[tag] \in Seq(G)
  <2>. TAKE tag \in DOMAIN map
  <2>1. PICK i \in 1..m : Tag(text, list, i) = tag /\ map[tag] = Value(text, list[i])
    BY <1>1
  <2>2. Value(text, list[i]) \in Seq(G)
    BY ValuesOfText
  <2>3. Tag(text, list, i) \in Placeholder
    BY <1>0, TagIsPlaceholder
  <2>. QED BY <2>1, <2>2, <2>3, TagsAreTags
<1>3. \A k \in 1..m : Tag(text, list, k) \in D
  BY <1>1
<1>4. G \subseteq D
  OBVIOUS
<1>. HIDE DEF D
<1>5. PICK P : Masks(P, text, list, m, D)
  BY <1>3, <1>4, MaskedPrefixes
<1>6. Stretch(text, list, m + 1) \in Seq(G)
  BY StretchesOfText
<1>7. Stretch(text, list, m + 1) \in Seq(D)
  BY <1>4, <1>6
<1>8. P[m] \in Seq(D)
  BY <1>5 DEF Masks
<1>9. Masked(text, list) \in Seq(D)
  BY <1>5, <1>7, <1>8, ConcatProperties DEF Masks
<1>. QED BY <1>2, <1>9 DEF D, map

\* Putting back into what was sent gives the message, if the message has no placeholders and no
\* two telephone numbers share one.
LEMMA MaskedComesBack ==
  ASSUME NEW G, NEW text \in Seq(G), \A t \in G : ~IsTag(t),
         NEW list, IsKept(list, Len(text)), NEW m \in Nat, m = Len(list),
         PhonesAgree(text, list, m)
  PROVE  Restored(Masked(text, list), Mapping(text, list)) = text
<1>. DEFINE map == Mapping(text, list)
            D == G \union DOMAIN map
            h == Back(map, D)
            c(k) == EndBefore(list, k)
            T(k) == Tag(text, list, k)
            St(k) == Stretch(text, list, k)
<1>0. PICK n \in Nat : n = Len(text)
  OBVIOUS
<1>1. /\ DOMAIN list = 1..m /\ c(1) = 1
      /\ \A k \in 1..m : /\ list[k].type \in DefaultEntities
                         /\ list[k].from \in 1..n /\ list[k].to \in 1..n + 1
                         /\ list[k].from < list[k].to
                         /\ c(k) <= list[k].from /\ c(k + 1) = list[k].to
      /\ \A k \in 1..m + 1 : c(k) \in 1..n + 1
  <2>1. IsKept(list, n)
    BY <1>0
  <2>. HIDE DEF map, D, h, T, St, c
  <2>2. /\ DOMAIN list = 1..m /\ EndBefore(list, 1) = 1
        /\ \A k \in 1..m + 1 : EndBefore(list, k) \in 1..n + 1
    BY <2>1, Cuts
  <2>3. \A k \in 1..m : /\ list[k].type \in DefaultEntities
                         /\ list[k].from \in 1..n /\ list[k].to \in 1..n + 1
                         /\ list[k].from < list[k].to
                         /\ EndBefore(list, k) <= list[k].from
                         /\ EndBefore(list, k + 1) = list[k].to
    <3>1. \A k \in 1..m : /\ list[k].type \in DefaultEntities /\ list[k].score \in Int
                           /\ list[k].from \in 1..n /\ list[k].to \in 1..n + 1
                           /\ list[k].from < list[k].to
                           /\ EndBefore(list, k) <= list[k].from
                           /\ EndBefore(list, k + 1) = list[k].to
      BY <2>1, Cuts, SMTT(30)
    <3>. QED BY <3>1, Zenon
  <2>. QED BY <2>2, <2>3, Zenon DEF c
<1>2. /\ Masked(text, list) \in Seq(D)
      /\ \A tag \in DOMAIN map : IsTag(tag) /\ map[tag] \in Seq(G)
  BY SentStays
<1>3. \A k \in 1..m : T(k) \in DOMAIN map
  BY <1>1, MappingOwners
<1>4. \A k \in 1..m : map[T(k)] = Value(text, list[k])
  <2>1. DOMAIN list = 1..m /\ \A i \in 1..m : list[i].type \in DefaultEntities
    BY <1>1
  <2>2. \A i \in 1..m : Mapping(text, list)[Tag(text, list, i)] = Value(text, list[i])
    BY <2>1, MappingGivesValues
  <2>. QED BY <2>2
<1>. HIDE DEF map, c, T, St
<1>5. h \in [D -> Seq(G)]
  <2>1. /\ \A t \in D : ~IsTag(t) => t \in G
        /\ \A t \in D : IsTag(t) /\ t \in DOMAIN map => map[t] \in Seq(G)
        /\ \A t \in D : IsTag(t) /\ t \notin DOMAIN map => Omitted \in G
    BY <1>2
  <2>. QED BY <2>1, BackStays
<1>6. /\ \A t \in G : t \in D /\ h[t] = <<t>>
      /\ \A tag \in DOMAIN map : tag \in D /\ h[tag] = map[tag]
  <2>1. \A t \in D : h[t] = IF ~IsTag(t) THEN <<t>> ELSE IF t \in DOMAIN map THEN map[t] ELSE <<Omitted>>
    BY DEF Back
  <2>. HIDE DEF h
  <2>2. \A t \in G : t \in D /\ ~IsTag(t)
    OBVIOUS
  <2>3. \A tag \in DOMAIN map : tag \in D /\ IsTag(tag)
    BY <1>2
  <2>. HIDE DEF D
  <2>. QED BY <2>1, <2>2, <2>3, Zenon
<1>. HIDE DEF h
<1>7. \A s \in Seq(G) : s \in Seq(D) /\ Mapped(s, h) = s
  <2>. TAKE s \in Seq(G)
  <2>1. s \in Seq(D)
    OBVIOUS
  <2>2. \A i \in 1..Len(s) : h[s[i]] = <<s[i]>>
    BY <1>6
  <2>. HIDE DEF D
  <2>. QED BY <1>5, <2>1, <2>2, MappedSame
<1>8. \A k \in 1..m + 1 : St(k) \in Seq(G)
  BY StretchesOfText DEF St
<1>9. \A k \in 1..m : /\ St(k) = SubSeq(text, c(k), list[k].from - 1)
                      /\ map[T(k)] = SubSeq(text, list[k].from, list[k].to - 1)
  <2>1. \A k \in 1..m : ~(k > Len(list))
    OBVIOUS
  <2>. QED BY <1>4, <2>1, Zenon DEF St, Stretch, Value, c
<1>10. St(m + 1) = SubSeq(text, c(m + 1), n)
  <2>1. m + 1 > Len(list)
    OBVIOUS
  <2>. QED BY <1>0, <2>1, Zenon DEF St, Stretch, c
<1>11. G \subseteq D /\ \A k \in 1..m : T(k) \in D
  BY <1>3
<1>. HIDE DEF D
<1>12. PICK P : Masks(P, text, list, m, D)
  BY <1>11, MaskedPrefixes DEF T
<1>13. /\ P \in [0..m -> Seq(D)] /\ P[0] = <<>>
       /\ \A k \in 1..m : P[k] = P[k - 1] \o (St(k) \o <<T(k)>>)
       /\ Masked(text, list) = P[m] \o St(m + 1)
  BY <1>12 DEF Masks, St, T
<1>14. \A s, t \in Seq(D) : s \o t \in Seq(D) /\ Mapped(s \o t, h) = Mapped(s, h) \o Mapped(t, h)
  <2>1. GoesThrough(D, h)
    BY <1>5, MappedConcats
  <2>. QED BY <2>1 DEF GoesThrough
<1>15. \A k \in 1..m : <<T(k)>> \in Seq(D) /\ Mapped(<<T(k)>>, h) = map[T(k)]
  <2>. TAKE k \in 1..m
  <2>1. T(k) \in D /\ h[T(k)] = map[T(k)]
    BY <1>3, <1>6
  <2>2. Mapped(<<T(k)>>, h) = h[T(k)]
    BY <1>5, <2>1, MappedOne
  <2>. QED BY <2>1, <2>2, ShortSequences, Zenon
<1>16. \A a, b, e \in 1..n + 1 : a <= b /\ b <= e =>
          SubSeq(text, a, b - 1) \o SubSeq(text, b, e - 1) = SubSeq(text, a, e - 1)
  <2>. SUFFICES ASSUME NEW a \in 1..n + 1, NEW b \in 1..n + 1, NEW e \in 1..n + 1, a <= b, b <= e
                PROVE  SubSeq(text, a, b - 1) \o SubSeq(text, b, e - 1) = SubSeq(text, a, e - 1)
    OBVIOUS
  <2>1. /\ a \in 1..Len(text) + 1 /\ b - 1 \in a - 1..Len(text) /\ e - 1 \in b - 1..Len(text)
        /\ (b - 1) + 1 = b
    BY <1>0
  <2>2. SubSeq(text, a, b - 1) \o SubSeq(text, (b - 1) + 1, e - 1) = SubSeq(text, a, e - 1)
    BY <2>1, ConcatAdjacentSubSeq
  <2>. QED BY <2>1, <2>2
<1>. DEFINE Good(k) == Mapped(P[k], h) = SubSeq(text, 1, c(k + 1) - 1)
<1>17. Good(0)
  <2>1. <<>> \in Seq(G)
    OBVIOUS
  <2>2. Mapped(<<>>, h) = <<>>
    BY <1>7, <2>1
  <2>3. c(0 + 1) - 1 = 0
    BY <1>1
  <2>4. SubSeq(text, 1, 0) = <<>>
    OBVIOUS
  <2>. QED BY <1>13, <2>2, <2>3, <2>4
<1>18. \A k \in 0..m - 1 : Good(k) => Good(k + 1)
  <2>. SUFFICES ASSUME NEW k \in 0..m - 1, Good(k) PROVE Good(k + 1)
    OBVIOUS
  <2>. DEFINE j == k + 1
              f == list[j].from
              e == list[j].to
  <2>0. j \in 1..m /\ j - 1 = k /\ j \in 1..m + 1 /\ k \in 0..m
    OBVIOUS
  <2>1. P[j] = P[k] \o (St(j) \o <<T(j)>>) /\ P[k] \in Seq(D)
    BY <1>13, <2>0
  <2>. HIDE DEF j
  <2>2. St(j) \in Seq(D) /\ Mapped(St(j), h) = St(j)
    BY <1>7, <1>8, <2>0
  <2>3. <<T(j)>> \in Seq(D) /\ Mapped(<<T(j)>>, h) = map[T(j)]
    BY <1>15, <2>0
  <2>4. Mapped(P[j], h) = Mapped(P[k], h) \o (St(j) \o map[T(j)])
    <3>1. St(j) \o <<T(j)>> \in Seq(D) /\ Mapped(St(j) \o <<T(j)>>, h) = St(j) \o map[T(j)]
      BY <1>14, <2>2, <2>3
    <3>. QED BY <1>14, <2>1, <3>1
  <2>5. c(j) \in 1..n + 1 /\ f \in 1..n + 1 /\ e \in 1..n + 1 /\ c(j) <= f /\ f <= e /\ c(j + 1) = e
        /\ 1 \in 1..n + 1 /\ 1 <= c(j) /\ c(j) <= e
    BY <1>1, <2>0
  <2>6. St(j) \o map[T(j)] = SubSeq(text, c(j), e - 1)
    <3>1. St(j) = SubSeq(text, c(j), f - 1) /\ map[T(j)] = SubSeq(text, f, e - 1)
      BY <1>9, <2>0
    <3>. HIDE DEF f, e
    <3>2. SubSeq(text, c(j), f - 1) \o SubSeq(text, f, e - 1) = SubSeq(text, c(j), e - 1)
      BY <1>16, <2>5
    <3>. QED BY <3>1, <3>2
  <2>7. Mapped(P[k], h) = SubSeq(text, 1, c(j) - 1)
    BY DEF j
  <2>8. SubSeq(text, 1, c(j) - 1) \o SubSeq(text, c(j), e - 1) = SubSeq(text, 1, e - 1)
    <3>. HIDE DEF f, e, Good
    <3>. QED BY <1>16, <2>5
  <2>9. Mapped(P[j], h) = SubSeq(text, 1, c(j + 1) - 1)
    BY <2>4, <2>5, <2>6, <2>7, <2>8
  <2>. QED BY <2>9 DEF j
<1>19. Good(m)
  <2>. DEFINE S == {k \in 0..m : Good(k)}
  <2>. HIDE DEF Good
  <2>1. 0 \in S /\ \A k \in 0..m - 1 : k \in S => k + 1 \in S
    BY <1>17, <1>18
  <2>. HIDE DEF S
  <2>2. \A k \in 0..m : k \in S
    BY <2>1, UpToInduction
  <2>. QED BY <2>2 DEF S
<1>20. Mapped(Masked(text, list), h) = text
  <2>1. P[m] \in Seq(D) /\ St(m + 1) \in Seq(D) /\ Mapped(St(m + 1), h) = St(m + 1)
    <3>1. m \in 0..m /\ m + 1 \in 1..m + 1
      OBVIOUS
    <3>. QED BY <1>7, <1>8, <1>13, <3>1
  <2>. HIDE DEF Good
  <2>2. Mapped(Masked(text, list), h) = Mapped(P[m], h) \o St(m + 1)
    <3>1. Mapped(P[m] \o St(m + 1), h) = Mapped(P[m], h) \o Mapped(St(m + 1), h)
      BY <1>14, <2>1
    <3>. QED BY <1>13, <2>1, <3>1
  <2>3. c(m + 1) \in 1..n + 1 /\ 1 \in 1..n + 1 /\ 1 <= c(m + 1) /\ n + 1 \in 1..n + 1
        /\ c(m + 1) <= n + 1 /\ (n + 1) - 1 = n
    BY <1>1
  <2>. HIDE DEF Good
  <2>4. SubSeq(text, 1, c(m + 1) - 1) \o SubSeq(text, c(m + 1), (n + 1) - 1) = SubSeq(text, 1, (n + 1) - 1)
    BY <1>16, <2>3
  <2>5. SubSeq(text, 1, n) = text
    BY <1>0, SubSeqFull
  <2>6. Mapped(P[m], h) = SubSeq(text, 1, c(m + 1) - 1)
    BY <1>19 DEF Good
  <2>. QED BY <1>10, <2>2, <2>3, <2>4, <2>5, <2>6
<1>21. Restored(Masked(text, list), map) = Mapped(Masked(text, list), h)
  BY <1>2, RestoredIsMapped DEF h
<1>. QED BY <1>20, <1>21 DEF map

-----------------------------------------------------------------------------
(* What words are sent *)

Keep(D) == [t \in D |-> IF ~IsTag(t) THEN <<t>> ELSE <<>>]

\* Taking the words out of a text maps token by token, too.
LEMMA WordsAreMapped ==
  ASSUME NEW D, NEW s \in Seq(D)
  PROVE  Words(s) = Mapped(s, Keep(D)) /\ Keep(D) \in [D -> Seq(D)]
<1>. DEFINE b(t) == IF ~IsTag(t) THEN <<t>> ELSE <<>>
            V == Seq(D)
<1>1. \A i \in DOMAIN s : s[i] \in D
  OBVIOUS
<1>2. Keep(D) = [t \in D |-> b(t)]
  BY DEF Keep
<1>3. Words(s) = FlattenSeq([i \in DOMAIN s |-> b(s[i])])
  BY DEF Words, Only
<1>4. \A t \in D : b(t) \in V
  <2>. TAKE t \in D
  <2>1. CASE ~IsTag(t)
    BY <2>1, ShortSequences, Zenon
  <2>2. CASE IsTag(t)
    BY <2>2, ShortSequences, Zenon
  <2>. QED BY <2>1, <2>2
<1>. HIDE DEF b, V
<1>5. [i \in DOMAIN s |-> b(s[i])] = Images(s, Keep(D))
  BY <1>1, <1>2 DEF Images
<1>6. Keep(D) \in [D -> V]
  BY <1>2, <1>4
<1>. QED BY <1>3, <1>5, <1>6, Zenon DEF Mapped, V

Beyond(text, list) ==
    [i \in DOMAIN text |->
        IF \E k \in DOMAIN list : list[k].from <= i /\ i < list[k].to THEN <<>> ELSE <<text[i]>>]

\* The stretches stay, the spans leave nothing.
TakenApart(q, text, list, m, n, G) ==
    /\ q \in Seq(Seq(G)) /\ Len(q) = n
    /\ \A k \in 1..m, i \in 1..n : EndBefore(list, k) <= i /\ i < list[k].from => q[i] = <<text[i]>>
    /\ \A i \in 1..n : EndBefore(list, m + 1) <= i => q[i] = <<text[i]>>
    /\ \A k \in 1..m, i \in 1..n : list[k].from <= i /\ i < list[k].to => q[i] = <<>>

\* The text taken apart at the spans.
LEMMA BeyondParts ==
  ASSUME NEW G, NEW text \in Seq(G), NEW list, IsKept(list, Len(text)), NEW m \in Nat, m = Len(list),
         NEW n \in Nat, n = Len(text)
  PROVE  TakenApart(Beyond(text, list), text, list, m, n, G)
<1>. DEFINE In(i) == \E k \in DOMAIN list : list[k].from <= i /\ i < list[k].to
            V == Seq(G)
            q == Beyond(text, list)
            c(k) == EndBefore(list, k)
<1>1. /\ DOMAIN list = 1..m /\ c(1) = 1
      /\ \A k \in 1..m : /\ list[k].from \in 1..n /\ list[k].to \in 1..n + 1
                         /\ list[k].from < list[k].to
                         /\ c(k) <= list[k].from /\ c(k + 1) = list[k].to
      /\ \A k \in 1..m + 1 : c(k) \in 1..n + 1
  BY Cuts
<1>2. \A j, k \in 1..m : j < k => list[j].to <= list[k].from
  BY <1>1 DEF IsKept
<1>3. DOMAIN text = 1..n /\ \A i \in 1..n : text[i] \in G
  OBVIOUS
<1>4. q = [i \in 1..n |-> IF In(i) THEN <<>> ELSE <<text[i]>>]
  BY <1>3 DEF Beyond
<1>. HIDE DEF In, V, q
<1>5. \A i \in 1..n : (In(i) => q[i] = <<>>) /\ (~In(i) => q[i] = <<text[i]>>)
  BY <1>4
<1>6. \A i \in 1..n : q[i] \in V
  <2>. TAKE i \in 1..n
  <2>1. CASE In(i)
    <3>1. q[i] = <<>>
      BY <1>5, <2>1
    <3>. QED BY <3>1, ShortSequences, Zenon DEF V
  <2>2. CASE ~In(i)
    <3>1. q[i] = <<text[i]>> /\ text[i] \in G
      BY <1>3, <1>5, <2>2
    <3>. QED BY <3>1, ShortSequences, Zenon DEF V
  <2>. QED BY <2>1, <2>2
<1>7. q = [i \in 1..n |-> q[i]]
  BY <1>4
<1>8. q \in Seq(V) /\ Len(q) = n
  BY <1>6, <1>7
<1>9. \A j \in 1..m, k \in 1..m + 1 : j < k => list[j].to <= c(k)
  <2>. SUFFICES ASSUME NEW j \in 1..m, NEW k \in 1..m + 1, j < k PROVE list[j].to <= c(k)
    OBVIOUS
  <2>1. k - 1 \in 1..m /\ (k - 1) + 1 = k
    OBVIOUS
  <2>2. c(k) = list[k - 1].to /\ list[k - 1].from < list[k - 1].to
    BY <1>1, <2>1
  <2>. HIDE DEF c
  <2>3. CASE j = k - 1
    BY <1>1, <2>1, <2>2, <2>3
  <2>4. CASE j < k - 1
    <3>1. list[j].to <= list[k - 1].from
      BY <1>2, <2>1, <2>4
    <3>. QED BY <1>1, <2>1, <2>2, <3>1
  <2>. QED BY <2>3, <2>4
<1>. HIDE DEF c
<1>10. \A k \in 1..m, i \in 1..n : c(k) <= i /\ i < list[k].from => ~In(i)
  <2>. SUFFICES ASSUME NEW k \in 1..m, NEW i \in 1..n, c(k) <= i, i < list[k].from,
                       NEW j \in 1..m, list[j].from <= i, i < list[j].to
                PROVE  FALSE
    BY <1>1 DEF In
  <2>1. CASE j < k
    <3>1. k \in 1..m + 1 /\ list[j].to \in 1..n + 1
      BY <1>1
    <3>2. c(k) \in 1..n + 1 /\ list[j].to <= c(k)
      BY <1>1, <1>9, <2>1, <3>1
    <3>. QED BY <3>1, <3>2
  <2>2. CASE j = k
    BY <1>1, <2>2
  <2>3. CASE k < j
    <3>1. list[k].to <= list[j].from
      BY <1>2, <2>3
    <3>. QED BY <1>1, <3>1
  <2>. QED BY <2>1, <2>2, <2>3
<1>11. \A i \in 1..n : c(m + 1) <= i => ~In(i)
  <2>. SUFFICES ASSUME NEW i \in 1..n, c(m + 1) <= i,
                       NEW j \in 1..m, list[j].from <= i, i < list[j].to
                PROVE  FALSE
    BY <1>1 DEF In
  <2>1. j < m + 1 /\ m + 1 \in 1..m + 1
    OBVIOUS
  <2>2. list[j].to <= c(m + 1)
    BY <1>9, <2>1
  <2>. QED BY <1>1, <2>1, <2>2
<1>12. \A k \in 1..m, i \in 1..n : list[k].from <= i /\ i < list[k].to => In(i)
  BY <1>1 DEF In
<1>. QED BY <1>5, <1>8, <1>10, <1>11, <1>12 DEF TakenApart, V, q, c

\* All words that are sent stand outside the masked spans.
LEMMA WordsOutside ==
  ASSUME NEW G, NEW text \in Seq(G), NEW list, IsKept(list, Len(text)), NEW m \in Nat, m = Len(list)
  PROVE  Words(Masked(text, list)) = Words(FlattenSeq(Beyond(text, list)))
<1>. DEFINE map == Mapping(text, list)
            D == G \union DOMAIN map
            h == Keep(D)
            c(k) == EndBefore(list, k)
            T(k) == Tag(text, list, k)
            St(k) == Stretch(text, list, k)
            q == Beyond(text, list)
            O(a, b) == FlattenSeq(SubSeq(q, a, b - 1))
<1>0. PICK n \in Nat : n = Len(text)
  OBVIOUS
<1>1. /\ DOMAIN list = 1..m /\ c(1) = 1
      /\ \A k \in 1..m : /\ list[k].from \in 1..n /\ list[k].to \in 1..n + 1
                         /\ list[k].from < list[k].to
                         /\ c(k) <= list[k].from /\ c(k + 1) = list[k].to
      /\ \A k \in 1..m + 1 : c(k) \in 1..n + 1
  BY <1>0, Cuts
<1>2. Masked(text, list) \in Seq(D)
  BY SentStays
<1>3. \A k \in 1..m : T(k) \in D /\ IsTag(T(k))
  BY <1>1, MappingOwners, TagsAreTags
<1>4. \A s \in Seq(D) : Words(s) = Mapped(s, h)
  BY WordsAreMapped
<1>5. h \in [D -> Seq(D)]
  <2>1. <<>> \in Seq(D)
    OBVIOUS
  <2>. QED BY <2>1, WordsAreMapped
<1>6. \A k \in 1..m : h[T(k)] = <<>>
  <2>. HIDE DEF T, D
  <2>. QED BY <1>3 DEF Keep
<1>7. /\ q \in Seq(Seq(G)) /\ Len(q) = n
      /\ \A k \in 1..m, i \in 1..n : c(k) <= i /\ i < list[k].from => q[i] = <<text[i]>>
      /\ \A i \in 1..n : c(m + 1) <= i => q[i] = <<text[i]>>
      /\ \A k \in 1..m, i \in 1..n : list[k].from <= i /\ i < list[k].to => q[i] = <<>>
  <2>1. TakenApart(Beyond(text, list), text, list, m, n, G)
    BY <1>0, BeyondParts
  <2>. HIDE DEF q
  <2>. QED BY <2>1 DEF TakenApart, q
<1>8. \A k \in 1..m + 1 : St(k) \in Seq(G)
  BY StretchesOfText DEF St
<1>9. \A k \in 1..m : St(k) = SubSeq(text, c(k), list[k].from - 1)
  <2>1. \A k \in 1..m : ~(k > Len(list))
    OBVIOUS
  <2>. QED BY <2>1, Zenon DEF Stretch
<1>10. St(m + 1) = SubSeq(text, c(m + 1), n)
  <2>1. m + 1 > Len(list)
    OBVIOUS
  <2>. QED BY <1>0, <2>1, Zenon DEF Stretch
<1>. HIDE DEF map, c, T, St, q, h
<1>11. G \subseteq D /\ \A s \in Seq(G) : s \in Seq(D)
  OBVIOUS
<1>. HIDE DEF D
<1>12. \A a, b \in 1..n + 1 : a <= b =>
          /\ SubSeq(q, a, b - 1) \in Seq(Seq(G)) /\ Len(SubSeq(q, a, b - 1)) = b - a
          /\ \A i \in 1..b - a : a + i - 1 \in 1..n /\ SubSeq(q, a, b - 1)[i] = q[a + i - 1]
          /\ O(a, b) \in Seq(G)
  <2>. SUFFICES ASSUME NEW a \in 1..n + 1, NEW b \in 1..n + 1, a <= b
                PROVE  /\ SubSeq(q, a, b - 1) \in Seq(Seq(G)) /\ Len(SubSeq(q, a, b - 1)) = b - a
                       /\ \A i \in 1..b - a : a + i - 1 \in 1..n /\ SubSeq(q, a, b - 1)[i] = q[a + i - 1]
                       /\ O(a, b) \in Seq(G)
    OBVIOUS
  <2>. DEFINE V == Seq(G)
  <2>1. q \in Seq(V)
    BY <1>7
  <2>. HIDE DEF V
  <2>2. \A i \in a..b - 1 : q[i] \in V
    BY <1>7, <2>1
  <2>3. a \in Int /\ b - 1 \in Int /\ (b - 1) - a + 1 = b - a
    OBVIOUS
  <2>4. /\ SubSeq(q, a, b - 1) \in Seq(V)
        /\ Len(SubSeq(q, a, b - 1)) = IF a <= b - 1 THEN (b - 1) - a + 1 ELSE 0
        /\ \A i \in 1..(b - 1) - a + 1 : SubSeq(q, a, b - 1)[i] = q[a + i - 1]
    BY <2>2, <2>3, SubSeqProperties
  <2>5. Len(SubSeq(q, a, b - 1)) = b - a
    BY <2>4
  <2>6. \A i \in 1..b - a : a + i - 1 \in 1..n /\ SubSeq(q, a, b - 1)[i] = q[a + i - 1]
    BY <2>3, <2>4
  <2>7. O(a, b) \in Seq(G)
    BY <2>4, FlattenRange DEF V
  <2>. QED BY <2>4, <2>5, <2>6, <2>7 DEF V
<1>13. \A a, b, e \in 1..n + 1 : a <= b /\ b <= e => O(a, b) \o O(b, e) = O(a, e)
  <2>. SUFFICES ASSUME NEW a \in 1..n + 1, NEW b \in 1..n + 1, NEW e \in 1..n + 1, a <= b, b <= e
                PROVE  O(a, b) \o O(b, e) = O(a, e)
    OBVIOUS
  <2>1. /\ a \in 1..Len(q) + 1 /\ b - 1 \in a - 1..Len(q) /\ e - 1 \in b - 1..Len(q)
        /\ (b - 1) + 1 = b
    BY <1>7
  <2>2. SubSeq(q, a, b - 1) \o SubSeq(q, (b - 1) + 1, e - 1) = SubSeq(q, a, e - 1)
    BY <1>7, <2>1, ConcatAdjacentSubSeq
  <2>3. SubSeq(q, a, b - 1) \in Seq(Seq(G)) /\ SubSeq(q, b, e - 1) \in Seq(Seq(G))
    BY <1>12
  <2>4. FlattenSeq(SubSeq(q, a, b - 1) \o SubSeq(q, b, e - 1)) = O(a, b) \o O(b, e)
    BY <2>3, FlattenConcat
  <2>. QED BY <2>1, <2>2, <2>4
<1>14. \A a, b \in 1..n + 1 : a <= b /\ (\A i \in 1..n : a <= i /\ i < b => q[i] = <<text[i]>>) =>
          O(a, b) = SubSeq(text, a, b - 1)
  <2>. SUFFICES ASSUME NEW a \in 1..n + 1, NEW b \in 1..n + 1, a <= b,
                       \A i \in 1..n : a <= i /\ i < b => q[i] = <<text[i]>>
                PROVE  O(a, b) = SubSeq(text, a, b - 1)
    OBVIOUS
  <2>. DEFINE s == SubSeq(text, a, b - 1)
              r == SubSeq(q, a, b - 1)
  <2>1. \A i \in a..b - 1 : text[i] \in G
    BY <1>0
  <2>2. a \in Int /\ b - 1 \in Int /\ (b - 1) - a + 1 = b - a
    OBVIOUS
  <2>3. /\ s \in Seq(G) /\ Len(s) = IF a <= b - 1 THEN (b - 1) - a + 1 ELSE 0
        /\ \A i \in 1..(b - 1) - a + 1 : s[i] = text[a + i - 1]
    BY <2>1, <2>2, SubSeqProperties
  <2>4. s \in Seq(G) /\ Len(s) = b - a /\ \A i \in 1..b - a : s[i] = text[a + i - 1]
    BY <2>2, <2>3
  <2>5. /\ r \in Seq(Seq(G)) /\ Len(r) = b - a
        /\ \A i \in 1..b - a : a + i - 1 \in 1..n /\ r[i] = q[a + i - 1]
    BY <1>12
  <2>. HIDE DEF s, r
  <2>6. \A i \in 1..Len(s) : r[i] = <<s[i]>>
    <3>. TAKE i \in 1..Len(s)
    <3>1. i \in 1..b - a /\ a + i - 1 \in 1..n /\ a <= a + i - 1 /\ a + i - 1 < b
      BY <2>4, <2>5
    <3>2. q[a + i - 1] = <<text[a + i - 1]>>
      BY <3>1
    <3>. QED BY <2>4, <2>5, <3>1, <3>2
  <2>7. FlattenSeq(r) = s
    BY <2>4, <2>5, <2>6, FlattenSingles
  <2>. QED BY <2>7 DEF s, r
<1>15. \A k \in 1..m : O(list[k].from, list[k].to) = <<>>
  <2>. TAKE k \in 1..m
  <2>. DEFINE a == list[k].from
              b == list[k].to
              r == SubSeq(q, a, b - 1)
  <2>1. a \in 1..n + 1 /\ b \in 1..n + 1 /\ a <= b
    BY <1>1
  <2>1a. \A i \in 1..n : a <= i /\ i < b => q[i] = <<>>
    BY <1>7
  <2>. HIDE DEF a, b
  <2>2. /\ r \in Seq(Seq(G)) /\ Len(r) = b - a
        /\ \A i \in 1..b - a : a + i - 1 \in 1..n /\ r[i] = q[a + i - 1]
    BY <1>12, <2>1
  <2>. HIDE DEF r
  <2>3. \A i \in 1..Len(r) : r[i] = <<>>
    <3>. TAKE i \in 1..Len(r)
    <3>1. i \in 1..b - a /\ a + i - 1 \in 1..n /\ a <= a + i - 1 /\ a + i - 1 < b
      BY <2>1, <2>2
    <3>2. q[a + i - 1] = <<>>
      BY <2>1a, <3>1
    <3>. QED BY <2>2, <3>1, <3>2
  <2>4. FlattenSeq(r) = <<>>
    BY <2>2, <2>3, FlattenEmpties
  <2>. QED BY <2>4 DEF r, a, b
<1>16. \A s, t \in Seq(D) : s \o t \in Seq(D) /\ Mapped(s \o t, h) = Mapped(s, h) \o Mapped(t, h)
  <2>1. GoesThrough(D, h)
    BY <1>5, MappedConcats
  <2>. QED BY <2>1 DEF GoesThrough
<1>17. \A k \in 1..m : <<T(k)>> \in Seq(D) /\ Mapped(<<T(k)>>, h) = <<>>
  <2>. TAKE k \in 1..m
  <2>1. T(k) \in D /\ h[T(k)] = <<>>
    BY <1>3, <1>6
  <2>2. Mapped(<<T(k)>>, h) = h[T(k)]
    BY <1>5, <2>1, MappedOne
  <2>. QED BY <2>1, <2>2, ShortSequences, Zenon
<1>18. \A s \in Seq(D) : Mapped(s, h) \in Seq(D) /\ s \o <<>> = s /\ Mapped(s, h) \o <<>> = Mapped(s, h)
  <2>. TAKE s \in Seq(D)
  <2>1. Mapped(s, h) \in Seq(D)
    BY <1>5, MappedParts
  <2>. QED BY <2>1, ConcatEmptySeq
<1>19. PICK P : Masks(P, text, list, m, D)
  BY <1>3, <1>11, MaskedPrefixes DEF T
<1>20. /\ P \in [0..m -> Seq(D)] /\ P[0] = <<>>
       /\ \A k \in 1..m : P[k] = P[k - 1] \o (St(k) \o <<T(k)>>)
       /\ Masked(text, list) = P[m] \o St(m + 1)
  BY <1>19 DEF Masks, St, T
<1>21. \A a, b \in 1..n + 1 : a <= b => O(a, b) \in Seq(D)
  BY <1>11, <1>12
<1>. HIDE DEF O
<1>. DEFINE Good(k) == Mapped(P[k], h) = Mapped(O(1, c(k + 1)), h)
<1>22. Good(0)
  <2>1. c(0 + 1) = 1
    BY <1>1
  <2>2. SubSeq(q, 1, 0) = <<>>
    BY <1>7
  <2>3. O(1, 1) = <<>>
    <3>1. SubSeq(q, 1, 1 - 1) = <<>>
      BY <2>2
    <3>. QED BY <3>1, FlattenEmpty DEF O
  <2>. QED BY <1>20, <2>1, <2>3
<1>23. \A k \in 0..m - 1 : Good(k) => Good(k + 1)
  <2>. SUFFICES ASSUME NEW k \in 0..m - 1, Good(k) PROVE Good(k + 1)
    OBVIOUS
  <2>. DEFINE j == k + 1
              f == list[j].from
              e == list[j].to
  <2>0. j \in 1..m /\ j - 1 = k /\ j \in 1..m + 1 /\ k \in 0..m
    OBVIOUS
  <2>1. P[j] = P[k] \o (St(j) \o <<T(j)>>) /\ P[k] \in Seq(D)
    BY <1>20, <2>0
  <2>. HIDE DEF j
  <2>2. St(j) \in Seq(D)
    BY <1>8, <1>11, <2>0
  <2>3. <<T(j)>> \in Seq(D) /\ Mapped(<<T(j)>>, h) = <<>>
    BY <1>17, <2>0
  <2>4. Mapped(P[j], h) = Mapped(P[k], h) \o Mapped(St(j), h)
    <3>1. St(j) \o <<T(j)>> \in Seq(D) /\ Mapped(St(j) \o <<T(j)>>, h) = Mapped(St(j), h) \o <<>>
      BY <1>16, <2>2, <2>3
    <3>2. Mapped(St(j), h) \o <<>> = Mapped(St(j), h)
      BY <1>18, <2>2
    <3>3. Mapped(P[k] \o (St(j) \o <<T(j)>>), h) = Mapped(P[k], h) \o Mapped(St(j) \o <<T(j)>>, h)
      BY <1>16, <2>1, <3>1
    <3>. QED BY <2>1, <3>1, <3>2, <3>3
  <2>5. c(j) \in 1..n + 1 /\ f \in 1..n + 1 /\ e \in 1..n + 1 /\ c(j) <= f /\ f <= e /\ c(j + 1) = e
        /\ 1 \in 1..n + 1 /\ 1 <= c(j) /\ c(j) <= e /\ 1 <= f
    BY <1>1, <2>0
  <2>6. O(c(j), f) = St(j)
    <3>1. \A i \in 1..n : c(j) <= i /\ i < f => q[i] = <<text[i]>>
      BY <1>7, <2>0
    <3>2. St(j) = SubSeq(text, c(j), f - 1)
      BY <1>9, <2>0
    <3>. HIDE DEF f, e
    <3>3. O(c(j), f) = SubSeq(text, c(j), f - 1)
      BY <1>14, <2>5, <3>1
    <3>. QED BY <3>2, <3>3
  <2>7. O(f, e) = <<>>
    BY <1>15, <2>0
  <2>8. Mapped(P[k], h) = Mapped(O(1, c(j)), h)
    BY DEF j
  <2>. HIDE DEF f, e, Good
  <2>9. O(1, c(j)) \o O(c(j), f) = O(1, f) /\ O(1, f) \o O(f, e) = O(1, e)
    BY <1>13, <2>5
  <2>10. O(1, c(j)) \in Seq(D) /\ O(1, f) \in Seq(D)
    BY <1>21, <2>5
  <2>11. O(1, e) = O(1, f)
    BY <1>18, <2>7, <2>9, <2>10
  <2>12. Mapped(O(1, f), h) = Mapped(O(1, c(j)), h) \o Mapped(St(j), h)
    <3>1. O(1, f) = O(1, c(j)) \o St(j)
      BY <2>6, <2>9
    <3>. QED BY <1>16, <2>2, <2>10, <3>1
  <2>13. Mapped(P[j], h) = Mapped(O(1, c(j + 1)), h)
    BY <2>4, <2>5, <2>8, <2>11, <2>12
  <2>. QED BY <2>13 DEF j, Good
<1>24. Good(m)
  <2>. DEFINE S == {k \in 0..m : Good(k)}
  <2>. HIDE DEF Good
  <2>1. 0 \in S /\ \A k \in 0..m - 1 : k \in S => k + 1 \in S
    BY <1>22, <1>23
  <2>. HIDE DEF S
  <2>2. \A k \in 0..m : k \in S
    BY <2>1, UpToInduction
  <2>. QED BY <2>2 DEF S
<1>25. Mapped(Masked(text, list), h) = Mapped(FlattenSeq(q), h)
  <2>1. P[m] \in Seq(D) /\ St(m + 1) \in Seq(D)
    <3>1. m \in 0..m /\ m + 1 \in 1..m + 1
      OBVIOUS
    <3>. QED BY <1>8, <1>11, <1>20, <3>1
  <2>2. Mapped(Masked(text, list), h) = Mapped(P[m], h) \o Mapped(St(m + 1), h)
    BY <1>16, <1>20, <2>1
  <2>3. c(m + 1) \in 1..n + 1 /\ 1 \in 1..n + 1 /\ 1 <= c(m + 1) /\ n + 1 \in 1..n + 1
        /\ c(m + 1) <= n + 1 /\ (n + 1) - 1 = n
    BY <1>1
  <2>. HIDE DEF Good
  <2>4. O(c(m + 1), n + 1) = St(m + 1)
    <3>1. \A i \in 1..n : c(m + 1) <= i /\ i < n + 1 => q[i] = <<text[i]>>
      BY <1>7
    <3>2. O(c(m + 1), n + 1) = SubSeq(text, c(m + 1), (n + 1) - 1)
      BY <1>14, <2>3, <3>1
    <3>. QED BY <1>10, <2>3, <3>2
  <2>5. O(1, c(m + 1)) \o O(c(m + 1), n + 1) = O(1, n + 1) /\ O(1, c(m + 1)) \in Seq(D)
    BY <1>13, <1>21, <2>3
  <2>6. O(1, n + 1) = FlattenSeq(q)
    <3>1. SubSeq(q, 1, n) = q
      BY <1>7, SubSeqFull
    <3>. QED BY <2>3, <3>1 DEF O
  <2>7. Mapped(P[m], h) = Mapped(O(1, c(m + 1)), h)
    BY <1>24 DEF Good
  <2>8. Mapped(O(1, n + 1), h) = Mapped(O(1, c(m + 1)), h) \o Mapped(St(m + 1), h)
    <3>1. O(1, n + 1) = O(1, c(m + 1)) \o St(m + 1)
      BY <2>4, <2>5
    <3>2. O(1, c(m + 1)) \in Seq(D) /\ St(m + 1) \in Seq(D)
      BY <2>1, <2>5
    <3>. HIDE DEF O, St, c
    <3>3. Mapped(O(1, c(m + 1)) \o St(m + 1), h) = Mapped(O(1, c(m + 1)), h) \o Mapped(St(m + 1), h)
      BY <1>16, <3>2
    <3>. QED BY <3>1, <3>3
  <2>. QED BY <2>2, <2>6, <2>7, <2>8
<1>26. FlattenSeq(q) \in Seq(D)
  <2>1. FlattenSeq(q) \in Seq(G)
    BY <1>7, FlattenRange
  <2>. QED BY <1>11, <2>1
<1>. QED BY <1>2, <1>4, <1>25, <1>26 DEF q

-----------------------------------------------------------------------------
(* Texts over a set of tokens *)

\* The words the workflows write themselves: the labels of the fields and the two fillers.
Label ==
    {"computed", "unavailable", "customer_name", "product", "priority", "issue", "company",
     "name", "pain_points", "source", "candidate_name", "role", "skills", "resume", "notes",
     "organization_name", "framework", "policy_text", "current_findings", "question",
     "company_size", "time_period", "context_data", "invoice_text", "invoice", "campaign",
     "audience", "title", "meeting_type", "participants", "goals", "context", "document",
     "customer", "address", "project_description", "item", "line_items"}

\* All of them are among the tokens.
HasWords(G) == \A w \in Label : <<w>> \in G

\* Texts over tokens that include the workflows' words: concatenated, cut, labelled or replaced.
LEMMA PiecesStay ==
  ASSUME NEW G, HasWords(G)
  PROVE  /\ Own \in Seq(G) /\ Excuse \in Seq(G) /\ <<>> \in Seq(G)
         /\ \A s, t \in Seq(G) : s \o t \in Seq(G) /\ Or(s, t) \in Seq(G)
         /\ \A s \in Seq(G) : Cut(s) \in Seq(G)
         /\ \A w \in Label : <<<<w>>>> \in Seq(G)
         /\ \A w \in Label, s \in Seq(G) : Part(w, s) \in Seq(G)
<1>1. \A w \in Label : <<w>> \in G
  BY DEF HasWords
<1>2. \A w \in Label : <<<<w>>>> \in Seq(G)
  BY <1>1, ShortSequences, Zenon
<1>3. "computed" \in Label /\ "unavailable" \in Label
  BY DEF Label
<1>4. Own \in Seq(G) /\ Excuse \in Seq(G)
  BY <1>2, <1>3 DEF Own, Excuse
<1>5. \A s, t \in Seq(G) : s \o t \in Seq(G) /\ Or(s, t) \in Seq(G)
  BY DEF Or
<1>6. \A s \in Seq(G) : Cut(s) \in Seq(G)
  <2>. TAKE s \in Seq(G)
  <2>1. CutAt \in Nat /\ Len(s) \in Nat
    BY CutAtAssumption
  <2>. DEFINE m == IF Len(s) < CutAt THEN Len(s) ELSE CutAt
  <2>2. m \in Nat /\ m <= Len(s)
    BY <2>1
  <2>. HIDE DEF m
  <2>3. SubSeq(s, 1, m) \in Seq(G)
    BY <2>2
  <2>. QED BY <2>3 DEF Cut, m
<1>7. \A w \in Label, s \in Seq(G) : Part(w, s) \in Seq(G)
  <2>. TAKE w \in Label, s \in Seq(G)
  <2>1. <<<<w>>>> \o s \in Seq(G)
    BY <1>2, <1>5
  <2>. QED BY <2>1 DEF Part
<1>. QED BY <1>2, <1>4, <1>5, <1>6, <1>7, ShortSequences

\* Labelled fields of an input are texts over the tokens of its fields.
LEMMA PartsStay ==
  ASSUME NEW G, HasWords(G), NEW D \in SUBSET Label, NEW in \in [D -> Seq(G)], NEW fields \in Seq(D)
  PROVE  Parts(in, fields) \in Seq(G)
<1>. DEFINE pieces == [i \in DOMAIN fields |-> Part(fields[i], in[fields[i]])]
<1>1. \A i \in DOMAIN fields : pieces[i] \in Seq(G)
  BY PiecesStay
<1>2. pieces \in Seq(Seq(G))
  <2>1. Len(fields) \in Nat /\ DOMAIN fields = 1..Len(fields)
    OBVIOUS
  <2>. QED BY <1>1, <2>1
<1>. QED BY <1>2, FlattenRange DEF Parts

-----------------------------------------------------------------------------
(* Messages *)

IsInput(in, w, G) == in \in [InputFields[w] -> Seq(G)]

\* The names of the fields are among the labels.
LEMMA FieldsAreLabels == \A w \in Workflow : InputFields[w] \subseteq Label
BY DEF Workflow, InputFields, Label

\* The message of customer_support is a text over the tokens of its input and the labels ...
LEMMA CustomerSupportMessageStays ==
  ASSUME NEW G, HasWords(G), NEW in, IsInput(in, "customer_support", G)
  PROVE  CustomerSupportMessage(in) \in Seq(G)
<1>. DEFINE D == {"customer_name", "product", "priority", "issue"}
<1>1. in \in [D -> Seq(G)] /\ D \in SUBSET Label
  BY DEF IsInput, InputFields, Label
<1>2. <<"customer_name", "product", "priority">> \in Seq(D)
  OBVIOUS
<1>3. Parts(in, <<"customer_name", "product", "priority">>) \in Seq(G)
  BY <1>1, <1>2, PartsStay
<1>4. <<<<"issue">>>> \in Seq(G)
  BY PiecesStay DEF Label
<1>5. Or(in.issue, Own) \in Seq(G)
  BY <1>1, PiecesStay
<1>. QED BY <1>3, <1>4, <1>5, PiecesStay DEF CustomerSupportMessage

\* ... of sales_lead_qualification.
LEMMA SalesLeadMessageStays ==
  ASSUME NEW G, HasWords(G), NEW in, IsInput(in, "sales_lead_qualification", G)
  PROVE  SalesLeadMessage(in) \in Seq(G)
<1>. DEFINE D == {"company", "name", "pain_points", "source"}
<1>1. in \in [D -> Seq(G)] /\ D \in SUBSET Label
  BY DEF IsInput, InputFields, Label
<1>2. /\ <<"company", "name", "pain_points">> \in Seq(D)
      /\ <<"company", "name", "pain_points">> \o <<"source">> \in Seq(D)
  OBVIOUS
<1>3. /\ Parts(in, <<"company", "name", "pain_points">>) \in Seq(G)
      /\ Parts(in, <<"company", "name", "pain_points">> \o <<"source">>) \in Seq(G)
  BY <1>1, <1>2, PartsStay
<1>. QED BY <1>3, PiecesStay DEF SalesLeadMessage

\* ... of hr_recruitment.
LEMMA HrRecruitmentMessageStays ==
  ASSUME NEW G, HasWords(G), NEW in, IsInput(in, "hr_recruitment", G)
  PROVE  HrRecruitmentMessage(in) \in Seq(G)
<1>. DEFINE D == {"candidate_name", "role", "skills", "resume", "notes"}
<1>1. in \in [D -> Seq(G)] /\ D \in SUBSET Label
  BY DEF IsInput, InputFields, Label
<1>2. <<"candidate_name", "role", "skills">> \in Seq(D)
  OBVIOUS
<1>3. Parts(in, <<"candidate_name", "role", "skills">>) \in Seq(G)
  BY <1>1, <1>2, PartsStay
<1>4. Part("resume", Cut(in.resume)) \in Seq(G) /\ Part("notes", Cut(in.notes)) \in Seq(G)
  BY <1>1, PiecesStay
<1>. QED BY <1>3, <1>4, PiecesStay DEF HrRecruitmentMessage

\* ... of compliance_monitoring.
LEMMA ComplianceMessageStays ==
  ASSUME NEW G, HasWords(G), NEW in, IsInput(in, "compliance_monitoring", G)
  PROVE  ComplianceMessage(in) \in Seq(G)
<1>. DEFINE D == {"organization_name", "framework", "policy_text", "current_findings"}
<1>1. in \in [D -> Seq(G)] /\ D \in SUBSET Label
  BY DEF IsInput, InputFields, Label
<1>2. <<"organization_name", "framework">> \in Seq(D)
  OBVIOUS
<1>3. Parts(in, <<"organization_name", "framework">>) \in Seq(G)
  BY <1>1, <1>2, PartsStay
<1>4. /\ Part("policy_text", Cut(in.policy_text)) \in Seq(G)
      /\ Part("current_findings", Cut(in.current_findings)) \in Seq(G)
  BY <1>1, PiecesStay
<1>. QED BY <1>3, <1>4, PiecesStay DEF ComplianceMessage

\* ... of business_intelligence.
LEMMA BusinessIntelligenceMessageStays ==
  ASSUME NEW G, HasWords(G), NEW in, IsInput(in, "business_intelligence", G)
  PROVE  BusinessIntelligenceMessage(in) \in Seq(G)
<1>. DEFINE D == {"question", "company_size", "time_period", "context_data"}
<1>1. in \in [D -> Seq(G)] /\ D \in SUBSET Label
  BY DEF IsInput, InputFields, Label
<1>2. <<"company_size", "time_period">> \in Seq(D)
  OBVIOUS
<1>3. Parts(in, <<"company_size", "time_period">>) \in Seq(G)
  BY <1>1, <1>2, PartsStay
<1>4. Part("context_data", Cut(in.context_data)) \in Seq(G) /\ Or(in.question, Own) \in Seq(G)
  BY <1>1, PiecesStay
<1>5. <<<<"question">>>> \in Seq(G)
  BY PiecesStay DEF Label
<1>. QED BY <1>3, <1>4, <1>5, PiecesStay DEF BusinessIntelligenceMessage

\* ... of invoice_processing.
LEMMA InvoiceMessageStays ==
  ASSUME NEW G, HasWords(G), NEW in, IsInput(in, "invoice_processing", G)
  PROVE  InvoiceMessage(in) \in Seq(G)
<1>1. in.invoice_text \in Seq(G)
  BY DEF IsInput, InputFields
<1>2. <<<<"invoice">>>> \in Seq(G) /\ Or(Cut(in.invoice_text), Own) \in Seq(G)
  BY <1>1, PiecesStay DEF Label
<1>. QED BY <1>2, PiecesStay DEF InvoiceMessage

\* ... of marketing_automation.
LEMMA MarketingMessageStays ==
  ASSUME NEW G, HasWords(G), NEW in, IsInput(in, "marketing_automation", G)
  PROVE  MarketingMessage(in) \in Seq(G)
<1>. DEFINE D == {"campaign", "audience", "product"}
<1>1. in \in [D -> Seq(G)] /\ D \in SUBSET Label
  BY DEF IsInput, InputFields, Label
<1>2. <<"campaign", "audience", "product">> \in Seq(D)
  OBVIOUS
<1>3. Parts(in, <<"campaign", "audience", "product">>) \in Seq(G)
  BY <1>1, <1>2, PartsStay
<1>. QED BY <1>3, PiecesStay DEF MarketingMessage

\* ... of meeting_agenda_assistant.
LEMMA MeetingMessageStays ==
  ASSUME NEW G, HasWords(G), NEW in, IsInput(in, "meeting_agenda_assistant", G)
  PROVE  MeetingMessage(in) \in Seq(G)
<1>1. in \in [{"title", "meeting_type", "participants", "goals", "context"} -> Seq(G)]
  BY DEF IsInput, InputFields
<1>2. /\ Or(in.title, Own) \in Seq(G) /\ Part("meeting_type", in.meeting_type) \in Seq(G)
      /\ Or(in.participants, Own) \in Seq(G) /\ Or(in.goals, Own) \in Seq(G)
      /\ Part("context", Cut(in.context)) \in Seq(G)
  BY <1>1, PiecesStay DEF Label
<1>3. <<<<"title">>>> \in Seq(G) /\ <<<<"participants">>>> \in Seq(G) /\ <<<<"goals">>>> \in Seq(G)
  BY PiecesStay DEF Label
<1>. QED BY <1>2, <1>3, PiecesStay DEF MeetingMessage

IsLibrary(docs, G) == docs \in Seq([filename : Seq(G), text : Seq(G)])

\* ... of document_knowledge, with its documents.
LEMMA DocumentMessageStays ==
  ASSUME NEW G, HasWords(G), NEW in, IsInput(in, "document_knowledge", G),
         NEW docs, IsLibrary(docs, G)
  PROVE  DocumentMessage(in, docs) \in Seq(G)
<1>. DEFINE pieces == [i \in DOMAIN docs |->
                        <<<<"document">>>> \o docs[i].filename \o Cut(docs[i].text)]
<1>1. in.question \in Seq(G)
  BY DEF IsInput, InputFields
<1>2. <<<<"question">>>> \in Seq(G) /\ <<<<"document">>>> \in Seq(G)
  BY PiecesStay DEF Label
<1>3. \A i \in DOMAIN docs : docs[i].filename \in Seq(G) /\ docs[i].text \in Seq(G)
  <2>. DEFINE R == [filename : Seq(G), text : Seq(G)]
  <2>1. \A r \in R : r.filename \in Seq(G) /\ r.text \in Seq(G)
    OBVIOUS
  <2>2. docs \in Seq(R)
    BY DEF IsLibrary
  <2>. HIDE DEF R
  <2>3. \A i \in DOMAIN docs : docs[i] \in R
    BY <2>2
  <2>. QED BY <2>1, <2>3
<1>4. \A i \in DOMAIN docs : pieces[i] \in Seq(G)
  BY <1>2, <1>3, PiecesStay
<1>5. pieces \in Seq(Seq(G))
  <2>1. Len(docs) \in Nat /\ DOMAIN docs = 1..Len(docs)
    BY DEF IsLibrary
  <2>. QED BY <1>4, <2>1
<1>6. FlattenSeq(pieces) \in Seq(G)
  BY <1>5, FlattenRange
<1>. QED BY <1>1, <1>2, <1>6, PiecesStay DEF DocumentMessage

\* ... of quote_contract_generator.
LEMMA QuoteMessageStays ==
  ASSUME NEW G, HasWords(G), NEW in, IsInput(in, "quote_contract_generator", G)
  PROVE  QuoteMessage(in) \in Seq(G)
<1>. DEFINE D == {"customer", "address", "project_description", "item"}
<1>1. in \in [D -> Seq(G)] /\ D \in SUBSET Label
  BY DEF IsInput, InputFields, Label
<1>2. <<"customer", "address">> \in Seq(D)
  OBVIOUS
<1>3. Parts(in, <<"customer", "address">>) \in Seq(G)
  BY <1>1, <1>2, PartsStay
<1>4. <<<<"line_items">>>> \in Seq(G) /\ <<<<"item">>>> \in Seq(G)
  BY PiecesStay DEF Label
<1>5. /\ Part("project_description", Cut(in.project_description)) \in Seq(G)
      /\ Or(in.item, <<<<"item">>>>) \in Seq(G)
  BY <1>1, <1>4, PiecesStay
<1>. QED BY <1>3, <1>4, <1>5, PiecesStay DEF QuoteMessage

\* A message holds nothing but words of the workflow and what the user wrote.
LEMMA MessageStays ==
  ASSUME NEW G, HasWords(G), workflow \in Workflow, IsInput(input, workflow, G), IsLibrary(documents, G)
  PROVE  Message \in Seq(G)
BY CustomerSupportMessageStays, SalesLeadMessageStays, HrRecruitmentMessageStays,
   ComplianceMessageStays, BusinessIntelligenceMessageStays, InvoiceMessageStays,
   MarketingMessageStays, MeetingMessageStays, DocumentMessageStays, QuoteMessageStays
   DEF Workflow, InputFields, Message

-----------------------------------------------------------------------------
(* Answers *)

\* Every field that is not excepted is one of the texts.
Shown(result, excepted, texts) == \A f \in DOMAIN result \ excepted : result[f] \in texts

\* Putting back turns the texts of a reply into texts to show.
Restores(m, raw, texts) == \A s \in raw : Restored(s, m) \in texts

\* The pieces answers are made of: raw texts of the reply, and texts to show.
Pieces(reply, raw, texts) ==
    /\ AsText(reply) \in raw /\ AsList(reply) \in raw /\ Or(AsText(reply), Own) \in raw
    /\ Own \in texts /\ Excuse \in texts /\ <<>> \in texts
    /\ texts \subseteq raw

\* What a reply says, and what a workflow has of its own, are such pieces.
LEMMA RepliesHavePieces ==
  ASSUME NEW G, NEW H, G \subseteq H, HasWords(G), NEW reply, reply.says \in Seq(H)
  PROVE  Pieces(reply, Seq(H), Seq(G))
<1>1. AsText(reply) \in Seq(H) /\ AsList(reply) \in Seq(H)
  BY ShortSequences DEF AsText, AsList
<1>2. Seq(G) \subseteq Seq(H)
  OBVIOUS
<1>3. Own \in Seq(G) /\ Excuse \in Seq(G) /\ <<>> \in Seq(G)
  BY PiecesStay
<1>4. Or(AsText(reply), Own) \in Seq(H)
  BY <1>1, <1>2, <1>3 DEF Or
<1>. QED BY <1>1, <1>2, <1>3, <1>4 DEF Pieces

\* A result, and the one without a reply, have the fields, and show texts only.
Fits(result, fallback, fields, excepted, texts) ==
    /\ Shown(result, excepted, texts) /\ DOMAIN result = fields
    /\ Shown(fallback, {}, texts) /\ DOMAIN fallback = fields

\* The results of customer_support have its fields, and show texts only, but for the fields that
\* are not restored ...
LEMMA CustomerSupportFits ==
  ASSUME NEW raw, NEW texts, NEW in, NEW reply, NEW m,
         Pieces(reply, raw, texts), Restores(m, raw, texts),
         Or(in.issue, Own) \in texts
  PROVE  Fits(CustomerSupportRestored(CustomerSupportParsed(in, reply), m),
              CustomerSupportFallback(in), DOMAIN CustomerSupportParsed(in, NoReply), {}, texts)
<1>. DEFINE result == CustomerSupportRestored(CustomerSupportParsed(in, reply), m)
<1>1. \A f \in DOMAIN result : result[f] \in texts
  BY DEF Pieces, Restores, CustomerSupportParsed, CustomerSupportRestored, PutBack
<1>2. \A f \in DOMAIN CustomerSupportFallback(in) : CustomerSupportFallback(in)[f] \in texts
  BY DEF Pieces, CustomerSupportFallback
<1>3. /\ DOMAIN result = DOMAIN CustomerSupportParsed(in, NoReply)
      /\ DOMAIN CustomerSupportFallback(in) = DOMAIN CustomerSupportParsed(in, NoReply)
  BY DEF CustomerSupportParsed, CustomerSupportRestored, CustomerSupportFallback, PutBack
<1>. QED BY <1>1, <1>2, <1>3 DEF Shown, Fits

\* ... of sales_lead_qualification.
LEMMA SalesLeadFits ==
  ASSUME NEW raw, NEW texts, NEW in, NEW reply, NEW m,
         Pieces(reply, raw, texts), Restores(m, raw, texts)
  PROVE  Fits(SalesLeadRestored(SalesLeadParsed(in, reply), m),
              SalesLeadFallback(in), DOMAIN SalesLeadParsed(in, NoReply), {}, texts)
<1>. DEFINE result == SalesLeadRestored(SalesLeadParsed(in, reply), m)
<1>1. \A f \in DOMAIN result : result[f] \in texts
  BY DEF Pieces, Restores, SalesLeadParsed, SalesLeadRestored, PutBack
<1>2. \A f \in DOMAIN SalesLeadFallback(in) : SalesLeadFallback(in)[f] \in texts
  BY DEF Pieces, SalesLeadFallback
<1>3. /\ DOMAIN result = DOMAIN SalesLeadParsed(in, NoReply)
      /\ DOMAIN SalesLeadFallback(in) = DOMAIN SalesLeadParsed(in, NoReply)
  BY DEF SalesLeadParsed, SalesLeadRestored, SalesLeadFallback, PutBack
<1>. QED BY <1>1, <1>2, <1>3 DEF Shown, Fits

\* ... of hr_recruitment.
LEMMA HrRecruitmentFits ==
  ASSUME NEW raw, NEW texts, NEW in, NEW reply, NEW m,
         Pieces(reply, raw, texts), Restores(m, raw, texts),
         Or(in.candidate_name, Own) \in texts, Or(in.role, Own) \in texts
  PROVE  Fits(HrRecruitmentRestored(HrRecruitmentParsed(in, reply), m),
              HrRecruitmentFallback(in), DOMAIN HrRecruitmentParsed(in, NoReply), {}, texts)
<1>. DEFINE result == HrRecruitmentRestored(HrRecruitmentParsed(in, reply), m)
<1>1. \A f \in DOMAIN result : result[f] \in texts
  BY DEF Pieces, Restores, HrRecruitmentParsed, HrRecruitmentRestored, PutBack
<1>2. \A f \in DOMAIN HrRecruitmentFallback(in) : HrRecruitmentFallback(in)[f] \in texts
  BY DEF Pieces, HrRecruitmentFallback
<1>3. /\ DOMAIN result = DOMAIN HrRecruitmentParsed(in, NoReply)
      /\ DOMAIN HrRecruitmentFallback(in) = DOMAIN HrRecruitmentParsed(in, NoReply)
  BY DEF HrRecruitmentParsed, HrRecruitmentRestored, HrRecruitmentFallback, PutBack
<1>. QED BY <1>1, <1>2, <1>3 DEF Shown, Fits

\* ... of compliance_monitoring.
LEMMA ComplianceFits ==
  ASSUME NEW raw, NEW texts, NEW in, NEW reply, NEW m,
         Pieces(reply, raw, texts), Restores(m, raw, texts)
  PROVE  Fits(ComplianceRestored(ComplianceParsed(in, reply), m),
              ComplianceFallback(in), DOMAIN ComplianceParsed(in, NoReply),
              {"findings_other_keys", "findings_as_strings", "findings_as_lists"}, texts)
<1>. DEFINE result == ComplianceRestored(ComplianceParsed(in, reply), m)
<1>1. \A f \in DOMAIN result \ {"findings_other_keys", "findings_as_strings", "findings_as_lists"} : result[f] \in texts
  BY DEF Pieces, Restores, ComplianceParsed, ComplianceRestored, PutBack
<1>2. \A f \in DOMAIN ComplianceFallback(in) : ComplianceFallback(in)[f] \in texts
  BY DEF Pieces, ComplianceFallback
<1>3. /\ DOMAIN result = DOMAIN ComplianceParsed(in, NoReply)
      /\ DOMAIN ComplianceFallback(in) = DOMAIN ComplianceParsed(in, NoReply)
  BY DEF ComplianceParsed, ComplianceRestored, ComplianceFallback, PutBack
<1>. QED BY <1>1, <1>2, <1>3 DEF Shown, Fits

\* ... of business_intelligence.
LEMMA BusinessIntelligenceFits ==
  ASSUME NEW raw, NEW texts, NEW in, NEW reply, NEW m,
         Pieces(reply, raw, texts), Restores(m, raw, texts),
         Or(in.question, Own) \in texts
  PROVE  Fits(BusinessIntelligenceRestored(BusinessIntelligenceParsed(in, reply), m),
              BusinessIntelligenceFallback(in), DOMAIN BusinessIntelligenceParsed(in, NoReply), {}, texts)
<1>. DEFINE result == BusinessIntelligenceRestored(BusinessIntelligenceParsed(in, reply), m)
<1>1. \A f \in DOMAIN result : result[f] \in texts
  BY DEF Pieces, Restores, BusinessIntelligenceParsed, BusinessIntelligenceRestored, PutBack
<1>2. \A f \in DOMAIN BusinessIntelligenceFallback(in) : BusinessIntelligenceFallback(in)[f] \in texts
  BY DEF Pieces, BusinessIntelligenceFallback
<1>3. /\ DOMAIN result = DOMAIN BusinessIntelligenceParsed(in, NoReply)
      /\ DOMAIN BusinessIntelligenceFallback(in) = DOMAIN BusinessIntelligenceParsed(in, NoReply)
  BY DEF BusinessIntelligenceParsed, BusinessIntelligenceRestored, BusinessIntelligenceFallback, PutBack
<1>. QED BY <1>1, <1>2, <1>3 DEF Shown, Fits

\* ... of invoice_processing.
LEMMA InvoiceFits ==
  ASSUME NEW raw, NEW texts, NEW in, NEW reply, NEW m,
         Pieces(reply, raw, texts), Restores(m, raw, texts)
  PROVE  Fits(InvoiceRestored(InvoiceParsed(in, reply), m),
              InvoiceFallback(in), DOMAIN InvoiceParsed(in, NoReply), {"currency"}, texts)
<1>. DEFINE result == InvoiceRestored(InvoiceParsed(in, reply), m)
<1>1. \A f \in DOMAIN result \ {"currency"} : result[f] \in texts
  BY DEF Pieces, Restores, InvoiceParsed, InvoiceRestored, PutBack
<1>2. \A f \in DOMAIN InvoiceFallback(in) : InvoiceFallback(in)[f] \in texts
  BY DEF Pieces, InvoiceFallback
<1>3. /\ DOMAIN result = DOMAIN InvoiceParsed(in, NoReply)
      /\ DOMAIN InvoiceFallback(in) = DOMAIN InvoiceParsed(in, NoReply)
  BY DEF InvoiceParsed, InvoiceRestored, InvoiceFallback, PutBack
<1>. QED BY <1>1, <1>2, <1>3 DEF Shown, Fits

\* ... of marketing_automation.
LEMMA MarketingFits ==
  ASSUME NEW raw, NEW texts, NEW in, NEW reply, NEW m,
         Pieces(reply, raw, texts), Restores(m, raw, texts),
         Or(in.campaign, Own) \in texts, Or(in.audience, Own) \in texts
  PROVE  Fits(MarketingRestored(MarketingParsed(in, reply), m),
              MarketingFallback(in), DOMAIN MarketingParsed(in, NoReply), {}, texts)
<1>. DEFINE result == MarketingRestored(MarketingParsed(in, reply), m)
<1>1. \A f \in DOMAIN result : result[f] \in texts
  BY DEF Pieces, Restores, MarketingParsed, MarketingRestored, PutBack
<1>2. \A f \in DOMAIN MarketingFallback(in) : MarketingFallback(in)[f] \in texts
  BY DEF Pieces, MarketingFallback
<1>3. /\ DOMAIN result = DOMAIN MarketingParsed(in, NoReply)
      /\ DOMAIN MarketingFallback(in) = DOMAIN MarketingParsed(in, NoReply)
  BY DEF MarketingParsed, MarketingRestored, MarketingFallback, PutBack
<1>. QED BY <1>1, <1>2, <1>3 DEF Shown, Fits

\* ... of meeting_agenda_assistant.
LEMMA MeetingFits ==
  ASSUME NEW raw, NEW texts, NEW in, NEW reply, NEW m,
         Pieces(reply, raw, texts), Restores(m, raw, texts),
         Or(in.title, Own) \in texts, in.participants \in texts
  PROVE  Fits(MeetingRestored(MeetingParsed(in, reply), m),
              MeetingFallback(in), DOMAIN MeetingParsed(in, NoReply), {}, texts)
<1>. DEFINE result == MeetingRestored(MeetingParsed(in, reply), m)
<1>1. \A f \in DOMAIN result : result[f] \in texts
  BY DEF Pieces, Restores, MeetingParsed, MeetingRestored, PutBack
<1>2. \A f \in DOMAIN MeetingFallback(in) : MeetingFallback(in)[f] \in texts
  BY DEF Pieces, MeetingFallback
<1>3. /\ DOMAIN result = DOMAIN MeetingParsed(in, NoReply)
      /\ DOMAIN MeetingFallback(in) = DOMAIN MeetingParsed(in, NoReply)
  BY DEF MeetingParsed, MeetingRestored, MeetingFallback, PutBack
<1>. QED BY <1>1, <1>2, <1>3 DEF Shown, Fits

\* The excerpts, the names of the documents and the cited ones are texts over the library's tokens.
LEMMA SourcesStay ==
  ASSUME NEW G, NEW docs, IsLibrary(docs, G), NEW reply
  PROVE  /\ Snippets(docs) \in Seq(G)
         /\ FlattenSeq([i \in DOMAIN docs |-> docs[i].filename]) \in Seq(G)
         /\ CitedSources(docs, reply) \in Seq(G)
<1>0. PICK n \in Nat : n = Len(docs) /\ DOMAIN docs = 1..n
  BY DEF IsLibrary
<1>. DEFINE R == [filename : Seq(G), text : Seq(G)]
            names == [i \in DOMAIN docs |-> docs[i].filename]
            shown == [i \in DOMAIN docs |-> docs[i].text]
            U == {name \in Seq(G) : ~reply.odd /\ Occurs(name, reply.says)}
            q == [i \in DOMAIN names |-> IF names[i] \in U THEN <<names[i]>> ELSE <<>>]
            asked == [i \in DOMAIN names |->
                        IF ~reply.odd /\ Occurs(names[i], reply.says) THEN <<names[i]>> ELSE <<>>]
            few == SubSeq(names, 1, IF Len(names) < 3 THEN Len(names) ELSE 3)
<1>1. \A r \in R : r.filename \in Seq(G) /\ r.text \in Seq(G)
  OBVIOUS
<1>2. docs \in Seq(R)
  BY DEF IsLibrary
<1>. HIDE DEF R
<1>3. \A i \in 1..n : docs[i].filename \in Seq(G) /\ docs[i].text \in Seq(G)
  BY <1>0, <1>1, <1>2
<1>4. names \in Seq(Seq(G)) /\ Len(names) = n
  BY <1>0, <1>3
<1>5. shown \in Seq(Seq(G))
  BY <1>0, <1>3
<1>6. FlattenSeq(names) \in Seq(G) /\ FlattenSeq(shown) \in Seq(G)
  BY <1>4, <1>5, FlattenRange
<1>7. asked = q
  <2>1. \A i \in DOMAIN names : names[i] \in Seq(G)
    BY <1>0, <1>3
  <2>. HIDE DEF names
  <2>. QED BY <2>1
<1>. DEFINE cited == FlattenSeq(asked)
<1>8. cited \in Seq(Seq(G))
  <2>. HIDE DEF names, asked, U
  <2>1. FlattenSeq(q) \in Seq(Seq(G) \intersect U)
    BY <1>4, Filtering
  <2>2. FlattenSeq(q) \in Seq(Seq(G))
    <3>. HIDE DEF q
    <3>. QED BY <2>1
  <2>. QED BY <1>7, <2>2, Zenon
<1>9. few \in Seq(Seq(G))
  <2>. DEFINE m == IF Len(names) < 3 THEN Len(names) ELSE 3
  <2>1. m \in Nat /\ m <= Len(names)
    BY <1>4
  <2>. HIDE DEF m, names
  <2>2. SubSeq(names, 1, m) \in Seq(Seq(G))
    BY <1>4, <2>1
  <2>. QED BY <2>2 DEF m
<1>10. CitedSources(docs, reply) = FlattenSeq(IF cited = <<>> THEN few ELSE cited)
  BY DEF CitedSources, Only
<1>. HIDE DEF cited, few
<1>11. CitedSources(docs, reply) \in Seq(G)
  BY <1>8, <1>9, <1>10, FlattenRange
<1>. QED BY <1>6, <1>11 DEF Snippets

\* ... of document_knowledge, which gives no reasoning without a reply.
LEMMA DocumentFits ==
  ASSUME NEW raw, NEW texts, NEW docs, NEW reply, NEW m,
         Pieces(reply, raw, texts), Restores(m, raw, texts),
         CitedSources(docs, reply) \in texts, Snippets(docs) \in texts,
         FlattenSeq([i \in DOMAIN docs |-> docs[i].filename]) \in texts
  PROVE  /\ Shown(DocumentRestored(DocumentParsed(docs, reply), m), {}, texts)
         /\ Shown(DocumentFallback(docs), {}, texts)
         /\ DOMAIN DocumentRestored(DocumentParsed(docs, reply), m) = DOMAIN DocumentParsed(docs, NoReply)
         /\ DOMAIN DocumentFallback(docs) = DOMAIN DocumentParsed(docs, NoReply) \ {"reasoning"}
<1>. DEFINE sources == FlattenSeq([i \in DOMAIN docs |-> docs[i].filename])
<1>0. sources \in texts
  OBVIOUS
<1>1. \A f \in DOMAIN DocumentRestored(DocumentParsed(docs, reply), m) :
         DocumentRestored(DocumentParsed(docs, reply), m)[f] \in texts
  BY DEF Pieces, Restores, DocumentParsed, DocumentRestored, PutBack
<1>1a. DocumentFallback(docs) = [summary |-> Excuse, confidence |-> Own,
          document_snippets |-> Snippets(docs), top_sources |-> sources]
  BY DEF DocumentFallback
<1>. HIDE DEF sources
<1>2. \A f \in DOMAIN DocumentFallback(docs) : DocumentFallback(docs)[f] \in texts
  BY <1>0, <1>1a DEF Pieces
<1>3. /\ DOMAIN DocumentRestored(DocumentParsed(docs, reply), m) = DOMAIN DocumentParsed(docs, NoReply)
      /\ DOMAIN DocumentFallback(docs) = DOMAIN DocumentParsed(docs, NoReply) \ {"reasoning"}
  BY <1>1a DEF DocumentParsed, DocumentRestored, PutBack
<1>. QED BY <1>1, <1>2, <1>3 DEF Shown

\* ... of quote_contract_generator.
LEMMA QuoteFits ==
  ASSUME NEW raw, NEW texts, NEW in, NEW reply, NEW m,
         Pieces(reply, raw, texts), Restores(m, raw, texts),
         in.customer \in texts, Or(in.item, <<<<"item">>>>) \in texts, reply.says \in raw
  PROVE  Fits(QuoteRestored(QuoteParsed(in, reply), m), QuoteFallback(in),
              DOMAIN QuoteParsed(in, NoReply), {}, texts)
<1>. DEFINE result == QuoteRestored(QuoteParsed(in, reply), m)
<1>0. EnhancedItem(Or(in.item, <<<<"item">>>>), reply) \in raw
  BY DEF EnhancedItem, Or, Pieces
<1>1. \A f \in DOMAIN result : result[f] \in texts
  BY <1>0 DEF Pieces, Restores, QuoteParsed, QuoteRestored, PutBack
<1>2. \A f \in DOMAIN QuoteFallback(in) : QuoteFallback(in)[f] \in texts
  BY DEF Pieces, QuoteFallback
<1>3. /\ DOMAIN result = DOMAIN QuoteParsed(in, NoReply)
      /\ DOMAIN QuoteFallback(in) = DOMAIN QuoteParsed(in, NoReply)
  BY DEF QuoteParsed, QuoteRestored, QuoteFallback, PutBack
<1>. QED BY <1>1, <1>2, <1>3 DEF Shown, Fits

\* An answer with its workflow's fields, all but the excepted ones texts over the tokens.
Fit(a, G) ==
    /\ a.status \in {"ok", "degraded"}
    /\ Shown(a.result, NotRestored, Seq(G))
    /\ \/ DOMAIN a.result = Expected
       \/ workflow = "document_knowledge" /\ DOMAIN a.result = Expected \ {"reasoning"}
       \/ workflow = "hr_recruitment" /\ DOMAIN a.result = {"summary"}

\* Every answer is fit to show.
LEMMA AnswersFit ==
  ASSUME NEW G, NEW H, G \subseteq H, HasWords(G),
         workflow \in Workflow, IsInput(input, workflow, G), IsLibrary(documents, G),
         NEW reply, reply.says \in Seq(H), reply.failed \in BOOLEAN, reply.odd \in BOOLEAN,
         Restores(mapping, Seq(H), Seq(G)),
         NEW a \in Answers(reply)
  PROVE  Fit(a, G)
<1>1. Pieces(reply, Seq(H), Seq(G))
  BY RepliesHavePieces
<1>2. \A result, excepted : Shown(result, {}, Seq(G)) => Shown(result, excepted, Seq(G))
  BY DEF Shown
<1>3. CASE workflow = "customer_support"
  <2>1. a = CustomerSupport(reply)
    BY <1>3 DEF Answers
  <2>2. Or(input.issue, Own) \in Seq(G)
    <3>1. input.issue \in Seq(G)
      BY <1>3 DEF IsInput, InputFields
    <3>. QED BY <3>1, PiecesStay
  <2>3. Fits(CustomerSupportRestored(CustomerSupportParsed(input, reply), mapping),
             CustomerSupportFallback(input), DOMAIN CustomerSupportParsed(input, NoReply), {}, Seq(G))
    BY <1>1, <2>2, CustomerSupportFits
  <2>4. NotRestored = {} /\ Expected = DOMAIN CustomerSupportParsed(input, NoReply)
    BY <1>3 DEF NotRestored, Expected
  <2>. QED BY <1>2, <2>1, <2>3, <2>4 DEF Fit, Fits, CustomerSupport, Answer
<1>4. CASE workflow = "sales_lead_qualification"
  <2>1. a = SalesLead(reply)
    BY <1>4 DEF Answers
  <2>3. Fits(SalesLeadRestored(SalesLeadParsed(input, reply), mapping),
             SalesLeadFallback(input), DOMAIN SalesLeadParsed(input, NoReply), {}, Seq(G))
    BY <1>1, SalesLeadFits
  <2>4. NotRestored = {} /\ Expected = DOMAIN SalesLeadParsed(input, NoReply)
    BY <1>4 DEF NotRestored, Expected
  <2>. QED BY <1>2, <2>1, <2>3, <2>4 DEF Fit, Fits, SalesLead, Answer
<1>5. CASE workflow = "hr_recruitment"
  <2>1. a = HrRecruitment(reply)
    BY <1>5 DEF Answers
  <2>2. Or(input.candidate_name, Own) \in Seq(G) /\ Or(input.role, Own) \in Seq(G)
    <3>1. input.candidate_name \in Seq(G) /\ input.role \in Seq(G)
      BY <1>5 DEF IsInput, InputFields
    <3>. QED BY <3>1, PiecesStay
  <2>3. Fits(HrRecruitmentRestored(HrRecruitmentParsed(input, reply), mapping),
             HrRecruitmentFallback(input), DOMAIN HrRecruitmentParsed(input, NoReply), {}, Seq(G))
    BY <1>1, <2>2, HrRecruitmentFits
  <2>4. NotRestored = {} /\ Expected = DOMAIN HrRecruitmentParsed(input, NoReply)
    BY <1>5 DEF NotRestored, Expected
  <2>5. Shown([summary |-> Excuse], {}, Seq(G)) /\ DOMAIN [summary |-> Excuse] = {"summary"}
    BY <1>1 DEF Shown, Pieces
  <2>. QED BY <1>5, <1>2, <2>1, <2>3, <2>4, <2>5 DEF Fit, Fits, HrRecruitment, Answer
<1>6. CASE workflow = "compliance_monitoring"
  <2>1. a = Compliance(reply)
    BY <1>6 DEF Answers
  <2>3. Fits(ComplianceRestored(ComplianceParsed(input, reply), mapping),
             ComplianceFallback(input), DOMAIN ComplianceParsed(input, NoReply),
             {"findings_other_keys", "findings_as_strings", "findings_as_lists"}, Seq(G))
    BY <1>1, ComplianceFits
  <2>4. /\ NotRestored = {"findings_other_keys", "findings_as_strings", "findings_as_lists"}
        /\ Expected = DOMAIN ComplianceParsed(input, NoReply)
    BY <1>6 DEF NotRestored, Expected
  <2>. QED BY <1>2, <2>1, <2>3, <2>4 DEF Fit, Fits, Compliance, Answer
<1>7. CASE workflow = "business_intelligence"
  <2>1. a = BusinessIntelligence(reply)
    BY <1>7 DEF Answers
  <2>2. Or(input.question, Own) \in Seq(G)
    <3>1. input.question \in Seq(G)
      BY <1>7 DEF IsInput, InputFields
    <3>. QED BY <3>1, PiecesStay
  <2>3. Fits(BusinessIntelligenceRestored(BusinessIntelligenceParsed(input, reply), mapping),
             BusinessIntelligenceFallback(input), DOMAIN BusinessIntelligenceParsed(input, NoReply), {}, Seq(G))
    BY <1>1, <2>2, BusinessIntelligenceFits
  <2>4. NotRestored = {} /\ Expected = DOMAIN BusinessIntelligenceParsed(input, NoReply)
    BY <1>7 DEF NotRestored, Expected
  <2>. QED BY <1>2, <2>1, <2>3, <2>4 DEF Fit, Fits, BusinessIntelligence, Answer
<1>8. CASE workflow = "invoice_processing"
  <2>1. a = Invoice(reply)
    BY <1>8 DEF Answers
  <2>3. Fits(InvoiceRestored(InvoiceParsed(input, reply), mapping),
             InvoiceFallback(input), DOMAIN InvoiceParsed(input, NoReply), {"currency"}, Seq(G))
    BY <1>1, InvoiceFits
  <2>4. NotRestored = {"currency"} /\ Expected = DOMAIN InvoiceParsed(input, NoReply)
    BY <1>8 DEF NotRestored, Expected
  <2>. QED BY <1>2, <2>1, <2>3, <2>4 DEF Fit, Fits, Invoice, Answer
<1>9. CASE workflow = "marketing_automation"
  <2>1. a = Marketing(reply)
    BY <1>9 DEF Answers
  <2>2. Or(input.campaign, Own) \in Seq(G) /\ Or(input.audience, Own) \in Seq(G)
    <3>1. input.campaign \in Seq(G) /\ input.audience \in Seq(G)
      BY <1>9 DEF IsInput, InputFields
    <3>. QED BY <3>1, PiecesStay
  <2>3. Fits(MarketingRestored(MarketingParsed(input, reply), mapping),
             MarketingFallback(input), DOMAIN MarketingParsed(input, NoReply), {}, Seq(G))
    BY <1>1, <2>2, MarketingFits
  <2>4. NotRestored = {} /\ Expected = DOMAIN MarketingParsed(input, NoReply)
    BY <1>9 DEF NotRestored, Expected
  <2>. QED BY <1>2, <2>1, <2>3, <2>4 DEF Fit, Fits, Marketing, Answer
<1>10. CASE workflow = "meeting_agenda_assistant"
  <2>1. PICK minutes, blocks : a = [status |-> IF reply.failed THEN "degraded" ELSE "ok",
              result |-> IF reply.failed THEN MeetingFallback(input)
                         ELSE MeetingRestored(MeetingParsed(input, reply), mapping),
              minutes |-> minutes, agenda |-> blocks]
    <3>1. PICK raw \in UNION {[1..n -> RawMinutes] : n \in 0..MaxBlocks}, total \in Durations :
             a = Meeting(reply, raw, total)
      BY <1>10 DEF Answers
    <3>. QED BY <3>1 DEF Meeting, Answer
  <2>2. Or(input.title, Own) \in Seq(G) /\ input.participants \in Seq(G)
    <3>1. input.title \in Seq(G) /\ input.participants \in Seq(G)
      BY <1>10 DEF IsInput, InputFields
    <3>. QED BY <3>1, PiecesStay
  <2>3. Fits(MeetingRestored(MeetingParsed(input, reply), mapping),
             MeetingFallback(input), DOMAIN MeetingParsed(input, NoReply), {}, Seq(G))
    BY <1>1, <2>2, MeetingFits
  <2>4. NotRestored = {} /\ Expected = DOMAIN MeetingParsed(input, NoReply)
    BY <1>10 DEF NotRestored, Expected
  <2>. QED BY <1>2, <2>1, <2>3, <2>4 DEF Fit, Fits
<1>11. CASE workflow = "document_knowledge"
  <2>1. a = DocumentKnowledge(reply)
    BY <1>11 DEF Answers
  <2>2. /\ Shown(DocumentRestored(DocumentParsed(documents, reply), mapping), {}, Seq(G))
        /\ Shown(DocumentFallback(documents), {}, Seq(G))
        /\ DOMAIN DocumentRestored(DocumentParsed(documents, reply), mapping)
              = DOMAIN DocumentParsed(documents, NoReply)
        /\ DOMAIN DocumentFallback(documents) = DOMAIN DocumentParsed(documents, NoReply) \ {"reasoning"}
    <3>1. /\ Snippets(documents) \in Seq(G)
          /\ FlattenSeq([i \in DOMAIN documents |-> documents[i].filename]) \in Seq(G)
          /\ CitedSources(documents, reply) \in Seq(G)
      BY SourcesStay
    <3>. DEFINE shown == Seq(G)
                said == Seq(H)
    <3>. HIDE DEF shown, said
    <3>2. /\ Snippets(documents) \in shown /\ CitedSources(documents, reply) \in shown
          /\ FlattenSeq([i \in DOMAIN documents |-> documents[i].filename]) \in shown
          /\ Pieces(reply, said, shown) /\ Restores(mapping, said, shown)
      BY <1>1, <3>1 DEF shown, said
    <3>3. /\ Shown(DocumentRestored(DocumentParsed(documents, reply), mapping), {}, shown)
          /\ Shown(DocumentFallback(documents), {}, shown)
          /\ DOMAIN DocumentRestored(DocumentParsed(documents, reply), mapping)
                = DOMAIN DocumentParsed(documents, NoReply)
          /\ DOMAIN DocumentFallback(documents) = DOMAIN DocumentParsed(documents, NoReply) \ {"reasoning"}
      BY <3>2, DocumentFits
    <3>. QED BY <3>3 DEF shown
  <2>3. NotRestored = {} /\ Expected = DOMAIN DocumentParsed(documents, NoReply)
    BY <1>11 DEF NotRestored, Expected
  <2>. QED BY <1>11, <2>1, <2>2, <2>3 DEF Fit, Fits, DocumentKnowledge, Answer
<1>12. CASE workflow = "quote_contract_generator"
  <2>1. a = Quote(reply)
    BY <1>12 DEF Answers
  <2>2. input.customer \in Seq(G) /\ Or(input.item, <<<<"item">>>>) \in Seq(G)
    <3>1. input.customer \in Seq(G) /\ input.item \in Seq(G)
      BY <1>12 DEF IsInput, InputFields
    <3>2. <<<<"item">>>> \in Seq(G)
      BY PiecesStay DEF Label
    <3>. QED BY <3>1, <3>2, PiecesStay
  <2>3. Fits(QuoteRestored(QuoteParsed(input, reply), mapping),
             QuoteFallback(input), DOMAIN QuoteParsed(input, NoReply), {}, Seq(G))
    BY <1>1, <2>2, QuoteFits
  <2>4. NotRestored = {} /\ Expected = DOMAIN QuoteParsed(input, NoReply)
    BY <1>12 DEF NotRestored, Expected
  <2>. QED BY <1>2, <2>1, <2>3, <2>4 DEF Fit, Fits, Quote, Answer
<1>. QED BY <1>3, <1>4, <1>5, <1>6, <1>7, <1>8, <1>9, <1>10, <1>11, <1>12 DEF Workflow, InputFields

-----------------------------------------------------------------------------
(* The invariant *)

\* The call is one the workflow takes, its texts over tokens.
Called ==
    /\ workflow \in Workflow
    /\ input \in [InputFields[workflow] -> Seq(Token)]
    /\ documents \in Seq([filename : Seq(Token), text : Seq(Token)])

NothingSent == kept = <<>> /\ sent = <<>> /\ mapping = <<>>

\* What was masked, sent and remembered comes from the message.
HasSent ==
    /\ \E confident \in {"nl", "en", "unsure"} :
          kept = Resolved(Analyzed(Found(Message), workflow, confident))
    /\ sent = Masked(Message, kept)
    /\ mapping = Mapping(Message, kept)

OnTheSpot ==
    Answer("ok",
        [summary |-> Own, confidence |-> Own, document_snippets |-> Snippets(documents),
         top_sources |-> FlattenSeq([i \in DOMAIN documents |-> documents[i].filename])])

\* There is no answer yet, or one that needs no model, or one to what was heard, if anything.
Answered ==
    \/ answer = NoAnswer /\ heard = <<>>
    \/ workflow = "document_knowledge" /\ answer = OnTheSpot /\ heard = <<>>
    \/ answer \in Answers(NoReply) /\ heard = <<>>
    \/ \E odd \in BOOLEAN : heard \in {sent, Invented, <<>>} /\ answer \in Answers(Reply(heard, odd))

CallInv ==
    /\ Called
    /\ at = "new" => NothingSent /\ heard = <<>> /\ answer = NoAnswer
    /\ at = "sent" => HasSent /\ heard = <<>> /\ answer = NoAnswer
    /\ NothingSent \/ HasSent
    /\ Answered

\* Inputs are texts.
LEMMA InputsAreTexts ==
  ASSUME NEW w, NEW in \in Inputs(w)
  PROVE  in \in [InputFields[w] -> Seq(Token)]
<1>. DEFINE V == Seq(Token)
<1>1. Texts \subseteq V
  BY AnswersAssumption
<1>2. <<>> \in V
  BY ShortSequences
<1>. HIDE DEF V
<1>3. in \in [InputFields[w] -> V]
  BY <1>1, <1>2 DEF Inputs
<1>. QED BY <1>3 DEF V

\* A call starts with what the workflow takes.
LEMMA CalledInit == Init => Called
<1>. SUFFICES ASSUME Init PROVE Called
  OBVIOUS
<1>. DEFINE V == Seq([filename : Seq(Token), text : Seq(Token)])
<1>1. Libraries \subseteq V
  BY AnswersAssumption
<1>2. <<>> \in V
  OBVIOUS
<1>. HIDE DEF V
<1>3. documents \in V
  BY <1>1, <1>2 DEF Init
<1>4. workflow \in Workflow /\ input \in [InputFields[workflow] -> Seq(Token)]
  BY InputsAreTexts DEF Init
<1>. QED BY <1>3, <1>4 DEF Called, V

\* What a step that leaves the call alone leaves alone, too.
LEMMA SameCall ==
  ASSUME UNCHANGED <<workflow, input, documents>>
  PROVE  Called' = Called /\ Message' = Message /\ OnTheSpot' = OnTheSpot
<1>1. Called' = Called
  BY DEF Called
<1>2. Message' = Message
  BY DEF Message
<1>3. OnTheSpot' = OnTheSpot
  BY DEF OnTheSpot
<1>. QED BY <1>1, <1>2, <1>3

\* ... and what a step leaves of the answers that leaves the mapping alone, too.
LEMMA SameAnswers ==
  ASSUME UNCHANGED <<workflow, input, documents, mapping>>, NEW reply
  PROVE  Answers(reply)' = Answers(reply)
<1>0. workflow' = workflow /\ input' = input /\ documents' = documents /\ mapping' = mapping
  OBVIOUS
<1>1. /\ CustomerSupport(reply)' = CustomerSupport(reply)
      /\ SalesLead(reply)' = SalesLead(reply)
      /\ HrRecruitment(reply)' = HrRecruitment(reply)
      /\ Compliance(reply)' = Compliance(reply)
      /\ BusinessIntelligence(reply)' = BusinessIntelligence(reply)
  BY <1>0 DEF CustomerSupport, SalesLead, HrRecruitment, Compliance, BusinessIntelligence
<1>2. /\ Invoice(reply)' = Invoice(reply)
      /\ Marketing(reply)' = Marketing(reply)
      /\ DocumentKnowledge(reply)' = DocumentKnowledge(reply)
      /\ Quote(reply)' = Quote(reply)
  BY <1>0 DEF Invoice, Marketing, DocumentKnowledge, Quote
<1>3. \A raw, total : Meeting(reply, raw, total)' = Meeting(reply, raw, total)
  BY <1>0 DEF Meeting
<1>. QED BY <1>0, <1>1, <1>2, <1>3 DEF Answers

\* The invariant holds before anything is sent ...
LEMMA CallInvInit == Init => CallInv
BY CalledInit DEF Init, CallInv, NothingSent, Answered

\* What was sent stays what it was when the call and the texts do.
LEMMA SameSent ==
  ASSUME UNCHANGED <<workflow, input, documents, kept, sent, mapping>>
  PROVE  NothingSent' = NothingSent /\ HasSent' = HasSent
<1>1. Message' = Message
  BY SameCall
<1>2. Found(Message)' = Found(Message)
  BY <1>1 DEF Found
<1>. QED BY <1>1, <1>2 DEF NothingSent, HasSent

\* ... and every step keeps it.
LEMMA CallInvStep == CallInv /\ [Next]_vars => CallInv'
<1>. SUFFICES ASSUME CallInv, [Next]_vars PROVE CallInv'
  OBVIOUS
<1>1. UNCHANGED <<workflow, input, documents>>
  BY DEF Next, vars, AnswerOnTheSpot, RaiseOnNumber, Block, Send, Fail, Receive
<1>2. Called' /\ Message' = Message /\ OnTheSpot' = OnTheSpot
  BY <1>1, SameCall DEF CallInv
<1>3. ASSUME UNCHANGED <<kept, sent, mapping>>, at' = "done", Answered'
      PROVE  CallInv'
  <2>1. NothingSent' \/ HasSent'
    BY <1>1, <1>3, SameSent DEF CallInv
  <2>. QED BY <1>2, <1>3, <2>1 DEF CallInv
<1>4. CASE AnswerOnTheSpot
  <2>1. Answered'
    BY <1>1, <1>2, <1>4 DEF AnswerOnTheSpot, HasAnswerReady, Answered, OnTheSpot, CallInv
  <2>. QED BY <1>3, <1>4, <2>1 DEF AnswerOnTheSpot
<1>5. CASE RaiseOnNumber
  <2>1. Answered'
    BY <1>5 DEF RaiseOnNumber, Answered, CallInv
  <2>. QED BY <1>3, <1>5, <2>1 DEF RaiseOnNumber
<1>6. CASE Block \/ Fail
  <2>1. answer' \in Answers(NoReply)' /\ heard' = <<>> /\ UNCHANGED <<kept, sent, mapping>> /\ at' = "done"
    <3>1. Answers(NoReply)' = Answers(NoReply)
      BY <1>1, <1>6, SameAnswers DEF Block, Fail
    <3>. QED BY <1>6, <3>1 DEF Block, Fail, CallInv
  <2>. QED BY <1>3, <2>1 DEF Answered
<1>7. ASSUME NEW confident \in {"nl", "en", "unsure"}, Send(confident) PROVE CallInv'
  <2>1. /\ kept' = Resolved(Analyzed(Found(Message), workflow, confident))
        /\ sent' = Masked(Message, kept')
        /\ mapping' = Mapping(Message, kept')
        /\ at' = "sent" /\ UNCHANGED <<heard, answer>> /\ at = "new"
    BY <1>7 DEF Send
  <2>2. Found(Message)' = Found(Message)
    BY <1>2 DEF Found
  <2>3. HasSent'
    BY <1>1, <1>2, <2>1, <2>2 DEF HasSent
  <2>4. heard' = <<>> /\ answer' = NoAnswer
    BY <2>1 DEF CallInv
  <2>. QED BY <1>2, <2>1, <2>3, <2>4 DEF CallInv, Answered
<1>8. ASSUME NEW says \in {sent, Invented, <<>>}, NEW odd \in BOOLEAN, Receive(says, odd) PROVE CallInv'
  <2>1. UNCHANGED <<kept, sent, mapping>> /\ at' = "done" /\ heard' = says
    BY <1>8 DEF Receive
  <2>2. answer' \in Answers(Reply(says, odd))'
    BY <1>1, <1>8, SameAnswers DEF Receive
  <2>3. Answered'
    BY <2>1, <2>2 DEF Answered, Reply
  <2>. QED BY <1>3, <2>1, <2>3
<1>9. CASE UNCHANGED vars
  <2>1. \A reply : Answers(reply)' = Answers(reply)
    BY <1>9, SameAnswers DEF vars
  <2>2. Answered'
    BY <1>2, <1>9, <2>1 DEF vars, Answered, CallInv
  <2>3. NothingSent' = NothingSent /\ HasSent' = HasSent
    BY <1>9, SameSent DEF vars
  <2>. QED BY <1>2, <1>9, <2>2, <2>3 DEF vars, CallInv
<1>. QED BY <1>4, <1>5, <1>6, <1>7, <1>8, <1>9 DEF Next

\* What was masked, sent and answered always comes from the call's own message and reply.
THEOREM CallsStayValid == Spec => []CallInv
BY CallInvInit, CallInvStep, PTL DEF Spec

-----------------------------------------------------------------------------
(* What the invariant implies *)

\* The tokens the user wrote, and with them the words of the workflows.
UserToken == UNION {Range(t) : t \in Written}
Plain == UserToken \union {<<w>> : w \in Label} \union {Omitted}

\* The call, and with it the message, is over the tokens the user wrote and the labels.
LEMMA CallStays ==
  ASSUME Called, NEW G, HasWords(G), UserToken \subseteq G
  PROVE  IsInput(input, workflow, G) /\ IsLibrary(documents, G) /\ Message \in Seq(G)
<1>. DEFINE V == Seq(Token)
            U == Seq(G)
            R == [filename : V, text : V]
            S == [filename : U, text : U]
<1>1. \A t \in Written : t \in V => t \in U
  <2>. TAKE t \in Written
  <2>. HAVE t \in V
  <2>1. Range(t) \subseteq G
    BY DEF UserToken
  <2>2. \A i \in 1..Len(t) : t[i] \in G
    BY <2>1 DEF Range
  <2>. QED BY <2>2
<1>. HIDE DEF V, U
<1>2. input \in [InputFields[workflow] -> V] /\ documents \in Seq(R)
  BY DEF Called, V
<1>3. input \in [InputFields[workflow] -> U]
  <2>1. \A f \in InputFields[workflow] : input[f] \in V /\ input[f] \in Written
    BY <1>2 DEF Written
  <2>2. \A f \in InputFields[workflow] : input[f] \in U
    BY <1>1, <2>1
  <2>. QED BY <1>2, <2>2
<1>4. documents \in Seq(S)
  <2>1. \A d \in R : d = [filename |-> d.filename, text |-> d.text] /\ d.filename \in V /\ d.text \in V
    OBVIOUS
  <2>. HIDE DEF R
  <2>2. \A i \in 1..Len(documents) : documents[i] \in R
    BY <1>2
  <2>3. \A i \in 1..Len(documents) : documents[i].filename \in Written /\ documents[i].text \in Written
    <3>1. DOMAIN documents = 1..Len(documents)
      BY <1>2
    <3>. QED BY <3>1 DEF Written
  <2>4. \A i \in 1..Len(documents) : documents[i].filename \in U /\ documents[i].text \in U
    BY <1>1, <2>1, <2>2, <2>3
  <2>5. \A i \in 1..Len(documents) : documents[i] \in S
    <3>. TAKE i \in 1..Len(documents)
    <3>1. documents[i] = [filename |-> documents[i].filename, text |-> documents[i].text]
      BY <2>1, <2>2
    <3>. QED BY <2>4, <3>1
  <2>. HIDE DEF S
  <2>. QED BY <1>2, <2>5
<1>5. IsInput(input, workflow, G) /\ IsLibrary(documents, G)
  BY <1>3, <1>4 DEF IsInput, IsLibrary, U
<1>. QED BY <1>5, MessageStays DEF Called

\* What was masked are spans of the message, and every detection is covered by one.
LEMMA KeptCovers ==
  ASSUME NEW G, Message \in Seq(G), NEW confident,
         kept = Resolved(Analyzed(Found(Message), workflow, confident))
  PROVE  /\ IsKept(kept, Len(Message))
         /\ \A l \in {"nl", "en"} : \A d \in Range(Found(Message)[l]) :
               d.type \in Wanted(workflow, l, confident) =>
                  \E i \in DOMAIN kept : Overlap(kept[i], d) /\ kept[i].score >= d.score
<1>. DEFINE results == Analyzed(Found(Message), workflow, confident)
            text == Message
            found == Found(Message)
<1>0. PICK n \in Nat : n = Len(text)
  OBVIOUS
<1>1. \A l \in {"nl", "en"} : found[l] \in Seq(Spans(n))
  BY <1>0, FoundSpans
<1>2. /\ results \in Seq(Spans(n))
      /\ Range(results) = UNION {{d \in Range(found[l]) : d.type \in Wanted(workflow, l, confident)} :
                        l \in {"nl", "en"}}
  <2>. HIDE DEF found
  <2>. QED BY <1>1, AnalyzedRange DEF found
<1>. HIDE DEF results, found, text
<1>3. /\ IsKept(kept, n)
      /\ \A d \in Range(results) :
            \E i \in DOMAIN kept : Overlap(kept[i], d) /\ kept[i].score >= d.score
  BY <1>2, ResolvedCovers DEF results
<1>4. \A l \in {"nl", "en"} : \A d \in Range(found[l]) :
          d.type \in Wanted(workflow, l, confident) => d \in Range(results)
  BY <1>2
<1>. QED BY <1>0, <1>3, <1>4 DEF text, found

\* The tokens of what was sent and of the values to put back.
LEMMA SentTokens ==
  ASSUME NEW G, Message \in Seq(G), NothingSent \/ HasSent
  PROVE  /\ sent \in Seq(G \union DOMAIN mapping)
         /\ \A tag \in DOMAIN mapping : IsTag(tag) /\ mapping[tag] \in Seq(G)
<1>1. CASE NothingSent
  <2>1. DOMAIN mapping = {} /\ sent = <<>>
    BY <1>1 DEF NothingSent
  <2>. QED BY <2>1, ShortSequences
<1>2. CASE HasSent
  <2>1. PICK confident : kept = Resolved(Analyzed(Found(Message), workflow, confident))
    BY <1>2 DEF HasSent
  <2>2. IsKept(kept, Len(Message))
    BY <2>1, KeptCovers
  <2>3. Len(kept) \in Nat
    BY <2>2 DEF IsKept
  <2>4. /\ Masked(Message, kept) \in Seq(G \union DOMAIN Mapping(Message, kept))
        /\ \A tag \in DOMAIN Mapping(Message, kept) :
              IsTag(tag) /\ Mapping(Message, kept)[tag] \in Seq(G)
    BY <2>2, <2>3, SentStays
  <2>. QED BY <1>2, <2>4 DEF HasSent
<1>. QED BY <1>1, <1>2

\* Placeholders among them are the user's own.
LEMMA PlainTokens ==
  /\ HasWords(Plain) /\ UserToken \subseteq Plain /\ Omitted \in Plain
  /\ \A t \in Plain : IsTag(t) => t \in Given
<1>1. HasWords(Plain) /\ UserToken \subseteq Plain /\ Omitted \in Plain
  BY DEF HasWords, Plain
<1>2. \A t \in UserToken : IsTag(t) => t \in Given
  BY DEF UserToken, Given, TagsIn, Range
<1>3. \A w \in Label : ~IsTag(<<w>>)
  BY DEF IsTag
<1>4. ~IsTag(Omitted)
  BY DEF IsTag, Omitted
<1>. QED BY <1>1, <1>2, <1>3, <1>4 DEF Plain

\* Whatever language langdetect settles on, the patterns run with both models, and the names
\* with at least one.
LEMMA WantedSomewhere ==
  ASSUME NEW w, NEW confident \in {"nl", "en", "unsure"}
  PROVE  /\ \A l \in {"nl", "en"} : EntitySet(w) \ NerTypes \subseteq Wanted(w, l, confident)
         /\ \E l \in {"nl", "en"} : EntitySet(w) \subseteq Wanted(w, l, confident)
BY DEF Wanted

\* The invariant implies that only of what is outdone anything leaves.
LEMMA OutdoneLeave == CallInv => OnlyTheOutdoneLeave
<1>. SUFFICES ASSUME CallInv, at = "sent" PROVE OnlyTheOutdoneLeave
  BY DEF OnlyTheOutdoneLeave
<1>. DEFINE Covered(d) == \E i \in DOMAIN kept : Overlap(kept[i], d) /\ kept[i].score >= d.score
            found == Found(Message)
<1>1. HasSent /\ Message \in Seq(Plain)
  BY PlainTokens, CallStays DEF CallInv
<1>2. PICK confident \in {"nl", "en", "unsure"} :
         kept = Resolved(Analyzed(Found(Message), workflow, confident))
  BY <1>1 DEF HasSent
<1>3. /\ IsKept(kept, Len(Message))
      /\ \A l \in {"nl", "en"} : \A d \in Range(found[l]) :
            d.type \in Wanted(workflow, l, confident) => Covered(d)
  BY <1>1, <1>2, KeptCovers
<1>4. Words(sent) = Words(FlattenSeq(Beyond(Message, kept)))
  <2>1. Len(kept) \in Nat
    BY <1>3 DEF IsKept
  <2>2. Words(Masked(Message, kept)) = Words(FlattenSeq(Beyond(Message, kept)))
    BY <1>1, <1>3, <2>1, WordsOutside
  <2>. QED BY <1>1, <2>2 DEF HasSent
<1>6. ASSUME NEW d, Covered(d) PROVE Whole(d) \/ Outdone(d)
  <2>1. PICK k \in DOMAIN kept : Overlap(kept[k], d) /\ kept[k].score >= d.score
    BY <1>6
  <2>2. CASE kept[k] # d
    BY <2>1, <2>2 DEF Outdone
  <2>3. CASE kept[k] = d
    <3>1. ASSUME NEW i \in d.from..d.to - 1 PROVE kept[k].from <= i /\ i < kept[k].to
      <4>1. d.from \in Int /\ d.to \in Int
        BY <1>3, <2>1, <2>3 DEF IsKept, Spans
      <4>. QED BY <2>3, <3>1, <4>1
    <3>. QED BY <2>1, <3>1 DEF Whole, IsMasked
  <2>. QED BY <2>2, <2>3
<1>. HIDE DEF Covered, found
<1>5. /\ \A l \in {"nl", "en"} : \A d \in Range(found[l]) :
            d.type \in EntitySet(workflow) /\ d.type \notin NerTypes => Covered(d)
      /\ \E l \in {"nl", "en"} : \A d \in Range(found[l]) :
            d.type \in EntitySet(workflow) /\ d.type \in NerTypes => Covered(d)
  <2>1. /\ \A l \in {"nl", "en"} : EntitySet(workflow) \ NerTypes \subseteq Wanted(workflow, l, confident)
        /\ \E l \in {"nl", "en"} : EntitySet(workflow) \subseteq Wanted(workflow, l, confident)
    BY WantedSomewhere
  <2>. QED BY <1>3, <2>1
<1>. QED BY <1>4, <1>5, <1>6 DEF OnlyTheOutdoneLeave, Beyond, IsMasked, found

\* What the patterns detect with either model, and the names of at least one, is masked as a
\* whole unless something masked of at least its score overlaps it, and all words that are sent
\* stood outside what is masked (anonymize_text_with_mapping).
THEOREM TheRestStaysHome == Spec => []OnlyTheOutdoneLeave
BY CallsStayValid, OutdoneLeave, PTL

\* Putting back into any reply gives texts of plain tokens.
LEMMA RestoringPlain ==
  ASSUME Called, NothingSent \/ HasSent
  PROVE  LET H == Plain \union DOMAIN mapping \union {Invented[1]} IN
         /\ Restores(mapping, Seq(H), Seq(Plain)) /\ Plain \subseteq H
         /\ sent \in Seq(H) /\ Invented \in Seq(H) /\ <<>> \in Seq(H)
<1>. DEFINE H == Plain \union DOMAIN mapping \union {Invented[1]}
            D == Plain \union DOMAIN mapping
<1>1. Message \in Seq(Plain)
  BY PlainTokens, CallStays
<1>2. /\ sent \in Seq(D)
      /\ \A tag \in DOMAIN mapping : IsTag(tag) /\ mapping[tag] \in Seq(Plain)
  BY <1>1, SentTokens
<1>3. sent \in Seq(H)
  <2>1. D \subseteq H
    OBVIOUS
  <2>. HIDE DEF D, H
  <2>. QED BY <1>2, <2>1
<1>4. Invented \in Seq(H) /\ <<>> \in Seq(H)
  <2>1. Invented = <<Invented[1]>> /\ Invented[1] \in H
    BY DEF Invented
  <2>. HIDE DEF H
  <2>. QED BY <2>1, ShortSequences, Zenon
<1>5. IsTag(Invented[1])
  BY DEF IsTag, Invented
<1>6. \A s \in Seq(H) : Restored(s, mapping) \in Seq(Plain)
  <2>1. \A t \in H : ~IsTag(t) => t \in Plain
    BY <1>2, <1>5
  <2>2. \A t \in H : IsTag(t) /\ t \in DOMAIN mapping => mapping[t] \in Seq(Plain)
    BY <1>2
  <2>3. \A t \in H : IsTag(t) /\ t \notin DOMAIN mapping => Omitted \in Plain
    BY PlainTokens
  <2>. HIDE DEF H
  <2>. QED BY <2>1, <2>2, <2>3, RestoredStays
<1>. QED BY <1>3, <1>4, <1>6 DEF Restores

\* The invariant implies that there is no answer yet, or one that is fit ...
LEMMA FitForAll == CallInv => answer = NoAnswer \/ Fit(answer, Plain)
<1>. SUFFICES ASSUME CallInv, answer # NoAnswer PROVE Fit(answer, Plain)
  OBVIOUS
<1>. DEFINE H == Plain \union DOMAIN mapping \union {Invented[1]}
<1>1. /\ Restores(mapping, Seq(H), Seq(Plain)) /\ Plain \subseteq H
      /\ sent \in Seq(H) /\ Invented \in Seq(H) /\ <<>> \in Seq(H)
  BY RestoringPlain DEF CallInv
<1>. HIDE DEF H
<1>2. IsInput(input, workflow, Plain) /\ IsLibrary(documents, Plain) /\ workflow \in Workflow
      /\ HasWords(Plain)
  BY PlainTokens, CallStays DEF CallInv, Called
<1>3. ASSUME NEW reply, reply.says \in {sent, Invented, <<>>}, reply.failed \in BOOLEAN,
             reply.odd \in BOOLEAN, answer \in Answers(reply)
      PROVE  Fit(answer, Plain)
  <2>1. reply.says \in Seq(H)
    BY <1>1, <1>3
  <2>. QED BY <1>1, <1>2, <1>3, <2>1, AnswersFit
<1>4. CASE answer \in Answers(NoReply)
  <2>1. NoReply.says = <<>> /\ NoReply.failed \in BOOLEAN /\ NoReply.odd \in BOOLEAN
    BY DEF NoReply
  <2>. QED BY <1>3, <1>4, <2>1
<1>5. CASE \E odd \in BOOLEAN : heard \in {sent, Invented, <<>>} /\ answer \in Answers(Reply(heard, odd))
  <2>1. PICK odd \in BOOLEAN : heard \in {sent, Invented, <<>>} /\ answer \in Answers(Reply(heard, odd))
    BY <1>5
  <2>2. /\ Reply(heard, odd).says = heard /\ Reply(heard, odd).failed \in BOOLEAN
        /\ Reply(heard, odd).odd \in BOOLEAN
    BY DEF Reply
  <2>. QED BY <1>3, <2>1, <2>2
<1>6. CASE workflow = "document_knowledge" /\ answer = OnTheSpot
  <2>. DEFINE sources == FlattenSeq([i \in DOMAIN documents |-> documents[i].filename])
              texts == Seq(Plain)
  <2>1. Snippets(documents) \in texts /\ sources \in texts
    BY <1>2, SourcesStay
  <2>2. Own \in texts
    BY PlainTokens, PiecesStay
  <2>3. answer = Answer("ok", [summary |-> Own, confidence |-> Own,
           document_snippets |-> Snippets(documents), top_sources |-> sources])
    BY <1>6 DEF OnTheSpot
  <2>4. Expected = {"summary", "top_sources", "confidence", "document_snippets", "reasoning"}
    BY <1>6 DEF Expected, DocumentParsed
  <2>. HIDE DEF sources, texts
  <2>5. Shown(answer.result, NotRestored, texts)
    BY <2>1, <2>2, <2>3 DEF Shown, Answer
  <2>6. DOMAIN answer.result = Expected \ {"reasoning"} /\ answer.status = "ok"
    BY <2>3, <2>4 DEF Answer
  <2>. QED BY <1>6, <2>5, <2>6 DEF Fit, texts
<1>. QED BY <1>4, <1>5, <1>6 DEF CallInv, Answered

\* ... so that it shows no placeholder that was not given.
LEMMA FitIsFit == CallInv => AnswersAreFitToShow
<1>. SUFFICES ASSUME CallInv PROVE AnswersAreFitToShow
  OBVIOUS
<1>1. CASE answer = NoAnswer
  BY <1>1 DEF NoAnswer, AnswersAreFitToShow
<1>2. CASE Fit(answer, Plain)
  <2>1. \A s \in Seq(Plain) : TagsIn(s) \subseteq Given
    <3>1. \A s \in Seq(Plain) : \A i \in DOMAIN s : s[i] \in Plain
      OBVIOUS
    <3>. QED BY <3>1, PlainTokens DEF TagsIn
  <2>2. \A f \in DOMAIN answer.result \ NotRestored : answer.result[f] \in Seq(Plain)
    BY <1>2 DEF Fit, Shown
  <2>. QED BY <1>2, <2>1, <2>2 DEF Fit, AnswersAreFitToShow
<1>. QED BY <1>1, <1>2, FitForAll

\* However the model replies, answers have their fields and show no placeholders but the user's
\* (restore_placeholders, and the _restore and _fallback functions of the ten workflows).
THEOREM AnswersStayFitToShow == Spec => []AnswersAreFitToShow
BY CallsStayValid, FitIsFit, PTL

\* Every workflow shows a text of the reply with the values put back.
LEMMA RepliesAreShown ==
  ASSUME workflow \in Workflow, NEW reply, reply.failed = FALSE,
         NEW a \in Answers(reply), a.status = "ok"
  PROVE  \E f \in DOMAIN a.result : a.result[f] = Restored(reply.says, mapping)
<1>. DEFINE Echoed(result, f) == f \in DOMAIN result /\ result[f] = Restored(reply.says, mapping)
<1>1. CASE workflow = "customer_support"
  <2>1. a.result = CustomerSupportRestored(CustomerSupportParsed(input, reply), mapping)
    BY <1>1 DEF Answers, CustomerSupport, Answer
  <2>2. Echoed(a.result, "summary")
    BY <2>1 DEF CustomerSupportRestored, CustomerSupportParsed, PutBack, AsText
  <2>. QED BY <2>2
<1>2. CASE workflow = "sales_lead_qualification"
  <2>1. a.result = SalesLeadRestored(SalesLeadParsed(input, reply), mapping)
    BY <1>2 DEF Answers, SalesLead, Answer
  <2>2. Echoed(a.result, "summary")
    BY <2>1 DEF SalesLeadRestored, SalesLeadParsed, PutBack, AsText
  <2>. QED BY <2>2
<1>3. CASE workflow = "hr_recruitment"
  <2>1. a.result = HrRecruitmentRestored(HrRecruitmentParsed(input, reply), mapping)
    BY <1>3 DEF Answers, HrRecruitment, Answer
  <2>2. Echoed(a.result, "summary")
    BY <2>1 DEF HrRecruitmentRestored, HrRecruitmentParsed, PutBack, AsText
  <2>. QED BY <2>2
<1>4. CASE workflow = "compliance_monitoring"
  <2>1. a.result = ComplianceRestored(ComplianceParsed(input, reply), mapping)
    BY <1>4 DEF Answers, Compliance, Answer
  <2>2. Echoed(a.result, "summary")
    BY <2>1 DEF ComplianceRestored, ComplianceParsed, PutBack, AsText
  <2>. QED BY <2>2
<1>5. CASE workflow = "business_intelligence"
  <2>1. a.result = BusinessIntelligenceRestored(BusinessIntelligenceParsed(input, reply), mapping)
    BY <1>5 DEF Answers, BusinessIntelligence, Answer
  <2>2. Echoed(a.result, "summary")
    BY <2>1 DEF BusinessIntelligenceRestored, BusinessIntelligenceParsed, PutBack, AsText
  <2>. QED BY <2>2
<1>6. CASE workflow = "invoice_processing"
  <2>1. a.result = InvoiceRestored(InvoiceParsed(input, reply), mapping)
    BY <1>6 DEF Answers, Invoice, Answer
  <2>2. Echoed(a.result, "summary")
    BY <2>1 DEF InvoiceRestored, InvoiceParsed, PutBack, AsText
  <2>. QED BY <2>2
<1>7. CASE workflow = "marketing_automation"
  <2>1. a.result = MarketingRestored(MarketingParsed(input, reply), mapping)
    BY <1>7 DEF Answers, Marketing, Answer
  <2>2. Echoed(a.result, "summary")
    BY <2>1 DEF MarketingRestored, MarketingParsed, PutBack, AsText
  <2>. QED BY <2>2
<1>8. CASE workflow = "meeting_agenda_assistant"
  <2>1. a.result = MeetingRestored(MeetingParsed(input, reply), mapping)
    <3>1. PICK raw \in UNION {[1..n -> RawMinutes] : n \in 0..MaxBlocks}, total \in Durations :
             a = Meeting(reply, raw, total)
      BY <1>8 DEF Answers
    <3>. QED BY <3>1 DEF Meeting, Answer
  <2>2. Echoed(a.result, "meeting_summary")
    BY <2>1 DEF MeetingRestored, MeetingParsed, PutBack, AsText
  <2>. QED BY <2>2
<1>9. CASE workflow = "document_knowledge"
  <2>1. a.result = DocumentRestored(DocumentParsed(documents, reply), mapping)
    BY <1>9 DEF Answers, DocumentKnowledge, Answer
  <2>2. Echoed(a.result, "summary")
    BY <2>1 DEF DocumentRestored, DocumentParsed, PutBack, AsText
  <2>. QED BY <2>2
<1>10. CASE workflow = "quote_contract_generator"
  <2>1. a.result = QuoteRestored(QuoteParsed(input, reply), mapping)
    BY <1>10 DEF Answers, Quote, Answer
  <2>2. Echoed(a.result, "quote_text")
    BY <2>1 DEF QuoteRestored, QuoteParsed, PutBack, AsText
  <2>. QED BY <2>2
<1>. QED BY <1>1, <1>2, <1>3, <1>4, <1>5, <1>6, <1>7, <1>8, <1>9, <1>10 DEF Workflow, InputFields

\* A token occurs in a text where one of the text's tokens is it.
LEMMA OccursOnce ==
  ASSUME NEW G, NEW s \in Seq(G), NEW x
  PROVE  Occurs(<<x>>, s) <=> \E i \in DOMAIN s : s[i] = x
<1>1. PICK n \in Nat : n = Len(s) /\ DOMAIN s = 1..n
  OBVIOUS
<1>2. Len(<<x>>) = 1 /\ n - 1 + 1 = n
  OBVIOUS
<1>3. \A i \in 1..n : SubSeq(s, i, i + 1 - 1) = <<s[i]>>
  <2>. TAKE i \in 1..n
  <2>1. i + 1 - 1 = i
    OBVIOUS
  <2>2. SubSeq(s, i, i) = <<s[i]>>
    <3>1. i \in Int /\ \A j \in i..i : s[j] \in G
      BY <1>1
    <3>2. /\ SubSeq(s, i, i) \in Seq(G)
          /\ Len(SubSeq(s, i, i)) = IF i <= i THEN i - i + 1 ELSE 0
          /\ \A j \in 1..i - i + 1 : SubSeq(s, i, i)[j] = s[i + j - 1]
      BY <3>1, SubSeqProperties
    <3>3. i - i + 1 = 1 /\ 1 \in 1..1 /\ i + 1 - 1 = i
      OBVIOUS
    <3>4. SubSeq(s, i, i) \in Seq(G) /\ Len(SubSeq(s, i, i)) = 1 /\ SubSeq(s, i, i)[1] = s[i]
      BY <3>2, <3>3
    <3>. DEFINE r == SubSeq(s, i, i)
    <3>. HIDE DEF r
    <3>5. r \in Seq(G) /\ Len(r) = 1 /\ r[1] = s[i]
      BY <3>4 DEF r
    <3>6. DOMAIN r = 1..1 /\ r = [j \in DOMAIN r |-> r[j]]
      BY <3>5
    <3>7. r = <<s[i]>>
      BY <3>5, <3>6
    <3>. QED BY <3>7 DEF r
  <2>. QED BY <2>1, <2>2
<1>4. \A i \in 1..n : <<s[i]>> = <<x>> <=> s[i] = x
  OBVIOUS
<1>. QED BY <1>1, <1>2, <1>3, <1>4 DEF Occurs

Clean == UserToken \union {<<w>> : w \in Label}

\* Without placeholders or fillers of the user's own, there are none in the message.
LEMMA CleanTokens ==
  ASSUME Called, Given = {}, \A t \in Written : ~Occurs(<<Omitted>>, t)
  PROVE  /\ HasWords(Clean) /\ UserToken \subseteq Clean
         /\ \A t \in Clean : ~IsTag(t) /\ t # Omitted
<1>1. HasWords(Clean) /\ UserToken \subseteq Clean
  BY DEF HasWords, Clean
<1>2. \A w \in Label : ~IsTag(<<w>>) /\ <<w>> # Omitted
  <2>1. "[omitted]" \notin Label
    BY DEF Label
  <2>. QED BY <2>1 DEF IsTag, Omitted
<1>3. \A t \in UserToken : ~IsTag(t)
  BY PlainTokens DEF Plain
<1>4. \A t \in Written : t \in Seq(Token)
  <2>. DEFINE V == Seq(Token)
              R == [filename : V, text : V]
  <2>1. \A d \in R : d.filename \in V /\ d.text \in V
    OBVIOUS
  <2>2. documents \in Seq(R) /\ input \in [InputFields[workflow] -> V]
    BY DEF Called
  <2>. HIDE DEF V, R
  <2>3. \A i \in DOMAIN documents : documents[i].filename \in V /\ documents[i].text \in V
    BY <2>1, <2>2
  <2>4. \A f \in DOMAIN input : input[f] \in V
    BY <2>2
  <2>5. \A t \in Written : t \in V
    BY <2>3, <2>4 DEF Written
  <2>. QED BY <2>5 DEF V
<1>5. \A t \in UserToken : t # Omitted
  <2>. SUFFICES ASSUME NEW t \in Written, Omitted \in Range(t) PROVE FALSE
    BY DEF UserToken
  <2>1. \E i \in DOMAIN t : t[i] = Omitted
    BY DEF Range
  <2>. QED BY <1>4, <2>1, OccursOnce
<1>. QED BY <1>1, <1>2, <1>3, <1>5 DEF Clean

\* The invariant implies that what was masked comes back.
LEMMA MaskedIsBack == CallInv => WhatWasMaskedComesBack
<1>. SUFFICES ASSUME CallInv, answer.status = "ok", heard = sent, sent # <<>>, ~PhonesCollide,
                     Given = {}, \A t \in Written : ~Occurs(<<Omitted>>, t)
              PROVE  /\ \E f \in DOMAIN answer.result : answer.result[f] = Message
                     /\ \A f \in DOMAIN answer.result \ NotRestored :
                           TagsIn(answer.result[f]) = {} /\ ~Occurs(<<Omitted>>, answer.result[f])
  BY DEF WhatWasMaskedComesBack
<1>1. /\ HasWords(Clean) /\ UserToken \subseteq Clean
      /\ \A t \in Clean : ~IsTag(t) /\ t # Omitted
  BY CleanTokens DEF CallInv
<1>2. IsInput(input, workflow, Clean) /\ IsLibrary(documents, Clean) /\ Message \in Seq(Clean)
      /\ workflow \in Workflow
  BY <1>1, CallStays DEF CallInv, Called
<1>3. HasSent
  BY DEF CallInv, NothingSent
<1>4. PICK odd \in BOOLEAN : answer \in Answers(Reply(heard, odd))
  <2>1. answer # NoAnswer
    BY DEF NoAnswer
  <2>. QED BY <2>1 DEF CallInv, Answered
<1>. DEFINE reply == Reply(heard, odd)
            D == Clean \union DOMAIN mapping
<1>5. reply.says = sent /\ reply.failed = FALSE /\ reply.odd \in BOOLEAN
  BY DEF Reply
<1>6. Restored(sent, mapping) = Message
  <2>1. PICK confident : kept = Resolved(Analyzed(Found(Message), workflow, confident))
    BY <1>3 DEF HasSent
  <2>2. IsKept(kept, Len(Message))
    BY <1>2, <2>1, KeptCovers
  <2>3. PICK m \in Nat : m = Len(kept) /\ DOMAIN kept = 1..m
    BY <2>2 DEF IsKept
  <2>4. PhonesAgree(Message, kept, m)
    BY <2>3 DEF PhonesAgree, PhonesCollide
  <2>5. \A t \in Clean : ~IsTag(t)
    BY <1>1
  <2>6. Restored(Masked(Message, kept), Mapping(Message, kept)) = Message
    BY <1>2, <2>2, <2>3, <2>4, <2>5, MaskedComesBack
  <2>. QED BY <1>3, <2>6 DEF HasSent
<1>. HIDE DEF reply
<1>7. \E f \in DOMAIN answer.result : answer.result[f] = Message
  <2>1. answer \in Answers(reply)
    BY <1>4 DEF reply
  <2>2. \E f \in DOMAIN answer.result : answer.result[f] = Restored(reply.says, mapping)
    BY <1>2, <1>5, <2>1, RepliesAreShown
  <2>. QED BY <1>5, <1>6, <2>2
<1>8. Fit(answer, Clean)
  <2>1. /\ sent \in Seq(D)
        /\ \A tag \in DOMAIN mapping : IsTag(tag) /\ mapping[tag] \in Seq(Clean)
    BY <1>2, <1>3, SentTokens
  <2>2. \A s \in Seq(D) : Restored(s, mapping) \in Seq(Clean)
    <3>1. \A t \in D : ~IsTag(t) => t \in Clean
      BY <2>1
    <3>2. \A t \in D : IsTag(t) /\ t \in DOMAIN mapping => mapping[t] \in Seq(Clean)
      BY <2>1
    <3>3. \A t \in D : IsTag(t) /\ t \notin DOMAIN mapping => Omitted \in Clean
      BY <1>1
    <3>. HIDE DEF D
    <3>. QED BY <3>1, <3>2, <3>3, RestoredStays
  <2>3. Clean \subseteq D
    OBVIOUS
  <2>. HIDE DEF D
  <2>4. Restores(mapping, Seq(D), Seq(Clean)) /\ reply.says \in Seq(D) /\ answer \in Answers(reply)
    BY <1>4, <1>5, <2>1, <2>2 DEF Restores, reply
  <2>. QED BY <1>1, <1>2, <1>5, <2>3, <2>4, AnswersFit
<1>9. \A s \in Seq(Clean) : TagsIn(s) = {} /\ ~Occurs(<<Omitted>>, s)
  <2>. TAKE s \in Seq(Clean)
  <2>1. \A i \in DOMAIN s : ~IsTag(s[i]) /\ s[i] # Omitted
    BY <1>1
  <2>. QED BY <2>1, OccursOnce DEF TagsIn
<1>10. \A f \in DOMAIN answer.result \ NotRestored : answer.result[f] \in Seq(Clean)
  BY <1>8 DEF Fit, Shown
<1>. QED BY <1>7, <1>9, <1>10

\* A model that repeats the message it was sent has every masked value put back in its place
\* (anonymize_text_with_mapping, restore_placeholders, the _restore functions).
THEOREM MaskedValuesComeBack == Spec => []WhatWasMaskedComesBack
BY CallsStayValid, MaskedIsBack, PTL

-----------------------------------------------------------------------------
(* Agendas *)

Filled(a, minutes) ==
    LET n == Len(a)  End(i) == a[i].start_min + a[i].duration_min IN
    n > 0 =>
        /\ a[1].start_min = 0
        /\ \A i \in 2..n : a[i].start_min = End(i - 1)
        /\ \/ End(n) = minutes
           \/ a[n].start_min >= minutes /\ a[n].duration_min = 1

\* The two blocks of a degraded agenda fill the meeting (_fallback_agenda).
LEMMA FallbackAgendaFilled ==
  ASSUME NEW total \in Int
  PROVE  Filled(FallbackAgenda(total), total)
BY DEF Filled, FallbackAgenda

\* Whatever lengths the model gives its blocks, the agenda fills the meeting unless they are too
\* long before the last (_parse_llm_response).
LEMMA AgendaFilled ==
  ASSUME NEW n \in Nat, NEW raw \in [1..n -> Int], NEW total \in Int
  PROVE  Filled(Agenda(raw, total), total)
<1>1. CASE n = 0
  <2>1. DOMAIN raw = {}
    BY <1>1
  <2>2. Len(Agenda(raw, total)) = 0
    BY <2>1 DEF Agenda
  <2>. QED BY <2>2 DEF Filled
<1>2. CASE n # 0
  <2>. DEFINE asked == [i \in DOMAIN raw |-> Minutes(raw[i])]
              taken == Stretched(asked, total)
              before(i) == Total(SubSeq(asked, 1, i - 1))
              a == Agenda(raw, total)
  <2>1. DOMAIN raw = 1..n /\ n \in 1..n
    BY <1>2
  <2>2. \A i \in 1..n : Minutes(raw[i]) \in Int
    BY DEF Minutes
  <2>3. asked \in [1..n -> Int]
    BY <2>1, <2>2
  <2>. HIDE DEF asked
  <2>4. asked \in Seq(Int) /\ Len(asked) = n
    BY <2>3
  <2>5. /\ before(1) = 0
        /\ \A i \in 1..n : before(i + 1) = before(i) + asked[i] /\ before(i) \in Int /\ asked[i] \in Int
        /\ Total(asked) = before(n + 1)
    <3>1. \A i \in 1..n : (i + 1) - 1 = i /\ i \in 1..Len(asked) /\ i - 1 \in 0..Len(asked)
      BY <2>4
    <3>2. 1 - 1 = 0 /\ (n + 1) - 1 = Len(asked)
      BY <2>4
    <3>3. \A i \in 1..n : asked[i] \in Int
      BY <2>3
    <3>. QED BY <2>4, <3>1, <3>2, <3>3, TotalOfPrefix
  <2>6. a = [i \in 1..n |-> [start_min |-> before(i), duration_min |-> taken[i]]]
    BY <2>1 DEF Agenda, asked
  <2>. HIDE DEF before, a
  <2>7. /\ Len(a) = n
        /\ \A i \in 1..n : a[i].start_min = before(i) /\ a[i].duration_min = taken[i]
    BY <2>6
  <2>8. taken = [asked EXCEPT ![n] = IF asked[n] + total - Total(asked) < 1 THEN 1
                                     ELSE asked[n] + total - Total(asked)]
    BY <2>4, <1>2 DEF Stretched
  <2>. HIDE DEF taken
  <2>9. /\ \A i \in 1..n - 1 : taken[i] = asked[i]
        /\ taken[n] = IF total - before(n) < 1 THEN 1 ELSE total - before(n)
    <3>1. asked[n] + total - Total(asked) = total - before(n)
      BY <2>5, <2>1
    <3>2. DOMAIN asked = 1..n
      BY <2>3
    <3>. QED BY <2>1, <2>8, <3>1, <3>2
  <2>10. a[1].start_min = 0
    BY <2>1, <2>5, <2>7
  <2>11. \A i \in 2..n : a[i].start_min = a[i - 1].start_min + a[i - 1].duration_min
    <3>. TAKE i \in 2..n
    <3>1. i - 1 \in 1..n /\ i - 1 \in 1..n - 1 /\ (i - 1) + 1 = i /\ i \in 1..n
      OBVIOUS
    <3>2. before(i) = before(i - 1) + asked[i - 1]
      BY <2>5, <3>1
    <3>. QED BY <2>7, <2>9, <3>1, <3>2
  <2>12. \/ a[n].start_min + a[n].duration_min = total
         \/ a[n].start_min >= total /\ a[n].duration_min = 1
    <3>1. before(n) \in Int
      BY <2>1, <2>5
    <3>. QED BY <2>1, <2>7, <2>9, <3>1
  <2>13. Filled(a, total)
    BY <2>7, <2>10, <2>11, <2>12 DEF Filled
  <2>. QED BY <2>13 DEF a
<1>. QED BY <1>1, <1>2

\* Every answer's agenda fills its meeting.
LEMMA AnswersFilled ==
  ASSUME workflow \in Workflow, NEW reply, NEW a \in Answers(reply)
  PROVE  Filled(a.agenda, a.minutes)
<1>1. CASE workflow = "meeting_agenda_assistant"
  <2>0. PICK raw \in UNION {[1..n -> RawMinutes] : n \in 0..MaxBlocks}, total \in Durations :
           a = Meeting(reply, raw, total)
    BY <1>1 DEF Answers
  <2>1. a = Meeting(reply, raw, total)
    BY <2>0
  <2>1a. PICK n \in 0..MaxBlocks : raw \in [1..n -> RawMinutes]
    OBVIOUS
  <2>2. n \in Nat /\ total \in Int /\ raw \in [1..n -> Int]
    <3>1. Durations \subseteq Int /\ RawMinutes \subseteq Int /\ MaxBlocks \in Nat
      BY AnswersAssumption
    <3>2. n \in Nat
      BY <3>1
    <3>3. \A i \in 1..n : raw[i] \in Int
      BY <2>1a, <3>1
    <3>4. raw = [i \in 1..n |-> raw[i]]
      BY <2>1a
    <3>5. raw \in [1..n -> Int]
      BY <3>3, <3>4
    <3>. QED BY <3>1, <3>2, <3>5
  <2>3. CASE reply.failed
    <3>1. a.agenda = FallbackAgenda(total) /\ a.minutes = total
      BY <2>1, <2>3 DEF Meeting, Answer
    <3>. QED BY <2>2, <3>1, FallbackAgendaFilled
  <2>4. CASE ~reply.failed /\ reply.odd
    <3>1. a.agenda = <<>>
      BY <2>1, <2>4 DEF Meeting, Answer
    <3>. QED BY <3>1 DEF Filled
  <2>5. CASE ~reply.failed /\ ~reply.odd
    <3>1. a.agenda = Agenda(raw, total) /\ a.minutes = total
      BY <2>1, <2>5 DEF Meeting, Answer
    <3>. QED BY <2>2, <3>1, AgendaFilled
  <2>. QED BY <2>3, <2>4, <2>5
<1>2. CASE workflow # "meeting_agenda_assistant"
  <2>1. \E status, result : a = Answer(status, result)
    <3>1. CASE workflow = "customer_support"
      BY <3>1 DEF Answers, CustomerSupport
    <3>2. CASE workflow = "sales_lead_qualification"
      BY <3>2 DEF Answers, SalesLead
    <3>3. CASE workflow = "hr_recruitment"
      BY <3>3 DEF Answers, HrRecruitment
    <3>4. CASE workflow = "compliance_monitoring"
      BY <3>4 DEF Answers, Compliance
    <3>5. CASE workflow = "business_intelligence"
      BY <3>5 DEF Answers, BusinessIntelligence
    <3>6. CASE workflow = "invoice_processing"
      BY <3>6 DEF Answers, Invoice
    <3>7. CASE workflow = "marketing_automation"
      BY <3>7 DEF Answers, Marketing
    <3>8. CASE workflow = "document_knowledge"
      BY <3>8 DEF Answers, DocumentKnowledge
    <3>9. CASE workflow = "quote_contract_generator"
      BY <3>9 DEF Answers, Quote
    <3>. QED BY <1>2, <3>1, <3>2, <3>3, <3>4, <3>5, <3>6, <3>7, <3>8, <3>9 DEF Workflow, InputFields
  <2>2. a.agenda = <<>>
    BY <2>1 DEF Answer
  <2>. QED BY <2>2 DEF Filled
<1>. QED BY <1>1, <1>2

\* The invariant implies that agendas are filled.
LEMMA AgendaIsFilled == CallInv => AgendaFillsTheMeeting
<1>. SUFFICES ASSUME CallInv PROVE Filled(answer.agenda, answer.minutes)
  BY DEF AgendaFillsTheMeeting, Filled
<1>1. CASE \E reply : answer \in Answers(reply)
  BY <1>1, AnswersFilled DEF CallInv, Called
<1>2. CASE answer = NoAnswer \/ answer = OnTheSpot
  <2>1. answer.agenda = <<>>
    BY <1>2 DEF NoAnswer, OnTheSpot, Answer
  <2>. QED BY <2>1 DEF Filled
<1>. QED BY <1>1, <1>2 DEF CallInv, Answered

\* The blocks of an agenda follow one another and end with the meeting, unless those before
\* the last already take all of it (_parse_llm_response and _fallback_agenda).
THEOREM AgendasFillTheMeeting == Spec => []AgendaFillsTheMeeting
BY CallsStayValid, AgendaIsFilled, PTL
=============================================================================
