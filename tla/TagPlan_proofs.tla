---------------------------- MODULE TagPlan_proofs ----------------------------
(***************************************************************************)
(* What picking elements of a sequence and flattening a sequence of        *)
(* sequences yield, for sequences of every length; and from that, what the *)
(* plan of a message is, read off its tags and the `actions:` section      *)
(* without running the consolidation.                                      *)
(***************************************************************************)
EXTENDS TagPlan, NaturalsInduction, SequenceTheorems, WellFoundedInduction, TLAPS

-----------------------------------------------------------------------------
(* Induction over data, stated of a set: S is the set of the numbers a     *)
(* statement holds of.                                                     *)

\* A set with 0 in it and the successors of its members holds every number.
LEMMA NatSet ==
  ASSUME NEW S, 0 \in S, \A n \in Nat : n \in S => n + 1 \in S
  PROVE  Nat \subseteq S
<1> DEFINE T == Nat \ S
           R == {ss \in Nat \X Nat : ss[1] < ss[2]}
<1>1. IsWellFoundedOn(R, Nat)
  BY NatLessThanWellFounded DEF OpToRel
<1>2. ASSUME T # {} PROVE FALSE
  <2> HIDE DEF R
  <2>1. \E x \in T : \A y \in T : ~(<<y, x>> \in R)
    BY <1>1, <1>2, WFMin
  <2>2. PICK x \in T : \A y \in T : ~(<<y, x>> \in R)
    BY <2>1
  <2>3. x \in Nat /\ x # 0
    OBVIOUS
  <2>4. x - 1 \in Nat /\ x - 1 < x /\ (x - 1) + 1 = x
    BY <2>3
  <2>5. x - 1 \in T
    BY <2>3, <2>4
  <2>6. <<x - 1, x>> \in R
    BY <2>3, <2>4 DEF R
  <2> QED BY <2>2, <2>5, <2>6
<1> QED BY <1>2

\* A set of numbers with a member has a least one.
LEMMA Least ==
  ASSUME NEW T, T \subseteq Nat, T # {}
  PROVE  \E x \in T : \A y \in T : x <= y
<1> DEFINE R == {ss \in Nat \X Nat : ss[1] < ss[2]}
<1>1. IsWellFoundedOn(R, Nat)
  BY NatLessThanWellFounded DEF OpToRel
<1> HIDE DEF R
<1>2. PICK x \in T : \A y \in T : ~(<<y, x>> \in R)
  BY <1>1, WFMin
<1>3. ASSUME NEW y \in T PROVE x <= y
  <2>1. x \in Nat /\ y \in Nat /\ <<y, x>> \notin R
    BY <1>2
  <2>2. ~(y < x)
    BY <2>1 DEF R
  <2> QED BY <2>1, <2>2
<1> QED BY <1>3

-----------------------------------------------------------------------------
(* FlattenSeq *)

\* Two sequences end to end: the elements of the first, then of the second.
LEMMA ConcatParts ==
  ASSUME NEW S, NEW a \in Seq(S), NEW b \in Seq(S)
  PROVE  /\ a \o b \in Seq(S)
         /\ Len(a) \in Nat /\ Len(b) \in Nat
         /\ Len(a \o b) = Len(a) + Len(b)
         /\ \A i \in 1..Len(a) : (a \o b)[i] = a[i]
         /\ \A j \in 1..Len(b) : (a \o b)[Len(a) + j] = b[j]
  OBVIOUS

\* The recursion of FlattenSeq has a solution, and any solution will do.
LEMMA FlattenSolution ==
  ASSUME NEW S, NEW ss \in Seq(Seq(S)), ss # <<>>
  PROVE  \E g \in [1..Len(ss) -> Seq(S)] :
           /\ \A i \in 1..Len(ss) : g[i] = IF i = 1 THEN ss[i] ELSE g[i - 1] \o ss[i]
           /\ FlattenSeq(ss) = g[Len(ss)]
<1> DEFINE n == Len(ss)
           Solves(g, m) ==
             \A i \in 1..m : g[i] = IF i = 1 THEN ss[i] ELSE g[i - 1] \o ss[i]
           Good == {m \in Nat : m <= n => \E g \in [1..m -> Seq(S)] : Solves(g, m)}
           Def(g) == [i \in 1..n |-> IF i = 1 THEN ss[i] ELSE g[i - 1] \o ss[i]]
           flat == CHOOSE g : g = Def(g)
<1>0. n \in Nat /\ n >= 1 /\ \A i \in 1..n : ss[i] \in Seq(S)
  OBVIOUS
<1>1. 0 \in Good
  <2>1. [i \in 1..0 |-> <<>>] \in [1..0 -> Seq(S)] /\ Solves([i \in 1..0 |-> <<>>], 0)
    OBVIOUS
  <2> QED BY <2>1
<1>2. ASSUME NEW m \in Nat, m \in Good
      PROVE  m + 1 \in Good
  <2> SUFFICES ASSUME m + 1 <= n
               PROVE  \E h \in [1..(m + 1) -> Seq(S)] : Solves(h, m + 1)
    OBVIOUS
  <2>1. PICK g \in [1..m -> Seq(S)] : Solves(g, m)
    <3>1. m <= n
      BY <1>0
    <3> HIDE DEF Solves
    <3> QED BY <3>1, <1>2
  <2> DEFINE last == IF m = 0 THEN ss[1] ELSE g[m] \o ss[m + 1]
             h == [i \in 1..(m + 1) |-> IF i = m + 1 THEN last ELSE g[i]]
  <2>2. last \in Seq(S)
    <3>1. ss[m + 1] \in Seq(S) /\ ss[1] \in Seq(S)
      BY <1>0
    <3>2. m # 0 => g[m] \in Seq(S)
      OBVIOUS
    <3> QED BY <3>1, <3>2
  <2>3. h \in [1..(m + 1) -> Seq(S)]
    <3> HIDE DEF last
    <3> QED BY <2>1, <2>2
  <2>4. ASSUME NEW i \in 1..(m + 1)
        PROVE  h[i] = IF i = 1 THEN ss[i] ELSE h[i - 1] \o ss[i]
    <3>1. CASE i = m + 1
      <4>1. i # 1 => i - 1 = m /\ m # 0 /\ i - 1 \in 1..(m + 1) /\ i - 1 # m + 1
        BY <3>1
      <4> QED BY <3>1, <4>1
    <3>2. CASE i # m + 1
      <4>1. i \in 1..m /\ (i # 1 => i - 1 \in 1..(m + 1) /\ i - 1 # m + 1)
        BY <3>2
      <4>2. h[i] = g[i] /\ (i # 1 => h[i - 1] = g[i - 1])
        <5> HIDE DEF last
        <5> QED BY <4>1, <3>2
      <4> HIDE DEF h
      <4> QED BY <4>1, <4>2, <2>1
    <3> QED BY <3>1, <3>2
  <2> HIDE DEF h
  <2>5. Solves(h, m + 1)
    BY <2>4
  <2> QED BY <2>3, <2>5
<1>3. Nat \subseteq Good
  <2> HIDE DEF Good
  <2> QED BY <1>1, <1>2, NatSet
<1>4. PICK g \in [1..n -> Seq(S)] : Solves(g, n)
  <2>1. n \in Good
    BY <1>0, <1>3
  <2> QED BY <2>1
<1>5. g = Def(g)
  BY <1>4
<1>6. flat = Def(flat)
  BY <1>5
<1>7. FlattenSeq(ss) = flat[n]
  BY <1>0 DEF FlattenSeq
<1> HIDE DEF flat
<1>8. DOMAIN flat = 1..n /\ Solves(flat, n)
  <2>1. DOMAIN flat = 1..n
    BY <1>6
  <2>2. ASSUME NEW i \in 1..n
        PROVE  flat[i] = IF i = 1 THEN ss[i] ELSE flat[i - 1] \o ss[i]
    <3>1. flat[i] = Def(flat)[i]
      BY <1>6
    <3> QED BY <3>1
  <2> QED BY <2>1, <2>2
<1>9. \A i \in 1..n : flat[i] \in Seq(S)
  <2> DEFINE In == {m \in Nat : m \in 1..n => flat[m] \in Seq(S)}
  <2>1. 0 \in In
    OBVIOUS
  <2>2. ASSUME NEW m \in Nat, m \in In PROVE m + 1 \in In
    <3> SUFFICES ASSUME m + 1 \in 1..n PROVE flat[m + 1] \in Seq(S)
      OBVIOUS
    <3>1. ss[m + 1] \in Seq(S)
      BY <1>0
    <3>2. CASE m = 0
      <4>0. 1 \in 1..n
        BY <1>0
      <4>1. flat[1] = IF 1 = 1 THEN ss[1] ELSE flat[1 - 1] \o ss[1]
        BY <4>0, <1>8
      <4> QED BY <3>1, <3>2, <4>1
    <3>3. CASE m # 0
      <4>1. m \in 1..n /\ m + 1 # 1 /\ (m + 1) - 1 = m
        BY <3>3, <1>0
      <4>2. flat[m + 1] = flat[m] \o ss[m + 1]
        BY <4>1, <1>8
      <4>3. flat[m] \in Seq(S)
        BY <4>1, <2>2
      <4> QED BY <3>1, <4>2, <4>3
    <3> QED BY <3>2, <3>3
  <2> HIDE DEF In
  <2>3. Nat \subseteq In
    BY <2>1, <2>2, NatSet
  <2> USE DEF In
  <2> QED BY <2>3, <1>0
<1>10. flat \in [1..n -> Seq(S)]
  BY <1>6, <1>8, <1>9
<1> QED BY <1>7, <1>8, <1>10

\* Where the elements of a flattened sequence come from: the j-th of the i-th
\* sequence is found right behind the off[i - 1] elements of those before it.
Offsets(ss, off) ==
  /\ off \in [0..Len(ss) -> Nat]
  /\ off[0] = 0
  /\ \A i \in 1..Len(ss) : off[i] = off[i - 1] + Len(ss[i])
  /\ \A i, j \in 0..Len(ss) : i <= j => off[i] <= off[j]
  /\ Len(FlattenSeq(ss)) = off[Len(ss)]
  /\ \A i \in 1..Len(ss) : \A j \in 1..Len(ss[i]) :
       FlattenSeq(ss)[off[i - 1] + j] = ss[i][j]
  /\ \A k \in 1..Len(FlattenSeq(ss)) :
       \E i \in 1..Len(ss) : \E j \in 1..Len(ss[i]) : k = off[i - 1] + j

\* Nothing, flattened, is nothing.
LEMMA FlattenEmpty == FlattenSeq(<<>>) = <<>>
BY DEF FlattenSeq

\* Every element of a flattened sequence has its place in one of its parts.
LEMMA FlattenPlaces ==
  ASSUME NEW S, NEW ss \in Seq(Seq(S))
  PROVE  FlattenSeq(ss) \in Seq(S) /\ \E off : Offsets(ss, off)
<1>1. CASE ss = <<>>
  <2> DEFINE off == [i \in 0..0 |-> 0]
  <2>1. FlattenSeq(ss) = <<>>
    BY <1>1, FlattenEmpty
  <2>2. Offsets(ss, off)
    BY <1>1, <2>1 DEF Offsets
  <2> QED BY <2>1, <2>2
<1>2. CASE ss # <<>>
  <2> DEFINE n == Len(ss)
  <2>0. n \in Nat /\ n >= 1 /\ n \in 1..n /\ \A i \in 1..n : ss[i] \in Seq(S)
    BY <1>2
  <2>1. PICK g \in [1..n -> Seq(S)] :
          /\ \A i \in 1..n : g[i] = IF i = 1 THEN ss[i] ELSE g[i - 1] \o ss[i]
          /\ FlattenSeq(ss) = g[n]
    BY <1>2, FlattenSolution
  <2> DEFINE off == [i \in 0..n |-> IF i = 0 THEN 0 ELSE Len(g[i])]
  <2>2. off \in [0..n -> Nat] /\ off[0] = 0 /\ off[n] = Len(FlattenSeq(ss))
        /\ \A i \in 1..n : off[i] = Len(g[i]) /\ g[i] \in Seq(S)
    <3>1. \A i \in 1..n : g[i] \in Seq(S) /\ Len(g[i]) \in Nat
      BY <2>1
    <3>2. \A i \in 0..n : i # 0 => i \in 1..n
      BY <2>0
    <3>3. \A i \in 1..n : off[i] = Len(g[i])
      BY <2>0
    <3>4. off \in [0..n -> Nat]
      BY <3>1, <3>2
    <3>5. off[0] = 0
      BY <2>0
    <3> HIDE DEF off
    <3> QED BY <3>1, <3>3, <3>4, <3>5, <2>0, <2>1
  <2>3. ASSUME NEW i \in 1..n
        PROVE  off[i] = off[i - 1] + Len(ss[i]) /\ i - 1 \in 0..n
               /\ off[i - 1] \in Nat /\ Len(ss[i]) \in Nat
    <3> HIDE DEF off
    <3>0. i - 1 \in 0..n /\ i \in 0..n /\ ss[i] \in Seq(S) /\ Len(ss[i]) \in Nat
      BY <2>0
    <3>1. CASE i = 1
      <4>1. g[i] = ss[i]
        BY <3>1, <2>1, Zenon
      <4>2. i - 1 = 0
        BY <3>1
      <4> QED BY <3>0, <4>1, <4>2, <2>2
    <3>2. CASE i # 1
      <4>1. i - 1 \in 1..n
        BY <3>2
      <4>2. g[i] = g[i - 1] \o ss[i]
        BY <3>2, <2>1
      <4>3. g[i - 1] \in Seq(S) /\ off[i - 1] = Len(g[i - 1]) /\ off[i] = Len(g[i])
        BY <4>1, <2>2
      <4>4. Len(g[i]) = Len(g[i - 1]) + Len(ss[i])
        BY <4>2, <4>3, <3>0, ConcatParts
      <4> QED BY <3>0, <4>3, <4>4, <2>2
    <3> QED BY <3>1, <3>2
  <2> HIDE DEF off
  <2> DEFINE Good ==
        {m \in Nat : m <= n =>
           /\ \A i \in 0..m : off[i] <= off[m]
           /\ \A i \in 1..m : \A j \in 1..Len(ss[i]) : g[m][off[i - 1] + j] = ss[i][j]
           /\ \A k \in 1..off[m] :
                \E i \in 1..m : \E j \in 1..Len(ss[i]) : k = off[i - 1] + j}
  <2>4. 0 \in Good
    BY <2>2
  <2>5. ASSUME NEW m \in Nat, m \in Good PROVE m + 1 \in Good
    <3> SUFFICES ASSUME m + 1 <= n
                 PROVE  /\ \A i \in 0..(m + 1) : off[i] <= off[m + 1]
                        /\ \A i \in 1..(m + 1) : \A j \in 1..Len(ss[i]) :
                             g[m + 1][off[i - 1] + j] = ss[i][j]
                        /\ \A k \in 1..off[m + 1] :
                             \E i \in 1..(m + 1) : \E j \in 1..Len(ss[i]) :
                               k = off[i - 1] + j
      OBVIOUS
    <3>0. m <= n /\ m + 1 \in 1..n /\ m \in 0..n /\ (m + 1) - 1 = m
      BY <2>0
    <3>1. /\ \A i \in 0..m : off[i] <= off[m]
          /\ \A i \in 1..m : \A j \in 1..Len(ss[i]) : g[m][off[i - 1] + j] = ss[i][j]
          /\ \A k \in 1..off[m] :
               \E i \in 1..m : \E j \in 1..Len(ss[i]) : k = off[i - 1] + j
      BY <3>0, <2>5
    <3>2. off[m + 1] = off[m] + Len(ss[m + 1]) /\ off[m] \in Nat
          /\ Len(ss[m + 1]) \in Nat /\ ss[m + 1] \in Seq(S)
      BY <3>0, <2>3, <2>0
    <3>3. ASSUME NEW i \in 0..(m + 1) PROVE off[i] <= off[m + 1]
      <4>1. CASE i = m + 1
        BY <4>1, <3>2
      <4>2. CASE i # m + 1
        <5>1. i \in 0..m /\ off[i] <= off[m] /\ off[i] \in Nat
          BY <4>2, <3>0, <3>1, <2>2
        <5> QED BY <5>1, <3>2
      <4> QED BY <4>1, <4>2
    <3>4. ASSUME NEW i \in 1..(m + 1), NEW j \in 1..Len(ss[i])
          PROVE  g[m + 1][off[i - 1] + j] = ss[i][j]
      <4>1. CASE m = 0
        <5>1. i = 1 /\ i - 1 = 0 /\ i \in 1..n /\ m + 1 = 1
          BY <4>1, <3>0
        <5>2. g[1] = ss[1]
          BY <5>1, <2>1
        <5>3. off[i - 1] + j = j
          BY <5>1, <2>2
        <5> QED BY <5>1, <5>2, <5>3
      <4>2. CASE m # 0
        <5>1. m \in 1..n /\ m + 1 # 1
          BY <4>2, <3>0
        <5>2. g[m + 1] = g[m] \o ss[m + 1]
          BY <5>1, <3>0, <2>1
        <5>3. g[m] \in Seq(S) /\ Len(g[m]) = off[m]
          BY <5>1, <2>2
        <5>4. CASE i = m + 1
          <6>1. off[i - 1] + j = Len(g[m]) + j /\ j \in 1..Len(ss[m + 1])
            BY <5>4, <5>3, <3>0
          <6>2. (g[m] \o ss[m + 1])[Len(g[m]) + j] = ss[m + 1][j]
            <7> DEFINE a == g[m]   b == ss[m + 1]
            <7>1. a \in Seq(S) /\ b \in Seq(S) /\ j \in 1..Len(b)
              BY <6>1, <5>3, <3>2
            <7> HIDE DEF a, b
            <7>2. (a \o b)[Len(a) + j] = b[j]
              BY <7>1, ConcatParts, SMTT(30)
            <7> USE DEF a, b
            <7> QED BY <7>2
          <6> QED BY <6>1, <6>2, <5>2, <5>4
        <5>5. CASE i # m + 1
          <6>1. i \in 1..m /\ i \in 1..n /\ i \in 0..m
            BY <5>5, <3>0
          <6>2. off[i] = off[i - 1] + Len(ss[i]) /\ off[i - 1] \in Nat
                /\ Len(ss[i]) \in Nat /\ off[i] <= off[m]
            BY <6>1, <2>3, <3>1
          <6>3. off[i - 1] + j \in 1..Len(g[m])
            <7>1. j \in Nat /\ j >= 1 /\ j <= Len(ss[i])
              BY <6>2
            <7>2. off[i - 1] + j \in Nat /\ off[i - 1] + j >= 1 /\ off[i - 1] + j <= off[m]
              <8>1. off[i - 1] + j <= off[i - 1] + Len(ss[i])
                BY <7>1, <6>2
              <8>2. off[i - 1] + Len(ss[i]) <= off[m]
                BY <6>2
              <8>3. off[i - 1] + j \in Nat /\ off[i - 1] + j >= 1
                BY <7>1, <6>2, SMTT(30)
              <8>4. off[i - 1] + Len(ss[i]) \in Nat /\ off[m] \in Nat
                BY <6>2, <3>2, SMTT(30)
              <8> QED BY <8>1, <8>2, <8>3, <8>4, SMTT(30)
            <7> QED BY <7>2, <5>3, <3>2
          <6>4. g[m][off[i - 1] + j] = ss[i][j]
            BY <6>1, <3>1
          <6>5. (g[m] \o ss[m + 1])[off[i - 1] + j] = g[m][off[i - 1] + j]
            <7> DEFINE k == off[i - 1] + j
            <7>1. k \in 1..Len(g[m])
              BY <6>3
            <7> HIDE DEF k
            <7>2. (g[m] \o ss[m + 1])[k] = g[m][k]
              BY <7>1, <5>3, <3>2, ConcatParts, ZenonT(30)
            <7> USE DEF k
            <7> QED BY <7>2
          <6> QED BY <6>4, <6>5, <5>2
        <5> QED BY <5>4, <5>5
      <4> QED BY <4>1, <4>2
    <3>5. ASSUME NEW k \in 1..off[m + 1]
          PROVE  \E i \in 1..(m + 1) : \E j \in 1..Len(ss[i]) : k = off[i - 1] + j
      <4>1. CASE k <= off[m]
        <5>1. k \in 1..off[m]
          BY <4>1, <3>2
        <5>2. PICK i \in 1..m : \E j \in 1..Len(ss[i]) : k = off[i - 1] + j
          BY <5>1, <3>1
        <5>3. i \in 1..(m + 1)
          OBVIOUS
        <5> QED BY <5>2, <5>3
      <4>2. CASE ~(k <= off[m])
        <5>1. k - off[m] \in 1..Len(ss[m + 1]) /\ k = off[m] + (k - off[m])
          BY <4>2, <3>2, SMTT(30)
        <5>2. m + 1 \in 1..(m + 1)
          OBVIOUS
        <5> QED BY <5>1, <5>2, <3>0
      <4> QED BY <4>1, <4>2
    <3> QED BY <3>3, <3>4, <3>5
  <2>6. Nat \subseteq Good
    <3> HIDE DEF Good
    <3> QED BY <2>4, <2>5, NatSet
  <2>7. \A i, j \in 0..n : i <= j => off[i] <= off[j]
    <3> TAKE i, j \in 0..n
    <3>1. j \in Good
      <4> HIDE DEF Good
      <4> QED BY <2>6
    <3>2. j <= n
      BY <2>0
    <3> QED BY <3>1, <3>2
  <2>8. n \in Good
    <3> HIDE DEF Good
    <3> QED BY <2>6, <2>0
  <2>9. /\ \A i \in 1..n : \A j \in 1..Len(ss[i]) : g[n][off[i - 1] + j] = ss[i][j]
        /\ \A k \in 1..off[n] :
             \E i \in 1..n : \E j \in 1..Len(ss[i]) : k = off[i - 1] + j
    BY <2>8, <2>0
  <2> HIDE DEF Good
  <2>10. Offsets(ss, off)
    BY <2>1, <2>2, <2>3, <2>7, <2>9 DEF Offsets
  <2> QED BY <2>10, <2>1, <2>0
<1> QED BY <1>1, <1>2

-----------------------------------------------------------------------------
(* Pick *)

\* f lists the places that are picked, in order; the k-th element picked is the
\* one at the k-th of them.
Picks(seq, places, f) ==
  /\ f \in [1..Len(Pick(seq, places)) -> places \cap DOMAIN seq]
  /\ \A k, l \in 1..Len(Pick(seq, places)) : k < l => f[k] < f[l]
  /\ \A k \in 1..Len(Pick(seq, places)) : Pick(seq, places)[k] = seq[f[k]]
  /\ \A i \in places \cap DOMAIN seq : \E k \in 1..Len(Pick(seq, places)) : f[k] = i

\* Picking keeps the order.
LEMMA PickPlaces ==
  ASSUME NEW S, NEW seq \in Seq(S), NEW places
  PROVE  Pick(seq, places) \in Seq(S) /\ \E f : Picks(seq, places, f)
<1> DEFINE n == Len(seq)
           ss == [i \in 1..n |-> IF i \in places THEN <<seq[i]>> ELSE <<>>]
           p == Pick(seq, places)
<1>1. DOMAIN seq = 1..n /\ n \in Nat /\ \A i \in 1..n : seq[i] \in S
  OBVIOUS
<1>2. ss \in Seq(Seq(S)) /\ Len(ss) = n /\ p = FlattenSeq(ss)
  <2>1. \A i \in 1..n : <<seq[i]>> \in Seq(S)
    BY <1>1
  <2>2. <<>> \in Seq(S)
    OBVIOUS
  <2>3. \A i \in 1..n : ss[i] \in Seq(S)
    BY <2>1, <2>2
  <2>4. ss \in Seq(Seq(S))
    BY <2>3, <1>1
  <2> QED BY <2>4, <1>1 DEF Pick
<1>3. \A i \in 1..n : /\ i \in places => Len(ss[i]) = 1 /\ ss[i][1] = seq[i]
                      /\ i \notin places => Len(ss[i]) = 0
  OBVIOUS
<1> HIDE DEF ss
<1>4. p \in Seq(S) /\ \E off : Offsets(ss, off)
  BY <1>2, FlattenPlaces
<1>5. PICK off : Offsets(ss, off)
  BY <1>4
<1> DEFINE m == Len(p)
           At(i, k) == i \in places /\ i \in 1..n /\ k = off[i - 1] + 1
           f == [k \in 1..m |-> CHOOSE i \in 1..n : At(i, k)]
<1>6. \A i \in 1..n : /\ off[i - 1] \in Nat /\ off[i] \in Nat
                      /\ i \in places => off[i] = off[i - 1] + 1
  <2> TAKE i \in 1..n
  <2>1. i - 1 \in 0..n /\ i \in 0..n
    BY <1>1
  <2>2. off[i - 1] \in Nat /\ off[i] \in Nat /\ off[i] = off[i - 1] + Len(ss[i])
    BY <2>1, <1>2, <1>5 DEF Offsets
  <2> QED BY <2>2, <1>3
<1>7. \A k \in 1..m : \E i \in 1..n : At(i, k)
  <2> TAKE k \in 1..m
  <2>1. PICK i \in 1..n : \E j \in 1..Len(ss[i]) : k = off[i - 1] + j
    BY <1>2, <1>5 DEF Offsets
  <2>2. PICK j \in 1..Len(ss[i]) : k = off[i - 1] + j
    BY <2>1
  <2>3. i \in places
    BY <1>3, <2>2
  <2>4. j = 1
    <3>1. Len(ss[i]) = 1
      BY <1>3, <2>3
    <3> QED BY <3>1
  <2> QED BY <2>2, <2>3, <2>4
<1>8. \A k \in 1..m : At(f[k], k)
  BY <1>7
<1>9. \A i \in 1..n : i \in places => off[i] \in 1..m /\ p[off[i]] = seq[i]
  <2> TAKE i \in 1..n
  <2> HAVE i \in places
  <2>1. off[i] = off[i - 1] + 1 /\ off[i - 1] \in Nat
    BY <1>6
  <2>2. 1 \in 1..Len(ss[i]) /\ ss[i][1] = seq[i]
    BY <1>3
  <2>3. p[off[i - 1] + 1] = ss[i][1]
    BY <2>2, <1>2, <1>5 DEF Offsets
  <2>4. i \in 0..n /\ n \in 0..n /\ i <= n
    BY <1>1
  <2>5. off[i] <= off[n] /\ m = off[n] /\ off[n] \in Nat
    BY <2>4, <1>2, <1>5 DEF Offsets
  <2> QED BY <2>1, <2>2, <2>3, <2>5
<1> HIDE DEF f
<1>10. f \in [1..m -> places \cap DOMAIN seq]
  <2>1. \A k \in 1..m : f[k] \in places \cap DOMAIN seq
    BY <1>8, <1>1
  <2>2. f = [k \in 1..m |-> f[k]]
    BY DEF f
  <2> QED BY <2>1, <2>2
<1>11. \A k \in 1..m : off[f[k]] = k /\ f[k] \in 1..n /\ f[k] \in places
  BY <1>8, <1>6
<1>12. \A k \in 1..m : p[k] = seq[f[k]]
  BY <1>9, <1>11
<1>13. \A k, l \in 1..m : k < l => f[k] < f[l]
  <2> TAKE k, l \in 1..m
  <2> SUFFICES ASSUME k < l, ~(f[k] < f[l]) PROVE FALSE
    OBVIOUS
  <2>1. f[k] \in 0..n /\ f[l] \in 0..n /\ f[l] <= f[k]
    BY <1>11, <1>1
  <2>2. off[f[l]] <= off[f[k]]
    BY <2>1, <1>2, <1>5 DEF Offsets
  <2>3. l <= k
    BY <2>2, <1>11
  <2> QED BY <2>3
<1>14. \A i \in places \cap DOMAIN seq : \E k \in 1..m : f[k] = i
  <2> TAKE i \in places \cap DOMAIN seq
  <2>1. i \in 1..n /\ off[i] \in 1..m
    BY <1>1, <1>9
  <2>2. At(i, off[i]) /\ At(f[off[i]], off[i])
    BY <2>1, <1>6, <1>8
  <2> DEFINE j == f[off[i]]
  <2>3. j \in 1..n /\ off[j - 1] = off[i - 1] /\ j \in places
    BY <2>2, <1>6, SMTT(30)
  <2>4. off[j] = off[j - 1] + 1 /\ off[i] = off[i - 1] + 1 /\ off[j - 1] \in Nat
    BY <2>3, <2>1, <1>6
  <2>5. ASSUME NEW a \in 1..n, NEW b \in 1..n, a < b, a \in places,
               off[a - 1] = off[b - 1]
        PROVE  FALSE
    <3>1. a \in 0..n /\ b - 1 \in 0..n /\ a <= b - 1
      BY <2>5, <1>1
    <3>2. off[a] <= off[b - 1]
      BY <3>1, <1>2, <1>5 DEF Offsets
    <3> QED BY <3>2, <2>5, <1>6
  <2>6. j = i
    <3> HIDE DEF j
    <3>1. ~(i < j)
      BY <2>1, <2>3, <2>5
    <3>2. ~(j < i)
      BY <2>1, <2>3, <2>5
    <3> QED BY <3>1, <3>2, <2>1, <2>3
  <2> QED BY <2>1, <2>6
<1>15. Picks(seq, places, f)
  BY <1>10, <1>12, <1>13, <1>14 DEF Picks
<1> QED BY <1>4, <1>15

\* No place, nothing picked, and the other way round.
LEMMA PickEmpty ==
  ASSUME NEW S, NEW seq \in Seq(S), NEW places
  PROVE  Pick(seq, places) = <<>> <=> places \cap DOMAIN seq = {}
<1>1. PICK f : Picks(seq, places, f)
  BY PickPlaces
<1>2. Pick(seq, places) \in Seq(S)
  BY PickPlaces
<1>3. Pick(seq, places) = <<>> <=> Len(Pick(seq, places)) = 0
  BY <1>2
<1>4. ASSUME Len(Pick(seq, places)) = 0 PROVE places \cap DOMAIN seq = {}
  BY <1>1, <1>4 DEF Picks
<1>5. ASSUME Len(Pick(seq, places)) # 0 PROVE places \cap DOMAIN seq # {}
  <2>1. 1 \in 1..Len(Pick(seq, places))
    BY <1>5, <1>2
  <2>2. f[1] \in places \cap DOMAIN seq
    BY <2>1, <1>1 DEF Picks
  <2> QED BY <2>2
<1> QED BY <1>3, <1>4, <1>5

\* A sequence that repeats nothing.
Distinct(seq) == \A i, j \in 1..Len(seq) : i # j => seq[i] # seq[j]

\* p holds what stands at the places of seq, the first of it at the least.
HoldsPlaces(p, seq, places) ==
  /\ \A k \in 1..Len(p) : \E i \in places : p[k] = seq[i]
  /\ \A i \in places : \E k \in 1..Len(p) : p[k] = seq[i]
  /\ p # <<>> => \E i \in places : Head(p) = seq[i] /\ \A j \in places : i <= j

\* Picking keeps these places and no other.
LEMMA PickElements ==
  ASSUME NEW S, NEW seq \in Seq(S), NEW places \in SUBSET DOMAIN seq
  PROVE  /\ Pick(seq, places) \in Seq(S)
         /\ HoldsPlaces(Pick(seq, places), seq, places)
<1>0. places \cap DOMAIN seq = places
  OBVIOUS
<1> DEFINE p == Pick(seq, places)
<1>1. p \in Seq(S)
  BY PickPlaces
<1>2. PICK f : Picks(seq, places, f)
  BY PickPlaces
<1>3. f \in [1..Len(p) -> places] /\ places \subseteq Nat
      /\ (\A k \in 1..Len(p) : p[k] = seq[f[k]])
      /\ (\A k, l \in 1..Len(p) : k < l => f[k] < f[l])
      /\ (\A i \in places : \E k \in 1..Len(p) : f[k] = i)
  BY <1>0, <1>2 DEF Picks
<1> HIDE DEF p
<1>4. ASSUME p # <<>>
      PROVE  \E i \in places :
               Head(p) = seq[i] /\ \A j \in places : i <= j
  <2>1. 1 \in 1..Len(p) /\ Head(p) = p[1]
    BY <1>1, <1>4
  <2>2. f[1] \in places /\ Head(p) = seq[f[1]]
    BY <2>1, <1>3
  <2>3. ASSUME NEW j \in places PROVE f[1] <= j
    <3>1. PICK k \in 1..Len(p) : f[k] = j
      BY <1>3
    <3>2. k = 1 \/ 1 < k
      BY <1>1
    <3>3. f[1] \in Nat /\ f[k] \in Nat
      BY <2>1, <3>1, <1>3
    <3> QED BY <3>1, <3>2, <3>3, <2>1, <1>3
  <2> QED BY <2>2, <2>3
<1>5. \A k \in 1..Len(p) : \E i \in places : p[k] = seq[i]
  BY <1>3
<1>6. \A i \in places : \E k \in 1..Len(p) : p[k] = seq[i]
  BY <1>3
<1>7. HoldsPlaces(p, seq, places)
  BY <1>4, <1>5, <1>6 DEF HoldsPlaces
<1> QED BY <1>1, <1>7 DEF p

\* The elements at the places, each once; the first of them at the least place.
LEMMA FirstsElements ==
  ASSUME NEW S, NEW seq \in Seq(S), NEW places \in SUBSET DOMAIN seq,
         NEW p, p = Pick(seq, Firsts(seq, places))
  PROVE  p \in Seq(S) /\ Distinct(p) /\ HoldsPlaces(p, seq, places)
<1> DEFINE n == Len(seq)
           F == Firsts(seq, places)
<1>0. DOMAIN seq = 1..n /\ n \in Nat /\ places \subseteq 1..n
  OBVIOUS
<1>1. F \subseteq places
  BY DEF Firsts
<1>2. F \cap DOMAIN seq = F
  BY <1>0, <1>1
<1>3. \A i \in F : \A j \in places : j < i => seq[j] # seq[i]
  BY DEF Firsts
<1>4. \A i \in places : \E j \in F : seq[j] = seq[i] /\ j <= i
  <2> TAKE i \in places
  <2> DEFINE T == {j \in places : seq[j] = seq[i]}
  <2>1. T \subseteq Nat /\ T # {} /\ i \in T
    BY <1>0
  <2>2. PICK j \in T : \A y \in T : j <= y
    BY <2>1, Least
  <2>3. \A y \in places : y < j => seq[y] # seq[j]
    <3> SUFFICES ASSUME NEW y \in places, y < j, seq[y] = seq[j] PROVE FALSE
      OBVIOUS
    <3>1. y \in T /\ y \in Nat /\ j \in Nat
      BY <1>0
    <3> QED BY <3>1, <2>2
  <2>4. j \in F
    BY <2>3 DEF Firsts
  <2> QED BY <2>1, <2>2, <2>4
<1> HIDE DEF F
<1>5. p = Pick(seq, F)
  BY DEF F
<1>6. p \in Seq(S) /\ (\A k \in 1..Len(p) : \E i \in F : p[k] = seq[i])
      /\ (\A i \in F : \E k \in 1..Len(p) : p[k] = seq[i])
      /\ (p # <<>> => \E i \in F : Head(p) = seq[i] /\ \A j \in F : i <= j)
  <2>1. F \in SUBSET DOMAIN seq
    BY <1>2
  <2>2. p \in Seq(S) /\ HoldsPlaces(p, seq, F)
    BY <2>1, <1>5, PickElements
  <2> QED BY <2>2 DEF HoldsPlaces
<1>7. ASSUME NEW k \in 1..Len(p), NEW l \in 1..Len(p), k # l, p[k] = p[l] PROVE FALSE
  <2>1. PICK f : Picks(seq, F, f)
    BY PickPlaces
  <2>2. /\ f[k] \in F /\ f[l] \in F /\ p[k] = seq[f[k]] /\ p[l] = seq[f[l]]
        /\ k < l => f[k] < f[l]
        /\ l < k => f[l] < f[k]
    BY <2>1, <1>5, <1>2 DEF Picks
  <2>3. f[k] < f[l] \/ f[l] < f[k]
    BY <2>2, <1>6, <1>7
  <2> QED BY <2>2, <2>3, <1>3, <1>1, <1>7
<1>8. ASSUME p # <<>>
      PROVE  \E i \in places : Head(p) = seq[i] /\ \A j \in places : i <= j
  <2>1. PICK i \in F : Head(p) = seq[i] /\ \A j \in F : i <= j
    BY <1>6, <1>8
  <2>2. \A j \in places : i <= j
    <3> TAKE j \in places
    <3>1. PICK jj \in F : jj <= j
      BY <1>4
    <3>2. i <= jj /\ i \in Nat /\ j \in Nat /\ jj \in Nat
      BY <2>1, <3>1, <1>0, <1>1
    <3> QED BY <3>1, <3>2
  <2> QED BY <2>1, <2>2, <1>1
<1>9. \A i \in places : \E k \in 1..Len(p) : p[k] = seq[i]
  BY <1>4, <1>6
<1>10. \A k \in 1..Len(p) : \E i \in places : p[k] = seq[i]
  BY <1>1, <1>6
<1>11. Distinct(p)
  BY <1>7 DEF Distinct
<1> QED BY <1>6, <1>8, <1>9, <1>10, <1>11 DEF HoldsPlaces

\* Picking from a sequence that repeats nothing repeats nothing.
LEMMA PickDistinct ==
  ASSUME NEW S, NEW seq \in Seq(S), NEW places, Distinct(seq)
  PROVE  Distinct(Pick(seq, places))
<1> SUFFICES ASSUME NEW k \in 1..Len(Pick(seq, places)),
                    NEW l \in 1..Len(Pick(seq, places)), k # l
             PROVE  Pick(seq, places)[k] # Pick(seq, places)[l]
  BY DEF Distinct
<1> DEFINE p == Pick(seq, places)
<1>1. p \in Seq(S)
  BY PickPlaces
<1>2. PICK f : Picks(seq, places, f)
  BY PickPlaces
<1>3. /\ f[k] \in 1..Len(seq) /\ f[l] \in 1..Len(seq)
      /\ p[k] = seq[f[k]] /\ p[l] = seq[f[l]]
      /\ k < l => f[k] < f[l]
      /\ l < k => f[l] < f[k]
  BY <1>2 DEF Picks
<1>4. k < l \/ l < k
  BY <1>1
<1>5. f[k] # f[l]
  BY <1>3, <1>4
<1> QED BY <1>3, <1>5 DEF Distinct

\* The places of four sequences end to end.
JoinsFour(r, a, b, c, d) ==
  /\ Len(r) = Len(a) + Len(b) + Len(c) + Len(d)
  /\ \A i \in 1..Len(a) : r[i] = a[i]
  /\ \A i \in 1..Len(b) : r[Len(a) + i] = b[i]
  /\ \A i \in 1..Len(c) : r[Len(a) + Len(b) + i] = c[i]
  /\ \A i \in 1..Len(d) : r[Len(a) + Len(b) + Len(c) + i] = d[i]

\* Four sequences end to end, place by place.
LEMMA ConcatFour ==
  ASSUME NEW S, NEW a \in Seq(S), NEW b \in Seq(S), NEW c \in Seq(S), NEW d \in Seq(S),
         NEW r, r = a \o b \o c \o d
  PROVE  r \in Seq(S) /\ JoinsFour(r, a, b, c, d)
<1>a. PICK ab : ab = a \o b
  OBVIOUS
<1>b. PICK abc : abc = ab \o c
  OBVIOUS
<1>1. ab \in Seq(S) /\ Len(ab) = Len(a) + Len(b) /\ Len(a) \in Nat /\ Len(b) \in Nat
      /\ (\A i \in 1..Len(a) : ab[i] = a[i]) /\ (\A i \in 1..Len(b) : ab[Len(a) + i] = b[i])
  BY <1>a, ConcatParts
<1>2. abc \in Seq(S) /\ Len(abc) = Len(ab) + Len(c) /\ Len(c) \in Nat
      /\ (\A i \in 1..Len(ab) : abc[i] = ab[i])
      /\ (\A i \in 1..Len(c) : abc[Len(ab) + i] = c[i])
  <2>1. ab \in Seq(S)
    BY <1>1
  <2> QED BY <2>1, <1>b, ConcatParts
<1>3. r = abc \o d
  BY <1>a, <1>b
<1>4. r \in Seq(S) /\ Len(r) = Len(abc) + Len(d) /\ Len(d) \in Nat
      /\ (\A i \in 1..Len(abc) : r[i] = abc[i])
      /\ (\A i \in 1..Len(d) : r[Len(abc) + i] = d[i])
  <2>1. abc \in Seq(S)
    BY <1>2
  <2> QED BY <2>1, <1>3, ConcatParts
<1>5. \A i \in 1..Len(a) : r[i] = a[i]
  <2> TAKE i \in 1..Len(a)
  <2>1. i \in 1..Len(ab)
    BY <1>1
  <2>2. i \in 1..Len(abc)
    BY <2>1, <1>1, <1>2
  <2> QED BY <2>1, <2>2, <1>1, <1>2, <1>4
<1>6. \A i \in 1..Len(b) : r[Len(a) + i] = b[i]
  <2> TAKE i \in 1..Len(b)
  <2> DEFINE k == Len(a) + i
  <2>1. k \in 1..Len(ab) /\ ab[k] = b[i]
    BY <1>1
  <2> HIDE DEF k
  <2>2. k \in 1..Len(abc)
    BY <2>1, <1>1, <1>2
  <2>3. r[k] = b[i]
    BY <2>1, <2>2, <1>2, <1>4
  <2> QED BY <2>3 DEF k
<1>7. \A i \in 1..Len(c) : r[Len(a) + Len(b) + i] = c[i]
  <2> TAKE i \in 1..Len(c)
  <2> DEFINE k == Len(ab) + i
  <2>1. k \in 1..Len(abc) /\ abc[k] = c[i]
    BY <1>1, <1>2
  <2>2. k = Len(a) + Len(b) + i
    BY <1>1
  <2> HIDE DEF k
  <2>3. r[k] = c[i]
    BY <2>1, <1>4
  <2> QED BY <2>2, <2>3
<1>8. \A i \in 1..Len(d) : r[Len(a) + Len(b) + Len(c) + i] = d[i]
  <2>1. Len(abc) = Len(a) + Len(b) + Len(c)
    BY <1>1, <1>2
  <2> QED BY <2>1, <1>4
<1>9. Len(r) = Len(a) + Len(b) + Len(c) + Len(d)
  BY <1>1, <1>2, <1>4
<1> QED BY <1>4, <1>5, <1>6, <1>7, <1>8, <1>9 DEF JoinsFour

\* An element of a sequence stands somewhere in it.
HasStep(steps, x) == \E i \in 1..Len(steps) : steps[i] = x

\* A place of four sequences end to end is a place of one of them.
IsInOneOf(k, r, a, b, c, d) ==
  \/ k \in 1..Len(a) /\ r[k] = a[k]
  \/ \E i \in 1..Len(b) : k = Len(a) + i /\ r[k] = b[i]
  \/ \E i \in 1..Len(c) : k = Len(a) + Len(b) + i /\ r[k] = c[i]
  \/ \E i \in 1..Len(d) : k = Len(a) + Len(b) + Len(c) + i /\ r[k] = d[i]

\* Every place of four sequences end to end lies in one of them.
LEMMA FourParts ==
  ASSUME NEW S, NEW a \in Seq(S), NEW b \in Seq(S), NEW c \in Seq(S), NEW d \in Seq(S),
         NEW r, r = a \o b \o c \o d, NEW k \in 1..Len(r)
  PROVE  IsInOneOf(k, r, a, b, c, d)
<1>1. JoinsFour(r, a, b, c, d)
  BY ConcatFour
<1> USE <1>1 DEF JoinsFour, IsInOneOf
<1> DEFINE la == Len(a)   lb == Len(b)   lc == Len(c)   ld == Len(d)
<1>2. la \in Nat /\ lb \in Nat /\ lc \in Nat /\ ld \in Nat
  OBVIOUS
<1> HIDE DEF la, lb, lc, ld
<1>3. k \in 1..(la + lb + lc + ld)
  BY <1>1 DEF la, lb, lc, ld
<1>4. CASE k \in 1..la
  BY <1>1, <1>4 DEF la
<1>5. CASE k > la /\ k <= la + lb
  <2>1. k - la \in 1..lb /\ k = la + (k - la)
    BY <1>2, <1>3, <1>5
  <2> QED BY <2>1, <1>1 DEF la, lb
<1>6. CASE k > la + lb /\ k <= la + lb + lc
  <2>1. k - (la + lb) \in 1..lc /\ k = la + lb + (k - (la + lb))
    BY <1>2, <1>3, <1>6
  <2> QED BY <2>1, <1>1 DEF la, lb, lc
<1>7. CASE k > la + lb + lc
  <2>1. k - (la + lb + lc) \in 1..ld /\ k = la + lb + lc + (k - (la + lb + lc))
    BY <1>2, <1>3, <1>7
  <2> QED BY <2>1, <1>1 DEF la, lb, lc, ld
<1>8. \/ k \in 1..la
      \/ k > la /\ k <= la + lb
      \/ k > la + lb /\ k <= la + lb + lc
      \/ k > la + lb + lc
  BY <1>2, <1>3
<1> QED BY <1>4, <1>5, <1>6, <1>7, <1>8

\* What four sequences end to end hold is what one of them does.
HoldsFour(r, a, b, c, d) ==
  \A x : HasStep(r, x) <=>
           HasStep(a, x) \/ HasStep(b, x) \/ HasStep(c, x) \/ HasStep(d, x)

\* Four sequences end to end hold what each of them holds.
LEMMA FourHave ==
  ASSUME NEW S, NEW a \in Seq(S), NEW b \in Seq(S), NEW c \in Seq(S), NEW d \in Seq(S),
         NEW r, r = a \o b \o c \o d
  PROVE  r \in Seq(S) /\ HoldsFour(r, a, b, c, d)
<1>0. r \in Seq(S) /\ JoinsFour(r, a, b, c, d)
  BY ConcatFour
<1>a. \A k \in 1..Len(r) : IsInOneOf(k, r, a, b, c, d)
  BY FourParts
<1> SUFFICES \A x : HasStep(r, x) <=>
               HasStep(a, x) \/ HasStep(b, x) \/ HasStep(c, x) \/ HasStep(d, x)
  BY <1>0 DEF HoldsFour
<1> TAKE x
<1>1. ASSUME HasStep(r, x)
      PROVE  HasStep(a, x) \/ HasStep(b, x) \/ HasStep(c, x) \/ HasStep(d, x)
  BY <1>1, <1>a DEF HasStep, IsInOneOf
<1>2. /\ \A i \in 1..Len(a) : r[i] = a[i]
      /\ \A i \in 1..Len(b) : r[Len(a) + i] = b[i]
      /\ \A i \in 1..Len(c) : r[Len(a) + Len(b) + i] = c[i]
      /\ \A i \in 1..Len(d) : r[Len(a) + Len(b) + Len(c) + i] = d[i]
      /\ Len(r) = Len(a) + Len(b) + Len(c) + Len(d)
  BY <1>0 DEF JoinsFour
<1>3. Len(a) \in Nat /\ Len(b) \in Nat /\ Len(c) \in Nat /\ Len(d) \in Nat
  OBVIOUS
<1>4. ASSUME HasStep(a, x) PROVE HasStep(r, x)
  BY <1>2, <1>3, <1>4 DEF HasStep
<1>5. ASSUME HasStep(b, x) PROVE HasStep(r, x)
  <2>1. PICK i \in 1..Len(b) : b[i] = x
    BY <1>5 DEF HasStep
  <2>2. Len(a) + i \in 1..Len(r) /\ r[Len(a) + i] = x
    BY <1>2, <1>3, <2>1
  <2> QED BY <2>2 DEF HasStep
<1>6. ASSUME HasStep(c, x) PROVE HasStep(r, x)
  <2>1. PICK i \in 1..Len(c) : c[i] = x
    BY <1>6 DEF HasStep
  <2>2. Len(a) + Len(b) + i \in 1..Len(r) /\ r[Len(a) + Len(b) + i] = x
    BY <1>2, <1>3, <2>1
  <2> QED BY <2>2 DEF HasStep
<1>7. ASSUME HasStep(d, x) PROVE HasStep(r, x)
  <2>1. PICK i \in 1..Len(d) : d[i] = x
    BY <1>7 DEF HasStep
  <2>2. Len(a) + Len(b) + Len(c) + i \in 1..Len(r)
        /\ r[Len(a) + Len(b) + Len(c) + i] = x
    BY <1>2, <1>3, <2>1
  <2> QED BY <2>2 DEF HasStep
<1> QED BY <1>1, <1>4, <1>5, <1>6, <1>7

-----------------------------------------------------------------------------
(* The plan *)

\* The steps over these folders.
PlanSteps(F) ==
  {CopyTo(f) : f \in F} \cup {MoveTo(f) : f \in F} \cup {MarkSeen, MarkFlagged}

IsFiling(x) == x.kind \in {"copy_to", "move_to"}

\* The steps of a plan, by their kinds.
LEMMA StepKinds ==
  ASSUME NEW F, NEW x \in PlanSteps(F)
  PROVE  /\ x.kind \in {"copy_to", "move_to", "mark_seen", "mark_flagged"}
         /\ x.kind = "copy_to" => x.folder \in F /\ x = CopyTo(x.folder)
         /\ x.kind = "move_to" => x.folder \in F /\ x = MoveTo(x.folder)
         /\ x.kind = "mark_seen" => x = MarkSeen
         /\ x.kind = "mark_flagged" => x = MarkFlagged
BY DEF PlanSteps, CopyTo, MoveTo, MarkSeen, MarkFlagged

\* The folders the steps of one kind name, each once; the first of them is that
\* of the first such step.
NamesFolders(p, kind, steps) ==
  /\ \A k \in 1..Len(p) :
       \E i \in 1..Len(steps) : steps[i].kind = kind /\ steps[i].folder = p[k]
  /\ \A i \in 1..Len(steps) : steps[i].kind = kind =>
       \E k \in 1..Len(p) : p[k] = steps[i].folder
  /\ p # <<>> =>
       \E i \in 1..Len(steps) :
         /\ steps[i].kind = kind /\ Head(p) = steps[i].folder
         /\ \A j \in 1..Len(steps) : steps[j].kind = kind => i <= j

\* The folders a plan names for a kind of step, once each.
LEMMA FoldersNamed ==
  ASSUME NEW F, NEW steps \in Seq(PlanSteps(F)), NEW kind, NEW p, p = FoldersOf(kind, steps)
  PROVE  p \in Seq(F \cup {None}) /\ Distinct(p) /\ NamesFolders(p, kind, steps)
<1>a. PICK folder : folder = [i \in DOMAIN steps |-> steps[i].folder]
  OBVIOUS
<1>b. PICK places : places = {i \in DOMAIN steps : steps[i].kind = kind}
  OBVIOUS
<1>1. DOMAIN steps = 1..Len(steps) /\ Len(steps) \in Nat
  OBVIOUS
<1>2. \A i \in 1..Len(steps) : steps[i].folder \in F \cup {None}
  <2> TAKE i \in 1..Len(steps)
  <2>1. steps[i] \in PlanSteps(F)
    OBVIOUS
  <2> QED BY <2>1 DEF PlanSteps, CopyTo, MoveTo, MarkSeen, MarkFlagged
<1>3. folder \in Seq(F \cup {None}) /\ DOMAIN folder = 1..Len(steps)
      /\ \A i \in 1..Len(steps) : folder[i] = steps[i].folder
  BY <1>a, <1>1, <1>2
<1>4. places \in SUBSET DOMAIN folder
      /\ \A i : i \in places <=> i \in 1..Len(steps) /\ steps[i].kind = kind
  BY <1>b, <1>1, <1>3
<1>5. p = Pick(folder, Firsts(folder, places))
  BY <1>a, <1>b DEF FoldersOf
<1>6. p \in Seq(F \cup {None}) /\ Distinct(p) /\ HoldsPlaces(p, folder, places)
  BY <1>3, <1>4, <1>5, FirstsElements
<1>7. \A k \in 1..Len(p) :
        \E i \in 1..Len(steps) : steps[i].kind = kind /\ steps[i].folder = p[k]
  <2> TAKE k \in 1..Len(p)
  <2>1. PICK i \in places : p[k] = folder[i]
    BY <1>6 DEF HoldsPlaces
  <2> QED BY <2>1, <1>3, <1>4
<1>8. \A i \in 1..Len(steps) : steps[i].kind = kind =>
        \E k \in 1..Len(p) : p[k] = steps[i].folder
  <2> TAKE i \in 1..Len(steps)
  <2> HAVE steps[i].kind = kind
  <2>1. i \in places
    BY <1>4
  <2>2. PICK k \in 1..Len(p) : p[k] = folder[i]
    BY <2>1, <1>6 DEF HoldsPlaces
  <2> QED BY <2>2, <1>3
<1>9. ASSUME p # <<>>
      PROVE  \E i \in 1..Len(steps) :
               /\ steps[i].kind = kind /\ Head(p) = steps[i].folder
               /\ \A j \in 1..Len(steps) : steps[j].kind = kind => i <= j
  <2>1. PICK i \in places : Head(p) = folder[i] /\ \A j \in places : i <= j
    BY <1>6, <1>9 DEF HoldsPlaces
  <2> QED BY <2>1, <1>3, <1>4
<1> QED BY <1>6, <1>7, <1>8, <1>9 DEF NamesFolders

\* What consolidation makes of the steps: a step at most once; a flag exactly
\* if it is asked for; a copy exactly if it is asked for and nothing moves to
\* its folder; of the moves the first alone, and behind everything else.
ConsolidatesTo(steps, p) ==
  /\ HasStep(p, MarkSeen) <=> HasStep(steps, MarkSeen)
  /\ HasStep(p, MarkFlagged) <=> HasStep(steps, MarkFlagged)
  /\ \A f : HasStep(p, CopyTo(f)) <=>
              HasStep(steps, CopyTo(f)) /\ ~HasStep(steps, MoveTo(f))
  /\ \A f : HasStep(p, MoveTo(f)) <=>
       \E i \in 1..Len(steps) :
         /\ steps[i] = MoveTo(f)
         /\ \A j \in 1..Len(steps) : steps[j].kind = "move_to" => i <= j

\* Consolidating asks for the same, once each, the move last (actions/mod.rs).
LEMMA Consolidated ==
  ASSUME NEW F, NEW steps \in Seq(PlanSteps(F)), NEW p, p = Consolidate(steps)
  PROVE  /\ p \in Seq(PlanSteps(F)) /\ Distinct(p) /\ ConsolidatesTo(steps, p)
         /\ \A k \in 1..Len(p) : p[k].kind = "move_to" => k = Len(p)
<1>a. PICK moves : moves = FoldersOf("move_to", steps)
  OBVIOUS
<1>b. PICK all : all = FoldersOf("copy_to", steps)
  OBVIOUS
<1>c. PICK copies : copies = NotIn(moves, all)
  OBVIOUS
<1>d. PICK A : A = IF Contains(steps, MarkSeen) THEN <<MarkSeen>> ELSE <<>>
  OBVIOUS
<1>e. PICK B : B = IF Contains(steps, MarkFlagged) THEN <<MarkFlagged>> ELSE <<>>
  OBVIOUS
<1>f. PICK C : C = [i \in DOMAIN copies |-> CopyTo(copies[i])]
  OBVIOUS
<1>g. PICK D : D = IF moves # <<>> THEN <<MoveTo(Head(moves))>> ELSE <<>>
  OBVIOUS
<1>1. p = A \o B \o C \o D
  BY <1>a, <1>b, <1>c, <1>d, <1>e, <1>f, <1>g DEF Consolidate
<1>2. \A i \in 1..Len(steps) : steps[i] \in PlanSteps(F)
  OBVIOUS
<1>3. moves \in Seq(F \cup {None}) /\ NamesFolders(moves, "move_to", steps)
  BY <1>a, FoldersNamed
<1>4. all \in Seq(F \cup {None}) /\ Distinct(all) /\ NamesFolders(all, "copy_to", steps)
  BY <1>b, FoldersNamed
\* the steps and the folders they name
<1>5. \A f : Contains(moves, f) <=> HasStep(steps, MoveTo(f))
  <2> TAKE f
  <2>1. MoveTo(f).kind = "move_to" /\ MoveTo(f).folder = f
    BY DEF MoveTo
  <2>2. ASSUME NEW k \in 1..Len(moves), moves[k] = f PROVE HasStep(steps, MoveTo(f))
    <3>1. PICK i \in 1..Len(steps) : steps[i].kind = "move_to" /\ steps[i].folder = moves[k]
      BY <1>3 DEF NamesFolders
    <3>2. steps[i] = MoveTo(f)
      BY <3>1, <2>2, <1>2, StepKinds
    <3> QED BY <3>2 DEF HasStep
  <2>3. ASSUME NEW i \in 1..Len(steps), steps[i] = MoveTo(f)
        PROVE  \E k \in 1..Len(moves) : moves[k] = f
    BY <2>1, <2>3, <1>3, ZenonT(30) DEF NamesFolders
  <2> QED BY <2>2, <2>3 DEF Contains, HasStep
<1>6. \A f : (\E k \in 1..Len(all) : all[k] = f) <=> HasStep(steps, CopyTo(f))
  <2> TAKE f
  <2>1. CopyTo(f).kind = "copy_to" /\ CopyTo(f).folder = f
    BY DEF CopyTo
  <2>2. ASSUME NEW k \in 1..Len(all), all[k] = f PROVE HasStep(steps, CopyTo(f))
    <3>1. PICK i \in 1..Len(steps) : steps[i].kind = "copy_to" /\ steps[i].folder = all[k]
      BY <1>4 DEF NamesFolders
    <3>2. steps[i] = CopyTo(f)
      BY <3>1, <2>2, <1>2, StepKinds
    <3> QED BY <3>2 DEF HasStep
  <2>3. ASSUME NEW i \in 1..Len(steps), steps[i] = CopyTo(f)
        PROVE  \E k \in 1..Len(all) : all[k] = f
    BY <2>1, <2>3, <1>4, ZenonT(30) DEF NamesFolders
  <2> QED BY <2>2, <2>3 DEF Contains, HasStep
\* the copies
<1>7. /\ copies \in Seq(F \cup {None}) /\ Distinct(copies)
      /\ \A f : (\E k \in 1..Len(copies) : copies[k] = f) <=>
                  HasStep(steps, CopyTo(f)) /\ ~HasStep(steps, MoveTo(f))
  <2>a. PICK places : places = {i \in DOMAIN all : ~Contains(moves, all[i])}
    OBVIOUS
  <2>1. copies = Pick(all, places)
    BY <1>c, <2>a DEF NotIn
  <2>2. DOMAIN all = 1..Len(all) /\ places \in SUBSET DOMAIN all
    BY <1>4, <2>a
  <2>3. copies \in Seq(F \cup {None}) /\ HoldsPlaces(copies, all, places)
    BY <1>4, <2>1, <2>2, PickElements
  <2>4. Distinct(copies)
    BY <1>4, <2>1, PickDistinct
  <2>5. \A i \in 1..Len(all) : i \in places <=> ~HasStep(steps, MoveTo(all[i]))
    BY <2>a, <2>2, <1>5
  <2>6. \A f : (\E k \in 1..Len(copies) : copies[k] = f) <=>
                 HasStep(steps, CopyTo(f)) /\ ~HasStep(steps, MoveTo(f))
    <3> TAKE f
    <3>1. ASSUME NEW k \in 1..Len(copies), copies[k] = f
          PROVE  HasStep(steps, CopyTo(f)) /\ ~HasStep(steps, MoveTo(f))
      <4>1. PICK i \in places : copies[k] = all[i]
        BY <2>3 DEF HoldsPlaces
      <4> QED BY <4>1, <3>1, <2>2, <2>5, <1>6
    <3>2. ASSUME HasStep(steps, CopyTo(f)), ~HasStep(steps, MoveTo(f))
          PROVE  \E k \in 1..Len(copies) : copies[k] = f
      <4>1. PICK i \in 1..Len(all) : all[i] = f
        BY <3>2, <1>6
      <4>2. i \in places
        BY <4>1, <3>2, <2>5
      <4> QED BY <4>1, <4>2, <2>3 DEF HoldsPlaces
    <3> QED BY <3>1, <3>2
  <2> QED BY <2>3, <2>4, <2>6
\* the four parts
<1>8. /\ A \in Seq(PlanSteps(F)) /\ Len(A) \in {0, 1}
      /\ Len(A) = 1 <=> HasStep(steps, MarkSeen)
      /\ \A k \in 1..Len(A) : k = 1 /\ A[k] = MarkSeen
  <2>1. CASE Contains(steps, MarkSeen)
    <3>1. A = <<MarkSeen>> /\ MarkSeen \in PlanSteps(F)
      BY <2>1, <1>d DEF PlanSteps
    <3> QED BY <3>1, <2>1 DEF Contains, HasStep
  <2>2. CASE ~Contains(steps, MarkSeen)
    <3>1. A = <<>>
      BY <2>2, <1>d
    <3> QED BY <3>1, <2>2 DEF Contains, HasStep
  <2> QED BY <2>1, <2>2
<1>9. /\ B \in Seq(PlanSteps(F)) /\ Len(B) \in {0, 1}
      /\ Len(B) = 1 <=> HasStep(steps, MarkFlagged)
      /\ \A k \in 1..Len(B) : k = 1 /\ B[k] = MarkFlagged
  <2>1. CASE Contains(steps, MarkFlagged)
    <3>1. B = <<MarkFlagged>> /\ MarkFlagged \in PlanSteps(F)
      BY <2>1, <1>e DEF PlanSteps
    <3> QED BY <3>1, <2>1 DEF Contains, HasStep
  <2>2. CASE ~Contains(steps, MarkFlagged)
    <3>1. B = <<>>
      BY <2>2, <1>e
    <3> QED BY <3>1, <2>2 DEF Contains, HasStep
  <2> QED BY <2>1, <2>2
<1>10. /\ C \in Seq(PlanSteps(F)) /\ Len(C) = Len(copies)
       /\ \A k \in 1..Len(C) : C[k] = CopyTo(copies[k])
  <2>1. DOMAIN copies = 1..Len(copies) /\ Len(copies) \in Nat
    BY <1>7
  <2>2. \A k \in 1..Len(copies) : CopyTo(copies[k]) \in PlanSteps(F)
    BY <1>2, <1>7 DEF HasStep
  <2> QED BY <2>1, <2>2, <1>f
<1>11. /\ D \in Seq(PlanSteps(F)) /\ Len(D) \in {0, 1}
       /\ \A k \in 1..Len(D) :
            /\ k = 1
            /\ \E i \in 1..Len(steps) :
                 /\ D[k] = steps[i] /\ steps[i].kind = "move_to"
                 /\ \A j \in 1..Len(steps) : steps[j].kind = "move_to" => i <= j
       /\ Len(D) = 0 => \A i \in 1..Len(steps) : steps[i].kind # "move_to"
  <2>1. CASE moves = <<>>
    <3>1. D = <<>>
      BY <2>1, <1>g
    <3>2. \A i \in 1..Len(steps) : steps[i].kind # "move_to"
      BY <2>1, <1>3 DEF NamesFolders
    <3> QED BY <3>1, <3>2
  <2>2. CASE moves # <<>>
    <3>1. D = <<MoveTo(Head(moves))>>
      BY <2>2, <1>g
    <3>2. PICK i \in 1..Len(steps) :
            /\ steps[i].kind = "move_to" /\ Head(moves) = steps[i].folder
            /\ \A j \in 1..Len(steps) : steps[j].kind = "move_to" => i <= j
      BY <2>2, <1>3 DEF NamesFolders
    <3>3. MoveTo(Head(moves)) = steps[i] /\ steps[i] \in PlanSteps(F)
      BY <3>2, <1>2, StepKinds
    <3> QED BY <3>1, <3>2, <3>3
  <2> QED BY <2>1, <2>2
\* where a step of the plan stands
<1>12. p \in Seq(PlanSteps(F)) /\ JoinsFour(p, A, B, C, D)
  BY <1>1, <1>8, <1>9, <1>10, <1>11, ConcatFour
<1>13. \A k \in 1..Len(p) : IsInOneOf(k, p, A, B, C, D)
  BY <1>1, <1>8, <1>9, <1>10, <1>11, FourParts
<1>14. \A x : HasStep(p, x) <=>
                HasStep(A, x) \/ HasStep(B, x) \/ HasStep(C, x) \/ HasStep(D, x)
  <2>1. HoldsFour(p, A, B, C, D)
    BY <1>1, <1>8, <1>9, <1>10, <1>11, FourHave
  <2> QED BY <2>1 DEF HoldsFour
<1>15. \A f : /\ CopyTo(f) # MarkSeen /\ CopyTo(f) # MarkFlagged
              /\ MoveTo(f) # MarkSeen /\ MoveTo(f) # MarkFlagged
              /\ MarkSeen # MarkFlagged
              /\ CopyTo(f).kind = "copy_to" /\ MoveTo(f).kind = "move_to"
              /\ CopyTo(f).folder = f /\ MoveTo(f).folder = f
  <2>1. \A f : /\ CopyTo(f).kind = "copy_to" /\ MoveTo(f).kind = "move_to"
               /\ CopyTo(f).folder = f /\ MoveTo(f).folder = f
    BY DEF CopyTo, MoveTo
  <2>2. MarkSeen.kind = "mark_seen" /\ MarkFlagged.kind = "mark_flagged"
    BY DEF MarkSeen, MarkFlagged
  <2> QED BY <2>1, <2>2
<1>16. \A x : HasStep(A, x) <=> x = MarkSeen /\ HasStep(steps, MarkSeen)
  <2>1. CASE Len(A) = 0
    BY <2>1, <1>8 DEF HasStep
  <2>2. CASE Len(A) = 1
    <3>1. 1 \in 1..Len(A) /\ A[1] = MarkSeen /\ HasStep(steps, MarkSeen)
      BY <2>2, <1>8
    <3>2. \A x : HasStep(A, x) <=> x = MarkSeen
      BY <3>1, <1>8 DEF HasStep
    <3> QED BY <3>1, <3>2
  <2> QED BY <2>1, <2>2, <1>8
<1>17. \A x : HasStep(B, x) <=> x = MarkFlagged /\ HasStep(steps, MarkFlagged)
  <2>1. CASE Len(B) = 0
    BY <2>1, <1>9 DEF HasStep
  <2>2. CASE Len(B) = 1
    <3>1. 1 \in 1..Len(B) /\ B[1] = MarkFlagged /\ HasStep(steps, MarkFlagged)
      BY <2>2, <1>9
    <3>2. \A x : HasStep(B, x) <=> x = MarkFlagged
      BY <3>1, <1>9 DEF HasStep
    <3> QED BY <3>1, <3>2
  <2> QED BY <2>1, <2>2, <1>9
<1>18. \A x : HasStep(C, x) => \E f : x = CopyTo(f)
  BY <1>10 DEF HasStep
<1>19. \A f : HasStep(C, CopyTo(f)) <=>
                HasStep(steps, CopyTo(f)) /\ ~HasStep(steps, MoveTo(f))
  <2> TAKE f
  <2>1. HasStep(C, CopyTo(f)) <=> \E k \in 1..Len(copies) : copies[k] = f
    BY <1>10, <1>15 DEF HasStep
  <2> QED BY <2>1, <1>7
<1>20. \A x : HasStep(D, x) <=>
                \E i \in 1..Len(steps) :
                  /\ x = steps[i] /\ steps[i].kind = "move_to"
                  /\ \A j \in 1..Len(steps) : steps[j].kind = "move_to" => i <= j
  <2> TAKE x
  <2>1. ASSUME NEW i \in 1..Len(steps), x = steps[i], steps[i].kind = "move_to",
               \A j \in 1..Len(steps) : steps[j].kind = "move_to" => i <= j
        PROVE  HasStep(D, x)
    <3>1. Len(D) = 1 /\ 1 \in 1..Len(D)
      BY <2>1, <1>11
    <3>2. PICK ii \in 1..Len(steps) :
            /\ D[1] = steps[ii] /\ steps[ii].kind = "move_to"
            /\ \A j \in 1..Len(steps) : steps[j].kind = "move_to" => ii <= j
      BY <3>1, <1>11
    <3>3. i = ii
      BY <2>1, <3>2
    <3> QED BY <3>1, <3>2, <3>3, <2>1 DEF HasStep
  <2>2. ASSUME HasStep(D, x)
        PROVE  \E i \in 1..Len(steps) :
                 /\ x = steps[i] /\ steps[i].kind = "move_to"
                 /\ \A j \in 1..Len(steps) : steps[j].kind = "move_to" => i <= j
    BY <2>2, <1>11 DEF HasStep
  <2> QED BY <2>1, <2>2
<1>21. \A f : HasStep(p, MoveTo(f)) <=>
         \E i \in 1..Len(steps) :
           /\ steps[i] = MoveTo(f)
           /\ \A j \in 1..Len(steps) : steps[j].kind = "move_to" => i <= j
  <2> TAKE f
  <2>1. ~HasStep(A, MoveTo(f)) /\ ~HasStep(B, MoveTo(f)) /\ ~HasStep(C, MoveTo(f))
    <3>1. \A g : CopyTo(g) # MoveTo(f)
      <4> TAKE g
      <4>1. CopyTo(g).kind = "copy_to" /\ MoveTo(f).kind = "move_to"
        BY <1>15
      <4> QED BY <4>1
    <3> QED BY <3>1, <1>15, <1>16, <1>17, <1>18
  <2>2. HasStep(p, MoveTo(f)) <=> HasStep(D, MoveTo(f))
    BY <2>1, <1>14
  <2>3. MoveTo(f).kind = "move_to"
    BY <1>15
  <2> QED BY <2>2, <2>3, <1>20
<1>22. \A x : HasStep(D, x) => x.kind = "move_to"
  BY <1>20
<1>23. ConsolidatesTo(steps, p)
  <2>1. MarkSeen.kind = "mark_seen" /\ MarkFlagged.kind = "mark_flagged"
    BY DEF MarkSeen, MarkFlagged
  <2>2. HasStep(p, MarkSeen) <=> HasStep(steps, MarkSeen)
    BY <2>1, <1>14, <1>15, <1>16, <1>17, <1>18, <1>22
  <2>3. HasStep(p, MarkFlagged) <=> HasStep(steps, MarkFlagged)
    BY <2>1, <1>14, <1>15, <1>16, <1>17, <1>18, <1>22
  <2>4. \A f : HasStep(p, CopyTo(f)) <=>
                 HasStep(steps, CopyTo(f)) /\ ~HasStep(steps, MoveTo(f))
    <3> TAKE f
    <3>1. ~HasStep(A, CopyTo(f)) /\ ~HasStep(B, CopyTo(f)) /\ ~HasStep(D, CopyTo(f))
      <4>1. CopyTo(f).kind # "move_to"
        BY <1>15
      <4> QED BY <4>1, <1>15, <1>16, <1>17, <1>22
    <3> QED BY <3>1, <1>14, <1>19
  <2> QED BY <2>2, <2>3, <2>4, <1>21 DEF ConsolidatesTo
\* nothing twice, and the move last
<1>24. \A k \in 1..Len(p) :
         \/ k = 1 /\ p[k].kind = "mark_seen"
         \/ k = Len(A) + 1 /\ p[k].kind = "mark_flagged"
         \/ /\ p[k].kind = "copy_to"
            /\ \E i \in 1..Len(copies) :
                 k = Len(A) + Len(B) + i /\ p[k].folder = copies[i]
         \/ k = Len(p) /\ p[k].kind = "move_to"
  <2> TAKE k \in 1..Len(p)
  <2>1. CASE k \in 1..Len(A) /\ p[k] = A[k]
    BY <2>1, <1>8 DEF MarkSeen
  <2>2. CASE \E i \in 1..Len(B) : k = Len(A) + i /\ p[k] = B[i]
    BY <2>2, <1>9 DEF MarkFlagged
  <2>3. CASE \E i \in 1..Len(C) : k = Len(A) + Len(B) + i /\ p[k] = C[i]
    BY <2>3, <1>10, <1>15
  <2>4. CASE \E i \in 1..Len(D) : k = Len(A) + Len(B) + Len(C) + i /\ p[k] = D[i]
    <3>1. PICK i \in 1..Len(D) : k = Len(A) + Len(B) + Len(C) + i /\ p[k] = D[i]
      BY <2>4
    <3>2. i = 1 /\ Len(D) = 1 /\ p[k].kind = "move_to"
      BY <3>1, <1>11
    <3> QED BY <3>1, <3>2, <1>12 DEF JoinsFour
  <2> QED BY <2>1, <2>2, <2>3, <2>4, <1>13 DEF IsInOneOf
<1>25. Distinct(p)
  <2> SUFFICES ASSUME NEW k \in 1..Len(p), NEW l \in 1..Len(p), k # l, p[k] = p[l]
               PROVE  FALSE
    BY DEF Distinct
  <2>1. CASE p[k].kind # "copy_to"
    BY <2>1, <1>24
  <2>2. CASE p[k].kind = "copy_to"
    <3>1. PICK i \in 1..Len(copies) : k = Len(A) + Len(B) + i /\ p[k].folder = copies[i]
      BY <2>2, <1>24
    <3>2. PICK j \in 1..Len(copies) : l = Len(A) + Len(B) + j /\ p[l].folder = copies[j]
      BY <2>2, <1>24
    <3>3. i # j
      BY <3>1, <3>2
    <3> QED BY <3>1, <3>2, <3>3, <1>7 DEF Distinct
  <2> QED BY <2>1, <2>2
<1>26. \A k \in 1..Len(p) : p[k].kind = "move_to" => k = Len(p)
  BY <1>24
<1> QED BY <1>12, <1>23, <1>25, <1>26

\* What an entry asks for.
AsksFor(a, x) ==
  \/ a.copy_to # None /\ x = CopyTo(a.copy_to)
  \/ a.move_to # None /\ x = MoveTo(a.move_to)
  \/ a.mark_seen /\ x = MarkSeen
  \/ a.mark_flagged /\ x = MarkFlagged

\* The steps of a tag are those its section asks for.
LEMMA TagStepsAsked ==
  ASSUME NEW F, NEW a, IsEntry(a, F)
  PROVE  /\ TagSteps(a) \in Seq(PlanSteps(F))
         /\ \A x : HasStep(TagSteps(a), x) <=> AsksFor(a, x)
<1>a. PICK A : A = IF a.copy_to # None THEN <<CopyTo(a.copy_to)>> ELSE <<>>
  OBVIOUS
<1>b. PICK B : B = IF a.move_to # None THEN <<MoveTo(a.move_to)>> ELSE <<>>
  OBVIOUS
<1>c. PICK C : C = IF a.mark_seen THEN <<MarkSeen>> ELSE <<>>
  OBVIOUS
<1>d. PICK D : D = IF a.mark_flagged THEN <<MarkFlagged>> ELSE <<>>
  OBVIOUS
<1>1. PICK p : p = TagSteps(a) /\ p = A \o B \o C \o D
  BY <1>a, <1>b, <1>c, <1>d DEF TagSteps
<1>2. A \in Seq(PlanSteps(F)) /\ Len(A) \in Nat
      /\ \A x : HasStep(A, x) <=> a.copy_to # None /\ x = CopyTo(a.copy_to)
  <2>1. CASE a.copy_to # None
    <3>1. A = <<CopyTo(a.copy_to)>> /\ CopyTo(a.copy_to) \in PlanSteps(F)
      BY <2>1, <1>a DEF IsEntry, PlanSteps
    <3> QED BY <3>1, <2>1 DEF HasStep
  <2>2. CASE a.copy_to = None
    BY <2>2, <1>a DEF HasStep
  <2> QED BY <2>1, <2>2
<1>3. B \in Seq(PlanSteps(F)) /\ Len(B) \in Nat
      /\ \A x : HasStep(B, x) <=> a.move_to # None /\ x = MoveTo(a.move_to)
  <2>1. CASE a.move_to # None
    <3>1. B = <<MoveTo(a.move_to)>> /\ MoveTo(a.move_to) \in PlanSteps(F)
      BY <2>1, <1>b DEF IsEntry, PlanSteps
    <3> QED BY <3>1, <2>1 DEF HasStep
  <2>2. CASE a.move_to = None
    BY <2>2, <1>b DEF HasStep
  <2> QED BY <2>1, <2>2
<1>4. C \in Seq(PlanSteps(F)) /\ Len(C) \in Nat
      /\ \A x : HasStep(C, x) <=> a.mark_seen /\ x = MarkSeen
  <2>1. CASE a.mark_seen
    <3>1. C = <<MarkSeen>> /\ MarkSeen \in PlanSteps(F)
      BY <2>1, <1>c DEF PlanSteps
    <3> QED BY <3>1, <2>1 DEF HasStep
  <2>2. CASE ~a.mark_seen
    BY <2>2, <1>c DEF HasStep
  <2> QED BY <2>1, <2>2
<1>5. D \in Seq(PlanSteps(F)) /\ Len(D) \in Nat
      /\ \A x : HasStep(D, x) <=> a.mark_flagged /\ x = MarkFlagged
  <2>1. CASE a.mark_flagged
    <3>1. D = <<MarkFlagged>> /\ MarkFlagged \in PlanSteps(F)
      BY <2>1, <1>d DEF PlanSteps
    <3> QED BY <3>1, <2>1 DEF HasStep
  <2>2. CASE ~a.mark_flagged
    BY <2>2, <1>d DEF HasStep
  <2> QED BY <2>1, <2>2
<1>6. p \in Seq(PlanSteps(F)) /\ \A x : HasStep(p, x) <=>
        HasStep(A, x) \/ HasStep(B, x) \/ HasStep(C, x) \/ HasStep(D, x)
  <2>1. p \in Seq(PlanSteps(F)) /\ HoldsFour(p, A, B, C, D)
    BY <1>1, <1>2, <1>3, <1>4, <1>5, FourHave
  <2> QED BY <2>1 DEF HoldsFour
<1> QED BY <1>1, <1>2, <1>3, <1>4, <1>5, <1>6 DEF AsksFor

\* The entries of the tags, in tag order.
Asked(tags, actions, x) ==
  \E i \in 1..Len(tags) : tags[i] \in DOMAIN actions /\ AsksFor(actions[tags[i]], x)

\* The first tag that moves the message moves it to f.
FirstMovesTo(tags, actions, f) ==
  \E i \in 1..Len(tags) :
    /\ tags[i] \in DOMAIN actions /\ actions[tags[i]].move_to = f
    /\ \A j \in 1..(i - 1) :
         tags[j] \in DOMAIN actions => actions[tags[j]].move_to = None

ResolvesTo(tags, actions, F, rs) ==
  /\ \A x : HasStep(rs, x) <=> Asked(tags, actions, x)
  /\ \A f \in F :
       FirstMovesTo(tags, actions, f) <=>
         \E k \in 1..Len(rs) :
           /\ rs[k] = MoveTo(f)
           /\ \A l \in 1..Len(rs) : rs[l].kind = "move_to" => k <= l

\* The resolved steps are those the tags ask for; the first move among them is
\* that of the first tag with one.
LEMMA Resolved ==
  ASSUME NEW F, None \notin F, NEW T, NEW tags \in Seq(T),
         NEW actions, IsSection(actions, F),
         NEW rs, rs = ResolveActions(tags, actions)
  PROVE  rs \in Seq(PlanSteps(F)) /\ ResolvesTo(tags, actions, F, rs)
<1> DEFINE StepsAt(i) ==
             IF tags[i] \in DOMAIN actions THEN TagSteps(actions[tags[i]]) ELSE <<>>
<1>a. PICK ss : ss = [i \in DOMAIN tags |-> StepsAt(i)]
  OBVIOUS
<1>1. DOMAIN tags = 1..Len(tags) /\ Len(tags) \in Nat
  OBVIOUS
<1>2. rs = FlattenSeq(ss)
  BY <1>a DEF ResolveActions
<1>3. \A i \in 1..Len(tags) :
        /\ StepsAt(i) \in Seq(PlanSteps(F))
        /\ \A x : HasStep(StepsAt(i), x) <=>
             tags[i] \in DOMAIN actions /\ AsksFor(actions[tags[i]], x)
  <2> TAKE i \in 1..Len(tags)
  <2>1. CASE tags[i] \in DOMAIN actions
    <3>1. IsEntry(actions[tags[i]], F)
      BY <2>1 DEF IsSection
    <3> QED BY <2>1, <3>1, TagStepsAsked
  <2>2. CASE tags[i] \notin DOMAIN actions
    BY <2>2 DEF HasStep
  <2> QED BY <2>1, <2>2
<1> HIDE DEF StepsAt
<1>4. ss \in Seq(Seq(PlanSteps(F))) /\ Len(ss) = Len(tags)
      /\ \A i \in 1..Len(tags) : ss[i] = StepsAt(i)
  BY <1>a, <1>1, <1>3
<1>5. rs \in Seq(PlanSteps(F)) /\ \E off : Offsets(ss, off)
  BY <1>2, <1>4, FlattenPlaces
<1>6. PICK off : Offsets(ss, off)
  BY <1>5
<1>7. /\ off \in [0..Len(tags) -> Nat]
      /\ \A i \in 1..Len(tags) : off[i] = off[i - 1] + Len(ss[i])
      /\ \A i, j \in 0..Len(tags) : i <= j => off[i] <= off[j]
      /\ Len(rs) = off[Len(tags)]
      /\ \A i \in 1..Len(tags) : \A j \in 1..Len(ss[i]) : rs[off[i - 1] + j] = ss[i][j]
      /\ \A k \in 1..Len(rs) :
           \E i \in 1..Len(tags) : \E j \in 1..Len(ss[i]) : k = off[i - 1] + j
  BY <1>6, <1>2, <1>4 DEF Offsets
\* a step stands behind those of the tags before its own
<1>8. \A i \in 1..Len(tags) : \A j \in 1..Len(ss[i]) :
        /\ off[i - 1] + j \in 1..Len(rs) /\ off[i - 1] \in Nat
        /\ off[i - 1] + j <= off[i]
  <2> TAKE i \in 1..Len(tags)
  <2> TAKE j \in 1..Len(ss[i])
  <2>1. i - 1 \in 0..Len(tags) /\ i \in 0..Len(tags) /\ Len(tags) \in 0..Len(tags)
        /\ i <= Len(tags)
    BY <1>1
  <2>2. off[i - 1] \in Nat /\ off[i] \in Nat /\ off[i] <= Len(rs)
        /\ off[i] = off[i - 1] + Len(ss[i])
    BY <2>1, <1>7
  <2>3. ss[i] \in Seq(PlanSteps(F))
    BY <1>3, <1>4
  <2>4. Len(ss[i]) \in Nat /\ Len(rs) \in Nat
    BY <2>3, <1>5
  <2> QED BY <2>2, <2>4
<1>9. \A i, ii \in 1..Len(tags) : \A j \in 1..Len(ss[i]) : \A jj \in 1..Len(ss[ii]) :
        i < ii => off[i - 1] + j < off[ii - 1] + jj
  <2> TAKE i, ii \in 1..Len(tags)
  <2> TAKE j \in 1..Len(ss[i])
  <2> TAKE jj \in 1..Len(ss[ii])
  <2> HAVE i < ii
  <2>1. i \in 0..Len(tags) /\ ii - 1 \in 0..Len(tags) /\ i <= ii - 1
    BY <1>1
  <2>2. off[i] <= off[ii - 1] /\ off[i] \in Nat /\ off[ii - 1] \in Nat
    BY <2>1, <1>7
  <2>3. off[i - 1] + j <= off[i] /\ off[i - 1] \in Nat
    BY <1>8
  <2> QED BY <2>2, <2>3, SMTT(30)
<1>10. \A x : HasStep(rs, x) <=> Asked(tags, actions, x)
  <2> TAKE x
  <2>1. ASSUME NEW k \in 1..Len(rs), rs[k] = x PROVE Asked(tags, actions, x)
    <3>1. PICK i \in 1..Len(tags) : \E j \in 1..Len(ss[i]) : k = off[i - 1] + j
      BY <1>7
    <3>2. PICK j \in 1..Len(ss[i]) : k = off[i - 1] + j
      BY <3>1
    <3>3. ss[i][j] = x
      BY <3>2, <2>1, <1>7
    <3>4. HasStep(StepsAt(i), x)
      BY <3>3, <1>4 DEF HasStep
    <3> QED BY <3>4, <1>3 DEF Asked
  <2>2. ASSUME NEW i \in 1..Len(tags), tags[i] \in DOMAIN actions,
               AsksFor(actions[tags[i]], x)
        PROVE  HasStep(rs, x)
    <3>1. HasStep(ss[i], x)
      BY <2>2, <1>3, <1>4
    <3>2. PICK j \in 1..Len(ss[i]) : ss[i][j] = x
      BY <3>1 DEF HasStep
    <3>3. off[i - 1] + j \in 1..Len(rs) /\ rs[off[i - 1] + j] = x
      BY <3>2, <1>7, <1>8
    <3> QED BY <3>3 DEF HasStep
  <2> QED BY <2>1, <2>2 DEF Asked, HasStep
\* the move of a tag among its steps
<1>11. \A i \in 1..Len(tags) : \A f \in F :
         tags[i] \in DOMAIN actions /\ actions[tags[i]].move_to = f <=>
           \E j \in 1..Len(ss[i]) : ss[i][j] = MoveTo(f)
  <2> TAKE i \in 1..Len(tags)
  <2> TAKE f \in F
  <2>1. MoveTo(f).kind = "move_to" /\ MoveTo(f).folder = f /\ f # None
    BY DEF MoveTo
  <2>2. AsksFor(actions[tags[i]], MoveTo(f)) <=> actions[tags[i]].move_to = f
    BY <2>1 DEF AsksFor, MoveTo, CopyTo, MarkSeen, MarkFlagged
  <2>3. HasStep(ss[i], MoveTo(f)) <=>
          tags[i] \in DOMAIN actions /\ AsksFor(actions[tags[i]], MoveTo(f))
    BY <1>3, <1>4
  <2> QED BY <2>2, <2>3 DEF HasStep
<1>12. \A i \in 1..Len(tags) : \A j \in 1..Len(ss[i]) :
         ss[i][j].kind = "move_to" =>
           /\ tags[i] \in DOMAIN actions /\ actions[tags[i]].move_to \in F
           /\ ss[i][j] = MoveTo(actions[tags[i]].move_to)
  <2> TAKE i \in 1..Len(tags)
  <2> TAKE j \in 1..Len(ss[i])
  <2> HAVE ss[i][j].kind = "move_to"
  <2>1. HasStep(StepsAt(i), ss[i][j])
    BY <1>4 DEF HasStep
  <2>2. tags[i] \in DOMAIN actions /\ AsksFor(actions[tags[i]], ss[i][j])
    BY <2>1, <1>3
  <2>3. actions[tags[i]].move_to # None /\ ss[i][j] = MoveTo(actions[tags[i]].move_to)
    BY <2>2 DEF AsksFor, CopyTo, MarkSeen, MarkFlagged
  <2>4. IsEntry(actions[tags[i]], F)
    BY <2>2 DEF IsSection
  <2> QED BY <2>2, <2>3, <2>4 DEF IsEntry
\* if k is the place of the first move then its tag is the first that moves
<1>13. ASSUME NEW k \in 1..Len(rs), rs[k].kind = "move_to",
              \A l \in 1..Len(rs) : rs[l].kind = "move_to" => k <= l
       PROVE  \E f \in F : rs[k] = MoveTo(f) /\ FirstMovesTo(tags, actions, f)
  <2>1. PICK i \in 1..Len(tags) : \E j \in 1..Len(ss[i]) : k = off[i - 1] + j
    BY <1>7
  <2>2. PICK j \in 1..Len(ss[i]) : k = off[i - 1] + j
    BY <2>1
  <2>3. rs[k] = ss[i][j]
    BY <2>2, <1>7
  <2>a. PICK f : f = actions[tags[i]].move_to
    OBVIOUS
  <2>4. tags[i] \in DOMAIN actions /\ f \in F /\ rs[k] = MoveTo(f)
    BY <2>a, <2>3, <1>12, <1>13
  <2>5. ASSUME NEW b \in 1..(i - 1), tags[b] \in DOMAIN actions,
               actions[tags[b]].move_to # None
        PROVE  FALSE
    <3>1. b \in 1..Len(tags) /\ b < i
      BY <1>1
    <3>a. PICK g : g = actions[tags[b]].move_to
      OBVIOUS
    <3>2. g \in F
      BY <3>a, <2>5 DEF IsSection, IsEntry
    <3>3. PICK c \in 1..Len(ss[b]) : ss[b][c] = MoveTo(g)
      BY <3>1, <3>2, <3>a, <2>5, <1>11
    <3>4. off[b - 1] + c \in 1..Len(rs) /\ rs[off[b - 1] + c] = MoveTo(g)
      BY <3>1, <3>3, <1>7, <1>8
    <3>5. MoveTo(g).kind = "move_to"
      BY DEF MoveTo
    <3>6. k <= off[b - 1] + c
      BY <3>4, <3>5, <1>13
    <3>7. off[b - 1] + c < off[i - 1] + j
      BY <3>1, <1>9
    <3>8. k \in Nat /\ off[b - 1] + c \in Nat
      BY <3>4
    <3> QED BY <3>6, <3>7, <3>8, <2>2
  <2>6. FirstMovesTo(tags, actions, f)
    BY <2>a, <2>4, <2>5 DEF FirstMovesTo
  <2> QED BY <2>4, <2>6
<1>14. ASSUME NEW f \in F, NEW g \in F,
              FirstMovesTo(tags, actions, f), FirstMovesTo(tags, actions, g)
       PROVE  f = g
  <2>1. PICK i \in 1..Len(tags) :
          /\ tags[i] \in DOMAIN actions /\ actions[tags[i]].move_to = f
          /\ \A j \in 1..(i - 1) :
               tags[j] \in DOMAIN actions => actions[tags[j]].move_to = None
    BY <1>14 DEF FirstMovesTo
  <2>2. PICK j \in 1..Len(tags) :
          /\ tags[j] \in DOMAIN actions /\ actions[tags[j]].move_to = g
          /\ \A b \in 1..(j - 1) :
               tags[b] \in DOMAIN actions => actions[tags[b]].move_to = None
    BY <1>14 DEF FirstMovesTo
  <2>3. f # None /\ g # None
    OBVIOUS
  <2>4. ~(i < j)
    <3>1. i < j => i \in 1..(j - 1)
      BY <1>1
    <3> QED BY <3>1, <2>1, <2>2, <2>3
  <2>5. ~(j < i)
    <3>1. j < i => j \in 1..(i - 1)
      BY <1>1
    <3> QED BY <3>1, <2>1, <2>2, <2>3
  <2>6. i = j
    BY <2>4, <2>5, <1>1
  <2> QED BY <2>1, <2>2, <2>6
<1>15. \A f \in F :
         FirstMovesTo(tags, actions, f) <=>
           \E k \in 1..Len(rs) :
             /\ rs[k] = MoveTo(f)
             /\ \A l \in 1..Len(rs) : rs[l].kind = "move_to" => k <= l
  <2> TAKE f \in F
  <2>1. ASSUME NEW k \in 1..Len(rs), rs[k] = MoveTo(f),
               \A l \in 1..Len(rs) : rs[l].kind = "move_to" => k <= l
        PROVE  FirstMovesTo(tags, actions, f)
    <3>1. rs[k].kind = "move_to"
      BY <2>1 DEF MoveTo
    <3>2. PICK g \in F : rs[k] = MoveTo(g) /\ FirstMovesTo(tags, actions, g)
      BY <3>1, <2>1, <1>13
    <3>3. f = g
      BY <3>2, <2>1 DEF MoveTo
    <3> QED BY <3>2, <3>3
  <2>2. ASSUME FirstMovesTo(tags, actions, f)
        PROVE  \E k \in 1..Len(rs) :
                 /\ rs[k] = MoveTo(f)
                 /\ \A l \in 1..Len(rs) : rs[l].kind = "move_to" => k <= l
    <3>a. PICK K : K = {k \in 1..Len(rs) : rs[k].kind = "move_to"}
      OBVIOUS
    <3>1. PICK i \in 1..Len(tags) :
            tags[i] \in DOMAIN actions /\ actions[tags[i]].move_to = f
      BY <2>2 DEF FirstMovesTo
    <3>2. PICK j \in 1..Len(ss[i]) : ss[i][j] = MoveTo(f)
      BY <3>1, <1>11
    <3>3. off[i - 1] + j \in 1..Len(rs) /\ rs[off[i - 1] + j] = MoveTo(f)
      BY <3>2, <1>7, <1>8
    <3>4. K \subseteq Nat /\ K # {}
      BY <3>3, <3>a DEF MoveTo
    <3>5. PICK k \in K : \A l \in K : k <= l
      BY <3>4, Least
    <3>6. k \in 1..Len(rs) /\ rs[k].kind = "move_to"
          /\ \A l \in 1..Len(rs) : rs[l].kind = "move_to" => k <= l
      BY <3>5, <3>a
    <3>7. PICK g \in F : rs[k] = MoveTo(g) /\ FirstMovesTo(tags, actions, g)
      BY <3>6, <1>13
    <3>8. f = g
      BY <3>7, <2>2, <1>14
    <3> QED BY <3>6, <3>7, <3>8
  <2> QED BY <2>1, <2>2
<1> QED BY <1>5, <1>10, <1>15 DEF ResolvesTo

-----------------------------------------------------------------------------
\* The plan of a message with these tags: no step twice, the move last, a flag
\* exactly if a tag asks for it, a copy exactly if a tag asks for it and none
\* moves to its folder, and the move of the first tag that has one.
IsPlan(tags, actions, F, p) ==
  /\ p \in Seq(PlanSteps(F)) /\ Distinct(p)
  /\ \A k \in 1..Len(p) : p[k].kind = "move_to" => k = Len(p)
  /\ HasStep(p, MarkSeen) <=> Asked(tags, actions, MarkSeen)
  /\ HasStep(p, MarkFlagged) <=> Asked(tags, actions, MarkFlagged)
  /\ \A f \in F : HasStep(p, CopyTo(f)) <=>
       Asked(tags, actions, CopyTo(f)) /\ ~Asked(tags, actions, MoveTo(f))
  /\ \A f \in F : HasStep(p, MoveTo(f)) <=> FirstMovesTo(tags, actions, f)

\* The plan of a message is what the sections of its tags ask for.
LEMMA PlanIsAsked ==
  ASSUME NEW F, None \notin F, NEW T, NEW tags \in Seq(T),
         NEW actions, IsSection(actions, F)
  PROVE  IsPlan(tags, actions, F, Consolidate(ResolveActions(tags, actions)))
<1>a. PICK rs : rs = ResolveActions(tags, actions)
  OBVIOUS
<1>b. PICK p : p = Consolidate(rs)
  OBVIOUS
<1>1. rs \in Seq(PlanSteps(F)) /\ ResolvesTo(tags, actions, F, rs)
  BY <1>a, Resolved
<1>2. /\ p \in Seq(PlanSteps(F)) /\ Distinct(p) /\ ConsolidatesTo(rs, p)
      /\ \A k \in 1..Len(p) : p[k].kind = "move_to" => k = Len(p)
  BY <1>1, <1>b, Consolidated
<1>3. IsPlan(tags, actions, F, p)
  BY <1>1, <1>2 DEF IsPlan, ConsolidatesTo, ResolvesTo
<1> QED BY <1>3, <1>a, <1>b

\* A plan files into no folder twice.
FilesOnce(steps) ==
  \A k, l \in 1..Len(steps) :
    k # l /\ IsFiling(steps[k]) /\ IsFiling(steps[l]) => steps[k].folder # steps[l].folder

\* A plan files into no folder twice.
LEMMA PlanFilesOnce ==
  ASSUME NEW tags, NEW actions, NEW F, None \notin F, NEW steps,
         IsPlan(tags, actions, F, steps)
  PROVE  FilesOnce(steps)
<1> SUFFICES ASSUME NEW k \in 1..Len(steps), NEW l \in 1..Len(steps), k # l,
                    IsFiling(steps[k]), IsFiling(steps[l]),
                    steps[k].folder = steps[l].folder
             PROVE  FALSE
  BY DEF FilesOnce
<1>1. steps \in Seq(PlanSteps(F)) /\ Distinct(steps)
  BY DEF IsPlan
<1>2. steps[k] \in PlanSteps(F) /\ steps[l] \in PlanSteps(F) /\ steps[k] # steps[l]
  BY <1>1 DEF Distinct
<1>a. PICK f : f = steps[k].folder
  OBVIOUS
<1>3. \/ steps[k] = CopyTo(f) /\ steps[l] = MoveTo(f)
      \/ steps[k] = MoveTo(f) /\ steps[l] = CopyTo(f)
  BY <1>2, <1>a, StepKinds DEF IsFiling
<1>4. f \in F
  BY <1>2, <1>a, StepKinds DEF IsFiling
<1>5. HasStep(steps, CopyTo(f)) /\ HasStep(steps, MoveTo(f))
  BY <1>3 DEF HasStep
<1>6. ~Asked(tags, actions, MoveTo(f)) /\ FirstMovesTo(tags, actions, f)
  BY <1>4, <1>5 DEF IsPlan
<1>7. Asked(tags, actions, MoveTo(f))
  BY <1>6, <1>4 DEF Asked, FirstMovesTo, AsksFor
<1> QED BY <1>6, <1>7

-----------------------------------------------------------------------------
(* Tags put behind others *)

\* What is flattened first comes first, whatever is put behind it.
LEMMA FlattenPrefix ==
  ASSUME NEW S, NEW a \in Seq(Seq(S)), NEW b \in Seq(Seq(S))
  PROVE  IsPrefix(FlattenSeq(a), FlattenSeq(a \o b))
<1>a. PICK c : c = a \o b
  OBVIOUS
<1>b. PICK fa : fa = FlattenSeq(a)
  OBVIOUS
<1>c. PICK fc : fc = FlattenSeq(c)
  OBVIOUS
<1>d. PICK n : n = Len(a)
  OBVIOUS
<1>1. /\ c \in Seq(Seq(S)) /\ n \in Nat /\ Len(b) \in Nat /\ Len(c) = n + Len(b)
      /\ \A i \in 1..n : c[i] = a[i]
  BY <1>a, <1>d, ConcatParts
<1>2. fa \in Seq(S) /\ \E f : Offsets(a, f)
  BY <1>b, FlattenPlaces
<1>3. fc \in Seq(S) /\ \E f : Offsets(c, f)
  BY <1>1, <1>c, FlattenPlaces
<1>4. PICK f : Offsets(a, f)
  BY <1>2
<1>5. PICK g : Offsets(c, g)
  BY <1>3
<1>6. /\ f \in [0..n -> Nat] /\ f[0] = 0 /\ Len(fa) = f[n]
      /\ \A i \in 1..n : f[i] = f[i - 1] + Len(a[i])
  BY <1>4, <1>b, <1>d DEF Offsets
<1>7. /\ g \in [0..Len(c) -> Nat] /\ g[0] = 0 /\ Len(fc) = g[Len(c)]
      /\ \A i \in 1..Len(c) : g[i] = g[i - 1] + Len(c[i])
      /\ \A i, j \in 0..Len(c) : i <= j => g[i] <= g[j]
  BY <1>5, <1>c DEF Offsets
<1>8. \A i \in 0..n : f[i] = g[i]
  <2>a. PICK G : G = {i \in Nat : i <= n => f[i] = g[i]}
    OBVIOUS
  <2>1. 0 \in G
    BY <1>6, <1>7, <2>a
  <2>2. ASSUME NEW i \in Nat, i \in G PROVE i + 1 \in G
    <3>1. CASE i + 1 <= n
      <4>1. i + 1 \in 1..n /\ i + 1 \in 1..Len(c) /\ (i + 1) - 1 = i /\ f[i] = g[i]
        BY <1>1, <2>2, <2>a, <3>1
      <4>2. f[i + 1] = f[i] + Len(a[i + 1]) /\ g[i + 1] = g[i] + Len(c[i + 1])
        BY <1>6, <1>7, <4>1
      <4>3. f[i + 1] = g[i + 1]
        BY <1>1, <4>1, <4>2
      <4> QED BY <2>a, <4>3
    <3>2. CASE ~(i + 1 <= n)
      BY <2>a, <3>2
    <3> QED BY <3>1, <3>2
  <2>3. Nat \subseteq G
    BY <2>1, <2>2, NatSet
  <2> QED BY <1>1, <2>3, <2>a
<1>9. Len(fa) <= Len(fc)
  <2>1. n \in 0..Len(c) /\ Len(c) \in 0..Len(c) /\ n <= Len(c)
    BY <1>1
  <2>2. g[n] <= g[Len(c)]
    BY <1>7, <2>1
  <2>3. f[n] = g[n]
    BY <1>1, <1>8
  <2> QED BY <1>6, <1>7, <2>2, <2>3
<1>10. ASSUME NEW k \in 1..Len(fa) PROVE fa[k] = fc[k]
  <2>1. PICK i \in 1..n : \E j \in 1..Len(a[i]) : k = f[i - 1] + j
    BY <1>4, <1>b, <1>d DEF Offsets
  <2>2. PICK j \in 1..Len(a[i]) : k = f[i - 1] + j
    BY <2>1
  <2>3. i \in 1..Len(c) /\ c[i] = a[i] /\ i - 1 \in 0..n
    BY <1>1
  <2>4. fa[f[i - 1] + j] = a[i][j]
    BY <1>4, <1>b, <1>d DEF Offsets
  <2>5. fc[g[i - 1] + j] = c[i][j]
    BY <1>5, <1>c, <2>3 DEF Offsets
  <2> QED BY <1>8, <2>2, <2>3, <2>4, <2>5
<1>11. SubSeq(fa, 1, Len(fa)) = SubSeq(fc, 1, Len(fa))
  <2>a. PICK m : m = Len(fa)
    OBVIOUS
  <2>1. m \in Nat /\ Len(fc) \in Nat /\ m <= Len(fc)
    BY <1>2, <1>3, <1>9, <2>a
  <2>2. SubSeq(fa, 1, m) = [i \in 1..m |-> fa[i]]
    BY <1>2, <2>1, <2>a
  <2>3. SubSeq(fc, 1, m) = [i \in 1..m |-> fc[i]]
    BY <1>3, <2>1
  <2>4. [i \in 1..m |-> fa[i]] = [i \in 1..m |-> fc[i]]
    BY <1>10, <2>a
  <2> QED BY <2>2, <2>3, <2>4, <2>a
<1> QED BY <1>9, <1>11, <1>a, <1>b, <1>c DEF IsPrefix

\* A function on 1..n is a sequence of length n.
LEMMA ListOf ==
  ASSUME NEW S, NEW n \in Nat, NEW f \in [1..n -> S]
  PROVE  f \in Seq(S) /\ Len(f) = n
OBVIOUS

\* Picking every element leaves the sequence as it is.
LEMMA PickAll ==
  ASSUME NEW S, NEW seq \in Seq(S), NEW places, DOMAIN seq \subseteq places
  PROVE  Pick(seq, places) = seq
<1>a. PICK n : n = Len(seq)
  OBVIOUS
<1>b. PICK ss : ss = [i \in 1..n |-> <<seq[i]>>]
  OBVIOUS
<1>c. PICK p : p = Pick(seq, places)
  OBVIOUS
<1>1. n \in Nat /\ DOMAIN seq = 1..n /\ \A i \in 1..n : seq[i] \in S
  BY <1>a
<1>2. ss \in Seq(Seq(S)) /\ Len(ss) = n
      /\ \A i \in 1..n : Len(ss[i]) = 1 /\ ss[i][1] = seq[i]
  <2>1. \A i \in 1..n : ss[i] = <<seq[i]>> /\ <<seq[i]>> \in Seq(S)
    BY <1>1, <1>b
  <2>a. PICK Q : Q = Seq(S)
    OBVIOUS
  <2>2. ss \in [1..n -> Q]
    BY <1>b, <2>1, <2>a
  <2>3. ss \in Seq(Q) /\ Len(ss) = n
    BY <1>1, <2>2, ListOf
  <2>4. ss \in Seq(Seq(S))
    BY <2>3, <2>a
  <2>5. ASSUME NEW i \in 1..n PROVE Len(ss[i]) = 1 /\ ss[i][1] = seq[i]
    <3>a. PICK x : x = seq[i]
      OBVIOUS
    <3>1. ss[i] = <<x>>
      BY <2>1, <3>a
    <3> QED BY <3>1, <3>a
  <2> QED BY <2>3, <2>4, <2>5
<1>3. p = FlattenSeq(ss)
  <2>1. ss = [i \in DOMAIN seq |-> IF i \in places THEN <<seq[i]>> ELSE <<>>]
    BY <1>1, <1>b
  <2> QED BY <2>1, <1>c DEF Pick
<1>4. p \in Seq(S) /\ \E off : Offsets(ss, off)
  BY <1>2, <1>3, FlattenPlaces
<1>5. PICK off : Offsets(ss, off)
  BY <1>4
<1>6. /\ off \in [0..n -> Nat] /\ off[0] = 0 /\ Len(p) = off[n]
      /\ \A i \in 1..n : off[i] = off[i - 1] + 1
      /\ \A i \in 1..n : p[off[i - 1] + 1] = seq[i]
  <2>1. \A i \in 1..n : 1 \in 1..Len(ss[i])
    BY <1>2
  <2> QED BY <1>2, <1>3, <1>5, <2>1 DEF Offsets
<1>7. \A i \in 0..n : off[i] = i
  <2>a. PICK G : G = {i \in Nat : i <= n => off[i] = i}
    OBVIOUS
  <2>1. 0 \in G
    BY <1>6, <2>a
  <2>2. ASSUME NEW i \in Nat, i \in G PROVE i + 1 \in G
    <3>1. CASE i + 1 <= n
      <4>1. i + 1 \in 1..n /\ (i + 1) - 1 = i /\ off[i] = i
        BY <1>1, <2>2, <2>a, <3>1
      <4> QED BY <1>6, <2>a, <4>1
    <3>2. CASE ~(i + 1 <= n)
      BY <2>a, <3>2
    <3> QED BY <3>1, <3>2
  <2>3. Nat \subseteq G
    BY <2>1, <2>2, NatSet
  <2> QED BY <1>1, <2>3, <2>a
<1>8. Len(p) = n /\ \A i \in 1..n : p[i] = seq[i]
  <2>1. n \in 0..n /\ \A i \in 1..n : i - 1 \in 0..n /\ (i - 1) + 1 = i
    BY <1>1
  <2> QED BY <1>6, <1>7, <2>1, SMTT(30)
<1> QED BY <1>1, <1>4, <1>8, <1>a, <1>c, SeqEqual

\* What is picked of a sequence is picked first once more is put behind it.
LEMMA PickPrefix ==
  ASSUME NEW S, NEW a \in Seq(S), NEW b \in Seq(S), NEW pa, NEW pc,
         \A i \in DOMAIN a : i \in pa <=> i \in pc
  PROVE  IsPrefix(Pick(a, pa), Pick(a \o b, pc))
<1>a. PICK n : n = Len(a)
  OBVIOUS
<1>b. PICK c : c = a \o b
  OBVIOUS
<1>c. PICK sa : sa = [i \in DOMAIN a |-> IF i \in pa THEN <<a[i]>> ELSE <<>>]
  OBVIOUS
<1>d. PICK sb : sb = [j \in DOMAIN b |-> IF n + j \in pc THEN <<b[j]>> ELSE <<>>]
  OBVIOUS
<1>e. PICK sc : sc = [i \in DOMAIN c |-> IF i \in pc THEN <<c[i]>> ELSE <<>>]
  OBVIOUS
<1>f. PICK Q : Q = Seq(S)
  OBVIOUS
<1>1. /\ c \in Seq(S) /\ n \in Nat /\ Len(b) \in Nat /\ Len(c) = n + Len(b)
      /\ \A i \in 1..n : c[i] = a[i]
      /\ \A j \in 1..Len(b) : c[n + j] = b[j]
      /\ DOMAIN a = 1..n /\ DOMAIN b = 1..Len(b) /\ DOMAIN c = 1..Len(c)
  BY <1>a, <1>b, ConcatParts
<1>2. \A x \in S : <<x>> \in Q /\ <<>> \in Q
  BY <1>f
<1>2a. <<>> \in Q
  BY <1>f
<1>3. sa \in Seq(Q) /\ Len(sa) = n
  <2>1. \A i \in 1..n : a[i] \in S
    BY <1>a
  <2>2. sa \in [1..n -> Q]
    BY <1>1, <1>2, <1>2a, <1>c, <2>1
  <2> QED BY <1>1, <2>2, ListOf
<1>4. sb \in Seq(Q) /\ Len(sb) = Len(b)
  <2>1. \A i \in 1..Len(b) : b[i] \in S
    OBVIOUS
  <2>2. sb \in [1..Len(b) -> Q]
    BY <1>1, <1>2, <1>2a, <1>d, <2>1
  <2> QED BY <1>1, <2>2, ListOf
<1>5. sc \in Seq(Q) /\ Len(sc) = Len(c)
  <2>1. \A i \in 1..Len(c) : c[i] \in S
    BY <1>1
  <2>2. sc \in [1..Len(c) -> Q]
    BY <1>1, <1>2, <1>2a, <1>e, <2>1
  <2> QED BY <1>1, <2>2, ListOf
<1>6. sc = sa \o sb
  <2>a. PICK ab : ab = sa \o sb
    OBVIOUS
  <2>1. /\ ab \in Seq(Q) /\ Len(ab) = Len(sa) + Len(sb)
        /\ \A i \in 1..Len(sa) : ab[i] = sa[i]
        /\ \A j \in 1..Len(sb) : ab[Len(sa) + j] = sb[j]
    BY <1>3, <1>4, <2>a, ConcatParts, SMTT(30)
  <2>2. ASSUME NEW i \in 1..Len(sc) PROVE sc[i] = ab[i]
    <3>1. CASE i \in 1..n
      <4>1. i \in DOMAIN a /\ i \in DOMAIN c /\ c[i] = a[i] /\ ab[i] = sa[i]
        BY <1>1, <1>3, <1>5, <2>1, <3>1
      <4> QED BY <4>1, <1>c, <1>e
    <3>2. CASE i \notin 1..n
      <4>1. i - n \in 1..Len(b) /\ n + (i - n) = i
        BY <1>1, <1>5, <3>2
      <4>2. PICK j \in 1..Len(b) : i = n + j
        BY <4>1
      <4>3. j \in DOMAIN b /\ i \in DOMAIN c /\ c[i] = b[j] /\ ab[i] = sb[j]
        BY <1>1, <1>3, <1>4, <1>5, <2>1, <4>2
      <4> QED BY <4>2, <4>3, <1>d, <1>e
    <3> QED BY <3>1, <3>2
  <2>3. Len(sc) = Len(ab)
    BY <1>1, <1>3, <1>4, <1>5, <2>1
  <2> QED BY <1>5, <2>1, <2>2, <2>3, <2>a, SeqEqual
<1>7. Pick(a, pa) = FlattenSeq(sa) /\ Pick(c, pc) = FlattenSeq(sc)
  BY <1>c, <1>e DEF Pick
<1>8. IsPrefix(FlattenSeq(sa), FlattenSeq(sa \o sb))
  BY <1>3, <1>4, <1>f, FlattenPrefix
<1> QED BY <1>6, <1>7, <1>8, <1>b

\* The actions of tags put behind others come behind theirs.
LEMMA ResolvePrefix ==
  ASSUME NEW F, NEW actions, IsSection(actions, F),
         NEW T, NEW a \in Seq(T), NEW b \in Seq(T)
  PROVE  IsPrefix(ResolveActions(a, actions), ResolveActions(a \o b, actions))
<1> DEFINE Steps(t) == IF t \in DOMAIN actions THEN TagSteps(actions[t]) ELSE <<>>
<1>a. PICK sa : sa = [i \in DOMAIN a |-> Steps(a[i])]
  OBVIOUS
<1>b. PICK sb : sb = [i \in DOMAIN b |-> Steps(b[i])]
  OBVIOUS
<1>c. PICK c : c = a \o b
  OBVIOUS
<1>d. PICK sc : sc = [i \in DOMAIN c |-> Steps(c[i])]
  OBVIOUS
<1>1. \A t : Steps(t) \in Seq(PlanSteps(F))
  BY TagStepsAsked DEF IsSection
<1> HIDE DEF Steps
<1>2. /\ c \in Seq(T) /\ Len(a) \in Nat /\ Len(b) \in Nat /\ Len(c) = Len(a) + Len(b)
      /\ \A i \in 1..Len(a) : c[i] = a[i]
      /\ \A j \in 1..Len(b) : c[Len(a) + j] = b[j]
  BY <1>c, ConcatParts
<1>3. DOMAIN a = 1..Len(a) /\ DOMAIN b = 1..Len(b) /\ DOMAIN c = 1..Len(c)
  BY <1>2
<1>4. sa \in Seq(Seq(PlanSteps(F))) /\ Len(sa) = Len(a)
  BY <1>1, <1>2, <1>3, <1>a
<1>5. sb \in Seq(Seq(PlanSteps(F))) /\ Len(sb) = Len(b)
  BY <1>1, <1>2, <1>3, <1>b
<1>6. sc \in Seq(Seq(PlanSteps(F))) /\ Len(sc) = Len(c)
  BY <1>1, <1>2, <1>3, <1>d
<1>7. sc = sa \o sb
  <2>a. PICK ab : ab = sa \o sb
    OBVIOUS
  <2>b. PICK Q : Q = Seq(PlanSteps(F))
    OBVIOUS
  <2>0. sa \in Seq(Q) /\ sb \in Seq(Q)
    BY <1>4, <1>5, <2>b
  <2>1. /\ ab \in Seq(Q) /\ Len(ab) = Len(a) + Len(b)
        /\ \A i \in 1..Len(a) : ab[i] = sa[i]
        /\ \A j \in 1..Len(b) : ab[Len(a) + j] = sb[j]
    <3>1. /\ ab \in Seq(Q) /\ Len(ab) = Len(sa) + Len(sb)
          /\ \A i \in 1..Len(sa) : ab[i] = sa[i]
          /\ \A j \in 1..Len(sb) : ab[Len(sa) + j] = sb[j]
      BY <2>a, <2>0, ConcatParts
    <3>2. Len(sa) = Len(a) /\ Len(sb) = Len(b)
      BY <1>4, <1>5
    <3> QED BY <3>1, <3>2
  <2>2. ASSUME NEW i \in 1..Len(sc) PROVE sc[i] = ab[i]
    <3>1. CASE i \in 1..Len(a)
      <4>1. sc[i] = Steps(c[i]) /\ sa[i] = Steps(a[i]) /\ c[i] = a[i]
        BY <1>2, <1>3, <1>6, <1>a, <1>d, <3>1
      <4> QED BY <2>1, <3>1, <4>1
    <3>2. CASE i \notin 1..Len(a)
      <4>1. i - Len(a) \in 1..Len(b) /\ Len(a) + (i - Len(a)) = i
        BY <1>2, <1>6, <3>2
      <4>2. PICK j \in 1..Len(b) : i = Len(a) + j
        BY <4>1
      <4>3. sc[i] = Steps(c[i]) /\ sb[j] = Steps(b[j]) /\ c[i] = b[j]
        BY <1>2, <1>3, <1>6, <1>b, <1>d, <4>2
      <4> QED BY <2>1, <4>2, <4>3
    <3> QED BY <3>1, <3>2
  <2>3. Len(sc) = Len(ab)
    BY <1>2, <1>6, <2>1
  <2>4. sc \in Seq(Q)
    BY <1>6, <2>b
  <2> QED BY <2>1, <2>2, <2>3, <2>4, <2>a, SeqEqual
<1>8. ResolveActions(a, actions) = FlattenSeq(sa) /\ ResolveActions(c, actions) = FlattenSeq(sc)
  BY <1>a, <1>d DEF ResolveActions, Steps
<1> QED BY <1>4, <1>5, <1>7, <1>8, <1>c, FlattenPrefix

\* The tags of the filters are a sequence of what the filters emit.
LEMMA FiltersRun ==
  ASSUME NEW S, NEW filters \in Seq(S), NEW m
  PROVE  RunFilters(filters, m) \in Seq({filters[i].tag : i \in DOMAIN filters})
<1>a. PICK tag : tag = [i \in DOMAIN filters |-> filters[i].tag]
  OBVIOUS
<1>b. PICK T : T = {filters[i].tag : i \in DOMAIN filters}
  OBVIOUS
<1>1. DOMAIN filters = 1..Len(filters) /\ Len(filters) \in Nat
  OBVIOUS
<1>2. tag \in [1..Len(filters) -> T]
  BY <1>a, <1>b, <1>1
<1>3. tag \in Seq(T)
  BY <1>1, <1>2
<1>4. RunFilters(filters, m) = Pick(tag, Firsts(tag, Matching(filters, m)))
  BY <1>a DEF RunFilters
<1> QED BY <1>3, <1>4, <1>b, PickPlaces

\* The classifier's tags are put behind the others, none is lost, none repeated.
MergesBehind(T, tags, outcome) ==
  \E U : \E b \in Seq(U) :
    /\ T \subseteq U
    /\ MergeLlmTags(tags, outcome) = tags \o b
    /\ ToSet(tags \o b) = ToSet(tags) \cup ToSet(LlmTags(outcome))

\* The classifier's tag goes behind the filters' (pipeline/mod.rs).
LEMMA MergedTags ==
  ASSUME NEW T, NEW tags \in Seq(T), NEW outcome
  PROVE  MergesBehind(T, tags, outcome)
<1>a. PICK l : l = LlmTags(outcome)
  OBVIOUS
<1>b. PICK V : V = {"cat/" \o outcome.category, "needs-reply", "priority-high", "llm_error"}
  OBVIOUS
<1>c. PICK places : places = {i \in DOMAIN l : ~Contains(tags, l[i])}
  OBVIOUS
<1>d. PICK b : b = Pick(l, places)
  OBVIOUS
<1>e. PICK U : U = T \cup V
  OBVIOUS
<1>1. l \in Seq(V)
  <2>1. CASE outcome = None
    BY <2>1, <1>a, <1>b DEF LlmTags
  <2>2. CASE outcome # None
    <3>a. PICK x : x = "cat/" \o outcome.category
      OBVIOUS
    <3>1. <<x>> \in Seq(V)
      BY <1>b, <3>a
    <3>0. <<"needs-reply">> \in Seq(V) /\ <<"priority-high">> \in Seq(V) /\ <<>> \in Seq(V)
      BY <1>b
    <3>2. (IF outcome.needs_reply THEN <<"needs-reply">> ELSE <<>>) \in Seq(V)
      BY <3>0, Zenon
    <3>3. (IF outcome.priority >= 4 THEN <<"priority-high">> ELSE <<>>) \in Seq(V)
      BY <3>0, Zenon
    <3>4. l = <<x>> \o (IF outcome.needs_reply THEN <<"needs-reply">> ELSE <<>>)
                \o (IF outcome.priority >= 4 THEN <<"priority-high">> ELSE <<>>)
      BY <1>a, <2>2, <3>a DEF LlmTags, ClassificationTags
    <3> QED BY <3>1, <3>2, <3>3, <3>4, ConcatParts
  <2> QED BY <2>1, <2>2
<1>2. places \in SUBSET DOMAIN l
  BY <1>c
<1>3. b \in Seq(V) /\ HoldsPlaces(b, l, places)
  BY <1>1, <1>2, <1>d, PickElements
<1>4. tags \in Seq(U) /\ b \in Seq(U) /\ T \subseteq U
  BY <1>3, <1>e
<1>5. MergeLlmTags(tags, outcome) = tags \o b
  BY <1>a, <1>c, <1>d DEF MergeLlmTags, NotIn
<1>f. PICK c : c = tags \o b
  OBVIOUS
<1>6. /\ c \in Seq(U) /\ Len(tags) \in Nat /\ Len(b) \in Nat /\ Len(c) = Len(tags) + Len(b)
      /\ \A i \in 1..Len(tags) : c[i] = tags[i]
      /\ \A j \in 1..Len(b) : c[Len(tags) + j] = b[j]
  BY <1>4, <1>f, ConcatParts
<1>7. /\ DOMAIN tags = 1..Len(tags) /\ DOMAIN b = 1..Len(b)
      /\ DOMAIN c = 1..Len(c) /\ DOMAIN l = 1..Len(l)
  BY <1>1, <1>4, <1>6
<1>8. ASSUME NEW x \in ToSet(c) PROVE x \in ToSet(tags) \cup ToSet(l)
  <2>1. PICK i \in 1..Len(c) : x = c[i]
    BY <1>7, <1>8 DEF ToSet
  <2>2. CASE i \in 1..Len(tags)
    BY <1>6, <1>7, <2>1, <2>2 DEF ToSet
  <2>3. CASE i \notin 1..Len(tags)
    <3>1. i - Len(tags) \in 1..Len(b) /\ i = Len(tags) + (i - Len(tags))
      BY <1>6, <2>3
    <3>2. PICK j \in 1..Len(b) : i = Len(tags) + j
      BY <3>1
    <3>3. PICK k \in places : b[j] = l[k]
      BY <1>3 DEF HoldsPlaces
    <3> QED BY <1>2, <1>6, <1>7, <2>1, <3>2, <3>3 DEF ToSet
  <2> QED BY <2>2, <2>3
<1>9. ASSUME NEW x \in ToSet(tags) PROVE x \in ToSet(c)
  <2>1. PICK i \in 1..Len(tags) : x = tags[i]
    BY <1>7, <1>9 DEF ToSet
  <2>2. i \in 1..Len(c)
    BY <1>6
  <2> QED BY <1>6, <1>7, <2>1, <2>2 DEF ToSet
<1>10. ASSUME NEW x \in ToSet(l) PROVE x \in ToSet(c)
  <2>1. PICK i \in DOMAIN l : x = l[i]
    BY <1>10 DEF ToSet
  <2>2. CASE Contains(tags, x)
    BY <1>7, <1>9, <2>2 DEF ToSet, Contains
  <2>3. CASE ~Contains(tags, x)
    <3>1. i \in places
      BY <1>c, <2>1, <2>3
    <3>2. PICK j \in 1..Len(b) : b[j] = x
      BY <1>3, <2>1, <3>1 DEF HoldsPlaces
    <3>3. Len(tags) + j \in 1..Len(c) /\ c[Len(tags) + j] = x
      BY <1>6, <3>2
    <3> QED BY <1>7, <3>3 DEF ToSet
  <2> QED BY <2>2, <2>3
<1>11. ToSet(c) = ToSet(tags) \cup ToSet(l)
  BY <1>8, <1>9, <1>10
<1> QED BY <1>4, <1>5, <1>11, <1>a, <1>f DEF MergesBehind
=============================================================================
