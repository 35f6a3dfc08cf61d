----------------------------- MODULE Scan_proofs -----------------------------
(***************************************************************************)
(* Proofs about Scan, for any messages, index, page size and options: what *)
(* paging over a changing index costs, what the suggestions rest on and    *)
(* what merging them into the file does, and that the report adds up; and  *)
(* about NativeFilters, what validation guarantees to compile_filters.     *)
(***************************************************************************)
EXTENDS Scan, TagPlan_proofs, FiniteSetTheorems, SequenceTheorems

-----------------------------------------------------------------------------
(* The client *)

\* A search that succeeds returns the page asked for: no error page, error
\* envelope or lost answer passes for an empty one.
LEMMA SearchReturnsThePage ==
  ASSUME NEW items, NEW result \in SearchMessages(items), Succeeded(result)
  PROVE  result.value.items = items
<1>1. PICK answer \in SearchAnswers(items) : result = ReadJson(answer, "page")
  BY DEF SearchMessages
<1>2. /\ answer # Lost /\ answer.body.kind = "page"
      /\ result = [value |-> answer.body]
  BY <1>1 DEF ReadJson, Succeeded, MapErrorBody
<1>3. answer.body = [kind |-> "page", items |-> items]
  BY <1>2 DEF SearchAnswers
<1> QED
  BY <1>2, <1>3

-----------------------------------------------------------------------------
(* The places of the messages of a window, and those behind the N-th *)

Rank(W, m)   == Cardinality({n \in W : n <= m})
Behind(W, N) == {m \in W : Rank(W, m) > N}

\* Ranks count from 1 and follow the order.
Ranked(W) ==
  /\ Cardinality(W) \in Nat
  /\ \A m \in W : Rank(W, m) \in 1..Cardinality(W) /\ Rank(W, m) \in Nat
  /\ \A m, n \in W : m < n => Rank(W, m) < Rank(W, n)
  /\ \A m, n \in W : Rank(W, m) = Rank(W, n) => m = n

\* They do in every finite set of numbers.
LEMMA RankOrder ==
  ASSUME NEW W, W \subseteq Nat, IsFiniteSet(W)
  PROVE  Ranked(W)
<1>1. /\ Cardinality(W) \in Nat
      /\ \A T \in SUBSET W : /\ IsFiniteSet(T) /\ Cardinality(T) \in Nat
                             /\ Cardinality(T) <= Cardinality(W)
  BY FS_Subset, FS_CardinalityType
<1>2. ASSUME NEW m \in W
      PROVE  Rank(W, m) \in 1..Cardinality(W)
  <2> DEFINE T == {n \in W : n <= m}
  <2>1. T \in SUBSET W /\ m \in T
    OBVIOUS
  <2> HIDE DEF T
  <2>2. Cardinality(T) # 0
    BY <1>1, <2>1, FS_EmptySet
  <2>3. Rank(W, m) = Cardinality(T)
    BY DEF Rank, T
  <2> QED BY <1>1, <2>1, <2>2, <2>3
<1>3. ASSUME NEW m \in W, NEW n \in W, m < n
      PROVE  Rank(W, m) < Rank(W, n)
  <2> DEFINE T == {k \in W : k <= m}
             U == {k \in W : k <= n}
  <2>0. \A k \in W : k <= m => k <= n
    <3>1. \A k \in W : k \in Nat
      OBVIOUS
    <3> QED BY <1>3, <3>1
  <2>1. T \in SUBSET U /\ U \in SUBSET W /\ n \in U /\ n \notin T
    <3>1. m \in Nat /\ n \in Nat /\ n <= n /\ ~(n <= m)
      BY <1>3
    <3>2. \A k \in T : k \in U
      BY <2>0
    <3>3. n \in U /\ n \notin T /\ U \in SUBSET W
      BY <3>1
    <3> HIDE DEF T, U
    <3> QED BY <3>2, <3>3
  <2> HIDE DEF T, U
  <2>2. IsFiniteSet(U) /\ Cardinality(U) \in Nat /\ Cardinality(T) \in Nat
    BY <1>1, <2>1
  <2>3. Cardinality(T) <= Cardinality(U) /\ Cardinality(T) # Cardinality(U)
    BY <2>1, <2>2, FS_Subset
  <2>4. Rank(W, m) = Cardinality(T) /\ Rank(W, n) = Cardinality(U)
    BY DEF Rank, T, U
  <2> QED BY <2>2, <2>3, <2>4
<1>4. ASSUME NEW m \in W, NEW n \in W, Rank(W, m) = Rank(W, n)
      PROVE  m = n
  <2>1. m \in Nat /\ n \in Nat /\ Rank(W, m) \in Nat
    BY <1>1, <1>2
  <2>2. ~(m < n) /\ ~(n < m)
    BY <1>3, <1>4, <2>1
  <2> QED BY <2>1, <2>2
<1> QED BY <1>1, <1>2, <1>3, <1>4 DEF Ranked

\* Every place up to the last is taken.
LEMMA RankTaken ==
  ASSUME NEW W, W \subseteq Nat, IsFiniteSet(W), NEW j \in 1..Cardinality(W)
  PROVE  \E m \in W : Rank(W, m) = j
<1> DEFINE n == Cardinality(W)
           f == [m \in W |-> Rank(W, m)]
<1>1. n \in Nat /\ \A m \in W : Rank(W, m) \in 1..n
  BY RankOrder DEF Ranked
<1>2. \A m, k \in W : m # k => Rank(W, m) # Rank(W, k)
  BY RankOrder DEF Ranked
<1>3. IsFiniteSet(1..n) /\ Cardinality(1..n) = n
  <2>1. /\ IsFiniteSet(1..n)
        /\ Cardinality(1..n) = IF 1 > n THEN 0 ELSE n - 1 + 1
    BY <1>1, FS_Interval, SMTT(30)
  <2> QED BY <1>1, <2>1
<1>4. f \in Injection(W, 1..n)
  BY <1>1, <1>2 DEF Injection, IsInjective
<1> HIDE DEF f
<1>5. f \in Surjection(W, 1..n)
  BY <1>3, <1>4, FS_Injection
<1>6. PICK m \in W : f[m] = j
  BY <1>5 DEF Surjection
<1> QED BY <1>6 DEF f

\* One more message pushes at most one over the N-th place.
LEMMA OnePushed ==
  ASSUME NEW W, W \subseteq Nat, IsFiniteSet(W), NEW x \in Nat \ W, NEW N \in Nat
  PROVE  /\ Behind(W, N) \subseteq Behind(W \cup {x}, N)
         /\ \E y : Behind(W \cup {x}, N) \subseteq Behind(W, N) \cup {y}
<1> DEFINE V == W \cup {x}
<1>1. V \subseteq Nat /\ IsFiniteSet(V)
  BY FS_AddElement
<1>2. ASSUME NEW m \in W
      PROVE  /\ Rank(W, m) \in Nat /\ Rank(V, m) \in Nat
             /\ Rank(V, m) = IF x < m THEN Rank(W, m) + 1 ELSE Rank(W, m)
  <2> DEFINE T == {n \in W : n <= m}
  <2>0. IsFiniteSet(T) /\ x \notin T
    BY FS_Subset
  <2>1. Rank(W, m) \in Nat /\ Rank(V, m) \in Nat
    <3>1. Ranked(W) /\ Ranked(V)
      BY <1>1, RankOrder
    <3>2. m \in V
      OBVIOUS
    <3> HIDE DEF V
    <3> QED BY <3>1, <3>2 DEF Ranked
  <2>2. CASE x < m
    <3>1. {n \in V : n <= m} = T \cup {x}
      BY <2>2
    <3> HIDE DEF T, V
    <3>2. Cardinality(T \cup {x}) = Cardinality(T) + 1
      BY <2>0, FS_AddElement
    <3> QED BY <2>1, <2>2, <3>1, <3>2 DEF Rank, T
  <2>3. CASE ~(x < m)
    <3>1. {n \in V : n <= m} = T
      BY <2>3
    <3> QED BY <2>1, <2>3, <3>1 DEF Rank
  <2> QED BY <2>1, <2>2, <2>3
<1>3. Behind(W, N) \subseteq Behind(V, N)
  <2> SUFFICES ASSUME NEW m \in Behind(W, N) PROVE m \in Behind(V, N)
    OBVIOUS
  <2>1. m \in W /\ m \in V /\ Rank(W, m) > N
    BY DEF Behind
  <2>2. Rank(V, m) > N
    BY <1>2, <2>1
  <2> QED BY <2>1, <2>2 DEF Behind
<1> HIDE DEF V
<1>4. x \in V /\ W \subseteq V /\ V \ {x} \subseteq W
  BY DEF V
<1>5. CASE Rank(V, x) > N
  <2> SUFFICES ASSUME NEW m \in Behind(V, N), m # x PROVE m \in Behind(W, N)
    BY <1>3 DEF V
  <2>1. m \in W /\ Rank(V, m) > N /\ m \in V
    BY <1>4 DEF Behind
  <2>2. CASE x < m
    <3>1. Rank(V, x) < Rank(V, m) /\ Rank(V, x) \in Nat
      BY <1>1, <1>4, <2>1, <2>2, RankOrder DEF Ranked
    <3>2. Rank(W, m) > N
      BY <1>2, <1>5, <2>1, <2>2, <3>1
    <3> QED BY <2>1, <3>2 DEF Behind
  <2>3. CASE ~(x < m)
    <3>1. Rank(W, m) > N
      BY <1>2, <2>1, <2>3
    <3> QED BY <2>1, <3>1 DEF Behind
  <2> QED BY <2>2, <2>3
<1>6. CASE ~(Rank(V, x) > N)
  <2>1. ASSUME NEW m \in Behind(V, N), m \notin Behind(W, N)
        PROVE  m \in W /\ Rank(W, m) = N
    <3>1. m # x /\ m \in W /\ Rank(V, m) > N
      BY <1>4, <1>6, <2>1 DEF Behind
    <3>2. ~(Rank(W, m) > N)
      BY <2>1, <3>1 DEF Behind
    <3> QED BY <1>2, <3>1, <3>2
  <2>2. ASSUME NEW m \in W, NEW k \in W, Rank(W, m) = N, Rank(W, k) = N
        PROVE  m = k
    BY <2>2, RankOrder DEF Ranked
  <2>3. CASE Behind(V, N) \subseteq Behind(W, N)
    BY <1>3, <2>3 DEF V
  <2>4. CASE ~(Behind(V, N) \subseteq Behind(W, N))
    <3>1. PICK y \in Behind(V, N) : y \notin Behind(W, N)
      BY <2>4
    <3>2. Behind(V, N) \subseteq Behind(W, N) \cup {y}
      BY <2>1, <2>2, <3>1
    <3> QED BY <1>3, <3>2 DEF V
  <2> QED BY <2>3, <2>4
<1> QED BY <1>5, <1>6

\* The P messages behind the N-th.
NextOf(W, N, P) == {m \in W : Rank(W, m) \in N + 1 .. N + P}

\* A page that is not full is the last.
Cuts(W, N, P, S) ==
  /\ IsFiniteSet(S) /\ Cardinality(S) \in Nat /\ Cardinality(S) <= P
  /\ Behind(W, N) = S \cup Behind(W, N + P) /\ S \cap Behind(W, N + P) = {}
  /\ Cardinality(S) < P => Behind(W, N) = S

\* So it is for every page of a finite window.
LEMMA PageCut ==
  ASSUME NEW W, W \subseteq Nat, IsFiniteSet(W), NEW N \in Nat, NEW P \in Nat
  PROVE  Cuts(W, N, P, NextOf(W, N, P))
<1> DEFINE S == {m \in W : Rank(W, m) \in N + 1 .. N + P}
           I == N + 1 .. N + P
           f == [m \in S |-> Rank(W, m)]
<1>1. S \in SUBSET W /\ IsFiniteSet(S) /\ Cardinality(S) \in Nat
  BY FS_Subset, FS_CardinalityType
<1>2. IsFiniteSet(I) /\ Cardinality(I) = P
  <2>1. N + 1 \in Int /\ N + P \in Int
    OBVIOUS
  <2>2. /\ IsFiniteSet(I)
        /\ Cardinality(I) = IF N + 1 > N + P THEN 0 ELSE (N + P) - (N + 1) + 1
    BY <2>1, FS_Interval
  <2> QED BY <2>2
<1>3. \A m, k \in S : m # k => Rank(W, m) # Rank(W, k)
  BY RankOrder DEF Ranked
<1>4. f \in Injection(S, I)
  BY <1>3 DEF Injection, IsInjective
<1>5. Cardinality(S) <= P
  <2> HIDE DEF f, S, I
  <2> QED BY <1>2, <1>4, FS_Injection
<1>6. ASSUME NEW m \in Behind(W, N), m \notin S
      PROVE  Cardinality(S) = P
  <2>1. m \in W /\ Rank(W, m) > N /\ Rank(W, m) \in 1..Cardinality(W)
          /\ Cardinality(W) \in Nat
    BY RankOrder DEF Behind, Ranked
  <2>2. Rank(W, m) > N + P
    BY <1>6, <2>1
  <2>3. \A j \in I : j \in 1..Cardinality(W)
    BY <2>1, <2>2
  <2>4. ASSUME NEW j \in I PROVE \E k \in S : f[k] = j
    <3>1. PICK k \in W : Rank(W, k) = j
      BY <2>3, RankTaken
    <3> QED BY <3>1
  <2> HIDE DEF f, S, I
  <2>5. f \in Surjection(S, I)
    BY <1>4, <2>4 DEF Injection, Surjection
  <2> QED BY <1>1, <1>2, <1>4, <2>5, FS_Injection
<1>7. S \subseteq Behind(W, N)
  <2> SUFFICES ASSUME NEW m \in S PROVE m \in Behind(W, N)
    OBVIOUS
  <2>1. m \in W /\ Rank(W, m) > N
    OBVIOUS
  <2> QED BY <2>1 DEF Behind
<1>8. ASSUME Cardinality(S) < P
      PROVE  Behind(W, N) = S
  <2>1. Behind(W, N) \subseteq S
    <3> SUFFICES ASSUME NEW m \in Behind(W, N), m \notin S PROVE FALSE
      OBVIOUS
    <3> HIDE DEF S
    <3>1. Cardinality(S) = P
      BY <1>6
    <3> QED BY <1>8, <3>1
  <2> HIDE DEF S
  <2> QED BY <1>7, <2>1
<1>9. Behind(W, N) = S \cup Behind(W, N + P) /\ S \cap Behind(W, N + P) = {}
  <2>1. \A m \in W : Rank(W, m) \in Nat
    BY RankOrder DEF Ranked
  <2>2. \A m \in W :
          /\ Rank(W, m) > N <=> (Rank(W, m) \in I \/ Rank(W, m) > N + P)
          /\ ~(Rank(W, m) \in I /\ Rank(W, m) > N + P)
    BY <2>1
  <2>3. /\ \A m : m \in S <=> (m \in W /\ Rank(W, m) \in I)
        /\ \A m : m \in Behind(W, N) <=> (m \in W /\ Rank(W, m) > N)
        /\ \A m : m \in Behind(W, N + P) <=> (m \in W /\ Rank(W, m) > N + P)
    BY DEF Behind
  <2> HIDE DEF I, S
  <2>4. \A m : m \in Behind(W, N) <=> (m \in S \/ m \in Behind(W, N + P))
    BY <2>2, <2>3
  <2>5. \A m : ~(m \in S /\ m \in Behind(W, N + P))
    BY <2>2, <2>3
  <2> QED BY <2>4, <2>5
<1> HIDE DEF S
<1>10. Cuts(W, N, P, S)
  BY <1>1, <1>5, <1>8, <1>9 DEF Cuts
<1> QED BY <1>10 DEF S, NextOf

-----------------------------------------------------------------------------
(* Pages as sequences *)

\* A page lists the messages it holds, each once.
LEMMA PageLists ==
  ASSUME NEW n \in Nat, NEW S \in SUBSET (1..n), NEW p, p = Pick([m \in 1..n |-> m], S)
  PROVE  /\ p \in Seq(1..n) /\ ToSet(p) = S
         /\ Len(p) \in Nat /\ IsFiniteSet(S) /\ Len(p) = Cardinality(S)
<1> DEFINE all == [m \in 1..n |-> m]
<1>1. all \in Seq(1..n) /\ DOMAIN all = 1..n /\ \A m \in 1..n : all[m] = m
  OBVIOUS
<1> HIDE DEF all
<1>2. p \in Seq(1..n) /\ \E f : Picks(all, S, f)
  BY <1>1, PickPlaces DEF all
<1>3. PICK f : Picks(all, S, f)
  BY <1>2
<1>4. Len(p) \in Nat /\ DOMAIN p = 1..Len(p) /\ p = Pick(all, S)
  BY <1>2 DEF all
<1>5. S \cap DOMAIN all = S
  BY <1>1
<1>6. /\ f \in [1..Len(p) -> S]
      /\ \A k \in 1..Len(p) : p[k] = f[k] /\ f[k] \in 1..n
      /\ \A k, l \in 1..Len(p) : k < l => f[k] < f[l]
      /\ \A m \in S : \E k \in 1..Len(p) : f[k] = m
  BY <1>1, <1>3, <1>4, <1>5 DEF Picks
<1>7. ToSet(p) = S
  BY <1>4, <1>6 DEF ToSet
<1>8. ASSUME NEW k \in 1..Len(p), NEW l \in 1..Len(p), f[k] = f[l]
      PROVE  k = l
  <2>1. f[k] \in Nat /\ f[l] \in Nat /\ k \in Nat /\ l \in Nat
    BY <1>6
  <2>2. ~(k < l) /\ ~(l < k)
    BY <1>6, <1>8, <2>1
  <2> QED BY <2>1, <2>2
<1>9. IsFiniteSet(S)
  <2>1. IsFiniteSet(1..n)
    BY FS_Interval
  <2> QED BY <2>1, FS_Subset
<1>10. /\ f \in Injection(1..Len(p), S) /\ f \in Surjection(1..Len(p), S)
  BY <1>6, <1>8 DEF Injection, IsInjective, Surjection
<1>11. /\ IsFiniteSet(1..Len(p)) /\ Cardinality(1..Len(p)) = Len(p)
  <2>0. 1 \in Int /\ Len(p) \in Int
    BY <1>4
  <2>1. /\ IsFiniteSet(1..Len(p))
        /\ Cardinality(1..Len(p)) = IF 1 > Len(p) THEN 0 ELSE Len(p) - 1 + 1
    BY <2>0, FS_Interval
  <2> QED BY <1>4, <2>1
<1>12. Len(p) = Cardinality(S)
  BY <1>9, <1>10, <1>11, FS_Injection
<1> QED BY <1>2, <1>4, <1>7, <1>9, <1>12

\* What two sequences end to end hold.
LEMMA ConcatHolds ==
  ASSUME NEW S, NEW a \in Seq(S), NEW b \in Seq(S)
  PROVE  /\ a \o b \in Seq(S) /\ Len(a \o b) = Len(a) + Len(b)
         /\ ToSet(a \o b) = ToSet(a) \cup ToSet(b)
<1> DEFINE c == a \o b
<1>1. /\ c \in Seq(S) /\ Len(a) \in Nat /\ Len(b) \in Nat
      /\ Len(c) = Len(a) + Len(b)
      /\ \A i \in 1..Len(a) : c[i] = a[i]
      /\ \A j \in 1..Len(b) : c[Len(a) + j] = b[j]
  BY ConcatParts
<1>2. DOMAIN a = 1..Len(a) /\ DOMAIN b = 1..Len(b) /\ DOMAIN c = 1..Len(c)
  BY <1>1
<1> HIDE DEF c
<1>3. ASSUME NEW x \in ToSet(c) PROVE x \in ToSet(a) \cup ToSet(b)
  <2>1. PICK i \in 1..Len(c) : x = c[i]
    BY <1>2 DEF ToSet
  <2>2. i \in 1..Len(a) \/ \E j \in 1..Len(b) : i = Len(a) + j
    <3>1. CASE i <= Len(a)
      BY <1>1, <3>1
    <3>2. CASE i > Len(a)
      <4>1. i - Len(a) \in 1..Len(b) /\ i = Len(a) + (i - Len(a))
        BY <1>1, <3>2
      <4> QED BY <4>1
    <3> QED BY <1>1, <3>1, <3>2
  <2> QED BY <1>1, <1>2, <2>1, <2>2 DEF ToSet
<1>4. ASSUME NEW x \in ToSet(a) \cup ToSet(b) PROVE x \in ToSet(c)
  <2>1. CASE x \in ToSet(a)
    <3>1. PICK i \in 1..Len(a) : x = a[i]
      BY <1>2, <2>1 DEF ToSet
    <3>2. i \in 1..Len(c) /\ x = c[i]
      BY <1>1, <3>1
    <3> QED BY <1>2, <3>2 DEF ToSet
  <2>2. CASE x \in ToSet(b)
    <3>1. PICK j \in 1..Len(b) : x = b[j]
      BY <1>2, <2>2 DEF ToSet
    <3>2. Len(a) + j \in 1..Len(c) /\ x = c[Len(a) + j]
      BY <1>1, <3>1
    <3> QED BY <1>2, <3>2 DEF ToSet
  <2> QED BY <2>1, <2>2
<1> QED BY <1>1, <1>3, <1>4 DEF c

\* A sequence holds finitely many things.
LEMMA HoldsFinitely ==
  ASSUME NEW S, NEW s \in Seq(S)
  PROVE  IsFiniteSet(ToSet(s)) /\ ToSet(s) \subseteq S /\ Cardinality(ToSet(s)) \in Nat
<1>1. Len(s) \in Nat /\ DOMAIN s = 1..Len(s) /\ \A i \in 1..Len(s) : s[i] \in S
  OBVIOUS
<1>2. IsFiniteSet(1..Len(s))
  BY <1>1, FS_Interval
<1>3. s \in Surjection(1..Len(s), ToSet(s))
  BY <1>1 DEF Surjection, ToSet
<1>4. IsFiniteSet(ToSet(s))
  BY <1>2, <1>3, FS_Surjection
<1> QED BY <1>1, <1>4, FS_CardinalityType DEF ToSet

\* A page in front of what is left: what it repeats is repeated no more.
PageCounted(F, S, A, R) ==
  /\ Cardinality(F \cup S) = Cardinality(F) + Cardinality(S) - Cardinality(S \cap F)
  /\ Cardinality(A \cap F) = Cardinality(S \cap F) + Cardinality(R \cap (F \cup S))
  /\ Cardinality(F) \in Nat /\ Cardinality(S) \in Nat
  /\ Cardinality(S \cap F) \in Nat /\ Cardinality(R \cap (F \cup S)) \in Nat

\* So it is when the page and what is left are apart.
LEMMA CountPage ==
  ASSUME NEW F, NEW S, NEW A, NEW R, IsFiniteSet(F), IsFiniteSet(S), IsFiniteSet(A),
         A = S \cup R, S \cap R = {}
  PROVE  PageCounted(F, S, A, R)
<1>1. /\ IsFiniteSet(R) /\ IsFiniteSet(S \cap F) /\ IsFiniteSet(R \cap F)
  BY FS_Subset
<1>2. /\ Cardinality(F) \in Nat /\ Cardinality(S) \in Nat
      /\ Cardinality(S \cap F) \in Nat /\ Cardinality(R \cap F) \in Nat
  BY <1>1, FS_CardinalityType
<1>3. Cardinality(F \cup S) = Cardinality(F) + Cardinality(S) - Cardinality(F \cap S)
  BY FS_Union
<1>4. F \cap S = S \cap F /\ R \cap (F \cup S) = R \cap F
  OBVIOUS
<1>5. Cardinality((S \cap F) \cup (R \cap F))
        = Cardinality(S \cap F) + Cardinality(R \cap F)
            - Cardinality((S \cap F) \cap (R \cap F))
  BY <1>1, FS_Union
<1>6. (S \cap F) \cup (R \cap F) = A \cap F /\ (S \cap F) \cap (R \cap F) = {}
  OBVIOUS
<1>7. Cardinality((S \cap F) \cap (R \cap F)) = 0
  BY <1>6, FS_EmptySet
<1>8. Cardinality(A \cap F) = Cardinality(S \cap F) + Cardinality(R \cap F)
  <2>1. PICK a \in Nat, b \in Nat : a = Cardinality(S \cap F) /\ b = Cardinality(R \cap F)
    BY <1>2
  <2>2. Cardinality(A \cap F) = a + b - 0
    BY <1>5, <1>6, <1>7, <2>1
  <2> QED BY <2>1, <2>2
<1> QED BY <1>2, <1>3, <1>4, <1>8 DEF PageCounted

\* One element more counts for one at most.
LEMMA CountOne ==
  ASSUME NEW A, NEW B, NEW y, IsFiniteSet(A), B \subseteq A \cup {y}
  PROVE  /\ IsFiniteSet(B) /\ Cardinality(A) \in Nat /\ Cardinality(B) \in Nat
         /\ Cardinality(B) <= Cardinality(A) + 1
<1>1. IsFiniteSet(A \cup {y}) /\ Cardinality(A) \in Nat
      /\ Cardinality(A \cup {y}) = IF y \in A THEN Cardinality(A) ELSE Cardinality(A) + 1
  BY FS_AddElement, FS_CardinalityType
<1>2. IsFiniteSet(B) /\ Cardinality(B) <= Cardinality(A \cup {y})
  BY <1>1, FS_Subset
<1>3. Cardinality(B) \in Nat
  BY <1>2, FS_CardinalityType
<1> QED BY <1>1, <1>2, <1>3

-----------------------------------------------------------------------------
(* The fetch *)

Fetched == ToSet(fetched)

\* The messages of the window that are still to be read.
Ahead == IF pc = "fetch" THEN Behind(Window, Len(fetched)) ELSE {}

FetchOK ==
  /\ index \subseteq Message /\ stable \subseteq index
  /\ pc \in {"fetch", "download", "write", "done", "failed"}
  /\ page \in Nat \ {0} /\ fetched \in Seq(Message)
  /\ gains \in Nat /\ losses \in Nat
  /\ pc = "fetch" => Len(fetched) = (page - 1) * PageSize

\* Read twice, or read and about to be read again.
RepeatsBounded ==
  Len(fetched) - Cardinality(Fetched) + Cardinality(Ahead \cap Fetched) <= gains

\* There all along, neither read nor still to be read.
MissesBounded ==
  pc # "failed" => Cardinality((stable \cap Window) \ (Fetched \cup Ahead)) <= losses

FetchInv == FetchOK /\ RepeatsBounded /\ MissesBounded

\* The window is what the scan asks for of the index.
LEMMA WindowOfIndex ==
  ASSUME FetchOK, FetchOK'
  PROVE  \E E : /\ Window = index \cap E
                /\ UNCHANGED inputs => Window' = index' \cap E
<1> DEFINE E == {m \in Message : Envelope(m).account \in Ids /\ Envelope(m).date >= Since}
<1>1. Window = index \cap E
  BY DEF Window, FetchOK
<1>2. UNCHANGED inputs => Window' = index' \cap E
  BY DEF Window, FetchOK, inputs, Ids, Since, Days
<1> HIDE DEF E
<1> QED BY <1>1, <1>2

\* The sets of the fetch are finite sets of numbers.
LEMMA FetchSets ==
  ASSUME FetchOK
  PROVE  /\ Len(Mail) \in Nat /\ Message = 1..Len(Mail)
         /\ Window \subseteq Message /\ Window \subseteq Nat /\ IsFiniteSet(Window)
         /\ IsFiniteSet(Fetched) /\ IsFiniteSet(stable \cap Window)
         /\ IsFiniteSet(Ahead) /\ Len(fetched) \in Nat /\ Cardinality(Fetched) \in Nat
<1>1. Len(Mail) \in Nat /\ Message = 1..Len(Mail)
  BY ScanAssumption DEF Message
<1>2. IsFiniteSet(Message) /\ Message \subseteq Nat
  BY <1>1, FS_Interval
<1>3. Window \subseteq Message
  BY DEF Window, FetchOK
<1>4. IsFiniteSet(Window)
  BY <1>2, <1>3, FS_Subset
<1>5. Ahead \subseteq Window /\ stable \cap Window \subseteq Window
  BY DEF Ahead, Behind
<1>6. IsFiniteSet(Ahead) /\ IsFiniteSet(stable \cap Window)
  BY <1>4, <1>5, FS_Subset
<1>7. IsFiniteSet(Fetched) /\ Cardinality(Fetched) \in Nat /\ Len(fetched) \in Nat
  BY HoldsFinitely DEF Fetched, FetchOK
<1> QED BY <1>1, <1>2, <1>3, <1>4, <1>6, <1>7

\* Reading a page moves its messages from those ahead to those read.
LEMMA FetchPageDrifts ==
  ASSUME FetchInv, FetchPage
  PROVE  FetchInv'
<1> USE DEF FetchInv
<1> DEFINE N == (page - 1) * PageSize
           S == NextOf(Window, N, PageSize)
           all == [m \in Message |-> m]
<1>1. /\ FetchOK /\ Len(Mail) \in Nat /\ Message = 1..Len(Mail)
      /\ Window \subseteq Message /\ Window \subseteq Nat /\ IsFiniteSet(Window)
      /\ IsFiniteSet(Fetched) /\ IsFiniteSet(Ahead) /\ Len(fetched) \in Nat
  BY FetchSets
<1>2. PICK result \in SearchMessages(Page) :
        /\ pc = "fetch" /\ Succeeded(result)
        /\ fetched' = fetched \o result.value.items
        /\ IF Len(result.value.items) < PageSize
           THEN pc' = "download" /\ page' = page
           ELSE pc' = pc /\ page' = page + 1
        /\ UNCHANGED <<inputs, index, results, outputs, failures, changes>>
  BY DEF FetchPage
<1>3. result.value.items = Page
  BY <1>2, SearchReturnsThePage
<1>4. PageSize \in Nat /\ PageSize # 0 /\ page \in Nat /\ page # 0
  BY ScanAssumption DEF FetchOK
<1>5. N \in Nat /\ Len(fetched) = N /\ N + PageSize = page * PageSize
  BY <1>2, <1>4 DEF FetchOK
<1>6. Page = Pick(all, S)
  <2>1. {m \in Window : Place(m) \in (page - 1) * PageSize + 1 .. page * PageSize} = S
    BY <1>5 DEF NextOf, Rank, Place
  <2> QED BY <2>1 DEF Page
<1> HIDE DEF N
<1>7. Cuts(Window, N, PageSize, S)
  BY <1>1, <1>4, <1>5, PageCut
<1>8. S \subseteq Window /\ S \in SUBSET (1..Len(Mail))
  BY <1>1 DEF NextOf
<1> HIDE DEF S
<1>9. /\ Page \in Seq(Message) /\ ToSet(Page) = S /\ Len(Page) = Cardinality(S)
      /\ IsFiniteSet(S) /\ Len(Page) \in Nat
  BY <1>1, <1>6, <1>8, PageLists
<1>10. /\ fetched' \in Seq(Message) /\ Len(fetched') = N + Cardinality(S)
       /\ Fetched' = Fetched \cup S
  <2>1. fetched \in Seq(Message) /\ fetched' = fetched \o Page
    BY <1>2, <1>3 DEF FetchOK
  <2>2. /\ fetched' \in Seq(Message) /\ Len(fetched') = Len(fetched) + Len(Page)
        /\ ToSet(fetched') = ToSet(fetched) \cup ToSet(Page)
    BY <1>9, <2>1, ConcatHolds, ZenonT(30)
  <2> QED BY <1>5, <1>9, <2>2 DEF Fetched
<1>11. FetchOK'
  <2>1. CASE Len(Page) < PageSize
    BY <1>2, <1>3, <1>10, <2>1 DEF FetchOK, changes
  <2>2. CASE ~(Len(Page) < PageSize)
    <3>1. Len(Page) = PageSize
      BY <1>4, <1>7, <1>9, <2>2 DEF Cuts
    <3>2. page' = page + 1 /\ pc' = "fetch"
      BY <1>2, <1>3, <2>2
    <3>3. Len(fetched') = (page' - 1) * PageSize /\ page' \in Nat \ {0}
      BY <1>4, <1>5, <1>9, <1>10, <3>1, <3>2
    <3> QED BY <1>2, <1>10, <3>2, <3>3 DEF FetchOK, changes
  <2> QED BY <2>1, <2>2
<1>12. Window' = Window
  <2>1. UNCHANGED inputs /\ UNCHANGED index
    BY <1>2
  <2> QED BY <1>1, <1>11, <2>1, WindowOfIndex
<1>13. Ahead = S \cup Ahead' /\ S \cap Ahead' = {}
  <2>1. Ahead = Behind(Window, N)
    BY <1>2, <1>5 DEF Ahead
  <2>2. CASE Len(Page) < PageSize
    <3>1. pc' = "download"
      BY <1>2, <1>3, <2>2
    <3>2. Ahead' = {} /\ Ahead = S
      BY <1>7, <1>9, <2>1, <2>2, <3>1 DEF Ahead, Cuts
    <3> QED BY <3>2
  <2>3. CASE ~(Len(Page) < PageSize)
    <3>1. Len(Page) = PageSize
      BY <1>4, <1>7, <1>9, <2>3 DEF Cuts
    <3>2. pc' = "fetch"
      BY <1>2, <1>3, <2>3
    <3>3. Len(fetched') = N + PageSize
      BY <1>9, <1>10, <3>1
    <3>4. Ahead' = Behind(Window, N + PageSize)
      BY <1>12, <3>2, <3>3 DEF Ahead
    <3> QED BY <1>7, <2>1, <3>4 DEF Cuts
  <2> QED BY <2>2, <2>3
<1>14. RepeatsBounded'
  <2> DEFINE R == Ahead'
  <2>1. PageCounted(Fetched, S, Ahead, R)
    <3> HIDE DEF R
    <3>1. Ahead = S \cup R /\ S \cap R = {}
      BY <1>13 DEF R
    <3> QED BY <1>1, <1>9, <3>1, CountPage
  <2>2. gains \in Nat /\ UNCHANGED gains
    BY <1>2 DEF FetchOK, changes
  <2>3. Len(fetched') - Cardinality(Fetched \cup S) + Cardinality(R \cap (Fetched \cup S))
          <= gains
    <3> HIDE DEF R
    <3> QED BY <1>5, <1>10, <2>1, <2>2 DEF RepeatsBounded, PageCounted
  <2> QED BY <1>10, <2>2, <2>3 DEF RepeatsBounded
<1>15. MissesBounded'
  <2>1. UNCHANGED <<stable, losses>> /\ pc # "failed"
    BY <1>2 DEF changes
  <2>2. Fetched' \cup Ahead' = Fetched \cup Ahead
    BY <1>10, <1>13
  <2> QED BY <1>12, <2>1, <2>2 DEF MissesBounded
<1> QED BY <1>11, <1>14, <1>15

\* A message indexed meanwhile may bring one more back ahead.
LEMMA IndexGainsDrifts ==
  ASSUME FetchInv, NEW m \in Message, IndexGains(m)
  PROVE  FetchInv'
<1> USE DEF FetchInv
<1>1. /\ FetchOK /\ Len(Mail) \in Nat /\ Message = 1..Len(Mail)
      /\ Window \subseteq Nat /\ IsFiniteSet(Window)
      /\ IsFiniteSet(Fetched) /\ IsFiniteSet(Ahead) /\ Len(fetched) \in Nat
      /\ IsFiniteSet(stable \cap Window) /\ Cardinality(Fetched) \in Nat
  BY FetchSets
<1>2. /\ pc = "fetch" /\ m \notin index /\ m \notin stable
      /\ index' = index \cup {m} /\ gains' = gains + 1 /\ gains \in Nat /\ losses \in Nat
      /\ UNCHANGED <<inputs, pc, page, fetched, losses, stable>>
  BY DEF IndexGains, FetchOK
<1>3. FetchOK'
  BY <1>1, <1>2 DEF FetchOK
<1>4. /\ Window' = Window \/ (m \notin Window /\ Window' = Window \cup {m})
      /\ stable \cap Window' = stable \cap Window
  <2>1. PICK E : Window = index \cap E /\ (UNCHANGED inputs => Window' = index' \cap E)
    BY <1>1, <1>3, WindowOfIndex
  <2> QED BY <1>2, <2>1
<1>5. Fetched' = Fetched /\ Ahead = Behind(Window, Len(fetched))
      /\ Ahead' = Behind(Window', Len(fetched))
  BY <1>2 DEF Fetched, Ahead
<1>6. Ahead \subseteq Ahead' /\ \E y : Ahead' \subseteq Ahead \cup {y}
  <2>1. CASE Window' = Window
    BY <1>5, <2>1
  <2>2. CASE m \notin Window /\ Window' = Window \cup {m}
    <3>1. m \in Nat \ Window
      BY <1>1, <2>2
    <3> QED BY <1>1, <1>5, <2>2, <3>1, OnePushed
  <2> QED BY <1>4, <2>1, <2>2
<1>7. RepeatsBounded'
  <2>1. PICK y : Ahead' \subseteq Ahead \cup {y}
    BY <1>6
  <2>2. IsFiniteSet(Ahead \cap Fetched)
          /\ Ahead' \cap Fetched \subseteq (Ahead \cap Fetched) \cup {y}
    BY <1>1, <2>1, FS_Subset
  <2>3. /\ Cardinality(Ahead \cap Fetched) \in Nat /\ Cardinality(Ahead' \cap Fetched) \in Nat
        /\ Cardinality(Ahead' \cap Fetched) <= Cardinality(Ahead \cap Fetched) + 1
    BY <2>2, CountOne
  <2>4. Len(fetched) - Cardinality(Fetched) + Cardinality(Ahead' \cap Fetched) <= gains + 1
    BY <1>1, <1>2, <2>3 DEF RepeatsBounded
  <2> QED BY <1>2, <1>5, <2>4 DEF RepeatsBounded
<1>8. MissesBounded'
  <2> DEFINE old == (stable \cap Window) \ (Fetched \cup Ahead)
             new == (stable \cap Window') \ (Fetched \cup Ahead')
  <2>1. new \subseteq old /\ IsFiniteSet(old)
    BY <1>1, <1>4, <1>6, FS_Subset
  <2> HIDE DEF old, new
  <2>2. Cardinality(new) <= Cardinality(old) /\ Cardinality(new) \in Nat
        /\ Cardinality(old) \in Nat
    BY <2>1, FS_Subset, FS_CardinalityType
  <2>3. Cardinality(old) <= losses
    BY <1>2 DEF MissesBounded, old
  <2>4. Cardinality(new) <= losses
    BY <1>2, <2>2, <2>3
  <2> QED BY <1>2, <1>5, <2>4 DEF MissesBounded, new
<1> QED BY <1>3, <1>7, <1>8

\* A message that leaves the index may take one past the page.
LEMMA IndexLosesDrifts ==
  ASSUME FetchInv, NEW m \in Message, IndexLoses(m)
  PROVE  FetchInv'
<1> USE DEF FetchInv
<1>1. /\ FetchOK /\ Len(Mail) \in Nat /\ Message = 1..Len(Mail)
      /\ Window \subseteq Nat /\ IsFiniteSet(Window)
      /\ IsFiniteSet(Fetched) /\ IsFiniteSet(Ahead) /\ Len(fetched) \in Nat
      /\ IsFiniteSet(stable \cap Window) /\ Cardinality(Fetched) \in Nat
  BY FetchSets
<1>2. /\ pc = "fetch" /\ m \in index
      /\ index' = index \ {m} /\ losses' = losses + 1 /\ gains \in Nat /\ losses \in Nat
      /\ stable' = stable \ {m}
      /\ UNCHANGED <<inputs, pc, page, fetched, gains>>
  BY DEF IndexLoses, FetchOK
<1>3. FetchOK'
  BY <1>1, <1>2 DEF FetchOK
<1>4. /\ Window' = Window \/ (m \notin Window' /\ Window = Window' \cup {m})
      /\ Window' \subseteq Window
  <2>1. PICK E : Window = index \cap E /\ (UNCHANGED inputs => Window' = index' \cap E)
    BY <1>1, <1>3, WindowOfIndex
  <2> QED BY <1>2, <2>1
<1>5. Fetched' = Fetched /\ Ahead = Behind(Window, Len(fetched))
      /\ Ahead' = Behind(Window', Len(fetched))
  BY <1>2 DEF Fetched, Ahead
<1>6. Ahead' \subseteq Ahead /\ \E y : Ahead \subseteq Ahead' \cup {y}
  <2>1. CASE Window' = Window
    BY <1>5, <2>1
  <2>2. CASE m \notin Window' /\ Window = Window' \cup {m}
    <3>1. m \in Nat \ Window' /\ Window' \subseteq Nat /\ IsFiniteSet(Window')
      BY <1>1, <1>4, <2>2, FS_Subset
    <3> DEFINE W == Window'
    <3>2. m \in Nat \ W /\ W \subseteq Nat /\ IsFiniteSet(W) /\ Window = W \cup {m}
      BY <2>2, <3>1
    <3> HIDE DEF W
    <3>3. /\ Behind(W, Len(fetched)) \subseteq Behind(Window, Len(fetched))
          /\ \E y : Behind(Window, Len(fetched)) \subseteq Behind(W, Len(fetched)) \cup {y}
      BY <1>1, <3>2, OnePushed
    <3> QED BY <1>5, <3>3 DEF W
  <2> QED BY <1>4, <2>1, <2>2
<1>7. RepeatsBounded'
  <2>1. IsFiniteSet(Ahead \cap Fetched) /\ Ahead' \cap Fetched \subseteq Ahead \cap Fetched
    BY <1>1, <1>6, FS_Subset
  <2>2. /\ Cardinality(Ahead \cap Fetched) \in Nat /\ Cardinality(Ahead' \cap Fetched) \in Nat
        /\ Cardinality(Ahead' \cap Fetched) <= Cardinality(Ahead \cap Fetched)
    BY <2>1, FS_Subset, FS_CardinalityType
  <2>3. Len(fetched) - Cardinality(Fetched) + Cardinality(Ahead' \cap Fetched) <= gains
    BY <1>1, <1>2, <2>2 DEF RepeatsBounded
  <2> QED BY <1>2, <1>5, <2>3 DEF RepeatsBounded
<1>8. MissesBounded'
  <2> DEFINE old == (stable \cap Window) \ (Fetched \cup Ahead)
             new == (stable' \cap Window') \ (Fetched \cup Ahead')
  <2>1. PICK y : Ahead \subseteq Ahead' \cup {y}
    BY <1>6
  <2>2. new \subseteq old \cup {y} /\ IsFiniteSet(old)
    BY <1>1, <1>2, <1>4, <2>1, FS_Subset
  <2> HIDE DEF old, new
  <2>3. Cardinality(new) <= Cardinality(old) + 1 /\ Cardinality(new) \in Nat
        /\ Cardinality(old) \in Nat
    BY <2>2, CountOne
  <2>4. Cardinality(old) <= losses
    BY <1>2 DEF MissesBounded, old
  <2>5. Cardinality(new) <= losses + 1
    BY <1>2, <2>3, <2>4
  <2> QED BY <1>2, <1>5, <2>5 DEF MissesBounded, new
<1> QED BY <1>3, <1>7, <1>8

\* Nothing is read once the fetch is over or has failed.
LEMMA FetchOver ==
  ASSUME FetchInv, UNCHANGED <<inputs, index, page, fetched, changes>>,
         \/ UNCHANGED pc
         \/ pc' = "failed"
         \/ pc \in {"download", "write"} /\ pc' \in {"write", "done"}
  PROVE  FetchInv'
<1> USE DEF FetchInv
<1>1. IsFiniteSet(Fetched) /\ IsFiniteSet(Ahead) /\ Len(fetched) \in Nat
      /\ Cardinality(Fetched) \in Nat /\ gains \in Nat
  BY FetchSets DEF FetchOK
<1>2. FetchOK'
  BY DEF FetchOK, changes
<1>3. Window' = Window /\ Fetched' = Fetched
  <2>1. PICK E : Window = index \cap E /\ (UNCHANGED inputs => Window' = index' \cap E)
    BY <1>2, WindowOfIndex
  <2> QED BY <2>1 DEF Fetched
<1>4. Ahead' = Ahead \/ Ahead' = {}
  BY <1>3 DEF Ahead
<1>5. pc' # "failed" => Ahead' = Ahead
  BY <1>3 DEF Ahead
<1>6. RepeatsBounded'
  <2>1. Cardinality(Ahead \cap Fetched) \in Nat
    BY <1>1, FS_Subset, FS_CardinalityType
  <2>2. Cardinality(Ahead' \cap Fetched) = Cardinality(Ahead \cap Fetched)
          \/ Cardinality(Ahead' \cap Fetched) = 0
    <3>1. CASE Ahead' = {}
      BY <3>1, FS_EmptySet
    <3> QED BY <1>4, <3>1
  <2>3. Len(fetched) - Cardinality(Fetched) + Cardinality(Ahead' \cap Fetched) <= gains
    BY <1>1, <2>1, <2>2 DEF RepeatsBounded
  <2> QED BY <1>3, <2>3 DEF RepeatsBounded, changes
<1>7. MissesBounded'
  BY <1>3, <1>5 DEF MissesBounded, changes
<1> QED BY <1>2, <1>6, <1>7

\* Every step keeps what is repeated and what is missed in bounds.
LEMMA FetchStep ==
  ASSUME FetchInv, [Next]_vars
  PROVE  FetchInv'
<1>1. CASE FetchFails
  BY <1>1, FetchOver DEF FetchFails
<1>2. CASE Download
  BY <1>2, FetchOver DEF Download
<1>3. CASE Conclude
  BY <1>3, FetchOver DEF Conclude
<1>4. CASE Write
  BY <1>4, FetchOver DEF Write
<1>5. CASE WriteFails
  BY <1>5, FetchOver DEF WriteFails
<1>6. CASE Finish
  BY <1>6, FetchOver DEF Finish
<1>7. CASE UNCHANGED vars
  BY <1>7, FetchOver DEF vars
<1> QED
  BY <1>1, <1>2, <1>3, <1>4, <1>5, <1>6, <1>7, FetchPageDrifts, IndexGainsDrifts,
     IndexLosesDrifts DEF Next

\* A scan begins with its whole window ahead.
LEMMA FetchInit == Init => FetchInv
<1> SUFFICES ASSUME Init PROVE FetchInv
  OBVIOUS
<1>1. fetched = <<>> /\ page = 1 /\ gains = 0 /\ losses = 0 /\ stable = index
      /\ pc \in {"fetch", "failed"}
  BY DEF Init
<1>2. FetchOK
  <2>1. index \subseteq Message
    BY ScanAssumption DEF Init, Message
  <2>2. fetched \in Seq(Message) /\ Len(fetched) = (page - 1) * PageSize
    BY <1>1, ScanAssumption
  <2> QED BY <1>1, <2>1, <2>2 DEF FetchOK
<1>3. Window \subseteq Nat /\ IsFiniteSet(Window)
  BY <1>2, FetchSets
<1>4. Fetched = {} /\ Len(fetched) = 0
  BY <1>1 DEF Fetched, ToSet
<1>5. pc = "fetch" => Ahead = Window
  <2>1. \A m \in Window : Rank(Window, m) > 0
    <3>1. Ranked(Window)
      BY <1>3, RankOrder
    <3> QED BY <3>1 DEF Ranked
  <2> QED BY <1>4, <2>1 DEF Ahead, Behind
<1>6. RepeatsBounded
  BY <1>1, <1>4, FS_EmptySet DEF RepeatsBounded
<1>7. MissesBounded
  <2> SUFFICES ASSUME pc # "failed"
               PROVE  Cardinality((stable \cap Window) \ (Fetched \cup Ahead)) = 0
    BY <1>1 DEF MissesBounded
  <2>1. (stable \cap Window) \ (Fetched \cup Ahead) = {}
    BY <1>1, <1>5
  <2> QED BY <2>1, FS_EmptySet
<1> QED BY <1>2, <1>6, <1>7 DEF FetchInv

\* Paging over an index that changes meanwhile counts a message again only for
\* a message indexed, and overlooks one that was there all along only for one
\* that left, for any mailbox and page size (scan/source.rs).
THEOREM DriftBounded == Spec => []DriftIsBounded
<1>1. FetchInv => DriftIsBounded
  <2> SUFFICES ASSUME FetchInv PROVE DriftIsBounded
    OBVIOUS
  <2>1. /\ IsFiniteSet(Fetched) /\ IsFiniteSet(Ahead) /\ Len(fetched) \in Nat
        /\ Cardinality(Fetched) \in Nat /\ gains \in Nat
    BY FetchSets DEF FetchInv, FetchOK
  <2>2. Cardinality(Ahead \cap Fetched) \in Nat
    BY <2>1, FS_Subset, FS_CardinalityType
  <2>3. Len(fetched) - Cardinality(Fetched) <= gains
    BY <2>1, <2>2 DEF FetchInv, RepeatsBounded
  <2>4. pc \in {"download", "done"} => Fetched \cup Ahead = Fetched
    BY DEF Ahead
  <2> QED BY <2>3, <2>4 DEF DriftIsBounded, FetchInv, MissesBounded, Fetched
<1> QED BY <1>1, FetchInit, FetchStep, PTL DEF Spec

-----------------------------------------------------------------------------
(* The busiest *)

\* Some of the things, as many as asked for, and none of the rest is above.
IsTop(kept, things, f, k) ==
  /\ kept \in SUBSET things /\ Cardinality(kept) = k
  /\ \A x \in kept, t \in things \ kept : f[x] >= f[t]

\* Of finitely many counted things one has the highest count.
LEMMA HighestCount ==
  ASSUME NEW R, IsFiniteSet(R), R # {}, NEW f, \A t \in R : f[t] \in Nat
  PROVE  \E r \in R : \A t \in R : f[t] <= f[r]
<1> DEFINE Above(r) == {t \in R : f[t] > f[r]}
           T == {Cardinality(Above(r)) : r \in R}
<1>1. \A r \in R : IsFiniteSet(Above(r)) /\ Cardinality(Above(r)) \in Nat
  BY FS_Subset, FS_CardinalityType
<1>2. T \subseteq Nat /\ T # {}
  BY <1>1
<1>3. PICK x \in T : \A y \in T : x <= y
  <2> HIDE DEF T
  <2> QED BY <1>2, Least
<1>4. PICK r \in R : x = Cardinality(Above(r))
  OBVIOUS
<1>5. ASSUME NEW t \in R, f[t] > f[r]
      PROVE  FALSE
  <2>1. f[t] \in Nat /\ f[r] \in Nat
    OBVIOUS
  <2>2. t \in Above(r) /\ t \notin Above(t)
    BY <1>5, <2>1
  <2>3. \A u \in Above(t) : u \in Above(r)
    BY <1>5, <2>1
  <2>4. Cardinality(Above(t)) \in T
    OBVIOUS
  <2> DEFINE a == Above(r)   b == Above(t)
  <2>5. IsFiniteSet(a) /\ b \subseteq a /\ t \in a /\ t \notin b
        /\ Cardinality(a) \in Nat /\ Cardinality(b) \in Nat
    BY <1>1, <2>2, <2>3
  <2>6. Cardinality(a) <= Cardinality(b)
    BY <1>3, <1>4, <2>4
  <2> HIDE DEF a, b, Above, T
  <2>7. Cardinality(b) <= Cardinality(a) /\ (Cardinality(a) = Cardinality(b) => a = b)
    BY <2>5, FS_Subset
  <2> QED BY <2>5, <2>6, <2>7
<1>6. \A t \in R : f[t] <= f[r]
  BY <1>5
<1> QED BY <1>6

\* As many as there are can be kept.
LEMMA TopExists ==
  ASSUME NEW things, IsFiniteSet(things), NEW f, \A t \in things : f[t] \in Nat,
         NEW k \in 0..Cardinality(things)
  PROVE  \E kept : IsTop(kept, things, f, k)
<1> DEFINE S == {n \in Nat : n <= Cardinality(things) => \E kept : IsTop(kept, things, f, n)}
<1>0. Cardinality(things) \in Nat
  BY FS_CardinalityType
<1>1. 0 \in S
  <2>1. IsTop({}, things, f, 0)
    BY FS_EmptySet DEF IsTop
  <2> QED BY <2>1
<1>2. ASSUME NEW n \in Nat, n \in S PROVE n + 1 \in S
  <2> SUFFICES ASSUME n + 1 <= Cardinality(things)
               PROVE  \E kept : IsTop(kept, things, f, n + 1)
    OBVIOUS
  <2>1. PICK kept : IsTop(kept, things, f, n)
    BY <1>0, <1>2
  <2> DEFINE R == things \ kept
  <2>2. IsFiniteSet(kept) /\ IsFiniteSet(R) /\ Cardinality(kept) = n
        /\ kept \subseteq things
    BY <2>1, FS_Subset DEF IsTop
  <2>3. R # {}
    <3> SUFFICES ASSUME R = {} PROVE FALSE
      OBVIOUS
    <3>1. kept = things
      BY <2>2
    <3> QED BY <1>0, <2>2, <3>1
  <2>4. \A t \in R : f[t] \in Nat
    OBVIOUS
  <2> HIDE DEF R
  <2>5. PICK r \in R : \A t \in R : f[t] <= f[r]
    BY <2>2, <2>3, <2>4, HighestCount
  <2>6. Cardinality(kept \cup {r}) = n + 1
    BY <2>2, <2>5, FS_AddElement DEF R
  <2>7. ASSUME NEW x \in kept \cup {r}, NEW t \in things \ (kept \cup {r})
        PROVE  f[x] >= f[t]
    <3>1. t \in R /\ f[t] \in Nat
      BY DEF R
    <3>2. CASE x = r
      BY <2>4, <2>5, <3>1, <3>2
    <3>3. CASE x \in kept
      BY <2>1, <3>1, <3>3 DEF IsTop, R
    <3> QED BY <3>2, <3>3
  <2>8. kept \cup {r} \in SUBSET things
    BY <2>2 DEF R
  <2> QED BY <2>6, <2>7, <2>8 DEF IsTop
<1> HIDE DEF S
<1>3. k \in S
  BY <1>0, <1>1, <1>2, NatSet
<1> QED BY <1>0, <1>3 DEF S

\* The busiest are among the things counted, Top of them or all.
LEMMA TopKept ==
  ASSUME NEW things, IsFiniteSet(things), NEW f, \A t \in things : f[t] \in Nat
  PROVE  \E kept : IsTop(kept, things, f, Min({Top, Cardinality(things)}))
<1>1. Top \in Nat /\ Cardinality(things) \in Nat
  BY ScanAssumption, FS_CardinalityType
<1>2. Min({Top, Cardinality(things)}) \in 0..Cardinality(things)
  <2> DEFINE m == Min({Top, Cardinality(things)})
  <2>1. PICK a \in Nat, b \in Nat : a = Top /\ b = Cardinality(things)
    BY <1>1
  <2>2. \E x \in {a, b} : \A y \in {a, b} : x <= y
    BY <2>1
  <2>3. m \in {a, b} /\ \A y \in {a, b} : m <= y
    BY <2>1, <2>2 DEF Min
  <2> HIDE DEF m
  <2>4. m \in 0..b
    BY <2>3
  <2> QED BY <2>1, <2>4 DEF m
<1> QED BY <1>2, TopExists

\* They are what is picked.
LEMMA BusiestKept ==
  ASSUME NEW counts, IsFiniteSet(DOMAIN counts), \A t \in DOMAIN counts : counts[t] \in Nat
  PROVE  LET kept == Busiest(counts)
         IN /\ kept \subseteq DOMAIN counts /\ IsFiniteSet(kept)
            /\ IsTop(kept, DOMAIN counts, counts, Min({Top, Cardinality(DOMAIN counts)}))
<1> DEFINE k == Min({Top, Cardinality(DOMAIN counts)})
           kept == Busiest(counts)
<1>1. PICK some : IsTop(some, DOMAIN counts, counts, k)
  BY TopKept
<1> HIDE DEF k
<1>2. IsTop(kept, DOMAIN counts, counts, k)
  BY <1>1 DEF IsTop, Busiest, k
<1>3. kept \subseteq DOMAIN counts
  BY <1>2 DEF IsTop
<1>4. IsFiniteSet(kept)
  BY <1>3, FS_Subset
<1> QED BY <1>2, <1>3, <1>4 DEF k

-----------------------------------------------------------------------------
(* The contacts *)

\* Messages counted are finitely many, and one of them counts if any.
LEMMA TallyCounts ==
  ASSUME NEW X, NEW s \in Seq(X), NEW P
  PROVE  LET counted == {i \in DOMAIN s : s[i] \in P}
         IN /\ Cardinality(counted) \in Nat
            /\ Cardinality(counted) > 0 => \E i \in DOMAIN s : s[i] \in P
<1> DEFINE counted == {i \in DOMAIN s : s[i] \in P}
<1>1. IsFiniteSet(DOMAIN s)
  <2>1. DOMAIN s = 1..Len(s) /\ Len(s) \in Nat
    OBVIOUS
  <2> QED BY <2>1, FS_Interval
<1>2. IsFiniteSet(counted)
  BY <1>1, FS_Subset
<1>3. Cardinality(counted) \in Nat /\ (counted = {} => Cardinality(counted) = 0)
  BY <1>2, FS_CardinalityType, FS_EmptySet
<1> QED BY <1>3

\* Envelopes name recipients.
HasRecipients(E) == \A e \in E : e.to \in Seq(Seq(STRING))

\* The address wrote to the user, and the user to it.
IsMutual(envelopes, sent, address) ==
  /\ \E i \in DOMAIN envelopes : ScanAddress(envelopes[i].from) = address
  /\ \E j \in DOMAIN sent : \E k \in DOMAIN sent[j].to :
       ScanAddress(sent[j].to[k]) = address

\* The contacts have addresses, each its own, wrote as often as they say, and
\* were written to.
ContactList(contacts, envelopes, sent) ==
  /\ IsFiniteSet(contacts)
  /\ \A c \in contacts :
       /\ IsAddress(c.address) /\ IsMutual(envelopes, sent, c.address)
       /\ c.messages_received =
            Cardinality({i \in DOMAIN envelopes : ScanAddress(envelopes[i].from) = c.address})
  /\ \A c, d \in contacts : c.address = d.address => c = d

\* So have those found.
LEMMA ContactWritten ==
  ASSUME NEW E, HasRecipients(E),
         NEW envelopes \in Seq(E), NEW sent \in Seq(E)
  PROVE  ContactList(Bidirectional(envelopes, sent), envelopes, sent)
<1> DEFINE received == CountFrom(envelopes)
           lists == [i \in DOMAIN sent |-> sent[i].to]
           flat == FlattenSeq(lists)
           sentTo(a) == Cardinality({i \in DOMAIN flat : ScanAddress(flat[i]) = a})
           senders == SendersOf(envelopes)
           things == {a \in DOMAIN received : sentTo(a) > 0}
           f == [a \in things |-> received[a] + sentTo(a)]
<1>1. /\ Len(sent) \in Nat /\ DOMAIN sent = 1..Len(sent)
      /\ lists \in Seq(Seq(Seq(STRING))) /\ DOMAIN lists = DOMAIN sent
  <2>1. /\ Len(sent) \in Nat /\ DOMAIN sent = 1..Len(sent)
        /\ \A i \in 1..Len(sent) : sent[i] \in E
    OBVIOUS
  <2>2. \A i \in 1..Len(sent) : sent[i].to \in Seq(Seq(STRING))
    BY <2>1 DEF HasRecipients
  <2>3. lists \in [1..Len(sent) -> Seq(Seq(STRING))]
    BY <2>1, <2>2
  <2>4. DOMAIN lists = DOMAIN sent
    OBVIOUS
  <2> DEFINE T == Seq(Seq(STRING))
  <2> HIDE DEF lists, T
  <2>6. lists \in Seq(T)
    <3>1. Len(sent) \in Nat /\ lists \in [1..Len(sent) -> T]
      BY <2>1, <2>3 DEF T
    <3> QED BY <3>1, SeqDef
  <2>5. lists \in Seq(Seq(Seq(STRING)))
    BY <2>6 DEF T
  <2> QED BY <2>1, <2>4, <2>5
<1>2. flat \in Seq(Seq(STRING)) /\ \E off : Offsets(lists, off)
  <2> HIDE DEF lists
  <2> QED BY <1>1, FlattenPlaces
<1>3. senders \in Seq({ScanAddress(envelopes[i].from) : i \in DOMAIN envelopes})
  <2> DEFINE S == {ScanAddress(envelopes[i].from) : i \in DOMAIN envelopes}
  <2>1. Len(envelopes) \in Nat /\ DOMAIN envelopes = 1..Len(envelopes)
    OBVIOUS
  <2>2. senders \in [1..Len(envelopes) -> S]
    BY <2>1 DEF SendersOf
  <2> HIDE DEF senders, S
  <2>3. senders \in Seq(S)
    BY <2>1, <2>2, SeqDef
  <2> QED BY <2>3 DEF S
<1>4. DOMAIN received = {s \in ToSet(senders) : IsAddress(s)}
      /\ \A a \in DOMAIN received :
           received[a] = Cardinality({i \in DOMAIN senders : senders[i] = a})
  BY DEF CountFrom, Tally
<1>5. ASSUME NEW a
      PROVE  /\ sentTo(a) \in Nat
             /\ sentTo(a) > 0 => \E i \in DOMAIN flat : ScanAddress(flat[i]) = a
  <2> DEFINE P == {x \in Seq(STRING) : ScanAddress(x) = a}
             counted == {i \in DOMAIN flat : flat[i] \in P}
  <2>1. \A i \in DOMAIN flat : flat[i] \in Seq(STRING)
    BY <1>2
  <2>2. {i \in DOMAIN flat : ScanAddress(flat[i]) = a} = counted
    BY <2>1
  <2> HIDE DEF flat, P
  <2>3. /\ Cardinality(counted) \in Nat
        /\ Cardinality(counted) > 0 => \E i \in DOMAIN flat : flat[i] \in P
    BY <1>2, TallyCounts
  <2> QED BY <2>2, <2>3 DEF P
<1>6. \A a \in DOMAIN received : received[a] \in Nat
  <2> SUFFICES ASSUME NEW a \in DOMAIN received PROVE received[a] \in Nat
    OBVIOUS
  <2> DEFINE counted == {i \in DOMAIN senders : senders[i] \in {a}}
  <2>1. received[a] = Cardinality(counted)
    BY <1>4
  <2> HIDE DEF received, senders
  <2>2. Cardinality(counted) \in Nat
    BY <1>3, TallyCounts
  <2> QED BY <2>1, <2>2
<1>7. IsFiniteSet(things)
  <2>1. things \subseteq ToSet(senders)
    BY <1>4
  <2> HIDE DEF things, senders
  <2>2. IsFiniteSet(ToSet(senders))
    BY <1>3, HoldsFinitely
  <2> QED BY <2>1, <2>2, FS_Subset
<1>8. \A a \in things : f[a] \in Nat /\ f[a] = received[a] + sentTo(a)
  <2> SUFFICES ASSUME NEW a \in things PROVE f[a] \in Nat /\ f[a] = received[a] + sentTo(a)
    OBVIOUS
  <2>1. received[a] \in Nat /\ sentTo(a) \in Nat
    BY <1>5, <1>6
  <2>2. f[a] = received[a] + sentTo(a)
    OBVIOUS
  <2> HIDE DEF received, sentTo, f
  <2> QED BY <2>1, <2>2
<1> DEFINE top == Busiest(f)
           row == [a \in top |-> [address |-> a, messages_received |-> received[a],
                                  messages_sent_to |-> sentTo(a),
                                  bidirectional_ratio |-> <<sentTo(a), received[a]>>]]
           contacts == {row[a] : a \in top}
<1>9. top \subseteq things /\ IsFiniteSet(top)
  <2>1. DOMAIN f = things
    OBVIOUS
  <2> HIDE DEF things, f
  <2> QED BY <1>7, <1>8, <2>1, BusiestKept
<1>10. Bidirectional(envelopes, sent) = contacts
  <2>1. Bidirectional(envelopes, sent) =
          {[address |-> a, messages_received |-> received[a],
            messages_sent_to |-> sentTo(a),
            bidirectional_ratio |-> <<sentTo(a), received[a]>>] : a \in top}
    BY DEF Bidirectional, Tally
  <2> HIDE DEF top, received, sentTo
  <2> QED BY <2>1
<1>11. \A c \in contacts : /\ c.address \in things /\ c = row[c.address]
                           /\ c.messages_received = received[c.address]
  <2> HIDE DEF top, things, received, sentTo
  <2> QED BY <1>9
<1>14. IsFiniteSet(contacts)
  <2> HIDE DEF top
  <2>1. row \in Surjection(top, contacts)
    <3> HIDE DEF received, sentTo
    <3> QED BY DEF Surjection
  <2> HIDE DEF row, contacts
  <2> QED BY <1>9, <2>1, FS_Surjection
<1>15. ASSUME NEW c \in contacts
       PROVE  c.messages_received =
                Cardinality({i \in DOMAIN envelopes : ScanAddress(envelopes[i].from) = c.address})
  <2>1. c.address \in DOMAIN received
    BY <1>11
  <2>2. /\ c.messages_received = received[c.address]
        /\ received[c.address] = Cardinality({i \in DOMAIN senders : senders[i] = c.address})
    BY <1>4, <1>11, <2>1
  <2>3. {i \in DOMAIN senders : senders[i] = c.address}
          = {i \in DOMAIN envelopes : ScanAddress(envelopes[i].from) = c.address}
    BY DEF SendersOf
  <2> QED BY <2>2, <2>3
<1>12. ASSUME NEW c \in contacts
       PROVE  /\ IsAddress(c.address)
              /\ \E i \in DOMAIN envelopes : ScanAddress(envelopes[i].from) = c.address
  <2>1. c.address \in ToSet(senders) /\ IsAddress(c.address)
    BY <1>4, <1>11
  <2> QED BY <2>1 DEF ToSet, SendersOf
<1>13. ASSUME NEW c \in contacts
       PROVE  \E j \in DOMAIN sent : \E l \in DOMAIN sent[j].to :
                ScanAddress(sent[j].to[l]) = c.address
  <2>0. c.address \in things
    BY <1>11
  <2>1. PICK i \in DOMAIN flat : ScanAddress(flat[i]) = c.address
    BY <1>5, <2>0
  <2>2. PICK off : Offsets(lists, off)
    BY <1>2
  <2>3. i \in 1..Len(flat)
    BY <1>2
  <2>4. /\ \A x \in 1..Len(lists) : \A y \in 1..Len(lists[x]) :
             flat[off[x - 1] + y] = lists[x][y]
        /\ \A z \in 1..Len(flat) :
             \E x \in 1..Len(lists) : \E y \in 1..Len(lists[x]) : z = off[x - 1] + y
    BY <2>2 DEF Offsets
  <2>5. PICK x \in 1..Len(lists) : \E y \in 1..Len(lists[x]) : i = off[x - 1] + y
    BY <2>3, <2>4
  <2>8. PICK y \in 1..Len(lists[x]) : i = off[x - 1] + y
    BY <2>5
  <2>7. flat[i] = lists[x][y]
    BY <2>4, <2>8
  <2>6. x \in DOMAIN sent /\ lists[x] = sent[x].to /\ y \in DOMAIN sent[x].to
    BY <1>1
  <2> HIDE DEF flat, lists
  <2> QED BY <2>1, <2>6, <2>7
<1> HIDE DEF contacts, row
<1>16. \A c \in contacts : IsMutual(envelopes, sent, c.address)
  BY <1>12, <1>13 DEF IsMutual
<1> QED BY <1>10, <1>11, <1>12, <1>14, <1>15, <1>16 DEF ContactList

\* A rule for contacts names contacts of the report.
LEMMA ContactsSuggested ==
  ASSUME NEW facts, NEW n, NEW rule \in Suggest(facts, n), rule.tag = "vip",
         NEW sender \in rule.kind.senders
  PROVE  \E c \in facts.bidirectional : sender = c.address
<1> DEFINE services == {s \in facts.notification_services : s.messages >= n}
           contacts == {c \in facts.bidirectional : c.messages_received >= n}
<1>1. \A s \in CategoryRules(facts, n) : s.tag # "vip"
  <2> SUFFICES ASSUME NEW s \in CategoryRules(facts, n) PROVE s.tag # "vip"
    OBVIOUS
  <2>1. s.tag \in {"newsletter", "mailing-list", "spam"}
    BY DEF CategoryRules, Suggestion
  <2> QED BY <2>1
<1>2. ServiceRule(services).tag = "notification"
  BY DEF ServiceRule, Suggestion
<1>3. ContactRule(contacts).kind.senders = {c.address : c \in contacts}
  BY DEF ContactRule, Suggestion, SenderIn
<1>4. rule = ContactRule(contacts)
  <2>1. \/ rule \in CategoryRules(facts, n)
        \/ rule = ServiceRule(services)
        \/ rule = ContactRule(contacts)
    BY DEF Suggest
  <2> QED BY <1>1, <1>2, <2>1
<1> QED BY <1>3, <1>4

\* The messages of a class are among those fetched.
LEMMA InClassOf ==
  ASSUME fetched \in Seq(Message), NEW class
  PROVE  /\ InClass(class) \in Seq(Message)
         /\ \A k \in 1..Len(InClass(class)) :
              InClass(class)[k] \in ToSet(fetched) /\ Class(InClass(class)[k]) = class
<1> DEFINE places == {i \in DOMAIN fetched : Class(fetched[i]) = class}
           p == Pick(fetched, places)
<1>1. places \in SUBSET DOMAIN fetched /\ InClass(class) = p
  BY DEF InClass
<1>2. \A i \in places : fetched[i] \in ToSet(fetched) /\ Class(fetched[i]) = class
  BY DEF ToSet
<1> HIDE DEF places
<1>3. p \in Seq(Message) /\ HoldsPlaces(p, fetched, places)
  BY <1>1, PickElements
<1>4. \A k \in 1..Len(p) : \E i \in places : p[k] = fetched[i]
  BY <1>3 DEF HoldsPlaces
<1> HIDE DEF p
<1> QED BY <1>1, <1>2, <1>3, <1>4

-----------------------------------------------------------------------------
(* What was scanned *)

\* Those of a message that was downloaded or was not.
HeadersOf(m) == {ParseHeaders(Mail[m].eml), NoHeaders}
Headers == UNION {HeadersOf(m) : m \in Message}
Scanned == {[envelope |-> Envelope(m), headers |-> h] : m \in Message, h \in Headers}

SentEnvelopes == [i \in DOMAIN SentMail |-> Envelope(SentMail[i])]

\* The inbox is scanned in order, once fetched; a scan that is written analyzed
\* all of it and suggests what the analysis says.
ScanOK ==
  /\ scanned \in Seq(Scanned)
  /\ Len(scanned) <= Len(InboxMail)
  /\ \A i \in 1..Len(scanned) :
       /\ scanned[i].envelope = Envelope(InboxMail[i])
       /\ scanned[i].headers \in HeadersOf(InboxMail[i])
  /\ pc = "fetch" => scanned = <<>>
  /\ pc \in {"write", "done"} =>
       /\ Len(scanned) = Len(InboxMail)
       /\ report = Analyze(scanned, SentEnvelopes)
       /\ suggestions = Suggest(report, options.minEvidence)

ScanInv == FetchInv /\ ScanOK

\* At first nothing is scanned.
LEMMA ScanInit == Init => ScanInv
<1> SUFFICES ASSUME Init PROVE ScanInv
  OBVIOUS
<1>1. FetchInv
  BY FetchInit
<1>2. scanned = <<>> /\ pc \in {"fetch", "failed"}
  BY DEF Init
<1>3. Len(InboxMail) \in Nat
  <2>1. InboxMail \in Seq(Message)
    BY <1>1, InClassOf DEF FetchInv, FetchOK, InboxMail
  <2> QED BY <2>1
<1>4. scanned \in Seq(Scanned) /\ Len(scanned) = 0 /\ 1..0 = {}
  BY <1>2
<1> QED BY <1>1, <1>2, <1>3, <1>4 DEF ScanInv, ScanOK

\* Every step scans the next message of the inbox, or leaves it at that.
LEMMA ScanStep ==
  ASSUME ScanInv, [Next]_vars
  PROVE  ScanInv'
<1>1. FetchInv /\ ScanOK /\ FetchInv'
  BY FetchStep DEF ScanInv
<1>2. fetched \in Seq(Message) /\ fetched' \in Seq(Message)
  BY <1>1 DEF FetchInv, FetchOK
<1>3. InboxMail \in Seq(Message)
  BY <1>2, InClassOf DEF InboxMail
<1>4. ASSUME UNCHANGED fetched
      PROVE  UNCHANGED <<InboxMail, SentEnvelopes>>
  BY <1>4 DEF InboxMail, SentMail, InClass, SentEnvelopes
<1>5. ASSUME UNCHANGED <<fetched, scanned, report, suggestions, options>>,
             \/ pc' = pc
             \/ pc' = "failed"
             \/ pc = "write" /\ pc' = "done"
      PROVE  ScanOK'
  BY <1>1, <1>4, <1>5 DEF ScanOK
<1>6. CASE FetchPage
  <2>1. pc = "fetch" /\ pc' \in {"fetch", "download"} /\ scanned' = scanned
    BY <1>6 DEF FetchPage, results
  <2>2. scanned = <<>> /\ Len(scanned) = 0 /\ 1..0 = {}
    BY <1>1, <2>1 DEF ScanOK
  <2>3. Len(InboxMail') \in Nat
    <3> DEFINE places == {i \in DOMAIN fetched' : Class(fetched'[i]) = "inbox"}
    <3>1. InboxMail' = Pick(fetched', places)
      BY DEF InboxMail, InClass
    <3>2. places \in SUBSET DOMAIN fetched'
      OBVIOUS
    <3> HIDE DEF places
    <3>3. Pick(fetched', places) \in Seq(Message)
      BY <1>2, <3>2, PickElements
    <3> QED BY <3>1, <3>3
  <2> QED BY <1>1, <2>1, <2>2, <2>3 DEF ScanInv, ScanOK
<1>7. CASE Download
  <2> DEFINE n == Len(scanned) + 1   m == InboxMail[n]
  <2>1. PICK h \in HeadersOf(m) : scanned' = Append(scanned, [envelope |-> Envelope(m), headers |-> h])
    BY <1>7 DEF Download, HeadersOf
  <2>2. Len(scanned) \in Nat /\ Len(InboxMail) \in Nat
        /\ Len(scanned) < Len(InboxMail) /\ pc = "download"
        /\ UNCHANGED <<fetched, report, suggestions, pc>>
    BY <1>1, <1>3, <1>7 DEF Download, ScanOK
  <2>3. m \in Message
    BY <1>3, <2>2
  <2> DEFINE e == [envelope |-> Envelope(m), headers |-> h]
  <2>4. e \in Scanned /\ e.envelope = Envelope(m) /\ e.headers \in HeadersOf(m)
    <3>1. h \in Headers
      BY <2>1, <2>3 DEF Headers
    <3> QED BY <2>1, <2>3, <3>1 DEF Scanned
  <2> HIDE DEF e
  <2>5. scanned' = Append(scanned, e)
    BY <2>1 DEF e
  <2>6. /\ scanned' \in Seq(Scanned) /\ Len(scanned') = n
        /\ \A i \in 1..Len(scanned) : scanned'[i] = scanned[i]
        /\ scanned'[n] = e
    BY <1>1, <2>4, <2>5 DEF ScanOK
  <2>7. \A i \in 1..n : i = n \/ i \in 1..Len(scanned)
    BY <2>2
  <2>8. \A i \in 1..n : /\ scanned'[i].envelope = Envelope(InboxMail[i])
                         /\ scanned'[i].headers \in HeadersOf(InboxMail[i])
    BY <1>1, <2>4, <2>6, <2>7 DEF ScanOK
  <2>9. InboxMail' = InboxMail
    BY <1>4, <2>2
  <2> QED BY <1>1, <2>2, <2>6, <2>8, <2>9 DEF ScanInv, ScanOK, Envelope, HeadersOf
<1>8. CASE Conclude
  <2>1. /\ Len(scanned) = Len(InboxMail) /\ pc' = "write"
        /\ report' = Analyze(scanned, SentEnvelopes)
        /\ suggestions' = Suggest(report', options'.minEvidence)
        /\ UNCHANGED <<fetched, scanned>>
    BY <1>8 DEF Conclude, SentEnvelopes
  <2> QED BY <1>1, <1>4, <2>1 DEF ScanInv, ScanOK
<1>9. CASE FetchFails
  BY <1>1, <1>5, <1>9 DEF FetchFails, results, outputs, ScanInv
<1>10. CASE Write
  BY <1>1, <1>5, <1>10 DEF Write, results, ScanInv
<1>11. CASE WriteFails
  BY <1>1, <1>5, <1>11 DEF WriteFails, results, outputs, ScanInv
<1>12. CASE Finish
  BY <1>1, <1>5, <1>12 DEF Finish, results, outputs, ScanInv
<1>13. CASE \E m \in Message : IndexGains(m) \/ IndexLoses(m)
  BY <1>1, <1>5, <1>13 DEF IndexGains, IndexLoses, results, outputs, ScanInv
<1>14. CASE UNCHANGED vars
  BY <1>1, <1>5, <1>14 DEF vars, results, outputs, ScanInv
<1> QED
  BY <1>6, <1>7, <1>8, <1>9, <1>10, <1>11, <1>12, <1>13, <1>14 DEF Next

\* The contacts of a report of the whole inbox are contacts.
LEMMA ContactsOfScan ==
  ASSUME ScanInv, pc = "done"
  PROVE  LET envelopes == [i \in DOMAIN scanned |-> scanned[i].envelope]
         IN /\ ContactList(report.bidirectional, envelopes, SentEnvelopes)
            /\ DOMAIN envelopes = 1..Len(InboxMail)
            /\ \A i \in 1..Len(InboxMail) : envelopes[i] = Envelope(InboxMail[i])
            /\ DOMAIN SentEnvelopes = 1..Len(SentMail)
            /\ \A i \in 1..Len(SentMail) : SentEnvelopes[i] = Envelope(SentMail[i])
<1> DEFINE envelopes == [i \in DOMAIN scanned |-> scanned[i].envelope]
           E == {Envelope(m) : m \in Message}
<1>1. /\ fetched \in Seq(Message) /\ scanned \in Seq(Scanned)
      /\ Len(scanned) = Len(InboxMail)
      /\ \A i \in 1..Len(scanned) : scanned[i].envelope = Envelope(InboxMail[i])
      /\ report = Analyze(scanned, SentEnvelopes)
      /\ suggestions = Suggest(report, options.minEvidence)
  BY DEF ScanInv, ScanOK, FetchInv, FetchOK
<1>3. report.bidirectional = Bidirectional(envelopes, SentEnvelopes)
  BY <1>1 DEF Analyze
<1>4. /\ InboxMail \in Seq(Message)
      /\ \A k \in 1..Len(InboxMail) :
           InboxMail[k] \in ToSet(fetched) /\ Class(InboxMail[k]) = "inbox"
  BY <1>1, InClassOf DEF InboxMail
<1>5. /\ SentMail \in Seq(Message)
      /\ \A k \in 1..Len(SentMail) :
           SentMail[k] \in ToSet(fetched) /\ Class(SentMail[k]) = "sent"
  BY <1>1, InClassOf DEF SentMail
<1>6. DOMAIN envelopes = 1..Len(InboxMail) /\ envelopes \in Seq(E)
      /\ \A i \in 1..Len(InboxMail) : envelopes[i] = Envelope(InboxMail[i])
  <2>1. DOMAIN scanned = 1..Len(scanned)
    BY <1>1
  <2>2. /\ envelopes \in [1..Len(InboxMail) -> E]
        /\ \A i \in 1..Len(InboxMail) : envelopes[i] = Envelope(InboxMail[i])
    BY <1>1, <1>4, <2>1
  <2> HIDE DEF envelopes, E
  <2>3. Len(InboxMail) \in Nat
    BY <1>4
  <2> QED BY <2>2, <2>3, SeqDef
<1>7. DOMAIN SentEnvelopes = 1..Len(SentMail) /\ SentEnvelopes \in Seq(E)
      /\ \A i \in 1..Len(SentMail) : SentEnvelopes[i] = Envelope(SentMail[i])
  <2>1. DOMAIN SentMail = 1..Len(SentMail) /\ Len(SentMail) \in Nat
    BY <1>5
  <2>2. /\ SentEnvelopes \in [1..Len(SentMail) -> E]
        /\ \A i \in 1..Len(SentMail) : SentEnvelopes[i] = Envelope(SentMail[i])
    BY <1>5, <2>1 DEF SentEnvelopes
  <2> HIDE DEF E
  <2> QED BY <2>1, <2>2, SeqDef
<1>8. HasRecipients(E)
  BY ScanAssumption DEF Envelope, Message, HasRecipients
<1> HIDE DEF envelopes, E
<1>9. ContactList(Bidirectional(envelopes, SentEnvelopes), envelopes, SentEnvelopes)
  BY <1>6, <1>7, <1>8, ContactWritten
<1> QED BY <1>3, <1>6, <1>7, <1>9 DEF envelopes

\* A contact that is suggested wrote to the inbox and was written to, for any
\* mail: what Berger filed away is no evidence (scan/folders.rs, analyzers).
THEOREM ContactsMutual == Spec => []ContactsAreMutual
<1>1. ScanInv => ContactsAreMutual
  <2> SUFFICES ASSUME ScanInv, pc = "done",
                      NEW rule \in suggestions, rule.tag = "vip",
                      NEW sender \in rule.kind.senders
               PROVE  \E m, n \in ToSet(fetched) :
                        /\ ~IsBergerFolder(Envelope(m).folder)
                        /\ IsInbox(Envelope(n).folder)
                        /\ ScanAddress(Envelope(n).from) = sender
                        /\ \E i \in DOMAIN Envelope(m).to :
                             ScanAddress(Envelope(m).to[i]) = sender
    BY DEF ContactsAreMutual
  <2> DEFINE envelopes == [i \in DOMAIN scanned |-> scanned[i].envelope]
  <2>1. /\ fetched \in Seq(Message) /\ scanned \in Seq(Scanned)
        /\ Len(scanned) = Len(InboxMail)
        /\ \A i \in 1..Len(scanned) : scanned[i].envelope = Envelope(InboxMail[i])
        /\ report = Analyze(scanned, SentEnvelopes)
        /\ suggestions = Suggest(report, options.minEvidence)
    BY DEF ScanInv, ScanOK, FetchInv, FetchOK
  <2>2. PICK c \in report.bidirectional : sender = c.address
    BY <2>1, ContactsSuggested
  <2>4. /\ InboxMail \in Seq(Message)
        /\ \A k \in 1..Len(InboxMail) :
             InboxMail[k] \in ToSet(fetched) /\ Class(InboxMail[k]) = "inbox"
    BY <2>1, InClassOf DEF InboxMail
  <2>5. /\ SentMail \in Seq(Message)
        /\ \A k \in 1..Len(SentMail) :
             SentMail[k] \in ToSet(fetched) /\ Class(SentMail[k]) = "sent"
    BY <2>1, InClassOf DEF SentMail
  <2>6. /\ ContactList(report.bidirectional, envelopes, SentEnvelopes)
        /\ DOMAIN envelopes = 1..Len(InboxMail)
        /\ \A i \in 1..Len(InboxMail) : envelopes[i] = Envelope(InboxMail[i])
        /\ DOMAIN SentEnvelopes = 1..Len(SentMail)
        /\ \A i \in 1..Len(SentMail) : SentEnvelopes[i] = Envelope(SentMail[i])
    BY ContactsOfScan
  <2> HIDE DEF envelopes
  <2>9. /\ \E i \in DOMAIN envelopes : ScanAddress(envelopes[i].from) = sender
        /\ \E j \in DOMAIN SentEnvelopes : \E l \in DOMAIN SentEnvelopes[j].to :
             ScanAddress(SentEnvelopes[j].to[l]) = sender
    <3>1. IsMutual(envelopes, SentEnvelopes, c.address)
      BY <2>2, <2>6 DEF ContactList
    <3> QED BY <2>2, <3>1 DEF IsMutual
  <2>10. PICK i \in 1..Len(InboxMail) : ScanAddress(Envelope(InboxMail[i]).from) = sender
    BY <2>6, <2>9
  <2>11. PICK j \in 1..Len(SentMail) : \E l \in DOMAIN Envelope(SentMail[j]).to :
           ScanAddress(Envelope(SentMail[j]).to[l]) = sender
    BY <2>6, <2>9
  <2>12. IsInbox(Envelope(InboxMail[i]).folder)
    BY <2>4 DEF Class, ClassifyFolder
  <2>13. ~IsBergerFolder(Envelope(SentMail[j]).folder)
    BY <2>5 DEF Class, ClassifyFolder
  <2> QED BY <2>4, <2>5, <2>10, <2>11, <2>12, <2>13
<1> QED BY <1>1, ScanInit, ScanStep, PTL DEF Spec

-----------------------------------------------------------------------------
(* Type correctness *)

\* There are few suggested rules, no two with a tag in common.
LEMMA OneRuleATag ==
  ASSUME NEW facts, NEW n
  PROVE  LET rules == Suggest(facts, n)
         IN /\ IsFiniteSet(rules)
            /\ Cardinality({r.tag : r \in rules}) = Cardinality(rules)
<1> DEFINE services == {s \in facts.notification_services : s.messages >= n}
           contacts == {c \in facts.bidirectional : c.messages_received >= n}
           a == Suggestion(ListUnsubscribe, "newsletter", SumOf(facts.newsletters))
           b == Suggestion(HeaderMatch("list_id", "."), "mailing-list",
                           SumOf(facts.mailing_lists))
           c == Suggestion(HeaderMatch("x_spam_flag", "(?i)yes"), "spam",
                           facts.spam.flagged)
           d == ServiceRule(services)
           e == ContactRule(contacts)
           rules == Suggest(facts, n)
           tags == {r.tag : r \in rules}
<1>1. /\ a.tag = "newsletter" /\ b.tag = "mailing-list" /\ c.tag = "spam"
      /\ d.tag = "notification" /\ e.tag = "vip"
  BY DEF Suggestion, ServiceRule, ContactRule
<1>2. rules \subseteq {a, b, c, d, e}
  BY DEF Suggest, CategoryRules
<1> HIDE DEF a, b, c, d, e, rules
<1>3. \A x, y \in rules : x.tag = y.tag => x = y
  BY <1>1, <1>2
<1>4. IsFiniteSet(rules)
  <2>1. IsFiniteSet({a, b, c, d, e})
    <3>1. IsFiniteSet({})
      BY FS_EmptySet
    <3>2. IsFiniteSet({} \cup {a} \cup {b} \cup {c} \cup {d} \cup {e})
      BY <3>1, FS_AddElement
    <3>3. {} \cup {a} \cup {b} \cup {c} \cup {d} \cup {e} = {a, b, c, d, e}
      OBVIOUS
    <3> QED BY <3>2, <3>3
  <2> QED BY <1>2, <2>1, FS_Subset
<1> DEFINE f == [r \in rules |-> r.tag]
<1>5. f \in Bijection(rules, tags)
  BY <1>3 DEF Bijection, Injection, Surjection, IsInjective
<1>6. Cardinality(rules) = Cardinality(tags)
  <2> HIDE DEF f, tags
  <2> QED BY <1>4, <1>5, FS_Surjection DEF Bijection
<1> QED BY <1>4, <1>6 DEF rules

\* The command line is read once.
LEMMA CommandKept ==
  ASSUME [Next]_vars
  PROVE  command' = command
BY DEF Next, vars, inputs, IndexGains, IndexLoses, FetchPage, FetchFails, Download,
       Conclude, Write, WriteFails, Finish

\* Every value a scan computes has its type, what is done has analyzed the
\* whole inbox and suggests one rule per tag (scan/mod.rs).
THEOREM TypeCorrect == Spec => []TypeOK
<1> DEFINE Inv == ScanInv /\ command \in Commands
<1>1. Init => Inv
  BY ScanInit DEF Init
<1>2. Inv /\ [Next]_vars => Inv'
  BY ScanStep, CommandKept
<1>3. Inv => TypeOK
  <2> SUFFICES ASSUME Inv PROVE TypeOK
    OBVIOUS
  <2>1. FetchOK /\ ScanOK
    BY DEF ScanInv, FetchInv
  <2>2. ASSUME pc = "done"
        PROVE  /\ report.inbox_messages = Len(InboxMail)
               /\ Cardinality({r.tag : r \in suggestions}) = Cardinality(suggestions)
    <3>1. /\ Len(scanned) = Len(InboxMail)
          /\ report = Analyze(scanned, SentEnvelopes)
          /\ suggestions = Suggest(report, options.minEvidence)
      BY <2>1, <2>2 DEF ScanOK
    <3>2. report.inbox_messages = Len(scanned)
      BY <3>1 DEF Analyze
    <3> QED BY <3>1, <3>2, OneRuleATag
  <2> QED BY <2>1, <2>2 DEF TypeOK, FetchOK, ScanOK
<1> HIDE DEF Inv
<1> QED BY <1>1, <1>2, <1>3, PTL DEF Spec

-----------------------------------------------------------------------------
(* The rules of the native filters *)

\* A validated rule declares the type it is compiled to and no other, so the
\* order in which compile_filters tries the types decides nothing.
LEMMA TypeIsDeclared ==
  ASSUME NEW rule, ValidFilter(rule)
  PROVE  /\ FilterType(rule) \in FilterTypes
         /\ \A type \in FilterTypes : Declares(rule, type) <=> type = FilterType(rule)
<1>1. PICK type \in FilterTypes :
        \A other \in FilterTypes : Declares(rule, other) <=> other = type
  BY DEF ValidFilter, ExactlyOneType
<1>2. FilterType(rule) = type
  <2>1. CASE type = "sender_in"
    BY <1>1, <2>1 DEF FilterType, FilterTypes
  <2>2. CASE type = "subject_regex"
    BY <1>1, <2>2 DEF FilterType, FilterTypes
  <2>3. CASE type = "list_unsubscribe"
    BY <1>1, <2>3 DEF FilterType, FilterTypes
  <2>4. CASE type = "header_match"
    BY <1>1, <2>4 DEF FilterType, FilterTypes
  <2> QED
    BY <2>1, <2>2, <2>3, <2>4 DEF FilterTypes
<1> QED
  BY <1>1, <1>2

\* "Config validation guarantees exactly one filter type": the branch of
\* compile_filters that skips a rule is never taken on a validated config.
THEOREM ValidatedRulesCompile ==
  ASSUME NEW config, Valid(config),
         NEW i \in DOMAIN config.filters
  PROVE  /\ FilterType(config.filters[i]) # "none"
         /\ \A type \in FilterTypes :
              Declares(config.filters[i], type) => type = FilterType(config.filters[i])
<1>1. ValidFilter(config.filters[i])
  BY DEF Valid
<1>2. /\ FilterType(config.filters[i]) \in FilterTypes
      /\ \A type \in FilterTypes :
           Declares(config.filters[i], type) <=> type = FilterType(config.filters[i])
  BY <1>1, TypeIsDeclared
<1> QED
  BY <1>2 DEF FilterTypes

-----------------------------------------------------------------------------
(* Sums over sets: what MapThenSumSet folds *)

\* h adds up the weights of every subset, an element at a time.
Sums(h, S, w) ==
  h = [s \in SUBSET S |->
         IF s = {} THEN 0
         ELSE w[CHOOSE x \in s : TRUE] + h[s \ {CHOOSE x \in s : TRUE}]]

\* There is one way to.
LEMMA SumsOnce ==
  ASSUME NEW S, IsFiniteSet(S), NEW w, NEW h, NEW k, Sums(h, S, w), Sums(k, S, w)
  PROVE  h[S] = k[S]
<1> DEFINE Same == {n \in Nat : \A s \in SUBSET S : Cardinality(s) = n => h[s] = k[s]}
<1>1. \A s \in SUBSET S : IsFiniteSet(s) /\ Cardinality(s) \in Nat
  BY FS_Subset, FS_CardinalityType
<1>2. 0 \in Same
  <2>1. \A s \in SUBSET S : Cardinality(s) = 0 => s = {}
    BY <1>1, FS_EmptySet
  <2>2. h[{}] = 0 /\ k[{}] = 0
    BY DEF Sums
  <2> QED BY <2>1, <2>2
<1>3. ASSUME NEW n \in Nat, n \in Same
      PROVE  n + 1 \in Same
  <2> SUFFICES ASSUME NEW s \in SUBSET S, Cardinality(s) = n + 1
               PROVE  h[s] = k[s]
    OBVIOUS
  <2> DEFINE x == CHOOSE x \in s : TRUE
  <2>1. s # {}
    BY FS_EmptySet
  <2>2. x \in s
    BY <2>1
  <2> HIDE DEF x
  <2>3. Cardinality(s \ {x}) = n /\ s \ {x} \in SUBSET S
    <3>1. Cardinality(s \ {x}) = Cardinality(s) - 1
      BY <1>1, <2>2, FS_RemoveElement
    <3> QED BY <3>1
  <2>4. h[s \ {x}] = k[s \ {x}]
    BY <1>3, <2>3
  <2>5. h[s] = w[x] + h[s \ {x}] /\ k[s] = w[x] + k[s \ {x}]
    BY <2>1 DEF Sums, x
  <2> QED BY <2>4, <2>5
<1> HIDE DEF Same
<1>4. Nat \subseteq Same
  BY <1>2, <1>3, NatSet
<1> USE DEF Same
<1> QED BY <1>1, <1>4

\* The weights are the sizes of finite sets, no two of which meet.
Partition(S, w, c) ==
  /\ \A x \in S : IsFiniteSet(c[x]) /\ w[x] = Cardinality(c[x])
  /\ \A x, y \in S : x # y => c[x] \cap c[y] = {}

UnionSizes(S, c) == [s \in SUBSET S |-> Cardinality(UNION {c[x] : x \in s})]

\* Then they add up to the size of the union.
LEMMA PartitionSums ==
  ASSUME NEW S, IsFiniteSet(S), NEW w, NEW c, Partition(S, w, c)
  PROVE  /\ IsFiniteSet(UNION {c[x] : x \in S})
         /\ Sums(UnionSizes(S, c), S, w)
<1> DEFINE All(s) == UNION {c[x] : x \in s}
           h == [s \in SUBSET S |-> Cardinality(All(s))]
           Fin == {n \in Nat : \A s \in SUBSET S : Cardinality(s) = n => IsFiniteSet(All(s))}
<1>1. \A s \in SUBSET S : IsFiniteSet(s) /\ Cardinality(s) \in Nat
  BY FS_Subset, FS_CardinalityType
<1>2. 0 \in Fin
  <2>1. \A s \in SUBSET S : Cardinality(s) = 0 => s = {}
    BY <1>1, FS_EmptySet
  <2>2. All({}) = {}
    OBVIOUS
  <2>3. IsFiniteSet(All({}))
    BY <2>2, FS_EmptySet
  <2> HIDE DEF All
  <2> QED BY <2>1, <2>3
<1>3. ASSUME NEW s \in SUBSET S, NEW x \in s
      PROVE  All(s) = c[x] \cup All(s \ {x}) /\ c[x] \cap All(s \ {x}) = {}
  <2>1. \A y \in s \ {x} : c[x] \cap c[y] = {}
    BY DEF Partition
  <2> QED BY <2>1
<1>4. ASSUME NEW n \in Nat, n \in Fin
      PROVE  n + 1 \in Fin
  <2> SUFFICES ASSUME NEW s \in SUBSET S, Cardinality(s) = n + 1
               PROVE  IsFiniteSet(All(s))
    OBVIOUS
  <2>1. s # {}
    BY FS_EmptySet
  <2>2. PICK x : x \in s
    BY <2>1
  <2>3. Cardinality(s \ {x}) = n /\ s \ {x} \in SUBSET S
    <3>1. Cardinality(s \ {x}) = Cardinality(s) - 1
      BY <1>1, <2>2, FS_RemoveElement
    <3> QED BY <3>1
  <2>4. IsFiniteSet(All(s \ {x})) /\ IsFiniteSet(c[x])
    <3> HIDE DEF All
    <3> QED BY <1>4, <2>2, <2>3 DEF Partition
  <2>5. All(s) = c[x] \cup All(s \ {x})
    BY <1>3, <2>2
  <2> HIDE DEF All
  <2> QED BY <2>4, <2>5, FS_Union
<1>5. \A s \in SUBSET S : IsFiniteSet(All(s))
  <2> HIDE DEF Fin
  <2>1. Nat \subseteq Fin
    BY <1>2, <1>4, NatSet
  <2> USE DEF Fin
  <2> HIDE DEF All
  <2> QED BY <1>1, <2>1
<1>6. ASSUME NEW s \in SUBSET S
      PROVE  h[s] = IF s = {} THEN 0
                    ELSE w[CHOOSE x \in s : TRUE] + h[s \ {CHOOSE x \in s : TRUE}]
  <2>1. CASE s = {}
    <3>1. All(s) = {}
      BY <2>1
    <3> QED BY <2>1, <3>1, FS_EmptySet
  <2>2. CASE s # {}
    <3> DEFINE x == CHOOSE x \in s : TRUE
    <3>1. x \in s
      BY <2>2
    <3> HIDE DEF x
    <3>2. All(s) = c[x] \cup All(s \ {x}) /\ c[x] \cap All(s \ {x}) = {}
      BY <1>3, <3>1
    <3>3. IsFiniteSet(c[x]) /\ w[x] = Cardinality(c[x])
      BY <3>1 DEF Partition
    <3>4. IsFiniteSet(All(s \ {x})) /\ s \ {x} \in SUBSET S
      <4> HIDE DEF All
      <4> QED BY <1>5
    <3> HIDE DEF All
    <3>5. Cardinality(All(s)) = Cardinality(c[x]) + Cardinality(All(s \ {x})) - Cardinality({})
      BY <3>2, <3>3, <3>4, FS_Union
    <3>6. Cardinality({}) = 0 /\ Cardinality(c[x]) \in Nat /\ Cardinality(All(s \ {x})) \in Nat
      BY <3>3, <3>4, FS_EmptySet, FS_CardinalityType
    <3>7. h[s] = w[x] + h[s \ {x}]
      BY <3>3, <3>4, <3>5, <3>6
    <3> QED BY <2>2, <3>7 DEF x
  <2> QED BY <2>1, <2>2
<1>7. Sums(h, S, w)
  <2> HIDE DEF All
  <2> QED BY <1>6 DEF Sums
<1>8. h = UnionSizes(S, c)
  BY DEF UnionSizes
<1> HIDE DEF h
<1> QED BY <1>5, <1>7, <1>8

\* What SumFunction sums.
LEMMA SumOfParts ==
  ASSUME NEW w, IsFiniteSet(DOMAIN w), NEW c, Partition(DOMAIN w, w, c)
  PROVE  /\ IsFiniteSet(UNION {c[x] : x \in DOMAIN w})
         /\ SumFunction(w) = Cardinality(UNION {c[x] : x \in DOMAIN w})
<1> DEFINE S == DOMAIN w
           h == UnionSizes(S, c)
           Def(f) == [s \in SUBSET S |->
                        IF s = {} THEN 0
                        ELSE w[CHOOSE x \in s : TRUE] + f[s \ {CHOOSE x \in s : TRUE}]]
           sum == CHOOSE f : f = Def(f)
<1>1. Sums(h, S, w) /\ IsFiniteSet(UNION {c[x] : x \in S})
  <2> HIDE DEF S
  <2>1. IsFiniteSet(S) /\ Partition(S, w, c)
    BY DEF S
  <2> QED BY <2>1, PartitionSums
<1>2. h = Def(h)
  BY <1>1 DEF Sums
<1>3. sum = Def(sum)
  <2> HIDE DEF h, Def
  <2> QED BY <1>2
<1>4. SumFunction(w) = sum[S]
  BY DEF SumFunction, SumFunctionOnSet, FoldFunctionOnSet, MapThenFoldSet
<1>5. Sums(sum, S, w)
  <2> HIDE DEF sum
  <2> QED BY <1>3 DEF Sums
<1> HIDE DEF sum, h
<1>6. sum[S] = h[S]
  <2> HIDE DEF S
  <2>1. IsFiniteSet(S)
    BY DEF S
  <2> QED BY <1>1, <1>5, <2>1, SumsOnce
<1>7. h[S] = Cardinality(UNION {c[x] : x \in S})
  BY DEF h, UnionSizes
<1> QED BY <1>1, <1>4, <1>6, <1>7

\* Groups of the things counted: each counts those with its key, and no two
\* share one.
Groups(w, counted, key, name) ==
  /\ IsFiniteSet(counted) /\ IsFiniteSet(DOMAIN w)
  /\ \A g \in DOMAIN w : w[g] = Cardinality({i \in counted : key[i] = name[g]})
  /\ \A g, k \in DOMAIN w : name[g] = name[k] => g = k

InGroups(w, counted, key, name) ==
  {i \in counted : \E g \in DOMAIN w : key[i] = name[g]}

\* They add up to the things that are in one.
LEMMA GroupsAddUp ==
  ASSUME NEW w, NEW counted, NEW key, NEW name, Groups(w, counted, key, name)
  PROVE  /\ IsFiniteSet(InGroups(w, counted, key, name))
         /\ SumFunction(w) = Cardinality(InGroups(w, counted, key, name))
<1> DEFINE c == [g \in DOMAIN w |-> {i \in counted : key[i] = name[g]}]
           union == UNION {c[g] : g \in DOMAIN w}
<1>1. Partition(DOMAIN w, w, c)
  <2>1. \A g \in DOMAIN w : IsFiniteSet(c[g]) /\ w[g] = Cardinality(c[g])
    BY FS_Subset DEF Groups
  <2>2. \A g, k \in DOMAIN w : g # k => c[g] \cap c[k] = {}
    BY DEF Groups
  <2> HIDE DEF c
  <2> QED BY <2>1, <2>2 DEF Partition
<1>2. union = InGroups(w, counted, key, name)
  BY DEF InGroups
<1>3. IsFiniteSet(union) /\ SumFunction(w) = Cardinality(union)
  <2>1. IsFiniteSet(DOMAIN w)
    BY DEF Groups
  <2> HIDE DEF c
  <2> QED BY <1>1, <2>1, SumOfParts
<1> HIDE DEF union
<1> QED BY <1>2, <1>3

-----------------------------------------------------------------------------
(* The addresses a rule may name are sequences of tokens *)

\* The first and the last position of a token, or 0.
LEMMA TokenPlaces ==
  ASSUME NEW s \in Seq(STRING), NEW token
  PROVE  FirstOf(s, token) \in 0..Len(s) /\ LastOf(s, token) \in 0..Len(s)
<1> DEFINE I == {i \in 1..Len(s) : s[i] = token}
           R == {Len(s) - i : i \in I}
<1>1. Len(s) \in Nat
  OBVIOUS
<1>2. CASE I = {}
  BY <1>1, <1>2 DEF FirstOf, LastOf, SelectInSeq, SelectLastInSeq
<1>3. CASE I # {}
  <2>1. \E x \in I : \A y \in I : x <= y
    <3>1. I \subseteq Nat
      BY <1>1
    <3> HIDE DEF I
    <3> QED BY <1>3, <3>1, Least
  <2>2. \E x \in I : \A y \in I : x >= y
    <3>1. R \subseteq Nat /\ R # {}
      BY <1>1, <1>3
    <3>2. PICK z \in R : \A y \in R : z <= y
      <4> HIDE DEF R
      <4> QED BY <3>1, Least
    <3>3. PICK x \in I : z = Len(s) - x
      OBVIOUS
    <3>4. ASSUME NEW y \in I PROVE x >= y
      <4>1. Len(s) - x <= Len(s) - y
        BY <3>2, <3>3
      <4>2. x \in Nat /\ y \in Nat
        BY <1>1
      <4> HIDE DEF I
      <4> QED BY <1>1, <4>1, <4>2
    <3> QED BY <3>4
  <2>3. Min(I) \in I /\ Max(I) \in I
    <3> HIDE DEF I
    <3> QED BY <2>1, <2>2 DEF Min, Max
  <2>4. FirstOf(s, token) = Min(I) /\ LastOf(s, token) = Max(I)
    BY <1>3 DEF FirstOf, LastOf, SelectInSeq, SelectLastInSeq
  <2> QED BY <1>1, <2>3, <2>4
<1> QED BY <1>2, <1>3

\* An address is made of tokens, and so is its domain.
LEMMA AddressTokens ==
  ASSUME NEW raw \in Seq(STRING)
  PROVE  ScanAddress(raw) \in Seq(STRING) /\ DomainOf(ScanAddress(raw)) \in Seq(STRING)
<1>1. ScanAddress(raw) \in Seq(STRING)
  <2> DEFINE open == FirstOf(raw, "<")   close == FirstOf(raw, ">")
  <2>1. open \in 0..Len(raw) /\ close \in 0..Len(raw) /\ Len(raw) \in Nat
    BY TokenPlaces
  <2> HIDE DEF open, close
  <2>2. CASE open # 0 /\ close # 0 /\ open < close
    <3>1. \A i \in open + 1 .. close - 1 : raw[i] \in STRING
      BY <2>1
    <3>2. open + 1 \in Int /\ close - 1 \in Int
      BY <2>1
    <3>3. SubSeq(raw, open + 1, close - 1) \in Seq(STRING)
      BY <3>1, <3>2, SubSeqProperties
    <3>4. ScanAddress(raw) = SubSeq(raw, open + 1, close - 1)
      BY <2>2 DEF ScanAddress, Between, open, close
    <3> QED BY <3>3, <3>4
  <2>3. CASE ~(open # 0 /\ close # 0 /\ open < close)
    BY <2>3 DEF ScanAddress, Between, open, close
  <2> QED BY <2>2, <2>3
<1> DEFINE a == ScanAddress(raw)   at == LastOf(a, "@")
<1> HIDE DEF a
<1>2. a \in Seq(STRING)
  BY <1>1 DEF a
<1>3. at \in 0..Len(a) /\ Len(a) \in Nat
  BY <1>2, TokenPlaces
<1> HIDE DEF at
<1>4. \A i \in at + 1 .. Len(a) : a[i] \in STRING
  BY <1>2, <1>3
<1>5. at + 1 \in Int /\ Len(a) \in Int
  BY <1>3
<1>6. SubSeq(a, at + 1, Len(a)) \in Seq(STRING)
  BY <1>4, <1>5, SubSeqProperties
<1> QED BY <1>1, <1>6 DEF DomainOf, a, at

\* No address is empty, and neither is its domain.
LEMMA AddressNotEmpty ==
  ASSUME NEW a \in Seq(STRING), IsAddress(a)
  PROVE  a # <<>> /\ DomainOf(a) # <<>>
<1> SUFFICES ASSUME a = <<>> PROVE FALSE
  BY DEF IsAddress
<1>1. LastOf(a, "@") \in 0..Len(a) /\ Len(a) = 0
  BY TokenPlaces
<1> QED BY <1>1 DEF IsAddress

-----------------------------------------------------------------------------
(* The rules as the daemon reads them *)

FilterFields == {"sender_in", "subject_regex", "list_unsubscribe", "header_match", "tag"}

Replaced(senders) ==
  {[i \in DOMAIN s |-> SubstituteEnvVars(s[i])] : s \in senders}

\* A rule the daemon takes.
Sound(rule) == rule # None /\ ValidFilter(rule) /\ IsRegex(rule)

\* An entry without references is read as it is written.
LEMMA FilterIsRead ==
  ASSUME NEW entry, NEW read,
         Interpolate(entry, {"subject_regex", "tag"}) = entry,
         Refusing(entry, {"tag"}, FilterRule) = read, read # None,
         read = [field \in FilterFields |-> read[field]],
         read.header_match # None => ReadHeaderMatch(read.header_match) = read.header_match,
         read.sender_in # None => Replaced(read.sender_in) = read.sender_in
  PROVE  ReadFilter(entry) = read
<1>a. PICK h : h = read.header_match
  OBVIOUS
<1>b. PICK s : s = read.sender_in
  OBVIOUS
<1>c. PICK r : r = [read EXCEPT !.header_match = h]
  OBVIOUS
<1>1. r = read
  <2>1. "header_match" \in FilterFields
    BY DEF FilterFields
  <2> QED BY <1>a, <1>c, <2>1
<1>2. [read EXCEPT !.sender_in = s] = read
  <2>1. "sender_in" \in FilterFields
    BY DEF FilterFields
  <2> QED BY <1>b, <2>1
<1>3. [read EXCEPT !.header_match = h, !.sender_in = s] = [r EXCEPT !.sender_in = s]
  BY <1>c
<1>4. /\ h = (IF read.header_match = None THEN None ELSE ReadHeaderMatch(read.header_match))
      /\ s = (IF read.sender_in = None THEN None ELSE Replaced(read.sender_in))
  BY <1>a, <1>b
<1>5. ReadFilter(entry) = [read EXCEPT !.header_match = h, !.sender_in = s]
  BY <1>4, <1>a DEF ReadFilter, Replaced
<1> QED BY <1>1, <1>2, <1>3, <1>5

\* A rule for unsubscribable mail.
LEMMA ReadsListUnsubscribe ==
  ASSUME NEW n
  PROVE  LET rule == ReadFilter(RenderYaml(Suggestion(ListUnsubscribe, "newsletter", n)))
         IN FilterType(rule) = "list_unsubscribe" /\ Sound(rule)
<1> DEFINE entry == [list_unsubscribe |-> TRUE, tag |-> "newsletter"]
           read == [sender_in |-> None, subject_regex |-> None,
                    list_unsubscribe |-> TRUE, header_match |-> None, tag |-> "newsletter"]
           rule == ReadFilter(RenderYaml(Suggestion(ListUnsubscribe, "newsletter", n)))
<1>1. RenderYaml(Suggestion(ListUnsubscribe, "newsletter", n)) = entry
  BY DEF RenderYaml, Suggestion, ListUnsubscribe
<1>2. Interpolate(entry, {"subject_regex", "tag"}) = entry
  <2>1. "newsletter" \notin DOMAIN Reference
    BY PatternAssumption DEF Words
  <2> QED BY <2>1 DEF Interpolate, SubstituteEnvVars
<1>3. Refusing(entry, {"tag"}, FilterRule) = read
  BY DEF Refusing, Ignoring, FilterRule
<1>4. read # None
  <2>1. TRUE \in BOOLEAN
    BY Zenon
  <2>2. "newsletter" \in Words /\ None \in {None}
    BY DEF Words
  <2>3. read \in RuleSpec
    BY <2>1, <2>2, Zenon DEF RuleSpec
  <2> HIDE DEF read
  <2> QED BY <2>3, NoneAssumption
<1>5. rule = read
  <2>1. read.header_match = None /\ read.sender_in = None
    OBVIOUS
  <2>2. read = [field \in FilterFields |-> read[field]]
    BY DEF FilterFields
  <2> HIDE DEF read, entry
  <2> QED BY <1>1, <1>2, <1>3, <1>4, <2>1, <2>2, FilterIsRead
<1>6. /\ FilterType(read) = "list_unsubscribe"
      /\ \A type \in FilterTypes : Declares(read, type) <=> type = "list_unsubscribe"
  BY DEF FilterType, Declares, FilterTypes
<1>7. read.tag # "" /\ read.subject_regex # ""
  BY NoneAssumption
<1> HIDE DEF rule, read
<1>8. Sound(read)
  BY <1>4, <1>6, <1>7 DEF Sound, ValidFilter, ExactlyOneType, IsRegex, FilterTypes
<1> QED BY <1>5, <1>6, <1>8 DEF rule

\* A rule for a header.
LEMMA ReadsHeaderMatch ==
  ASSUME NEW tag \in Words, NEW n,
         NEW header \in Words,
         NEW pattern \in Words
  PROVE  LET rule == ReadFilter(RenderYaml(Suggestion(HeaderMatch(header, pattern), tag, n)))
         IN /\ FilterType(rule) = "header_match"
            /\ rule.header_match = [header |-> header, pattern |-> pattern]
            /\ pattern \in DOMAIN Regex => Sound(rule)
<1> DEFINE spec == [header |-> header, pattern |-> pattern]
           entry == [header_match |-> spec, tag |-> tag]
           read == [sender_in |-> None, subject_regex |-> None,
                    list_unsubscribe |-> FALSE, header_match |-> spec, tag |-> tag]
           rule == ReadFilter(RenderYaml(Suggestion(HeaderMatch(header, pattern), tag, n)))
<1>1. RenderYaml(Suggestion(HeaderMatch(header, pattern), tag, n)) = entry
  BY DEF RenderYaml, Suggestion, HeaderMatch
<1>2. Interpolate(entry, {"subject_regex", "tag"}) = entry
  <2>1. tag \notin DOMAIN Reference
    BY PatternAssumption
  <2> QED BY <2>1 DEF Interpolate, SubstituteEnvVars
<1>3. Refusing(entry, {"tag"}, FilterRule) = read
  BY DEF Refusing, Ignoring, FilterRule
<1>4. spec # None
  <2>1. spec \in HeaderSpec
    BY DEF HeaderSpec
  <2> QED BY <2>1, NoneAssumption
<1>5. read # None
  <2>1. spec \in HeaderSpec
    BY DEF HeaderSpec
  <2> HIDE DEF spec
  <2>2. read \in RuleSpec
    BY <2>1 DEF RuleSpec
  <2> HIDE DEF read
  <2> QED BY <2>2, NoneAssumption
<1>6. ReadHeaderMatch(spec) = spec
  <2>1. Interpolate(spec, DOMAIN spec) = spec
    <3>1. header \notin DOMAIN Reference /\ pattern \notin DOMAIN Reference
      BY PatternAssumption
    <3> QED BY <3>1 DEF Interpolate, SubstituteEnvVars
  <2>2. DOMAIN spec = {"header", "pattern"} /\ DOMAIN <<>> = {}
    OBVIOUS
  <2>3. spec = [field \in {"header", "pattern"} |->
                  IF field \in DOMAIN spec THEN spec[field] ELSE <<>>[field]]
    BY <2>2
  <2> HIDE DEF spec
  <2> QED BY <2>1, <2>2, <2>3 DEF ReadHeaderMatch, Refusing, Ignoring
<1>7. rule = read
  <2> HIDE DEF spec
  <2>1. read.header_match = spec /\ read.sender_in = None
    OBVIOUS
  <2>2. read = [field \in FilterFields |-> read[field]]
    BY DEF FilterFields
  <2> HIDE DEF read, entry
  <2> QED BY <1>1, <1>2, <1>3, <1>5, <1>6, <2>1, <2>2, FilterIsRead
<1>8. spec.header = header /\ spec.pattern = pattern
  OBVIOUS
<1> HIDE DEF spec, rule
<1>9. /\ FilterType(read) = "header_match" /\ read.header_match = spec
      /\ \A type \in FilterTypes : Declares(read, type) <=> type = "header_match"
  BY <1>4 DEF FilterType, Declares, FilterTypes
<1>10. /\ read.tag # "" /\ read.subject_regex # ""
       /\ spec.header # "" /\ spec.pattern # ""
  BY <1>8, NoneAssumption DEF Words
<1> HIDE DEF read
<1>11. pattern \in DOMAIN Regex => Sound(read)
  BY <1>5, <1>8, <1>9, <1>10
     DEF Sound, ValidFilter, ExactlyOneType, IsRegex, Compile, FilterTypes
<1> QED BY <1>7, <1>9, <1>11 DEF rule, spec

\* A rule for senders whose names hold no reference.
LEMMA ReadsSenderIn ==
  ASSUME NEW tag \in Words, NEW n,
         NEW senders \in SUBSET (Authors \cup Domains),
         \A s \in senders : s \in Seq(STRING) /\ ToSet(s) \cap DOMAIN Reference = {}
  PROVE  LET rule == ReadFilter(RenderYaml(Suggestion(SenderIn(senders), tag, n)))
         IN /\ FilterType(rule) = "sender_in"
            /\ rule.sender_in = senders
            /\ (\E s \in senders : s # <<>>) => Sound(rule)
<1> DEFINE entry == [sender_in |-> senders, tag |-> tag]
           read == [sender_in |-> senders, subject_regex |-> None,
                    list_unsubscribe |-> FALSE, header_match |-> None, tag |-> tag]
           rule == ReadFilter(RenderYaml(Suggestion(SenderIn(senders), tag, n)))
<1>1. RenderYaml(Suggestion(SenderIn(senders), tag, n)) = entry
  BY DEF RenderYaml, Suggestion, SenderIn
<1>2. Interpolate(entry, {"subject_regex", "tag"}) = entry
  <2>1. tag \notin DOMAIN Reference
    BY PatternAssumption
  <2> QED BY <2>1 DEF Interpolate, SubstituteEnvVars
<1>3. Refusing(entry, {"tag"}, FilterRule) = read
  BY DEF Refusing, Ignoring, FilterRule
<1>4. senders # None
  BY NoneAssumption
<1>5. read # None
  <2>1. read \in RuleSpec
    BY DEF RuleSpec
  <2> HIDE DEF read
  <2> QED BY <2>1, NoneAssumption
<1>6. Replaced(senders) = senders
  <2>1. ASSUME NEW s \in senders
        PROVE  [i \in DOMAIN s |-> SubstituteEnvVars(s[i])] = s
    <3>1. \A i \in DOMAIN s : SubstituteEnvVars(s[i]) = s[i]
      BY DEF SubstituteEnvVars, ToSet
    <3>2. s = [i \in DOMAIN s |-> s[i]]
      OBVIOUS
    <3> QED BY <3>1, <3>2
  <2> QED BY <2>1 DEF Replaced
<1>7. rule = read
  <2>1. read.header_match = None /\ read.sender_in = senders
    OBVIOUS
  <2>2. read = [field \in FilterFields |-> read[field]]
    BY DEF FilterFields
  <2> HIDE DEF read, entry
  <2> QED BY <1>1, <1>2, <1>3, <1>5, <1>6, <2>1, <2>2, FilterIsRead
<1> HIDE DEF rule
<1>8. /\ FilterType(read) = "sender_in" /\ read.sender_in = senders
      /\ \A type \in FilterTypes : Declares(read, type) <=> type = "sender_in"
  BY <1>4 DEF FilterType, Declares, FilterTypes
<1>9. read.tag # "" /\ read.subject_regex # ""
  BY NoneAssumption DEF Words
<1> HIDE DEF read
<1>10. (\E s \in senders : s # <<>>) => Sound(read)
  BY <1>5, <1>8, <1>9 DEF Sound, ValidFilter, ExactlyOneType, IsRegex, FilterTypes
<1> QED BY <1>7, <1>8, <1>10 DEF rule

-----------------------------------------------------------------------------
(* What the analyzers count *)

\* As many as have each key, for the keys there are.
CountsOf(counts, counted, key) ==
  /\ IsFiniteSet(counted)
  /\ DOMAIN counts = {key[i] : i \in counted}
  /\ \A k \in DOMAIN counts : counts[k] = Cardinality({i \in counted : key[i] = k})

\* The busiest keys are some of them.
LEMMA CountsKept ==
  ASSUME NEW counts, NEW counted, NEW key, CountsOf(counts, counted, key)
  PROVE  LET kept == Busiest(counts)
         IN /\ kept \subseteq DOMAIN counts /\ IsFiniteSet(kept)
            /\ IsTop(kept, DOMAIN counts, counts, Min({Top, Cardinality(DOMAIN counts)}))
<1>1. IsFiniteSet(DOMAIN counts)
  <2> DEFINE f == [i \in counted |-> key[i]]
  <2>1. f \in Surjection(counted, DOMAIN counts) /\ IsFiniteSet(counted)
    BY DEF CountsOf, Surjection
  <2> HIDE DEF f
  <2> QED BY <2>1, FS_Surjection
<1>2. ASSUME NEW k \in DOMAIN counts PROVE counts[k] \in Nat
  <2> DEFINE has == {i \in counted : key[i] = k}
  <2>1. counts[k] = Cardinality(has) /\ IsFiniteSet(counted)
    BY DEF CountsOf
  <2>2. IsFiniteSet(has)
    BY <2>1, FS_Subset
  <2> HIDE DEF has
  <2> QED BY <2>1, <2>2, FS_CardinalityType
<1> QED BY <1>1, <1>2, BusiestKept

\* Rows that count messages by domain, each its own.
CountedRows(rows, counted, key) ==
  /\ IsFiniteSet(rows) /\ IsFiniteSet(counted)
  /\ \A r \in rows : r.messages = Cardinality({i \in counted : key[i] = r.domain})
  /\ \A r, q \in rows : r.domain = q.domain => r = q
  /\ \A r \in rows : \E i \in counted : key[i] = r.domain

\* Some of the rows add up to the messages of their domains.
LEMMA RowsAddUp ==
  ASSUME NEW all, NEW counted, NEW key, CountedRows(all, counted, key),
         NEW rows \in SUBSET all
  PROVE  SumOf(rows) = Cardinality({i \in counted : \E r \in rows : key[i] = r.domain})
<1> DEFINE w == [r \in rows |-> r.messages]
           name == [r \in rows |-> r.domain]
<1>1. Groups(w, counted, key, name)
  <2>1. IsFiniteSet(rows)
    BY FS_Subset DEF CountedRows
  <2>2. \A r \in rows : w[r] = Cardinality({i \in counted : key[i] = name[r]})
    BY DEF CountedRows
  <2>3. \A r, q \in rows : name[r] = name[q] => r = q
    BY DEF CountedRows
  <2>4. DOMAIN w = rows
    OBVIOUS
  <2> HIDE DEF w, name
  <2> QED BY <2>1, <2>2, <2>3, <2>4 DEF Groups, CountedRows
<1>2. SumOf(rows) = SumFunction(w)
  BY DEF SumOf
<1>3. InGroups(w, counted, key, name) = {i \in counted : \E r \in rows : key[i] = r.domain}
  BY DEF InGroups
<1> HIDE DEF w, name
<1> QED BY <1>1, <1>2, <1>3, GroupsAddUp

Addressed(inbox, detected) ==
  {i \in detected : IsAddress(ScanAddress(inbox[i].envelope.from))}
DomainKey(inbox) ==
  [i \in DOMAIN inbox |-> DomainOf(ScanAddress(inbox[i].envelope.from))]

\* The domains of what an analyzer detects are counted.
LEMMA DomainsCounted ==
  ASSUME NEW inbox, IsFiniteSet(DOMAIN inbox), NEW detected \in SUBSET DOMAIN inbox
  PROVE  CountedRows(ByDomain(inbox, detected), Addressed(inbox, detected), DomainKey(inbox))
<1> DEFINE counted == Addressed(inbox, detected)
           key == DomainKey(inbox)
           counts == [d \in {key[i] : i \in counted} |-> Cardinality({i \in counted : key[i] = d})]
           kept == Busiest(counts)
           row == [d \in kept |-> [domain |-> d, messages |-> counts[d]]]
           rows == {row[d] : d \in kept}
<1>1. counted \subseteq DOMAIN inbox /\ IsFiniteSet(counted)
  <2>1. counted \subseteq DOMAIN inbox
    BY DEF Addressed
  <2> HIDE DEF counted
  <2> QED BY <2>1, FS_Subset
<1>2. CountsOf(counts, counted, key)
  BY <1>1 DEF CountsOf
<1>3. kept \subseteq DOMAIN counts /\ IsFiniteSet(kept)
  <2> HIDE DEF counts, counted, key
  <2> QED BY <1>2, CountsKept
<1>4. ByDomain(inbox, detected) = rows
  <2> DEFINE from(i) == ScanAddress(inbox[i].envelope.from)
             c == {i \in detected : IsAddress(from(i))}
             g == [d \in {DomainOf(from(i)) : i \in c} |->
                     Cardinality({i \in c : DomainOf(from(i)) = d})]
  <2>1. c = counted
    BY DEF Addressed
  <2>2. \A i \in c : DomainOf(from(i)) = key[i]
    BY DEF DomainKey
  <2>3. /\ {DomainOf(from(i)) : i \in c} = {key[i] : i \in counted}
        /\ \A d : {i \in c : DomainOf(from(i)) = d} = {i \in counted : key[i] = d}
    <3> HIDE DEF from, key, counted, c
    <3> QED BY <2>1, <2>2
  <2>4. g = counts
    <3> HIDE DEF from, key, counted, c
    <3> QED BY <2>3
  <2>5. ByDomain(inbox, detected)
          = {[domain |-> d, messages |-> g[d]] : d \in Busiest(g)}
    BY DEF ByDomain
  <2> HIDE DEF g, counts
  <2>6. ByDomain(inbox, detected) = {[domain |-> d, messages |-> counts[d]] : d \in kept}
    BY <2>4, <2>5
  <2> HIDE DEF kept
  <2> QED BY <2>6
<1>5. \A r \in rows : r.domain \in kept /\ r = row[r.domain] /\ r.messages = counts[r.domain]
  <2> HIDE DEF kept, counts
  <2> QED OBVIOUS
<1>6. IsFiniteSet(rows)
  <2>1. row \in Surjection(kept, rows)
    <3> HIDE DEF kept, counts
    <3> QED BY DEF Surjection
  <2> HIDE DEF row, rows, kept
  <2> QED BY <1>3, <2>1, FS_Surjection
<1>7. \A r \in rows : r.messages = Cardinality({i \in counted : key[i] = r.domain})
  <2> HIDE DEF rows, kept, key, counted
  <2> QED BY <1>3, <1>5
<1> HIDE DEF rows, row, key, counted
<1>8. \A r, q \in rows : r.domain = q.domain => r = q
  BY <1>5
<1>10. \A r \in rows : \E i \in counted : key[i] = r.domain
  BY <1>2, <1>3, <1>5 DEF CountsOf
<1>9. CountedRows(rows, counted, key)
  BY <1>1, <1>6, <1>7, <1>8, <1>10 DEF CountedRows
<1> QED BY <1>4, <1>9 DEF counted, key

Bulk(inbox) == {i \in DOMAIN inbox : inbox[i].headers.list_unsubscribe}

\* So are those of the newsletters.
LEMMA NewslettersCounted ==
  ASSUME NEW inbox, IsFiniteSet(DOMAIN inbox)
  PROVE  CountedRows(DetectNewsletters(inbox), Addressed(inbox, Bulk(inbox)), DomainKey(inbox))
<1> DEFINE counted == Addressed(inbox, Bulk(inbox))
           key == DomainKey(inbox)
           groups == ByDomain(inbox, Bulk(inbox))
           senders == {ScanAddress(inbox[i].envelope.from) : i \in Bulk(inbox)}
           own(d) == Cardinality({s \in senders : IsAddress(s) /\ DomainOf(s) = d})
           row == [g \in groups |-> [domain |-> g.domain, messages |-> g.messages,
                                     distinct_senders |-> own(g.domain)]]
           rows == {row[g] : g \in groups}
<1>1. CountedRows(groups, counted, key)
  <2>1. Bulk(inbox) \in SUBSET DOMAIN inbox
    BY DEF Bulk
  <2> QED BY <2>1, DomainsCounted
<1>2. DetectNewsletters(inbox) = rows
  <2>1. DetectNewsletters(inbox) =
          {[domain |-> g.domain, messages |-> g.messages,
            distinct_senders |-> own(g.domain)] : g \in groups}
    BY DEF DetectNewsletters, Bulk
  <2> HIDE DEF groups, own
  <2> QED BY <2>1
<1>3. ASSUME NEW r \in rows
      PROVE  \E g \in groups : r = row[g] /\ r.domain = g.domain /\ r.messages = g.messages
  <2> HIDE DEF groups, own
  <2> QED OBVIOUS
<1>4. IsFiniteSet(rows)
  <2>1. row \in Surjection(groups, rows)
    <3> HIDE DEF groups, own
    <3> QED BY DEF Surjection
  <2> HIDE DEF row, rows, groups
  <2> QED BY <1>1, <2>1, FS_Surjection DEF CountedRows
<1> HIDE DEF rows, row, groups, counted, key
<1>5. CountedRows(rows, counted, key)
  <2>1. \A r \in rows : r.messages = Cardinality({i \in counted : key[i] = r.domain})
    BY <1>1, <1>3 DEF CountedRows
  <2>2. ASSUME NEW r \in rows, NEW q \in rows, r.domain = q.domain PROVE r = q
    BY <1>1, <1>3, <2>2 DEF CountedRows
  <2>3. \A r \in rows : \E i \in counted : key[i] = r.domain
    BY <1>1, <1>3 DEF CountedRows
  <2> QED BY <1>1, <1>4, <2>1, <2>2, <2>3 DEF CountedRows
<1> QED BY <1>2, <1>5 DEF counted, key

\* The mailing lists add up to the messages that name one of them.
LEMMA ListsAddUp ==
  ASSUME NEW inbox, IsFiniteSet(DOMAIN inbox)
  PROVE  \E E : /\ SumOf(DetectMailingLists(inbox)) = Cardinality(E)
                /\ E \subseteq {i \in DOMAIN inbox : inbox[i].headers.list_id \notin {None, "<>"}}
<1> DEFINE key == [i \in DOMAIN inbox |-> inbox[i].headers.list_id]
           counted == {i \in DOMAIN inbox : key[i] \notin {None, "<>"}}
           counts == [k \in {key[i] : i \in counted} |-> Cardinality({i \in counted : key[i] = k})]
           kept == Busiest(counts)
           row == [k \in kept |-> [list_id |-> k, messages |-> counts[k]]]
           rows == {row[k] : k \in kept}
           w == [r \in rows |-> r.messages]
           name == [r \in rows |-> r.list_id]
<1>1. IsFiniteSet(counted)
  <2>1. counted \subseteq DOMAIN inbox
    OBVIOUS
  <2> HIDE DEF counted
  <2> QED BY <2>1, FS_Subset
<1>2. CountsOf(counts, counted, key)
  BY <1>1 DEF CountsOf
<1>3. kept \subseteq DOMAIN counts /\ IsFiniteSet(kept)
  <2> HIDE DEF counts, counted, key
  <2> QED BY <1>2, CountsKept
<1>4. DetectMailingLists(inbox) = rows
  <2> DEFINE lists == {inbox[i].headers.list_id : i \in DOMAIN inbox} \ {None, "<>"}
             g == [k \in lists |-> Cardinality({i \in DOMAIN inbox : inbox[i].headers.list_id = k})]
  <2>1. lists = {key[i] : i \in counted}
    OBVIOUS
  <2>2. ASSUME NEW k \in lists
        PROVE  {i \in DOMAIN inbox : inbox[i].headers.list_id = k} = {i \in counted : key[i] = k}
    OBVIOUS
  <2>3. g = counts
    <3> HIDE DEF lists, key, counted
    <3> QED BY <2>1, <2>2
  <2>4. DetectMailingLists(inbox) = {[list_id |-> k, messages |-> g[k]] : k \in Busiest(g)}
    BY DEF DetectMailingLists, Tally
  <2> HIDE DEF g, counts
  <2>5. DetectMailingLists(inbox) = {[list_id |-> k, messages |-> counts[k]] : k \in kept}
    BY <2>3, <2>4
  <2> HIDE DEF kept
  <2> QED BY <2>5
<1>5. \A r \in rows : r.list_id \in kept /\ r = row[r.list_id] /\ r.messages = counts[r.list_id]
  <2> HIDE DEF kept, counts
  <2> QED OBVIOUS
<1>6. IsFiniteSet(rows)
  <2>1. row \in Surjection(kept, rows)
    <3> HIDE DEF kept, counts
    <3> QED BY DEF Surjection
  <2> HIDE DEF row, rows, kept
  <2> QED BY <1>3, <2>1, FS_Surjection
<1>7. \A r \in rows : w[r] = Cardinality({i \in counted : key[i] = name[r]})
  <2> HIDE DEF rows, kept, key, counted
  <2> QED BY <1>3, <1>5
<1>8. \A r, q \in rows : name[r] = name[q] => r = q
  <2> HIDE DEF rows, row, kept
  <2> QED BY <1>5
<1>9. Groups(w, counted, key, name)
  <2>1. DOMAIN w = rows
    OBVIOUS
  <2> HIDE DEF rows, key, counted, w, name
  <2> QED BY <1>1, <1>6, <1>7, <1>8, <2>1 DEF Groups
<1>10. SumOf(rows) = SumFunction(w)
  BY DEF SumOf
<1>11. SumFunction(w) = Cardinality(InGroups(w, counted, key, name))
  <2> HIDE DEF key, counted, w, name
  <2> QED BY <1>9, GroupsAddUp
<1>12. InGroups(w, counted, key, name)
         \subseteq {i \in DOMAIN inbox : inbox[i].headers.list_id \notin {None, "<>"}}
  <2>1. InGroups(w, counted, key, name) \subseteq counted
    BY DEF InGroups
  <2>2. counted = {i \in DOMAIN inbox : inbox[i].headers.list_id \notin {None, "<>"}}
    OBVIOUS
  <2> HIDE DEF counted, w, name, key
  <2> QED BY <2>1, <2>2
<1> HIDE DEF rows, w, name, key, counted
<1> QED BY <1>4, <1>10, <1>11, <1>12

\* The contacts' messages add up to messages they wrote.
LEMMA ContactsAddUp ==
  ASSUME NEW all, NEW envelopes, IsFiniteSet(DOMAIN envelopes), NEW sent,
         ContactList(all, envelopes, sent), NEW contacts \in SUBSET all
  PROVE  SumFunction([c \in contacts |-> c.messages_received])
           = Cardinality({i \in DOMAIN envelopes :
                            \E c \in contacts : ScanAddress(envelopes[i].from) = c.address})
<1> DEFINE w == [c \in contacts |-> c.messages_received]
           name == [c \in contacts |-> c.address]
           key == [i \in DOMAIN envelopes |-> ScanAddress(envelopes[i].from)]
           counted == DOMAIN envelopes
<1>1. Groups(w, counted, key, name)
  <2>1. IsFiniteSet(contacts)
    BY FS_Subset DEF ContactList
  <2>2. ASSUME NEW c \in contacts
        PROVE  w[c] = Cardinality({i \in counted : key[i] = name[c]})
    <3>1. {i \in counted : key[i] = name[c]}
            = {i \in DOMAIN envelopes : ScanAddress(envelopes[i].from) = c.address}
      OBVIOUS
    <3>2. w[c] = Cardinality({i \in DOMAIN envelopes : ScanAddress(envelopes[i].from) = c.address})
      BY DEF ContactList
    <3> QED BY <3>1, <3>2
  <2>3. \A c, d \in contacts : name[c] = name[d] => c = d
    BY DEF ContactList
  <2>4. DOMAIN w = contacts
    OBVIOUS
  <2> HIDE DEF w, name, key
  <2> QED BY <2>1, <2>2, <2>3, <2>4 DEF Groups
<1>2. InGroups(w, counted, key, name)
        = {i \in DOMAIN envelopes :
             \E c \in contacts : ScanAddress(envelopes[i].from) = c.address}
  BY DEF InGroups
<1>3. SumFunction(w) = Cardinality(InGroups(w, counted, key, name))
  <2> HIDE DEF w, name, key, counted
  <2> QED BY <1>1, GroupsAddUp
<1> HIDE DEF name, key, counted
<1> QED BY <1>2, <1>3

-----------------------------------------------------------------------------
(* The evidence of a rule *)

\* A scan that is done has scanned its inbox, and suggests what that says.
ScanDone ==
  /\ IsFiniteSet(DOMAIN scanned) /\ DOMAIN scanned = DOMAIN InboxMail
  /\ Len(scanned) \in Nat /\ DOMAIN scanned = 1..Len(scanned)
  /\ \A i \in DOMAIN scanned :
       /\ InboxMail[i] \in Message
       /\ scanned[i].envelope = Envelope(InboxMail[i])
       /\ scanned[i].headers \in HeadersOf(InboxMail[i])
  /\ report = Analyze(scanned, SentEnvelopes)
  /\ suggestions = Suggest(report, options.minEvidence)

\* The scan invariant says so.
LEMMA DoneIsScanned ==
  ASSUME ScanInv, pc = "done"
  PROVE  ScanDone
<1>1. /\ fetched \in Seq(Message) /\ scanned \in Seq(Scanned)
      /\ Len(scanned) = Len(InboxMail)
      /\ \A i \in 1..Len(scanned) : /\ scanned[i].envelope = Envelope(InboxMail[i])
                                    /\ scanned[i].headers \in HeadersOf(InboxMail[i])
      /\ report = Analyze(scanned, SentEnvelopes)
      /\ suggestions = Suggest(report, options.minEvidence)
  BY DEF ScanInv, ScanOK, FetchInv, FetchOK
<1>2. InboxMail \in Seq(Message)
  BY <1>1, InClassOf DEF InboxMail
<1>3. DOMAIN scanned = 1..Len(scanned) /\ Len(scanned) \in Nat /\ DOMAIN InboxMail = 1..Len(InboxMail)
  BY <1>1, <1>2
<1>4. IsFiniteSet(DOMAIN scanned)
  BY <1>3, FS_Interval
<1> QED BY <1>1, <1>2, <1>3, <1>4 DEF ScanDone

\* The messages a rule tags, or whose sender is read in two ways.
Backing(rule) ==
  {i \in DOMAIN InboxMail :
     \/ Matches(rule, View(InboxMail[i]))
     \/ ScanAddress(Envelope(InboxMail[i]).from) # FilterAddress(Envelope(InboxMail[i]).from)}

Evidence(rule, evidence) == \E E \in SUBSET Backing(rule) : evidence = Cardinality(E)

\* So many that the evidence is among them.
LEMMA EvidenceBacks ==
  ASSUME ScanDone, NEW rule, NEW evidence, Evidence(rule, evidence)
  PROVE  evidence <= Cardinality(Backing(rule))
<1>1. PICK E : E \subseteq Backing(rule) /\ evidence = Cardinality(E)
  BY DEF Evidence
<1>2. Backing(rule) \subseteq DOMAIN InboxMail
  BY DEF Backing
<1>3. IsFiniteSet(Backing(rule))
  BY <1>2, FS_Subset DEF ScanDone
<1> QED BY <1>1, <1>3, FS_Subset

Rendered(kind, tag, n) == ReadFilter(RenderYaml(Suggestion(kind, tag, n)))

\* The newsletters of a report are unsubscribable messages.
LEMMA NewslettersBacked ==
  ASSUME ScanDone
  PROVE  LET n == SumOf(report.newsletters)
         IN Evidence(Rendered(ListUnsubscribe, "newsletter", n), n)
<1> DEFINE n == SumOf(report.newsletters)
           rule == Rendered(ListUnsubscribe, "newsletter", n)
           rows == DetectNewsletters(scanned)
           counted == Addressed(scanned, Bulk(scanned))
           key == DomainKey(scanned)
           E == {i \in counted : \E r \in rows : key[i] = r.domain}
<1>1. report.newsletters = rows
  BY DEF ScanDone, Analyze
<1>2. n = Cardinality(E)
  <2>1. CountedRows(rows, counted, key)
    BY NewslettersCounted DEF ScanDone
  <2> HIDE DEF rows, counted, key
  <2> QED BY <1>1, <2>1, RowsAddUp
<1>3. FilterType(rule) = "list_unsubscribe"
  <2> HIDE DEF n
  <2> QED BY ReadsListUnsubscribe DEF Rendered
<1>4. ASSUME NEW i \in E
      PROVE  i \in Backing(rule)
  <2>1. i \in DOMAIN InboxMail /\ scanned[i].headers \in HeadersOf(InboxMail[i])
        /\ scanned[i].headers.list_unsubscribe
    BY DEF ScanDone, Addressed, Bulk
  <2>2. ~NoHeaders.list_unsubscribe
    BY DEF NoHeaders
  <2>3. scanned[i].headers = ParseHeaders(Mail[InboxMail[i]].eml)
    BY <2>1, <2>2 DEF HeadersOf
  <2>4. ParseHeaders(Mail[InboxMail[i]].eml).list_unsubscribe
          <=> Present(Mail[InboxMail[i]].eml.list_unsubscribe)
    BY DEF ParseHeaders
  <2>5. View(InboxMail[i]).headers.list_unsubscribe # None
    BY <2>1, <2>3, <2>4 DEF Present, View
  <2>6. Matches(rule, View(InboxMail[i]))
    <3> HIDE DEF rule
    <3> QED BY <1>3, <2>5 DEF Matches
  <2> HIDE DEF rule, E
  <2> QED BY <2>1, <2>6 DEF Backing
<1> HIDE DEF E, rule
<1> QED BY <1>2, <1>4 DEF Evidence, rule

\* A rule for a header is backed by the messages with a value it matches.
LEMMA HeaderMatched ==
  ASSUME NEW i \in DOMAIN InboxMail, InboxMail[i] \in Message,
         NEW header \in {"list_id", "x_spam_flag"}, NEW tag \in Words, NEW n,
         NEW pattern \in Words,
         Mail[InboxMail[i]].eml[header] \in Regex[pattern]
  PROVE  i \in Backing(Rendered(HeaderMatch(header, pattern), tag, n))
<1> DEFINE rule == Rendered(HeaderMatch(header, pattern), tag, n)
           m == InboxMail[i]
<1>1. header \in Words
  BY DEF Words
<1>2. /\ FilterType(rule) = "header_match"
      /\ rule.header_match = [header |-> header, pattern |-> pattern]
  BY <1>1, ReadsHeaderMatch DEF Rendered
<1>3. header \in DOMAIN View(m).headers /\ View(m).headers[header] \in Regex[pattern]
  BY ScanAssumption DEF View, Message
<1>4. Matches(rule, View(m))
  <2> HIDE DEF rule, m
  <2> QED BY <1>2, <1>3 DEF Matches
<1> QED BY <1>4 DEF Backing

\* The mailing-list messages of a report have a List-Id.
LEMMA ListsBacked ==
  ASSUME ScanDone
  PROVE  LET n == SumOf(report.mailing_lists)
         IN Evidence(Rendered(HeaderMatch("list_id", "."), "mailing-list", n), n)
<1> DEFINE n == SumOf(report.mailing_lists)
           rule == Rendered(HeaderMatch("list_id", "."), "mailing-list", n)
<1>1. report.mailing_lists = DetectMailingLists(scanned)
  BY DEF ScanDone, Analyze
<1>2. PICK E : /\ n = Cardinality(E)
               /\ E \subseteq {i \in DOMAIN scanned :
                                 scanned[i].headers.list_id \notin {None, "<>"}}
  BY <1>1, ListsAddUp DEF ScanDone
<1>3. ASSUME NEW i \in E
      PROVE  i \in Backing(rule)
  <2> DEFINE m == InboxMail[i]
  <2>1. /\ i \in DOMAIN InboxMail /\ m \in Message
        /\ scanned[i].headers \in HeadersOf(m) /\ scanned[i].headers.list_id # None
    BY <1>2 DEF ScanDone
  <2>2. NoHeaders.list_id = None
    BY DEF NoHeaders
  <2>3. scanned[i].headers = ParseHeaders(Mail[m].eml)
    BY <2>1, <2>2 DEF HeadersOf
  <2>4. ParseHeaders(Mail[m].eml).list_id
          = IF Present(Mail[m].eml.list_id) THEN Mail[m].eml.list_id ELSE None
    BY DEF ParseHeaders
  <2>5. Mail[m].eml.list_id \in Regex["."]
    BY <2>1, <2>3, <2>4, PatternAssumption
  <2>6. "." \in Words /\ "mailing-list" \in Words
    BY DEF Words
  <2> HIDE DEF n
  <2> QED BY <2>1, <2>5, <2>6, HeaderMatched
<1> HIDE DEF rule, n
<1> QED BY <1>2, <1>3 DEF Evidence, rule, n

\* The messages a report has as flagged say yes.
LEMMA SpamBacked ==
  ASSUME ScanDone
  PROVE  LET n == report.spam.flagged
         IN Evidence(Rendered(HeaderMatch("x_spam_flag", "(?i)yes"), "spam", n), n)
<1> DEFINE n == report.spam.flagged
           rule == Rendered(HeaderMatch("x_spam_flag", "(?i)yes"), "spam", n)
           E == {i \in DOMAIN scanned : scanned[i].headers.x_spam_flag = "yes"}
<1>1. n = Cardinality(E)
  BY DEF ScanDone, Analyze, AnalyzeSpam, Tally
<1>2. ASSUME NEW i \in E
      PROVE  i \in Backing(rule)
  <2> DEFINE m == InboxMail[i]
  <2>1. /\ i \in DOMAIN InboxMail /\ m \in Message
        /\ scanned[i].headers \in HeadersOf(m) /\ scanned[i].headers.x_spam_flag = "yes"
    BY DEF ScanDone
  <2>2. NoHeaders.x_spam_flag = None
    BY DEF NoHeaders
  <2>3. ParseHeaders(Mail[m].eml).x_spam_flag
          = IF Present(Mail[m].eml.x_spam_flag) THEN Mail[m].eml.x_spam_flag ELSE None
    BY DEF ParseHeaders
  <2>4. Mail[m].eml.x_spam_flag = "yes"
    <3>1. "yes" # None
      BY NoneAssumption
    <3> QED BY <2>1, <2>2, <2>3, <3>1 DEF HeadersOf
  <2>5. Mail[m].eml.x_spam_flag \in Regex["(?i)yes"]
    BY <2>4, PatternAssumption
  <2>6. "(?i)yes" \in Words /\ "spam" \in Words
    BY DEF Words
  <2> HIDE DEF n
  <2> QED BY <2>1, <2>5, <2>6, HeaderMatched
<1> HIDE DEF rule, n, E
<1> QED BY <1>1, <1>2 DEF Evidence, rule, n

\* A rule for senders is backed by the messages whose address, or whose
\* domain, it names.
LEMMA SenderMatched ==
  ASSUME NEW i \in DOMAIN InboxMail, InboxMail[i] \in Message,
         NEW tag \in Words, NEW n, NEW senders \in SUBSET (Authors \cup Domains),
         \A s \in senders : s \in Seq(STRING) /\ ToSet(s) \cap DOMAIN Reference = {},
         NEW sender \in senders, sender # <<>>,
         LET address == ScanAddress(Envelope(InboxMail[i]).from)
         IN sender \in {address, DomainOf(address)}
  PROVE  i \in Backing(Rendered(SenderIn(senders), tag, n))
<1> DEFINE rule == Rendered(SenderIn(senders), tag, n)
           m == InboxMail[i]
           from == Envelope(m).from
<1>1. /\ FilterType(rule) = "sender_in"
      /\ rule.sender_in = senders
  BY ReadsSenderIn DEF Rendered
<1>2. CASE ScanAddress(from) = FilterAddress(from)
  <2>1. SenderInMatches(from, senders)
    BY <1>2 DEF SenderInMatches
  <2>2. View(m).from = from
    BY DEF View
  <2>3. Matches(rule, View(m))
    <3> HIDE DEF rule, m, from
    <3> QED BY <1>1, <2>1, <2>2 DEF Matches
  <2> QED BY <2>3 DEF Backing
<1>3. CASE ScanAddress(from) # FilterAddress(from)
  BY <1>3 DEF Backing
<1> QED BY <1>2, <1>3

\* An author's address is made of tokens, and so is its domain.
LEMMA AuthorTokens ==
  ASSUME NEW m \in Message
  PROVE  LET a == ScanAddress(Envelope(m).from)
         IN /\ a \in Authors /\ DomainOf(a) \in Domains
            /\ a \in Seq(STRING) /\ DomainOf(a) \in Seq(STRING)
<1>1. Envelope(m).from \in Seq(STRING)
  BY ScanAssumption DEF Envelope, Message
<1> QED BY <1>1, AddressTokens DEF Authors, Domains

\* A service is a domain that sent what was scanned.
LEMMA ServiceNamed ==
  ASSUME ScanDone, NEW s \in report.notification_services
  PROVE  s.domain \in Domains /\ s.domain \in Seq(STRING) /\ s.domain # <<>>
<1> DEFINE detected == {i \in DOMAIN scanned : IsNotification(scanned[i])}
           rows == ByDomain(scanned, detected)
           counted == Addressed(scanned, detected)
           key == DomainKey(scanned)
<1>1. s \in rows
  BY DEF ScanDone, Analyze, DetectNotificationServices
<1>2. CountedRows(rows, counted, key)
  <2>1. detected \subseteq DOMAIN scanned
    OBVIOUS
  <2> HIDE DEF detected
  <2> QED BY <2>1, DomainsCounted DEF ScanDone
<1>3. \A i \in counted : /\ InboxMail[i] \in Message
                         /\ IsAddress(ScanAddress(Envelope(InboxMail[i]).from))
                         /\ key[i] = DomainOf(ScanAddress(Envelope(InboxMail[i]).from))
  BY DEF ScanDone, Addressed, DomainKey
<1>4. PICK i \in counted : key[i] = s.domain
  <2> HIDE DEF counted, key, rows
  <2> QED BY <1>1, <1>2 DEF CountedRows
<1> HIDE DEF counted, key
<1>5. /\ InboxMail[i] \in Message /\ IsAddress(ScanAddress(Envelope(InboxMail[i]).from))
      /\ s.domain = DomainOf(ScanAddress(Envelope(InboxMail[i]).from))
  BY <1>3, <1>4
<1>6. ScanAddress(Envelope(InboxMail[i]).from) \in Seq(STRING)
      /\ s.domain \in Domains /\ s.domain \in Seq(STRING)
  BY <1>5, AuthorTokens
<1> QED BY <1>5, <1>6, AddressNotEmpty

\* A contact is an address that sent what was scanned.
LEMMA ContactNamed ==
  ASSUME ScanInv, ScanDone, pc = "done", NEW c \in report.bidirectional
  PROVE  c.address \in Authors /\ c.address \in Seq(STRING) /\ c.address # <<>>
<1> DEFINE envelopes == [i \in DOMAIN scanned |-> scanned[i].envelope]
<1>1. ContactList(report.bidirectional, envelopes, SentEnvelopes)
  BY ContactsOfScan DEF ScanDone
<1>2. \A i \in DOMAIN envelopes : InboxMail[i] \in Message
                                  /\ envelopes[i] = Envelope(InboxMail[i])
  BY DEF ScanDone
<1> HIDE DEF envelopes
<1>3. IsAddress(c.address) /\ \E i \in DOMAIN envelopes : ScanAddress(envelopes[i].from) = c.address
  BY <1>1 DEF ContactList, IsMutual
<1>4. PICK i \in DOMAIN envelopes : ScanAddress(envelopes[i].from) = c.address
  BY <1>3
<1>5. c.address \in Authors /\ c.address \in Seq(STRING)
  BY <1>2, <1>4, AuthorTokens
<1> QED BY <1>3, <1>5, AddressNotEmpty

\* A rule for services names the domains of what they sent, and a sum over
\* some of the services counts their own.
LEMMA ServicesBacked ==
  ASSUME ScanDone, NEW services \in SUBSET report.notification_services,
         \A s \in services : ToSet(s.domain) \cap DOMAIN Reference = {}
  PROVE  LET n == SumOf(services)
         IN Evidence(Rendered(SenderIn({s.domain : s \in services}), "notification", n), n)
<1> DEFINE n == SumOf(services)
           senders == {s.domain : s \in services}
           rule == Rendered(SenderIn(senders), "notification", n)
           detected == {i \in DOMAIN scanned : IsNotification(scanned[i])}
           rows == ByDomain(scanned, detected)
           counted == Addressed(scanned, detected)
           key == DomainKey(scanned)
           E == {i \in counted : \E r \in services : key[i] = r.domain}
<1>1. services \subseteq rows
  BY DEF ScanDone, Analyze, DetectNotificationServices
<1>2. CountedRows(rows, counted, key)
  <2>1. detected \subseteq DOMAIN scanned
    OBVIOUS
  <2> HIDE DEF detected
  <2> QED BY <2>1, DomainsCounted DEF ScanDone
<1>3. n = Cardinality(E)
  <2> HIDE DEF rows, counted, key
  <2> QED BY <1>1, <1>2, RowsAddUp
<1>4. \A i \in counted : /\ i \in DOMAIN InboxMail /\ InboxMail[i] \in Message
                         /\ IsAddress(ScanAddress(Envelope(InboxMail[i]).from))
                         /\ key[i] = DomainOf(ScanAddress(Envelope(InboxMail[i]).from))
  BY DEF ScanDone, Addressed, DomainKey
<1>5. ASSUME NEW s \in services
      PROVE  s.domain \in Domains /\ s.domain \in Seq(STRING)
  BY ServiceNamed
<1>6. senders \in SUBSET (Authors \cup Domains)
      /\ \A s \in senders : s \in Seq(STRING) /\ ToSet(s) \cap DOMAIN Reference = {}
  BY <1>5
<1>7. ASSUME NEW i \in E
      PROVE  i \in Backing(rule)
  <2> DEFINE a == ScanAddress(Envelope(InboxMail[i]).from)
  <2>1. PICK r \in services : key[i] = r.domain
    OBVIOUS
  <2>2. /\ i \in DOMAIN InboxMail /\ InboxMail[i] \in Message
        /\ IsAddress(a) /\ DomainOf(a) = r.domain
    <3> HIDE DEF counted, key
    <3> QED BY <1>4, <2>1
  <2>3. r.domain \in senders /\ r.domain # <<>>
    <3>1. a \in Seq(STRING)
      BY <2>2, AuthorTokens
    <3> QED BY <2>2, <3>1, AddressNotEmpty
  <2>4. "notification" \in Words
    BY DEF Words
  <2> HIDE DEF senders, n
  <2> QED BY <1>6, <2>2, <2>3, <2>4, SenderMatched
<1> HIDE DEF rule, n, E
<1> QED BY <1>3, <1>7 DEF Evidence, rule, n

\* A rule for contacts names the senders of what it counts.
LEMMA ContactsBacked ==
  ASSUME ScanInv, ScanDone, pc = "done", NEW contacts \in SUBSET report.bidirectional,
         \A c \in contacts : ToSet(c.address) \cap DOMAIN Reference = {}
  PROVE  LET n == SumFunction([c \in contacts |-> c.messages_received])
         IN Evidence(Rendered(SenderIn({c.address : c \in contacts}), "vip", n), n)
<1> DEFINE n == SumFunction([c \in contacts |-> c.messages_received])
           senders == {c.address : c \in contacts}
           rule == Rendered(SenderIn(senders), "vip", n)
           envelopes == [i \in DOMAIN scanned |-> scanned[i].envelope]
           E == {i \in DOMAIN envelopes :
                   \E c \in contacts : ScanAddress(envelopes[i].from) = c.address}
<1>1. ContactList(report.bidirectional, envelopes, SentEnvelopes)
  BY ContactsOfScan DEF ScanDone
<1>2. n = Cardinality(E)
  <2>1. IsFiniteSet(DOMAIN envelopes)
    BY DEF ScanDone
  <2> HIDE DEF envelopes
  <2> QED BY <1>1, <2>1, ContactsAddUp
<1>3. \A i \in DOMAIN envelopes : /\ i \in DOMAIN InboxMail /\ InboxMail[i] \in Message
                                  /\ envelopes[i] = Envelope(InboxMail[i])
  BY DEF ScanDone
<1>4. ASSUME NEW c \in contacts
      PROVE  /\ c.address \in Authors /\ c.address \in Seq(STRING)
             /\ c.address # <<>>
  BY ContactNamed
<1>6. senders \in SUBSET (Authors \cup Domains)
      /\ \A s \in senders : s \in Seq(STRING) /\ ToSet(s) \cap DOMAIN Reference = {}
  BY <1>4
<1>7. ASSUME NEW i \in E
      PROVE  i \in Backing(rule)
  <2> DEFINE a == ScanAddress(Envelope(InboxMail[i]).from)
  <2>1. PICK c \in contacts : ScanAddress(envelopes[i].from) = c.address
    OBVIOUS
  <2>2. i \in DOMAIN InboxMail /\ InboxMail[i] \in Message /\ a = c.address
    <3> HIDE DEF envelopes
    <3> QED BY <1>3, <2>1
  <2>3. c.address \in senders /\ c.address # <<>>
    BY <1>4
  <2>4. "vip" \in Words
    BY DEF Words
  <2> HIDE DEF senders, n
  <2> QED BY <1>6, <2>2, <2>3, <2>4, SenderMatched
<1> HIDE DEF rule, n, E
<1> QED BY <1>2, <1>7 DEF Evidence, rule, n

\* A suggested rule without a reference is backed by messages the native
\* filters tag by it, for any mail (scan/suggester.rs, filters/native.rs).
THEOREM RulesBacked == Spec => []SuggestionsBacked
<1>1. ScanInv => SuggestionsBacked
  <2> SUFFICES ASSUME ScanInv, pc = "done", NEW s \in Literal(suggestions)
               PROVE  s.evidence <= Cardinality(Backing(ReadFilter(RenderYaml(s))))
    BY DEF SuggestionsBacked, Tally, Backing
  <2> DEFINE services == {x \in report.notification_services :
                            x.messages >= options.minEvidence}
             contacts == {x \in report.bidirectional :
                            x.messages_received >= options.minEvidence}
             a == SumOf(report.newsletters)
             b == SumOf(report.mailing_lists)
             c == report.spam.flagged
             d == SumOf(services)
             e == SumFunction([x \in contacts |-> x.messages_received])
  <2>1. ScanDone
    BY DoneIsScanned
  <2>2. s \in Suggest(report, options.minEvidence)
    BY <2>1 DEF ScanDone, Literal
  <2>3. \/ s = Suggestion(ListUnsubscribe, "newsletter", a)
        \/ s = Suggestion(HeaderMatch("list_id", "."), "mailing-list", b)
        \/ s = Suggestion(HeaderMatch("x_spam_flag", "(?i)yes"), "spam", c)
        \/ s = Suggestion(SenderIn({x.domain : x \in services}), "notification", d)
        \/ s = Suggestion(SenderIn({x.address : x \in contacts}), "vip", e)
    BY <2>2 DEF Suggest, CategoryRules, ServiceRule, ContactRule
  <2>4. SUFFICES Evidence(ReadFilter(RenderYaml(s)), s.evidence)
    BY <2>1, EvidenceBacks
  <2>5. CASE s = Suggestion(ListUnsubscribe, "newsletter", a)
    BY <2>1, <2>5, NewslettersBacked DEF Rendered, Suggestion
  <2>6. CASE s = Suggestion(HeaderMatch("list_id", "."), "mailing-list", b)
    BY <2>1, <2>6, ListsBacked DEF Rendered, Suggestion
  <2>7. CASE s = Suggestion(HeaderMatch("x_spam_flag", "(?i)yes"), "spam", c)
    BY <2>1, <2>7, SpamBacked DEF Rendered, Suggestion
  <2>8. CASE s = Suggestion(SenderIn({x.domain : x \in services}), "notification", d)
    <3>1. \A x \in services : ToSet(x.domain) \cap DOMAIN Reference = {}
      BY <2>8 DEF Literal, Suggestion, SenderIn
    <3>2. services \in SUBSET report.notification_services
      OBVIOUS
    <3> HIDE DEF services
    <3> QED BY <2>1, <2>8, <3>1, <3>2, ServicesBacked DEF Rendered, Suggestion
  <2>9. CASE s = Suggestion(SenderIn({x.address : x \in contacts}), "vip", e)
    <3>1. \A x \in contacts : ToSet(x.address) \cap DOMAIN Reference = {}
      BY <2>9 DEF Literal, Suggestion, SenderIn
    <3>2. contacts \in SUBSET report.bidirectional
      OBVIOUS
    <3> HIDE DEF contacts
    <3> QED BY <2>1, <2>9, <3>1, <3>2, ContactsBacked DEF Rendered, Suggestion
  <2> QED BY <2>3, <2>5, <2>6, <2>7, <2>8, <2>9
<1> QED BY <1>1, ScanInit, ScanStep, PTL DEF Spec

-----------------------------------------------------------------------------
(* Rules put behind others *)

\* The tags of the rules of a file are first once rules are put behind them.
LEMMA TagsBehind ==
  ASSUME NEW R, NEW old \in Seq(R), NEW new \in Seq(R), NEW view
  PROVE  IsPrefix(TagsOf(old, view), TagsOf(old \o new, view))
<1> DEFINE Tags(rules) == [i \in DOMAIN rules |-> rules[i].tag]
           Hits(rules) == {i \in DOMAIN rules : Matches(rules[i], view)}
<1>1. ASSUME NEW rules
      PROVE  TagsOf(rules, view) = Pick(Tags(rules), Firsts(Tags(rules), Hits(rules)))
  <2>a. PICK f : f = [i \in DOMAIN rules |->
                        [tag  |-> rules[i].tag,
                         hits |-> IF Matches(rules[i], view) THEN {view} ELSE {}]]
    OBVIOUS
  <2>1. DOMAIN f = DOMAIN rules
        /\ \A i \in DOMAIN rules : /\ f[i].tag = rules[i].tag
                                   /\ view \in f[i].hits <=> Matches(rules[i], view)
    BY <2>a
  <2>2. Matching(f, view) = Hits(rules)
    BY <2>1 DEF Matching
  <2>3. [i \in DOMAIN f |-> f[i].tag] = Tags(rules)
    BY <2>1
  <2>4. TagsOf(rules, view) = RunFilters(f, view)
    BY <2>a DEF TagsOf
  <2> HIDE DEF Hits, Tags
  <2> QED BY <2>2, <2>3, <2>4 DEF RunFilters
<1>a. PICK c : c = old \o new
  OBVIOUS
<1>b. PICK T : T = {c[i].tag : i \in DOMAIN c}
  OBVIOUS
<1>c. PICK ta : ta = Tags(old)
  OBVIOUS
<1>d. PICK tb : tb = Tags(new)
  OBVIOUS
<1>e. PICK tc : tc = Tags(c)
  OBVIOUS
<1>2. /\ c \in Seq(R) /\ Len(old) \in Nat /\ Len(new) \in Nat
      /\ Len(c) = Len(old) + Len(new)
      /\ \A i \in 1..Len(old) : c[i] = old[i]
      /\ \A j \in 1..Len(new) : c[Len(old) + j] = new[j]
      /\ DOMAIN old = 1..Len(old) /\ DOMAIN new = 1..Len(new) /\ DOMAIN c = 1..Len(c)
  BY <1>a, ConcatParts
<1>3. ta \in Seq(T) /\ Len(ta) = Len(old) /\ tb \in Seq(T) /\ Len(tb) = Len(new)
      /\ tc \in Seq(T) /\ Len(tc) = Len(c)
  <2>1. \A i \in DOMAIN old : i \in DOMAIN c /\ c[i].tag = old[i].tag
    BY <1>2
  <2>2. \A j \in DOMAIN new : Len(old) + j \in DOMAIN c /\ c[Len(old) + j].tag = new[j].tag
    BY <1>2
  <2>3. ta \in [1..Len(old) -> T]
    BY <1>2, <1>b, <1>c, <2>1
  <2>4. tb \in [1..Len(new) -> T]
    BY <1>2, <1>b, <1>d, <2>2
  <2>5. tc \in [1..Len(c) -> T]
    BY <1>2, <1>b, <1>e
  <2>6. Len(c) \in Nat
    BY <1>2
  <2> QED BY <1>2, <2>3, <2>4, <2>5, <2>6, ListOf
<1>4. tc = ta \o tb
  <2>a. PICK ab : ab = ta \o tb
    OBVIOUS
  <2>1. /\ ab \in Seq(T) /\ Len(ab) = Len(old) + Len(new)
        /\ \A i \in 1..Len(old) : ab[i] = ta[i]
        /\ \A j \in 1..Len(new) : ab[Len(old) + j] = tb[j]
    <3>1. /\ ab \in Seq(T) /\ Len(ab) = Len(ta) + Len(tb)
          /\ \A i \in 1..Len(ta) : ab[i] = ta[i]
          /\ \A j \in 1..Len(tb) : ab[Len(ta) + j] = tb[j]
      <4>1. ta \in Seq(T) /\ tb \in Seq(T)
        BY <1>3
      <4> QED BY <4>1, <2>a, ConcatParts
    <3>2. Len(ta) = Len(old) /\ Len(tb) = Len(new)
      BY <1>3
    <3> QED BY <3>1, <3>2
  <2>2. ASSUME NEW i \in 1..Len(tc) PROVE tc[i] = ab[i]
    <3>1. CASE i \in 1..Len(old)
      BY <1>2, <1>3, <1>c, <1>e, <2>1, <3>1
    <3>2. CASE i \notin 1..Len(old)
      <4>1. i - Len(old) \in 1..Len(new) /\ Len(old) + (i - Len(old)) = i
        BY <1>2, <1>3, <3>2
      <4>2. PICK j \in 1..Len(new) : i = Len(old) + j
        BY <4>1
      <4>3. c[i] = new[j] /\ i \in DOMAIN c /\ j \in DOMAIN new /\ ab[i] = tb[j]
        BY <1>2, <1>3, <2>1, <4>2
      <4> QED BY <4>3, <1>d, <1>e
    <3> QED BY <3>1, <3>2
  <2>3. Len(tc) = Len(ab)
    BY <1>2, <1>3, <2>1
  <2> QED BY <1>3, <2>1, <2>2, <2>3, <2>a, SeqEqual
<1>5. ASSUME NEW i \in DOMAIN ta
      PROVE  i \in Firsts(ta, Hits(old)) <=> i \in Firsts(tc, Hits(c))
  <2>1. DOMAIN ta = 1..Len(old) /\ i \in 1..Len(old) /\ 1..Len(old) \subseteq DOMAIN c
    BY <1>2, <1>3
  <2>2. \A j \in 1..Len(old) : /\ ta[j] = tc[j]
                               /\ j \in Hits(old) <=> j \in Hits(c)
    BY <1>2, <1>c, <1>e, <2>1
  <2>3. Hits(old) \subseteq 1..Len(old) /\ Hits(c) \subseteq 1..Len(c)
    BY <1>2
  <2> HIDE DEF Hits
  <2>4. \A j \in Hits(c) : j < i => j \in 1..Len(old)
    BY <1>2, <2>1, <2>3
  <2> QED BY <2>1, <2>2, <2>3, <2>4 DEF Firsts
<1>6. TagsOf(old, view) = Pick(ta, Firsts(ta, Hits(old)))
      /\ TagsOf(c, view) = Pick(tc, Firsts(tc, Hits(c)))
  BY <1>1, <1>c, <1>e
<1> HIDE DEF Tags, Hits
<1>7. IsPrefix(Pick(ta, Firsts(ta, Hits(old))), Pick(ta \o tb, Firsts(tc, Hits(c))))
  BY <1>3, <1>5, PickPrefix
<1> QED BY <1>4, <1>6, <1>7, <1>a

-----------------------------------------------------------------------------
(* A file with rules appended *)

Optional == {"filters", "actions", "llm", "webhooks"}

\* The sections but one are those of the file.
LEMMA MergedSections ==
  ASSUME NEW file, NEW rules, Sections \subseteq DOMAIN file.yaml
  PROVE  LET merged == Merged(file, rules)
             old == Document(file.yaml)
             new == Document(merged.yaml)
         IN /\ merged.text = file.text
            /\ Sections \subseteq DOMAIN merged.yaml
            /\ \A section \in (Sections \cup Optional) \ {"filters"} :
                 new[section] = old[section]
            /\ new.filters = IF "filters" \in DOMAIN file.yaml
                             THEN file.yaml.filters \o rules ELSE rules
            /\ old.filters = IF "filters" \in DOMAIN file.yaml
                             THEN file.yaml.filters ELSE <<>>
<1>a. PICK y : y = file.yaml
  OBVIOUS
<1>b. PICK z : z = Merged(file, rules).yaml
  OBVIOUS
<1>c. PICK absent : absent = [filters |-> <<>>, actions |-> <<>>, llm |-> None, webhooks |-> <<>>]
  OBVIOUS
<1>1. /\ DOMAIN z = DOMAIN y \cup {"filters"}
      /\ \A s \in DOMAIN y : s # "filters" => z[s] = y[s]
      /\ z["filters"] = IF "filters" \in DOMAIN y THEN y.filters \o rules ELSE rules
      /\ Merged(file, rules).text = file.text
  BY <1>a, <1>b DEF Merged
<1>2. Sections \subseteq DOMAIN y /\ Sections \subseteq DOMAIN z
  BY <1>1, <1>a
<1>3. DOMAIN absent = Optional /\ absent["filters"] = <<>>
  BY <1>c DEF Optional
<1>4. ASSUME NEW e, Sections \subseteq DOMAIN e
      PROVE  /\ DOMAIN Document(e) = Sections \cup Optional
             /\ \A s \in Sections \cup Optional :
                  Document(e)[s] = IF s \in DOMAIN e THEN e[s] ELSE absent[s]
  <2>1. Document(e) = [s \in Sections \cup Optional |->
                         IF s \in DOMAIN e THEN e[s] ELSE absent[s]]
    BY <1>3, <1>4, <1>c DEF Document, Ignoring
  <2> QED BY <2>1
<1>5. \A s \in (Sections \cup Optional) \ {"filters"} : Document(z)[s] = Document(y)[s]
  BY <1>1, <1>2, <1>4
<1>6. /\ Document(z)["filters"] = IF "filters" \in DOMAIN y THEN y.filters \o rules ELSE rules
      /\ Document(y)["filters"] = IF "filters" \in DOMAIN y THEN y["filters"] ELSE <<>>
  <2>1. "filters" \in Sections \cup Optional /\ "filters" \in DOMAIN z
    BY <1>1 DEF Optional
  <2> QED BY <1>1, <1>2, <1>3, <1>4, <2>1
<1> QED BY <1>1, <1>2, <1>5, <1>6, <1>a, <1>b

\* Reading keeps the order of the filters.
FiltersBehind(old, new, rules) ==
  \E Q : \E added \in Seq(Q) :
    /\ old.filters \in Seq(Q)
    /\ new.filters = old.filters \o added
    /\ Len(added) = Len(rules)
    /\ \A i \in DOMAIN added : Sound(added[i])

\* A merged file reads as the file does, with the rules read behind its own.
LEMMA MergedReads ==
  ASSUME NEW file, NEW R, NEW rules \in Seq(R), Sections \subseteq DOMAIN file.yaml,
         "filters" \in DOMAIN file.yaml =>
           file.yaml.filters \in Seq(ToSet(file.yaml.filters)),
         \A i \in DOMAIN rules : Sound(ReadFilter(rules[i]))
  PROVE  LET old == ReadConfig(Document(file.yaml))
             new == ReadConfig(Document(Merged(file, rules).yaml))
         IN /\ \A section \in {"bichon", "database", "accounts", "actions", "llm", "webhooks"} :
                 new[section] = old[section]
            /\ FiltersBehind(old, new, rules)
<1>a. PICK d : d = Document(file.yaml)
  OBVIOUS
<1>b. PICK e : e = Document(Merged(file, rules).yaml)
  OBVIOUS
<1>1. /\ e.bichon = d.bichon /\ e.database = d.database /\ e.accounts = d.accounts
      /\ e.actions = d.actions /\ e.llm = d.llm /\ e.webhooks = d.webhooks
      /\ e.filters = IF "filters" \in DOMAIN file.yaml
                     THEN file.yaml.filters \o rules ELSE rules
      /\ d.filters = IF "filters" \in DOMAIN file.yaml
                     THEN file.yaml.filters ELSE <<>>
  BY <1>a, <1>b, MergedSections DEF Sections, Optional
<1>c. PICK a : a = d.filters
  OBVIOUS
<1>d. PICK c : c = e.filters
  OBVIOUS
<1>e. PICK P : P = ToSet(file.yaml.filters) \cup R
  OBVIOUS
<1>2. a \in Seq(P) /\ rules \in Seq(P) /\ c = a \o rules
  <2>1. rules \in Seq(P)
    BY <1>e
  <2>2. CASE "filters" \in DOMAIN file.yaml
    <3>1. a \in Seq(ToSet(file.yaml.filters)) /\ c = a \o rules
      BY <1>1, <1>c, <1>d, <2>2
    <3>2. a \in Seq(P)
      BY <1>e, <3>1
    <3> QED BY <2>1, <3>1, <3>2
  <2>3. CASE "filters" \notin DOMAIN file.yaml
    <3>1. a = <<>> /\ c = rules
      BY <1>1, <1>c, <1>d, <2>3
    <3>2. <<>> \in Seq(P) /\ <<>> \o rules = rules
      BY <2>1
    <3> QED BY <2>1, <3>1, <3>2
  <2> QED BY <2>2, <2>3
<1>3. /\ Len(a) \in Nat /\ Len(rules) \in Nat /\ Len(c) = Len(a) + Len(rules)
      /\ \A i \in 1..Len(a) : c[i] = a[i]
      /\ \A j \in 1..Len(rules) : c[Len(a) + j] = rules[j]
      /\ DOMAIN a = 1..Len(a) /\ DOMAIN rules = 1..Len(rules) /\ DOMAIN c = 1..Len(c)
  BY <1>2, ConcatParts
<1>f. PICK ra : ra = [i \in DOMAIN a |-> ReadFilter(a[i])]
  OBVIOUS
<1>g. PICK rb : rb = [i \in DOMAIN rules |-> ReadFilter(rules[i])]
  OBVIOUS
<1>h. PICK rc : rc = [i \in DOMAIN c |-> ReadFilter(c[i])]
  OBVIOUS
<1>i. PICK Q : Q = {ReadFilter(x) : x \in P}
  OBVIOUS
<1>4. ra \in Seq(Q) /\ Len(ra) = Len(a)
  <2>1. \A i \in 1..Len(a) : a[i] \in P
    BY <1>2
  <2>2. ra \in [1..Len(a) -> Q]
    BY <1>3, <1>f, <1>i, <2>1
  <2> QED BY <1>3, <2>2, ListOf
<1>5. rb \in Seq(Q) /\ Len(rb) = Len(rules)
  <2>1. \A i \in 1..Len(rules) : rules[i] \in P
    BY <1>2
  <2>2. rb \in [1..Len(rules) -> Q]
    BY <1>3, <1>g, <1>i, <2>1
  <2> QED BY <1>3, <2>2, ListOf
<1>6. rc \in Seq(Q) /\ Len(rc) = Len(c)
  <2>1. c \in Seq(P)
    BY <1>2, ConcatParts
  <2>2. \A i \in 1..Len(c) : c[i] \in P
    BY <2>1
  <2>3. rc \in [1..Len(c) -> Q]
    BY <1>3, <1>h, <1>i, <2>2
  <2> QED BY <1>3, <2>3, ListOf
<1>7. rc = ra \o rb
  <2>a. PICK ab : ab = ra \o rb
    OBVIOUS
  <2>1. /\ ab \in Seq(Q) /\ Len(ab) = Len(ra) + Len(rb)
        /\ \A i \in 1..Len(ra) : ab[i] = ra[i]
        /\ \A j \in 1..Len(rb) : ab[Len(ra) + j] = rb[j]
    <3>1. ra \in Seq(Q) /\ rb \in Seq(Q)
      BY <1>4, <1>5
    <3> QED BY <2>a, <3>1, ConcatParts
  <2>2. ASSUME NEW i \in 1..Len(rc) PROVE rc[i] = ab[i]
    <3>1. CASE i \in 1..Len(a)
      <4>1. c[i] = a[i] /\ ab[i] = ra[i] /\ i \in DOMAIN a /\ i \in DOMAIN c
        BY <1>3, <1>4, <1>6, <2>1, <3>1
      <4> QED BY <4>1, <1>f, <1>h
    <3>2. CASE i \notin 1..Len(a)
      <4>1. i - Len(a) \in 1..Len(rules) /\ Len(a) + (i - Len(a)) = i
        BY <1>3, <1>6, <3>2
      <4>2. PICK j \in 1..Len(rules) : i = Len(a) + j
        BY <4>1
      <4>3. c[i] = rules[j] /\ ab[i] = rb[j] /\ j \in DOMAIN rules /\ i \in DOMAIN c
        BY <1>3, <1>4, <1>5, <1>6, <2>1, <4>2
      <4> QED BY <4>3, <1>g, <1>h
    <3> QED BY <3>1, <3>2
  <2>3. Len(rc) = Len(ab)
    BY <1>3, <1>4, <1>5, <1>6, <2>1
  <2> QED BY <1>6, <2>1, <2>2, <2>3, <2>a, SeqEqual
<1>8. \A i \in DOMAIN rb : Sound(rb[i])
  BY <1>g
<1>9. ReadConfig(d).filters = ra /\ ReadConfig(e).filters = rc
  BY <1>c, <1>d, <1>f, <1>h DEF ReadConfig
<1>10. FiltersBehind(ReadConfig(d), ReadConfig(e), rules)
  BY <1>4, <1>5, <1>7, <1>8, <1>9 DEF FiltersBehind
<1>11. /\ ReadConfig(e).bichon = ReadConfig(d).bichon
       /\ ReadConfig(e).database = ReadConfig(d).database
       /\ ReadConfig(e).accounts = ReadConfig(d).accounts
       /\ ReadConfig(e).actions = ReadConfig(d).actions
       /\ ReadConfig(e).llm = ReadConfig(d).llm
       /\ ReadConfig(e).webhooks = ReadConfig(d).webhooks
  BY <1>1 DEF ReadConfig
<1> QED BY <1>10, <1>11, <1>a, <1>b

\* So a file the daemon starts on stays one.
LEMMA MergedStarts ==
  ASSUME NEW file, NEW R, NEW rules \in Seq(R), DaemonStarts(file),
         "filters" \in DOMAIN file.yaml =>
           file.yaml.filters \in Seq(ToSet(file.yaml.filters)),
         \A i \in DOMAIN rules : Sound(ReadFilter(rules[i]))
  PROVE  LET merged == Merged(file, rules)
         IN /\ DaemonStarts(merged)
            /\ FiltersBehind(Parse(file), Parse(merged), rules)
            /\ Valid(Parse(file)) /\ Valid(Parse(merged))
<1>a. PICK merged : merged = Merged(file, rules)
  OBVIOUS
<1>b. PICK old : old = ReadConfig(Document(file.yaml))
  OBVIOUS
<1>c. PICK new : new = ReadConfig(Document(merged.yaml))
  OBVIOUS
<1>1. Loads(file) /\ Sections \subseteq DOMAIN file.yaml /\ Parse(file) = old
  BY <1>b DEF DaemonStarts, Loads, Parse
<1>2. /\ new.bichon = old.bichon /\ new.database = old.database
      /\ new.accounts = old.accounts /\ new.actions = old.actions
      /\ new.llm = old.llm /\ new.webhooks = old.webhooks
      /\ FiltersBehind(old, new, rules)
  BY <1>1, <1>a, <1>b, <1>c, MergedReads
<1>3. /\ merged.text = file.text /\ Sections \subseteq DOMAIN merged.yaml
      /\ Document(merged.yaml).llm = Document(file.yaml).llm
  BY <1>1, <1>a, MergedSections DEF Optional
<1>4. PICK Q : \E added \in Seq(Q) :
                 /\ old.filters \in Seq(Q)
                 /\ new.filters = old.filters \o added
                 /\ \A i \in DOMAIN added : Sound(added[i])
  BY <1>2 DEF FiltersBehind
<1>5. PICK added \in Seq(Q) : /\ old.filters \in Seq(Q)
                              /\ new.filters = old.filters \o added
                              /\ \A i \in DOMAIN added : Sound(added[i])
  BY <1>4
<1>6. ASSUME NEW i \in DOMAIN new.filters
      PROVE  \/ \E j \in DOMAIN old.filters : new.filters[i] = old.filters[j]
             \/ Sound(new.filters[i])
  <2>a. PICK a : a = old.filters
    OBVIOUS
  <2>b. PICK c : c = new.filters
    OBVIOUS
  <2>1. /\ c \in Seq(Q) /\ Len(a) \in Nat /\ Len(added) \in Nat
        /\ Len(c) = Len(a) + Len(added)
        /\ \A k \in 1..Len(a) : c[k] = a[k]
        /\ \A j \in 1..Len(added) : c[Len(a) + j] = added[j]
    BY <1>5, <2>a, <2>b, ConcatParts
  <2>2. DOMAIN a = 1..Len(a) /\ DOMAIN added = 1..Len(added) /\ i \in 1..Len(c)
    BY <1>5, <2>1, <2>a, <2>b
  <2>3. CASE i \in 1..Len(a)
    BY <2>1, <2>2, <2>3, <2>a, <2>b
  <2>4. CASE i \notin 1..Len(a)
    <3>1. i - Len(a) \in 1..Len(added) /\ Len(a) + (i - Len(a)) = i
      BY <2>1, <2>2, <2>4
    <3> QED BY <1>5, <2>1, <2>2, <2>b, <3>1, SMTT(30)
  <2> QED BY <2>3, <2>4
<1>7. Accepts(Document(file.yaml)) /\ Resolves(file.text)
  BY <1>1 DEF Loads
<1>8. Valid(old)
  BY <1>7, <1>b DEF Accepts
<1>9. Valid(new)
  <2>1. \A i \in DOMAIN new.filters : ValidFilter(new.filters[i])
    BY <1>6, <1>8 DEF Valid, Sound
  <2> QED BY <1>2, <1>8, <2>1 DEF Valid
<1>10. /\ None \notin {old.bichon, old.database}
       /\ Document(file.yaml).llm # None => old.llm # None
       /\ None \notin Range(old.accounts) /\ None \notin Range(old.filters)
       /\ None \notin Range(old.actions) /\ None \notin Range(old.webhooks)
  BY <1>7, <1>b DEF Accepts
<1>11. None \notin Range(new.filters)
  BY <1>6, <1>10 DEF Range, Sound
<1>12. Accepts(Document(merged.yaml))
  <2>1. \A section \in {"accounts", "filters", "actions", "webhooks"} :
          None \notin Range(new[section])
    BY <1>2, <1>10, <1>11
  <2> QED BY <1>2, <1>3, <1>9, <1>10, <1>c, <2>1 DEF Accepts
<1>13. Loads(merged) /\ Parse(merged) = new
  BY <1>3, <1>7, <1>12, <1>c DEF Loads, Parse
<1>14. Compiles(new.filters)
  <2>1. Compiles(old.filters)
    BY <1>1 DEF DaemonStarts
  <2> QED BY <1>6, <2>1 DEF Compiles, Sound
<1>15. DaemonStarts(merged)
  <2>1. /\ BuildsClient(old.bichon.api_token)
        /\ old.llm # None => BuildsLlmClient(old.llm)
        /\ old.webhooks # <<>> => BuildsEmitter(old.webhooks)
    BY <1>1 DEF DaemonStarts
  <2> QED BY <1>2, <1>13, <1>14, <2>1 DEF DaemonStarts
<1> QED BY <1>1, <1>2, <1>8, <1>9, <1>13, <1>15, <1>a

\* A rule that names senders without a reference, one at least, is sound.
LEMMA SendersSound ==
  ASSUME NEW tag \in Words, NEW n, NEW senders \in SUBSET (Authors \cup Domains),
         senders # {},
         \A s \in senders : /\ s \in Seq(STRING) /\ s # <<>>
                            /\ ToSet(s) \cap DOMAIN Reference = {}
  PROVE  Sound(Rendered(SenderIn(senders), tag, n))
<1>1. \E s \in senders : s # <<>>
  OBVIOUS
<1> QED BY <1>1, ReadsSenderIn DEF Rendered

\* The daemon takes what is suggested.
LEMMA SuggestedSound ==
  ASSUME ScanInv, pc = "done", NEW s \in Literal(suggestions)
  PROVE  Sound(ReadFilter(RenderYaml(s)))
<1> DEFINE services == {x \in report.notification_services :
                          x.messages >= options.minEvidence}
           contacts == {x \in report.bidirectional :
                          x.messages_received >= options.minEvidence}
           a == SumOf(report.newsletters)
           b == SumOf(report.mailing_lists)
           c == report.spam.flagged
           d == SumOf(services)
           e == SumFunction([x \in contacts |-> x.messages_received])
<1>1. ScanDone
  BY DoneIsScanned
<1>2. s \in Suggest(report, options.minEvidence)
  BY <1>1 DEF ScanDone, Literal
<1>3. \/ s = Suggestion(ListUnsubscribe, "newsletter", a)
      \/ s = Suggestion(HeaderMatch("list_id", "."), "mailing-list", b)
      \/ s = Suggestion(HeaderMatch("x_spam_flag", "(?i)yes"), "spam", c)
      \/ services # {} /\ s = Suggestion(SenderIn({x.domain : x \in services}), "notification", d)
      \/ contacts # {} /\ s = Suggestion(SenderIn({x.address : x \in contacts}), "vip", e)
  BY <1>2 DEF Suggest, CategoryRules, ServiceRule, ContactRule
<1>4. /\ {"notification", "vip", "mailing-list", "spam", "list_id", ".", "x_spam_flag",
          "(?i)yes"} \subseteq Words
      /\ {".", "(?i)yes"} \subseteq DOMAIN Regex
  BY PatternAssumption DEF Words
<1>5. CASE s = Suggestion(ListUnsubscribe, "newsletter", a)
  <2> HIDE DEF a
  <2> QED BY <1>5, ReadsListUnsubscribe
<1>6. CASE s = Suggestion(HeaderMatch("list_id", "."), "mailing-list", b)
  <2> HIDE DEF b
  <2> QED BY <1>4, <1>6, ReadsHeaderMatch
<1>7. CASE s = Suggestion(HeaderMatch("x_spam_flag", "(?i)yes"), "spam", c)
  <2> HIDE DEF c
  <2> QED BY <1>4, <1>7, ReadsHeaderMatch
<1>8. CASE services # {} /\ s = Suggestion(SenderIn({x.domain : x \in services}), "notification", d)
  <2>1. \A x \in services : ToSet(x.domain) \cap DOMAIN Reference = {}
    BY <1>8 DEF Literal, Suggestion, SenderIn
  <2>2. services \in SUBSET report.notification_services
    OBVIOUS
  <2> HIDE DEF services, d
  <2> DEFINE senders == {x.domain : x \in services}
  <2>3. senders # {} /\ senders \in SUBSET (Authors \cup Domains)
        /\ \A y \in senders : /\ y \in Seq(STRING) /\ y # <<>>
                              /\ ToSet(y) \cap DOMAIN Reference = {}
    BY <1>1, <1>8, <2>1, <2>2, ServiceNamed
  <2> HIDE DEF senders
  <2>4. Sound(Rendered(SenderIn(senders), "notification", d))
    BY <1>4, <2>3, SendersSound
  <2> QED BY <1>8, <2>4 DEF Rendered, senders
<1>9. CASE contacts # {} /\ s = Suggestion(SenderIn({x.address : x \in contacts}), "vip", e)
  <2>1. \A x \in contacts : ToSet(x.address) \cap DOMAIN Reference = {}
    BY <1>9 DEF Literal, Suggestion, SenderIn
  <2>2. contacts \in SUBSET report.bidirectional
    OBVIOUS
  <2> HIDE DEF contacts, e
  <2> DEFINE senders == {x.address : x \in contacts}
  <2>3. senders # {} /\ senders \in SUBSET (Authors \cup Domains)
        /\ \A y \in senders : /\ y \in Seq(STRING) /\ y # <<>>
                              /\ ToSet(y) \cap DOMAIN Reference = {}
    BY <1>1, <1>9, <2>1, <2>2, ContactNamed
  <2> HIDE DEF senders
  <2>4. Sound(Rendered(SenderIn(senders), "vip", e))
    BY <1>4, <2>3, SendersSound
  <2> QED BY <1>9, <2>4 DEF Rendered, senders
<1> QED BY <1>3, <1>5, <1>6, <1>7, <1>8, <1>9

\* A finite set is listed by a sequence of its elements.
LEMMA SetListed ==
  ASSUME NEW S, IsFiniteSet(S)
  PROVE  SetToSeq(S) \in Seq(S)
<1>1. Cardinality(S) \in Nat /\ Bijection(1..Cardinality(S), S) # {}
  BY FS_CardinalityType DEF ExistsBijection
<1>2. \E f \in [1..Cardinality(S) -> S] : IsInjective(f)
  BY <1>1 DEF Bijection, Injection
<1>3. SetToSeq(S) \in [1..Cardinality(S) -> S]
  BY <1>2 DEF SetToSeq
<1> QED BY <1>1, <1>3, ListOf

-----------------------------------------------------------------------------
(* The files written *)

Wanted == ToSet(Outputs(options))
PathOf(kind) == OutputPath(options.format, options.output, kind)
Kept(kind) == PathOf(kind) \in DOMAIN files /\ files[PathOf(kind)] = kind

\* What is asked for is to be written, or was and still is there.
FilesOK ==
  /\ pc = "write" =>
       /\ todo \in Seq(Wanted)
       /\ \A kind \in Wanted : kind = "report" \/ kind \in ToSet(todo) \/ Kept(kind)
  /\ pc = "done" => \A kind \in Wanted : kind = "report" \/ Kept(kind)

\* The files asked for at once have two names.
LEMMA OutputsApart ==
  ASSUME NEW o
  PROVE  /\ Outputs(o) \in Seq(ToSet(Outputs(o)))
         /\ ToSet(Outputs(o)) \subseteq {"yaml", "json", "report"}
         /\ \A k, l \in ToSet(Outputs(o)) \ {"report"} : k # l =>
              OutputPath(o.format, o.output, k) # OutputPath(o.format, o.output, l)
<1>a. PICK y : y = IF o.format \in {"yaml", "all"} THEN <<"yaml">> ELSE <<>>
  OBVIOUS
<1>b. PICK j : j = IF o.format \in {"json", "all"} THEN <<"json">> ELSE <<>>
  OBVIOUS
<1>c. PICK r : r = IF o.save THEN <<"report">> ELSE <<>>
  OBVIOUS
<1>d. PICK K : K = {"yaml", "json", "report"}
  OBVIOUS
<1>e. PICK out : out = Outputs(o)
  OBVIOUS
<1>1. /\ o.format \in {"yaml", "all"} => y = <<"yaml">>
      /\ o.format \notin {"yaml", "all"} => y = <<>>
  BY <1>a
<1>2. /\ o.format \in {"json", "all"} => j = <<"json">>
      /\ o.format \notin {"json", "all"} => j = <<>>
  BY <1>b
<1>3. r = <<"report">> \/ r = <<>>
  BY <1>c
<1>4. <<"yaml">> \in Seq(K) /\ <<"json">> \in Seq(K) /\ <<"report">> \in Seq(K) /\ <<>> \in Seq(K)
  BY <1>d
<1>5. y \in Seq(K) /\ j \in Seq(K) /\ r \in Seq(K)
  BY <1>1, <1>2, <1>3, <1>4
<1>6. out = (y \o j) \o r
  BY <1>a, <1>b, <1>c, <1>e DEF Outputs
<1>7. /\ y \o j \in Seq(K) /\ Len(y \o j) = Len(y) + Len(j)
      /\ \A i \in 1..Len(y) : (y \o j)[i] = y[i]
      /\ \A i \in 1..Len(j) : (y \o j)[Len(y) + i] = j[i]
  BY <1>5, ConcatParts
<1>8. /\ out \in Seq(K) /\ Len(out) = Len(y) + Len(j) + Len(r)
  BY <1>5, <1>6, <1>7, ConcatParts
<1>9. ASSUME NEW k \in ToSet(out)
      PROVE  k \in K /\ (k = "yaml" => y # <<>>) /\ (k = "json" => j # <<>>)
  <2>1. k \in K
    BY <1>8 DEF ToSet
  <2>2. y = <<>> => k # "yaml"
    <3> SUFFICES ASSUME y = <<>> PROVE k # "yaml"
      OBVIOUS
    <3>1. out = j \o r
      BY <1>5, <1>6
    <3> QED BY <1>2, <1>3, <3>1 DEF ToSet
  <2>3. j = <<>> => k # "json"
    <3> SUFFICES ASSUME j = <<>> PROVE k # "json"
      OBVIOUS
    <3>1. out = y \o r
      BY <1>5, <1>6
    <3> QED BY <1>1, <1>3, <3>1 DEF ToSet
  <2> QED BY <2>1, <2>2, <2>3
<1>10. out \in Seq(ToSet(out))
  BY <1>8 DEF ToSet
<1>11. "yaml" \in ToSet(out) /\ "json" \in ToSet(out) => o.format = "all"
  BY <1>1, <1>2, <1>9
<1>12. <<"berger-scan", "yaml">> # <<"berger-scan", "json">>
  OBVIOUS
<1>13. ASSUME NEW k \in ToSet(out) \ {"report"}, NEW l \in ToSet(out) \ {"report"}, k # l
       PROVE  OutputPath(o.format, o.output, k) # OutputPath(o.format, o.output, l)
  <2>1. {k, l} = {"yaml", "json"} /\ o.format = "all"
    BY <1>9, <1>11, <1>13, <1>d
  <2> QED BY <1>12, <1>13, <2>1 DEF OutputPath
<1> QED BY <1>9, <1>10, <1>13, <1>d, <1>e

\* Nothing is asked for at first.
LEMMA FilesInit == Init => FilesOK
BY DEF Init, FilesOK

\* A write puts one output in its place and leaves the others in theirs.
LEMMA FilesStep ==
  ASSUME FilesOK, [Next]_vars
  PROVE  FilesOK'
<1>1. ASSUME UNCHANGED <<options, files, todo>>,
             pc' = pc \/ pc' \in {"fetch", "download", "failed"}
      PROVE  FilesOK'
  BY <1>1 DEF FilesOK, Wanted, Kept, PathOf
<1>2. CASE Conclude
  <2>1. pc' = "write" /\ todo' = Outputs(options')
    BY <1>2 DEF Conclude
  <2>2. Outputs(options') \in Seq(ToSet(Outputs(options')))
    BY OutputsApart
  <2> QED BY <2>1, <2>2 DEF FilesOK, Wanted
<1>3. CASE Write
  <2>a. PICK h : h = Head(todo)
    OBVIOUS
  <2>1. /\ pc = "write" /\ pc' = pc /\ todo # <<>> /\ todo' = Tail(todo) /\ options' = options
        /\ todo \in Seq(Wanted)
        /\ \A kind \in Wanted : kind = "report" \/ kind \in ToSet(todo) \/ Kept(kind)
    BY <1>3 DEF Write, FilesOK
  <2>2. Wanted' = Wanted /\ \A kind : PathOf(kind)' = PathOf(kind)
    BY <2>1 DEF Wanted, PathOf
  <2>3. h \in Wanted /\ todo' \in Seq(Wanted)
        /\ \A kind \in ToSet(todo) : kind = h \/ kind \in ToSet(todo')
    <3>a. PICK n : n = Len(todo)
      OBVIOUS
    <3>b. PICK rest : rest = Tail(todo)
      OBVIOUS
    <3>1. n \in Nat \ {0} /\ DOMAIN todo = 1..n /\ h = todo[1] /\ h \in Wanted
          /\ rest \in Seq(Wanted) /\ Len(rest) = n - 1
          /\ \A i \in 1..(n - 1) : rest[i] = todo[i + 1]
      BY <2>1, <2>a, <3>a, <3>b
    <3>2. ASSUME NEW i \in 1..n
          PROVE  todo[i] = h \/ todo[i] \in ToSet(rest)
      <4>1. i = 1 \/ (i - 1 \in 1..(n - 1) /\ (i - 1) + 1 = i)
        BY <3>1
      <4>2. DOMAIN rest = 1..(n - 1)
        BY <3>1
      <4> QED BY <3>1, <4>1, <4>2 DEF ToSet
    <3>3. \A kind \in ToSet(todo) : \E i \in 1..n : kind = todo[i]
      BY <3>1 DEF ToSet
    <3> QED BY <2>1, <3>1, <3>2, <3>3, <3>b
  <2>4. CASE h = "report"
    <3>1. files' = files
      BY <1>3, <2>4, <2>a DEF Write
    <3>2. \A kind : Kept(kind)' <=> Kept(kind)
      BY <2>2, <3>1 DEF Kept
    <3> QED BY <2>1, <2>2, <2>3, <2>4, <3>2 DEF FilesOK
  <2>5. CASE h # "report"
    <3>1. files' = [path \in DOMAIN files \cup {PathOf(h)} |->
                      IF path = PathOf(h) THEN h ELSE files[path]]
      BY <1>3, <2>5, <2>a DEF Write, PathOf
    <3>2. \A kind \in Wanted \ {"report"} : kind # h => PathOf(kind) # PathOf(h)
      BY <2>3, <2>5, OutputsApart DEF Wanted, PathOf
    <3>3. Kept(h)'
      BY <2>2, <3>1 DEF Kept
    <3>4. \A kind \in Wanted \ {"report"} : Kept(kind) => Kept(kind)'
      BY <2>2, <3>1, <3>2, <3>3 DEF Kept
    <3>5. \A kind \in Wanted : kind = "report" \/ kind \in ToSet(todo') \/ Kept(kind)'
      BY <2>1, <2>3, <3>3, <3>4
    <3> QED BY <2>1, <2>2, <2>3, <3>5 DEF FilesOK
  <2> QED BY <2>4, <2>5
<1>4. CASE Finish
  <2>1. pc = "write" /\ pc' = "done" /\ todo = <<>> /\ UNCHANGED <<options, files, todo>>
    BY <1>4 DEF Finish, outputs
  <2>2. ToSet(todo) = {}
    BY <2>1 DEF ToSet
  <2>3. \A kind \in Wanted : kind = "report" \/ Kept(kind)
    BY <2>1, <2>2 DEF FilesOK
  <2> QED BY <2>1, <2>3 DEF FilesOK, Wanted, Kept, PathOf
<1>5. CASE FetchPage
  BY <1>1, <1>5 DEF FetchPage, outputs
<1>6. CASE FetchFails \/ WriteFails
  BY <1>1, <1>6 DEF FetchFails, WriteFails, outputs
<1>7. CASE Download
  BY <1>1, <1>7 DEF Download, outputs
<1>8. CASE \E m \in Message : IndexGains(m) \/ IndexLoses(m)
  BY <1>1, <1>8 DEF IndexGains, IndexLoses, outputs
<1>9. CASE UNCHANGED vars
  BY <1>1, <1>9 DEF vars, outputs
<1> QED BY <1>2, <1>3, <1>4, <1>5, <1>6, <1>7, <1>8, <1>9 DEF Next

-----------------------------------------------------------------------------
(* The merge *)

\* The scan, its files, and the configuration it still has.
MergeInv == ScanInv /\ FilesOK /\ command \in Commands /\ loaded = Parse(command.file)

\* Of a validated configuration no rule is left out in compilation.
LEMMA AllCompile ==
  ASSUME NEW config, Valid(config), NEW Q, config.filters \in Seq(Q)
  PROVE  CompileFilters(config.filters) = config.filters
<1>1. \A i \in DOMAIN config.filters : FilterType(config.filters[i]) # "none"
  BY ValidatedRulesCompile
<1>2. DOMAIN config.filters \subseteq
        {i \in DOMAIN config.filters : FilterType(config.filters[i]) # "none"}
  BY <1>1
<1> QED BY <1>2, PickAll DEF CompileFilters

\* Sound rules put behind the filters of a file change no tag there was.
LEMMA MergeKeeps ==
  ASSUME NEW file, NEW R, NEW rules \in Seq(R), DaemonStarts(file),
         "filters" \in DOMAIN file.yaml =>
           file.yaml.filters \in Seq(ToSet(file.yaml.filters)),
         \A i \in DOMAIN rules : Sound(ReadFilter(rules[i]))
  PROVE  LET before == CompileFilters(Parse(file).filters)
             after  == CompileFilters(Parse(Merged(file, rules)).filters)
         IN /\ Len(after) = Len(Parse(file).filters) + Len(rules)
            /\ \A view : IsPrefix(TagsOf(before, view), TagsOf(after, view))
<1>a. PICK old : old = Parse(file)
  OBVIOUS
<1>b. PICK new : new = Parse(Merged(file, rules))
  OBVIOUS
<1>1. FiltersBehind(old, new, rules) /\ Valid(old) /\ Valid(new)
  BY <1>a, <1>b, MergedStarts
<1>2. PICK Q : \E added \in Seq(Q) :
                 /\ old.filters \in Seq(Q) /\ new.filters = old.filters \o added
                 /\ Len(added) = Len(rules)
  BY <1>1 DEF FiltersBehind
<1>3. PICK added \in Seq(Q) : /\ old.filters \in Seq(Q)
                              /\ new.filters = old.filters \o added
                              /\ Len(added) = Len(rules)
  BY <1>2
<1>4. /\ new.filters \in Seq(Q)
      /\ Len(new.filters) = Len(old.filters) + Len(added)
  <2>a. PICK a : a = old.filters
    OBVIOUS
  <2>b. PICK c : c = new.filters
    OBVIOUS
  <2>1. a \in Seq(Q) /\ c = a \o added
    BY <1>3, <2>a, <2>b
  <2>2. c \in Seq(Q) /\ Len(c) = Len(a) + Len(added)
    BY <2>1, ConcatParts
  <2> QED BY <2>2, <2>a, <2>b
<1>5. CompileFilters(old.filters) = old.filters /\ CompileFilters(new.filters) = new.filters
  BY <1>1, <1>3, <1>4, AllCompile
<1>6. \A view : IsPrefix(TagsOf(old.filters, view), TagsOf(new.filters, view))
  BY <1>3, TagsBehind
<1> QED BY <1>3, <1>4, <1>5, <1>6, <1>a, <1>b

\* "The YAML merges straight into a real berger.yaml", for any file and mail: a
\* daemon that started starts again, with every suggested rule and every tag
\* there was, and each file asked for holds what it should (cli/scan.rs,
\* scan/formatter.rs).
THEOREM SuggestionsFit == Spec => []SuggestionsMerge
<1>1. MergeInv => SuggestionsMerge
  <2> SUFFICES ASSUME MergeInv, pc = "done" PROVE SuggestionsMerge
    BY DEF SuggestionsMerge
  <2>a. PICK S : S = {RenderYaml(s) : s \in Literal(suggestions)}
    OBVIOUS
  <2>b. PICK rules : rules = SetToSeq(S)
    OBVIOUS
  <2>c. PICK file : file = command.file
    OBVIOUS
  <2>1. IsFiniteSet(suggestions)
    BY DoneIsScanned, OneRuleATag DEF MergeInv, ScanDone
  <2>2. IsFiniteSet(S)
    <3> DEFINE L == Literal(suggestions)
               f == [s \in L |-> RenderYaml(s)]
    <3>1. IsFiniteSet(L)
      BY <2>1, FS_Subset DEF Literal
    <3>2. f \in Surjection(L, S)
      BY <2>a DEF Surjection
    <3> HIDE DEF f, L
    <3> QED BY <3>1, <3>2, FS_Surjection
  <2>3. rules \in Seq(S)
    BY <2>2, <2>b, SetListed
  <2>4. ASSUME NEW i \in DOMAIN rules PROVE Sound(ReadFilter(rules[i]))
    <3>1. rules[i] \in S
      BY <2>3
    <3>2. PICK s \in Literal(suggestions) : rules[i] = RenderYaml(s)
      BY <2>a, <3>1
    <3> QED BY <3>2, SuggestedSound DEF MergeInv
  <2>5. "filters" \in DOMAIN file.yaml =>
           file.yaml.filters \in Seq(ToSet(file.yaml.filters))
    BY <2>c, ScanAssumption DEF MergeInv
  <2>6. DaemonStarts(file) =>
          /\ DaemonStarts(Merged(file, rules))
          /\ Len(CompileFilters(Parse(Merged(file, rules)).filters))
               = Len(Parse(file).filters) + Len(rules)
          /\ \A view : IsPrefix(TagsOf(CompileFilters(Parse(file).filters), view),
                                TagsOf(CompileFilters(Parse(Merged(file, rules)).filters), view))
    BY <2>3, <2>4, <2>5, MergedStarts, MergeKeeps
  <2>7. \A i \in DOMAIN Outputs(options) :
          Outputs(options)[i] \in {files[path] : path \in DOMAIN files} \cup {"report"}
    BY DEF MergeInv, FilesOK, Kept, Wanted, ToSet
  <2> QED BY <2>6, <2>7, <2>a, <2>b, <2>c DEF SuggestionsMerge, MergeInv
<1>2. Init => MergeInv
  BY ScanInit, FilesInit DEF Init, MergeInv
<1>3. MergeInv /\ [Next]_vars => MergeInv'
  <2> SUFFICES ASSUME MergeInv, [Next]_vars PROVE MergeInv'
    OBVIOUS
  <2>1. UNCHANGED <<command, loaded>>
    BY DEF Next, vars, inputs, IndexGains, IndexLoses, FetchPage, FetchFails, Download,
           Conclude, Write, WriteFails, Finish
  <2>2. ScanInv' /\ FilesOK'
    BY ScanStep, FilesStep DEF MergeInv
  <2> QED BY <2>1, <2>2 DEF MergeInv
<1> QED BY <1>1, <1>2, <1>3, PTL DEF Spec

-----------------------------------------------------------------------------
(* What the busiest leave out *)

\* The smaller and the larger of two.
LEMMA TwoOf ==
  ASSUME NEW a \in Nat, NEW b \in Nat
  PROVE  /\ Min({a, b}) = IF a <= b THEN a ELSE b
         /\ Max({a, b}) = IF a >= b THEN a ELSE b
<1>1. \E x \in {a, b} : \A y \in {a, b} : x <= y
  OBVIOUS
<1>2. Min({a, b}) \in {a, b} /\ \A y \in {a, b} : Min({a, b}) <= y
  BY <1>1 DEF Min
<1>3. \E x \in {a, b} : \A y \in {a, b} : x >= y
  OBVIOUS
<1>4. Max({a, b}) \in {a, b} /\ \A y \in {a, b} : Max({a, b}) >= y
  BY <1>3 DEF Max
<1> QED BY <1>2, <1>4

\* With room to spare nothing counted is left out.
LEMMA NothingDropped ==
  ASSUME NEW counts, NEW counted, NEW key, CountsOf(counts, counted, key),
         Cardinality(Busiest(counts)) < Top
  PROVE  Busiest(counts) = DOMAIN counts
<1> DEFINE kept == Busiest(counts)
           c == Cardinality(DOMAIN counts)
           k == Min({Top, c})
<1>1. IsFiniteSet(DOMAIN counts)
  <2> DEFINE f == [i \in counted |-> key[i]]
  <2>1. f \in Surjection(counted, DOMAIN counts) /\ IsFiniteSet(counted)
    BY DEF CountsOf, Surjection
  <2> HIDE DEF f
  <2> QED BY <2>1, FS_Surjection
<1>2. kept \subseteq DOMAIN counts /\ Cardinality(kept) = k
  BY CountsKept DEF IsTop
<1>3. Top \in Nat /\ c \in Nat
  BY <1>1, ScanAssumption, FS_CardinalityType
<1> HIDE DEF c, kept
<1>4. k = IF Top <= c THEN Top ELSE c
  BY <1>3, TwoOf
<1> HIDE DEF k
<1>5. Cardinality(kept) = c
  BY <1>2, <1>3, <1>4 DEF kept
<1>6. kept = DOMAIN counts
  BY <1>1, <1>2, <1>5, FS_Subset DEF c
<1> QED BY <1>6 DEF kept

-----------------------------------------------------------------------------
(* The hours *)

\* Before the epoch too an hour is one of the day.
LEMMA HourOfDay ==
  ASSUME NEW date \in Int
  PROVE  HourOf(date) \in 0..HoursPerDay - 1
<1>1. HourLength \in Nat \ {0} /\ HoursPerDay \in Nat \ {0}
  BY ScanAssumption
<1>2. Quotient(date, HourLength) \in Int
  BY <1>1 DEF Quotient
<1> DEFINE q == Quotient(date, HourLength)
<1> HIDE DEF q
<1>3. ASSUME NEW h \in Nat \ {0}, NEW x \in Int PROVE x % h \in 0..h - 1
  OBVIOUS
<1>4. q % HoursPerDay \in 0..HoursPerDay - 1
  BY <1>1, <1>2, <1>3 DEF q
<1> QED BY <1>4 DEF HourOf, q

\* The hours of the day count the whole inbox, and the busiest is the first
\* of those with the most.
HoursCounted(volume, size) ==
  /\ SumFunction(volume.hourly) = size
  /\ \A hour \in DOMAIN volume.hourly :
       /\ volume.hourly[hour] <= volume.peak_hour_messages
       /\ volume.hourly[hour] = volume.peak_hour_messages => hour >= volume.busiest_hour

\* Every message has its hour.
LEMMA HoursAddUp ==
  ASSUME NEW inbox, IsFiniteSet(DOMAIN inbox), \A i \in DOMAIN inbox : inbox[i].date \in Int
  PROVE  HoursCounted(AnalyzeVolume(inbox), Cardinality(DOMAIN inbox))
<1> DEFINE hours == 0..HoursPerDay - 1
           of(hour) == {i \in DOMAIN inbox : HourOf(inbox[i].date) = hour}
           hourly == [hour \in hours |-> Cardinality(of(hour))]
           most == {h \in hours : \A g \in hours : hourly[h] >= hourly[g]}
           busiest == Min(most)
           volume == AnalyzeVolume(inbox)
           key == [i \in DOMAIN inbox |-> HourOf(inbox[i].date)]
           name == [hour \in hours |-> hour]
<1>1. /\ volume.hourly = hourly /\ volume.busiest_hour = busiest
      /\ volume.peak_hour_messages = hourly[busiest]
  <2>1. DOMAIN hourly = hours
    OBVIOUS
  <2>2. volume = [hourly |-> hourly, busiest_hour |-> busiest,
                  peak_hour_messages |-> hourly[busiest]]
    BY <2>1 DEF AnalyzeVolume, Tally
  <2> HIDE DEF hourly, busiest, volume
  <2> QED BY <2>2
<1>2. IsFiniteSet(hours) /\ hours \subseteq Nat /\ hours # {}
  <2>1. HoursPerDay \in Nat \ {0}
    BY ScanAssumption
  <2>2. 0 \in hours /\ hours \subseteq Nat /\ HoursPerDay - 1 \in Int
    BY <2>1
  <2> QED BY <2>2, FS_Interval
<1>3. \A hour : IsFiniteSet(of(hour)) /\ Cardinality(of(hour)) \in Nat
  BY FS_Subset, FS_CardinalityType
<1>4. \A hour \in hours : hourly[hour] \in Nat
  <2> HIDE DEF of, hours
  <2> QED BY <1>3
<1>5. busiest \in most /\ \A h \in most : busiest <= h
  <2>1. \E r \in hours : \A t \in hours : hourly[t] <= hourly[r]
    <3> HIDE DEF hours, hourly
    <3> QED BY <1>2, <1>4, HighestCount
  <2>2. PICK r \in hours : \A t \in hours : hourly[t] <= hourly[r]
    BY <2>1
  <2>3. r \in most
    <3> HIDE DEF hours, hourly
    <3> QED BY <1>4, <2>2
  <2>4. most \subseteq Nat /\ most # {}
    BY <1>2, <2>3
  <2>5. \E x \in most : \A y \in most : x <= y
    <3> HIDE DEF most
    <3> QED BY <2>4, Least
  <2> HIDE DEF most
  <2> QED BY <2>5 DEF Min
<1>6. Groups(hourly, DOMAIN inbox, key, name)
  <2>1. \A hour \in hours : of(hour) = {i \in DOMAIN inbox : key[i] = name[hour]}
    OBVIOUS
  <2>2. \A hour \in hours : hourly[hour] = Cardinality({i \in DOMAIN inbox : key[i] = name[hour]})
    <3> HIDE DEF of, key, name, hours
    <3> QED BY <2>1
  <2>3. \A g, k \in hours : name[g] = name[k] => g = k
    <3> HIDE DEF hours
    <3> QED OBVIOUS
  <2>4. DOMAIN hourly = hours
    <3> HIDE DEF hours, of
    <3> QED OBVIOUS
  <2> HIDE DEF hourly, key, name, hours
  <2> QED BY <1>2, <2>2, <2>3, <2>4 DEF Groups
<1>7. InGroups(hourly, DOMAIN inbox, key, name) = DOMAIN inbox
  <2>1. \A i \in DOMAIN inbox : key[i] \in hours
    BY HourOfDay
  <2>2. \A hour \in hours : name[hour] = hour
    OBVIOUS
  <2>3. DOMAIN hourly = hours
    OBVIOUS
  <2> HIDE DEF hourly, key, name, hours
  <2> QED BY <2>1, <2>2, <2>3 DEF InGroups
<1>8. SumFunction(hourly) = Cardinality(DOMAIN inbox)
  <2> HIDE DEF hourly, key, name
  <2> QED BY <1>6, <1>7, GroupsAddUp
<1>9. DOMAIN hourly = hours
  OBVIOUS
<1>10. ASSUME NEW hour \in hours
       PROVE  /\ hourly[hour] <= hourly[busiest]
              /\ hourly[hour] = hourly[busiest] => hour >= busiest
  <2>1. /\ busiest \in hours /\ \A g \in hours : hourly[busiest] >= hourly[g]
    <3> HIDE DEF busiest, hourly, hours
    <3> QED BY <1>5
  <2>2. hourly[hour] <= hourly[busiest]
    <3> HIDE DEF busiest, hourly, hours
    <3> QED BY <1>4, <2>1
  <2>3. ASSUME hourly[hour] = hourly[busiest] PROVE hour >= busiest
    <3>1. hour \in most
      <4> HIDE DEF busiest, hourly, hours
      <4> QED BY <2>1, <2>3
    <3>2. busiest <= hour
      BY <1>5, <3>1
    <3>3. hour \in Nat /\ busiest \in Nat
      BY <1>2, <2>1
    <3> HIDE DEF busiest
    <3> QED BY <3>2, <3>3
  <2> QED BY <2>2, <2>3
<1> HIDE DEF hourly, busiest, volume, hours
<1> QED BY <1>1, <1>8, <1>9, <1>10 DEF HoursCounted, volume

-----------------------------------------------------------------------------
(* The senders and their domains *)

Writers(inbox) == {i \in DOMAIN inbox : IsAddress(ScanAddress(inbox[i].from))}

\* A message counts for its sender if that is an address.
LEMMA SendersCount ==
  ASSUME NEW inbox, IsFiniteSet(DOMAIN inbox)
  PROVE  CountsOf(CountFrom(inbox), Writers(inbox), SendersOf(inbox))
<1> DEFINE senders == SendersOf(inbox)
           counts == CountFrom(inbox)
           counted == Writers(inbox)
<1>1. IsFiniteSet(counted)
  <2>1. counted \subseteq DOMAIN inbox
    BY DEF Writers
  <2> HIDE DEF counted
  <2> QED BY <2>1, FS_Subset
<1>2. /\ DOMAIN counts = {s \in ToSet(senders) : IsAddress(s)}
      /\ \A a \in DOMAIN counts :
           counts[a] = Cardinality({i \in DOMAIN senders : senders[i] = a})
  BY DEF CountFrom, Tally
<1>3. /\ DOMAIN senders = DOMAIN inbox
      /\ \A i \in DOMAIN inbox : senders[i] = ScanAddress(inbox[i].from)
  BY DEF SendersOf
<1> HIDE DEF senders, counts
<1>4. DOMAIN counts = {senders[i] : i \in counted}
  BY <1>2, <1>3 DEF ToSet, Writers
<1>5. ASSUME NEW a \in DOMAIN counts
      PROVE  counts[a] = Cardinality({i \in counted : senders[i] = a})
  <2>1. {i \in DOMAIN senders : senders[i] = a} = {i \in counted : senders[i] = a}
    BY <1>2, <1>3 DEF Writers
  <2> HIDE DEF counted
  <2> QED BY <1>2, <2>1
<1> HIDE DEF counted
<1> QED BY <1>1, <1>4, <1>5 DEF CountsOf, senders, counts, counted

\* Rows that count messages by sender, each its own; with room to spare no
\* sender is left out.
SenderRows(rows, counted, key) ==
  /\ IsFiniteSet(rows) /\ IsFiniteSet(counted)
  /\ \A r \in rows :
       /\ IsAddress(r.address)
       /\ r.messages_received = Cardinality({i \in counted : key[i] = r.address})
  /\ \A r, q \in rows : r.address = q.address => r = q
  /\ Cardinality(rows) < Top => \A i \in counted : \E r \in rows : key[i] = r.address

\* The senders reported are such rows.
LEMMA SendersAreRows ==
  ASSUME NEW inbox, IsFiniteSet(DOMAIN inbox)
  PROVE  SenderRows(TopSenders(inbox), Writers(inbox), SendersOf(inbox))
<1> DEFINE counts == CountFrom(inbox)
           counted == Writers(inbox)
           key == SendersOf(inbox)
           kept == Busiest(counts)
           row == [a \in kept |-> [address |-> a, messages_received |-> counts[a]]]
           rows == {row[a] : a \in kept}
<1>1. CountsOf(counts, counted, key)
  BY SendersCount
<1>2. TopSenders(inbox) = rows
  <2>1. TopSenders(inbox) = {[address |-> a, messages_received |-> counts[a]] : a \in kept}
    BY DEF TopSenders
  <2> HIDE DEF kept, counts
  <2> QED BY <2>1
<1>3. kept \subseteq DOMAIN counts /\ IsFiniteSet(kept)
  <2> HIDE DEF counts, counted, key
  <2> QED BY <1>1, CountsKept
<1>4. \A r \in rows : r.address \in kept /\ r = row[r.address]
                      /\ r.messages_received = counts[r.address]
  <2> HIDE DEF kept, counts
  <2> QED OBVIOUS
<1>5. /\ IsFiniteSet(rows) /\ Cardinality(rows) = Cardinality(kept)
  <2>1. row \in Surjection(kept, rows) /\ row \in Injection(kept, rows)
    <3> HIDE DEF kept, counts
    <3> QED BY DEF Surjection, Injection, IsInjective
  <2> HIDE DEF row, rows, kept
  <2> QED BY <1>3, <2>1, FS_Surjection
<1>6. \A a \in DOMAIN counts : IsAddress(a)
  BY DEF CountFrom
<1>7. ASSUME Cardinality(rows) < Top
      PROVE  kept = DOMAIN counts
  <2> HIDE DEF kept, rows, counts, counted, key
  <2>1. Cardinality(kept) < Top
    BY <1>5, <1>7
  <2> QED BY <1>1, <2>1, NothingDropped DEF kept
<1> HIDE DEF rows, row, kept, counts, counted, key
<1>8. \A r \in rows : /\ IsAddress(r.address)
                      /\ r.messages_received = Cardinality({i \in counted : key[i] = r.address})
  BY <1>1, <1>3, <1>4, <1>6 DEF CountsOf
<1>9. \A r, q \in rows : r.address = q.address => r = q
  BY <1>4
<1>10. ASSUME Cardinality(rows) < Top, NEW i \in counted
       PROVE  \E r \in rows : key[i] = r.address
  <2>1. key[i] \in kept
    BY <1>1, <1>7, <1>10 DEF CountsOf
  <2>2. row[key[i]] \in rows /\ row[key[i]].address = key[i]
    BY <2>1 DEF rows, row
  <2> QED BY <2>2
<1>11. SenderRows(rows, counted, key)
  BY <1>1, <1>5, <1>8, <1>9, <1>10 DEF SenderRows, CountsOf
<1> QED BY <1>2, <1>11 DEF counted, key

\* What senders sent is counted once each.
LEMMA SendersAddUp ==
  ASSUME NEW all, NEW counted, NEW key, SenderRows(all, counted, key), NEW rows \in SUBSET all
  PROVE  SumFunction([r \in rows |-> r.messages_received])
           = Cardinality({i \in counted : \E r \in rows : key[i] = r.address})
<1> DEFINE w == [r \in rows |-> r.messages_received]
           name == [r \in rows |-> r.address]
<1>1. Groups(w, counted, key, name)
  <2>1. IsFiniteSet(rows)
    BY FS_Subset DEF SenderRows
  <2>2. \A r \in rows : w[r] = Cardinality({i \in counted : key[i] = name[r]})
    BY DEF SenderRows
  <2>3. \A r, q \in rows : name[r] = name[q] => r = q
    BY DEF SenderRows
  <2>4. DOMAIN w = rows
    OBVIOUS
  <2> HIDE DEF w, name
  <2> QED BY <2>1, <2>2, <2>3, <2>4 DEF Groups, SenderRows
<1>2. InGroups(w, counted, key, name) = {i \in counted : \E r \in rows : key[i] = r.address}
  BY DEF InGroups
<1>3. SumFunction(w) = Cardinality(InGroups(w, counted, key, name))
  <2> HIDE DEF w, name
  <2> QED BY <1>1, GroupsAddUp
<1> HIDE DEF name
<1> QED BY <1>2, <1>3

\* A domain received what any of its senders sent.
LEMMA DomainsCount ==
  ASSUME NEW inbox, IsFiniteSet(DOMAIN inbox), NEW d \in TopDomains(inbox)
  PROVE  d.messages_received
           = Cardinality({i \in Writers(inbox) : DomainOf(SendersOf(inbox)[i]) = d.domain})
<1> DEFINE senders == SendersOf(inbox)
           counted == Writers(inbox)
           key == [i \in counted |-> DomainOf(senders[i])]
           all == DOMAIN CountFrom(inbox)
           counts == [x \in {DomainOf(s) : s \in all} |->
                        Cardinality({i \in DOMAIN senders :
                                       IsAddress(senders[i]) /\ DomainOf(senders[i]) = x})]
           kept == Busiest(counts)
<1>1. /\ DOMAIN senders = DOMAIN inbox
      /\ \A i \in DOMAIN inbox : senders[i] = ScanAddress(inbox[i].from)
  BY DEF SendersOf
<1>2. /\ IsFiniteSet(counted) /\ all = {senders[i] : i \in counted}
  <2>1. CountsOf(CountFrom(inbox), counted, senders)
    BY SendersCount
  <2> QED BY <2>1 DEF CountsOf
<1>3. \A x : {i \in DOMAIN senders : IsAddress(senders[i]) /\ DomainOf(senders[i]) = x}
               = {i \in counted : DomainOf(senders[i]) = x}
  <2> HIDE DEF senders
  <2> QED BY <1>1 DEF Writers
<1>4. CountsOf(counts, counted, key)
  <2>1. DOMAIN counts = {key[i] : i \in counted}
    <3> HIDE DEF all, senders, counted
    <3> QED BY <1>2
  <2>2. ASSUME NEW x \in DOMAIN counts
        PROVE  counts[x] = Cardinality({i \in counted : key[i] = x})
    <3>1. {i \in counted : key[i] = x} = {i \in counted : DomainOf(senders[i]) = x}
      <4> HIDE DEF senders, counted
      <4> QED OBVIOUS
    <3>2. counts[x] = Cardinality({i \in DOMAIN senders :
                                     IsAddress(senders[i]) /\ DomainOf(senders[i]) = x})
      <4> HIDE DEF senders, all
      <4> QED OBVIOUS
    <3> HIDE DEF senders, counted, counts, key
    <3> QED BY <1>3, <3>1, <3>2
  <2> HIDE DEF counts, counted, key
  <2> QED BY <1>2, <2>1, <2>2 DEF CountsOf
<1>5. kept \subseteq DOMAIN counts
  <2> HIDE DEF counts, counted, key
  <2> QED BY <1>4, CountsKept
<1>6. d \in {[domain |-> x, messages_received |-> counts[x]] : x \in kept}
  BY DEF TopDomains, Tally
<1>7. d.domain \in DOMAIN counts /\ d.messages_received = counts[d.domain]
  <2> HIDE DEF kept, counts
  <2> QED BY <1>5, <1>6
<1>8. counts[d.domain] = Cardinality({i \in counted : key[i] = d.domain})
  <2> HIDE DEF counts, counted, key
  <2> QED BY <1>4, <1>7 DEF CountsOf
<1>9. {i \in counted : key[i] = d.domain} = {i \in counted : DomainOf(senders[i]) = d.domain}
  <2> HIDE DEF senders, counted
  <2> QED OBVIOUS
<1> HIDE DEF senders, counted, counts, key
<1> QED BY <1>7, <1>8, <1>9 DEF senders, counted

-----------------------------------------------------------------------------
(* The dimensions of a report agree *)

\* The senders of a domain sent what it received, or less when some are left
\* out.
LEMMA DomainReceivesOwn ==
  ASSUME NEW inbox, IsFiniteSet(DOMAIN inbox), NEW d \in TopDomains(inbox)
  PROVE  LET senders == TopSenders(inbox)
             own == {row \in senders : DomainOf(row.address) = d.domain}
             received == SumFunction([row \in own |-> row.messages_received])
         IN /\ received <= d.messages_received
            /\ Cardinality(senders) < Top => received = d.messages_received
<1> DEFINE senders == TopSenders(inbox)
           own == {row \in senders : DomainOf(row.address) = d.domain}
           received == SumFunction([row \in own |-> row.messages_received])
           counted == Writers(inbox)
           key == SendersOf(inbox)
           named == {i \in counted : \E r \in own : key[i] = r.address}
           written == {i \in counted : DomainOf(key[i]) = d.domain}
<1>1. SenderRows(senders, counted, key)
  BY SendersAreRows
<1>2. received = Cardinality(named)
  <2> HIDE DEF senders, counted, key
  <2>1. own \in SUBSET senders
    OBVIOUS
  <2> HIDE DEF own
  <2> QED BY <1>1, <2>1, SendersAddUp
<1>3. d.messages_received = Cardinality(written)
  BY DomainsCount
<1>4. named \subseteq written /\ IsFiniteSet(written)
  <2> HIDE DEF senders, counted, key
  <2>1. named \subseteq written
    OBVIOUS
  <2>2. IsFiniteSet(counted)
    BY <1>1 DEF SenderRows
  <2>3. IsFiniteSet(written)
    BY <2>2, FS_Subset
  <2> QED BY <2>1, <2>3
<1>5. Cardinality(named) <= Cardinality(written)
  <2> HIDE DEF named, written
  <2> QED BY <1>4, FS_Subset
<1>6. ASSUME Cardinality(senders) < Top
      PROVE  named = written
  <2> HIDE DEF senders, counted, key
  <2>1. \A i \in counted : \E r \in senders : key[i] = r.address
    BY <1>1, <1>6 DEF SenderRows
  <2> QED BY <2>1
<1> HIDE DEF received, named, written, senders
<1>7. /\ received <= d.messages_received
      /\ Cardinality(senders) < Top => received = d.messages_received
  BY <1>2, <1>3, <1>5, <1>6
<1> QED BY <1>7 DEF received, senders

\* A contact is counted like the sender it is.
LEMMA ContactIsSender ==
  ASSUME NEW inbox, IsFiniteSet(DOMAIN inbox), NEW contacts, NEW sent,
         ContactList(contacts, inbox, sent),
         NEW contact \in contacts, NEW row \in TopSenders(inbox),
         contact.address = row.address
  PROVE  contact.messages_received = row.messages_received
<1> DEFINE a == row.address
           key == SendersOf(inbox)
<1>1. SenderRows(TopSenders(inbox), Writers(inbox), key)
  BY SendersAreRows
<1>2. IsAddress(a) /\ row.messages_received = Cardinality({i \in Writers(inbox) : key[i] = a})
  <2> HIDE DEF key
  <2> QED BY <1>1 DEF SenderRows
<1>3. contact.messages_received = Cardinality({i \in DOMAIN inbox : ScanAddress(inbox[i].from) = a})
  BY DEF ContactList
<1>4. \A i \in DOMAIN inbox : key[i] = ScanAddress(inbox[i].from)
  BY DEF SendersOf
<1> HIDE DEF a, key
<1>5. {i \in Writers(inbox) : key[i] = a} = {i \in DOMAIN inbox : ScanAddress(inbox[i].from) = a}
  BY <1>2, <1>4 DEF Writers
<1> QED BY <1>2, <1>3, <1>5

\* A newsletter has no more senders than messages, and its domain received
\* them.
LEMMA NewslettersAreReceived ==
  ASSUME NEW inbox, IsFiniteSet(DOMAIN inbox),
         NEW n \in DetectNewsletters(inbox),
         NEW d \in TopDomains([i \in DOMAIN inbox |-> inbox[i].envelope]),
         n.domain = d.domain
  PROVE  n.distinct_senders <= n.messages /\ n.messages <= d.messages_received
<1> DEFINE envelopes == [i \in DOMAIN inbox |-> inbox[i].envelope]
           counted == Addressed(inbox, Bulk(inbox))
           key == DomainKey(inbox)
           own == {i \in counted : key[i] = n.domain}
           from == [i \in own |-> ScanAddress(inbox[i].envelope.from)]
           senders == {ScanAddress(inbox[i].envelope.from) : i \in Bulk(inbox)}
           distinct == {s \in senders : IsAddress(s) /\ DomainOf(s) = n.domain}
           written == {i \in Writers(envelopes) : DomainOf(SendersOf(envelopes)[i]) = d.domain}
<1>1. CountedRows(DetectNewsletters(inbox), counted, key)
  BY NewslettersCounted
<1>2. n.messages = Cardinality(own) /\ IsFiniteSet(own)
  <2> HIDE DEF counted, key
  <2>1. n.messages = Cardinality(own) /\ IsFiniteSet(counted)
    BY <1>1 DEF CountedRows
  <2> QED BY <2>1, FS_Subset
<1>3. n.distinct_senders = Cardinality(distinct)
  <2> DEFINE groups == ByDomain(inbox, Bulk(inbox))
             of(x) == Cardinality({s \in senders : IsAddress(s) /\ DomainOf(s) = x})
  <2>1. DetectNewsletters(inbox) =
          {[domain |-> g.domain, messages |-> g.messages,
            distinct_senders |-> of(g.domain)] : g \in groups}
    BY DEF DetectNewsletters, Bulk
  <2>2. n.distinct_senders = of(n.domain)
    <3> HIDE DEF groups, of
    <3> QED BY <2>1
  <2> HIDE DEF senders
  <2> QED BY <2>2
<1>4. \A i \in own : /\ i \in Bulk(inbox) /\ i \in DOMAIN inbox
                     /\ IsAddress(ScanAddress(inbox[i].envelope.from))
                     /\ DomainOf(ScanAddress(inbox[i].envelope.from)) = n.domain
  BY DEF Addressed, DomainKey, Bulk
<1>5. from \in Surjection(own, distinct)
  <2>1. \A i \in own : from[i] \in distinct
    <3> HIDE DEF own
    <3> QED BY <1>4
  <2>2. ASSUME NEW s \in distinct
        PROVE  \E i \in own : from[i] = s
    <3>1. PICK i \in Bulk(inbox) : s = ScanAddress(inbox[i].envelope.from)
      OBVIOUS
    <3>2. i \in own
      BY <3>1 DEF Addressed, DomainKey, Bulk
    <3> HIDE DEF own
    <3> QED BY <3>1, <3>2
  <2>3. from = [i \in own |-> from[i]]
    <3> HIDE DEF own
    <3> QED OBVIOUS
  <2> HIDE DEF from, own, distinct
  <2> QED BY <2>1, <2>2, <2>3 DEF Surjection
<1>6. Cardinality(distinct) <= Cardinality(own)
  <2> HIDE DEF from, own, distinct
  <2> QED BY <1>2, <1>5, FS_Surjection
<1>7. DOMAIN envelopes = DOMAIN inbox
  OBVIOUS
<1>8. IsFiniteSet(DOMAIN envelopes) /\ d \in TopDomains(envelopes)
  <2>1. d \in TopDomains(envelopes)
    OBVIOUS
  <2> HIDE DEF envelopes
  <2> QED BY <1>7, <2>1
<1>9. d.messages_received = Cardinality(written)
  <2> HIDE DEF envelopes
  <2> QED BY <1>8, DomainsCount
<1>10. own \subseteq written
  <2>1. ASSUME NEW i \in DOMAIN inbox
        PROVE  /\ envelopes[i].from = inbox[i].envelope.from
               /\ SendersOf(envelopes)[i] = ScanAddress(inbox[i].envelope.from)
    BY DEF SendersOf
  <2> HIDE DEF own, envelopes
  <2> QED BY <1>4, <1>7, <2>1 DEF Writers
<1>11. IsFiniteSet(written)
  <2>1. written \subseteq DOMAIN envelopes
    BY DEF Writers
  <2> HIDE DEF written, envelopes
  <2> QED BY <1>8, <2>1, FS_Subset
<1>12. Cardinality(own) <= Cardinality(written)
  <2> HIDE DEF own, written
  <2> QED BY <1>10, <1>11, FS_Subset
<1> HIDE DEF own, written, distinct
<1> QED BY <1>2, <1>3, <1>6, <1>9, <1>12

\* The shares of the languages make a whole.
LEMMA SharesAddUp ==
  ASSUME NEW inbox, IsFiniteSet(Sample(Len(inbox))), NEW l \in DetectLanguages(inbox)
  PROVE  l.share[2] = SumFunction([k \in DetectLanguages(inbox) |-> k.share[1]])
<1> DEFINE found == {i \in Sample(Len(inbox)) : Language[inbox[i].subject] # "unknown"}
           key == [i \in found |-> Language[inbox[i].subject]]
           row == [g \in {key[i] : i \in found} |->
                     [language |-> g,
                      share |-> <<Cardinality({i \in found : key[i] = g}), Cardinality(found)>>]]
           rows == {row[g] : g \in {key[i] : i \in found}}
           w == [k \in rows |-> k.share[1]]
           name == [k \in rows |-> k.language]
<1>1. DetectLanguages(inbox) = rows
  <2> DEFINE spoken(i) == Language[inbox[i].subject]
             has(g) == Cardinality({i \in found : spoken(i) = g})
  <2>1. DetectLanguages(inbox) =
          {[language |-> g, share |-> <<has(g), Cardinality(found)>>]
             : g \in {spoken(i) : i \in found}}
    BY DEF DetectLanguages
  <2>2. \A i \in found : key[i] = spoken(i)
    <3> HIDE DEF found
    <3> QED OBVIOUS
  <2>3. {spoken(i) : i \in found} = {key[i] : i \in found}
        /\ \A g : has(g) = Cardinality({i \in found : key[i] = g})
    <3> HIDE DEF found, key, spoken
    <3> QED BY <2>2
  <2> DEFINE r(g) == [language |-> g, share |-> <<Cardinality({i \in found : key[i] = g}),
                                                  Cardinality(found)>>]
             T == {key[i] : i \in found}
  <2>4. DetectLanguages(inbox) = {r(g) : g \in T}
    <3> HIDE DEF found, key, spoken, has
    <3> QED BY <2>1, <2>3
  <2>5. \A g \in T : row[g] = r(g)
    <3> HIDE DEF found, key
    <3> QED OBVIOUS
  <2> HIDE DEF r, row, T
  <2>6. rows = {row[g] : g \in T}
    BY DEF T
  <2> HIDE DEF rows
  <2> QED BY <2>4, <2>5, <2>6
<1>2. IsFiniteSet(found)
  BY FS_Subset
<1> HIDE DEF found, key
<1>3. IsFiniteSet(rows)
  <2> DEFINE T == {key[i] : i \in found}
             f == [i \in found |-> key[i]]
  <2>1. f \in Surjection(found, T)
    BY DEF Surjection
  <2>2. row \in Surjection(T, rows)
    BY DEF Surjection
  <2>3. IsFiniteSet(T)
    <3> HIDE DEF f, T
    <3> QED BY <1>2, <2>1, FS_Surjection
  <2> HIDE DEF row, rows, T
  <2> QED BY <2>2, <2>3, FS_Surjection
<1>4. ASSUME NEW k \in rows
      PROVE  /\ k = row[k.language]
             /\ k.share[1] = Cardinality({i \in found : key[i] = k.language})
             /\ k.share[2] = Cardinality(found)
  <2> DEFINE T == {key[i] : i \in found}
             has(g) == Cardinality({i \in found : key[i] = g})
  <2>1. PICK g \in T : k = row[g]
    OBVIOUS
  <2>2. row[g] = [language |-> g, share |-> <<has(g), Cardinality(found)>>]
    OBVIOUS
  <2> HIDE DEF has, row
  <2>3. k.language = g /\ k.share[1] = has(g) /\ k.share[2] = Cardinality(found)
    BY <2>1, <2>2
  <2> QED BY <2>1, <2>3 DEF has
<1>5. \A i \in found : row[key[i]] \in rows /\ row[key[i]].language = key[i]
  OBVIOUS
<1> HIDE DEF row, rows
<1>6. DOMAIN w = rows /\ \A k \in rows : w[k] = k.share[1] /\ name[k] = k.language
  OBVIOUS
<1> HIDE DEF name
<1>7. Groups(w, found, key, name)
  <2> HIDE DEF w
  <2>1. ASSUME NEW k \in rows, NEW m \in rows, name[k] = name[m] PROVE k = m
    <3>1. k = row[k.language] /\ m = row[m.language]
      BY <1>4
    <3> QED BY <1>6, <2>1, <3>1
  <2> QED BY <1>2, <1>3, <1>4, <1>6, <2>1 DEF Groups
<1>8. InGroups(w, found, key, name) = found
  <2> HIDE DEF w
  <2> QED BY <1>5, <1>6 DEF InGroups
<1>9. SumFunction(w) = Cardinality(found)
  <2> HIDE DEF w
  <2> QED BY <1>7, <1>8, GroupsAddUp
<1>10. l \in rows
  BY <1>1
<1> QED BY <1>1, <1>4, <1>9, <1>10

-----------------------------------------------------------------------------
(* The sample *)

\* Dividing leaves a remainder less than the divisor.
LEMMA Division ==
  ASSUME NEW n \in Nat, NEW t \in Nat \ {0}
  PROVE  /\ n \div t \in Nat /\ n % t \in 0..t - 1
         /\ n = t * (n \div t) + (n % t)
OBVIOUS

\* A multiple leaves none.
LEMMA MultipleLeavesNothing ==
  ASSUME NEW k \in Nat, NEW s \in Nat \ {0}
  PROVE  (k * s) % s = 0
<1> DEFINE n == k * s
           q == n \div s
           r == n % s
<1>1. n \in Nat
  OBVIOUS
<1>2. q \in Nat /\ r \in 0..s - 1 /\ n = s * q + r
  <2> HIDE DEF n
  <2> QED BY <1>1, Division
<1> HIDE DEF q, r
<1>3. s * k = s * q + r
  BY <1>2
<1>4. s * (k - q) = r
  BY <1>2, <1>3
<1>5. CASE k > q
  <2>1. s * (k - q) >= s
    BY <1>2, <1>5
  <2> QED BY <1>2, <1>4, <2>1
<1>6. CASE k < q
  <2>1. s * (k - q) < 0
    BY <1>2, <1>6
  <2> QED BY <1>2, <1>4, <2>1
<1>7. CASE k = q
  <2>1. s * (k - q) = 0
    BY <1>2, <1>7
  <2> QED BY <1>4, <2>1 DEF r
<1> QED BY <1>2, <1>5, <1>6, <1>7

\* A part of something is at most the whole, and at least one.
LEMMA StrideFits ==
  ASSUME NEW n \in Nat, NEW t \in 1..n
  PROVE  n \div t \in Nat \ {0} /\ t * (n \div t) <= n
<1> DEFINE q == n \div t
<1>0. t \in Nat \ {0}
  OBVIOUS
<1>1. q \in Nat /\ n % t \in 0..t - 1 /\ n = t * q + (n % t)
  <2> HIDE DEF q
  <2>1. n \div t \in Nat /\ n % t \in 0..t - 1 /\ n = t * (n \div t) + (n % t)
    BY <1>0, Division
  <2> QED BY <2>1 DEF q
<1> HIDE DEF q
<1>2. t * q <= n
  BY <1>1
<1>3. q # 0
  <2> SUFFICES ASSUME q = 0 PROVE FALSE
    OBVIOUS
  <2>1. t * q = 0
    OBVIOUS
  <2> QED BY <1>1, <2>1
<1> QED BY <1>1, <1>2, <1>3 DEF q

\* The sample is as large as it is meant to be: an integer stride never
\* leaves too few.
LEMMA EnoughSampled ==
  ASSUME NEW size \in Nat
  PROVE  /\ IsFiniteSet(Sample(size))
         /\ Cardinality(Sample(size)) >= Min({size, SampleFloor})
<1> DEFINE target == IF size <= SampleFloor THEN size
                     ELSE Max({size \div SampleShare, SampleFloor})
           stride == size \div target
           sample == {i \in 1..size : (i - 1) % stride = 0}
           at == [k \in 1..target |-> (k - 1) * stride + 1]
<1>1. SampleFloor \in Nat \ {0} /\ SampleShare \in Nat \ {0}
  BY ScanAssumption
<1>2. Sample(size) = sample
  BY DEF Sample
<1>3. IsFiniteSet(1..size)
  BY FS_Interval
<1>4. IsFiniteSet(sample)
  <2>1. sample \subseteq 1..size
    OBVIOUS
  <2> HIDE DEF sample
  <2> QED BY <1>3, <2>1, FS_Subset
<1>5. Cardinality(sample) \in Nat
  <2> HIDE DEF sample
  <2> QED BY <1>4, FS_CardinalityType
<1>6. Min({size, SampleFloor}) = IF size <= SampleFloor THEN size ELSE SampleFloor
  BY <1>1, TwoOf
<1>7. CASE size = 0
  <2> HIDE DEF sample
  <2> QED BY <1>1, <1>2, <1>4, <1>5, <1>6, <1>7
<1>8. CASE size # 0
  <2>1. target \in 1..size /\ target >= Min({size, SampleFloor})
    <3>1. CASE size <= SampleFloor
      BY <1>6, <1>8, <3>1
    <3>2. CASE ~(size <= SampleFloor)
      <4> DEFINE part == size \div SampleShare
      <4>1. part \in Nat /\ part <= size
        <5>1. /\ part \in Nat /\ size % SampleShare \in 0..SampleShare - 1
              /\ size = SampleShare * part + (size % SampleShare)
          BY <1>1, Division
        <5> HIDE DEF part
        <5>2. SampleShare * part >= part
          BY <1>1, <5>1
        <5> QED BY <1>1, <5>1, <5>2
      <4> HIDE DEF part
      <4>2. Max({part, SampleFloor}) = IF part >= SampleFloor THEN part ELSE SampleFloor
        BY <1>1, <4>1, TwoOf
      <4>3. target = Max({part, SampleFloor})
        BY <3>2 DEF part
      <4> HIDE DEF target
      <4> QED BY <1>1, <1>6, <3>2, <4>1, <4>2, <4>3
    <3> QED BY <3>1, <3>2
  <2> HIDE DEF target
  <2>2. stride \in Nat \ {0} /\ target * stride <= size
    BY <2>1, StrideFits
  <2> HIDE DEF stride
  <2>3. ASSUME NEW k \in 1..target
        PROVE  (k - 1) * stride + 1 \in sample
    <3>1. k - 1 \in Nat /\ k - 1 <= target - 1 /\ target \in Nat
      BY <2>1
    <3>2. (k - 1) * stride \in Nat
      BY <2>2, <3>1
    <3>3. (k - 1) * stride <= (target - 1) * stride
      BY <2>2, <3>1
    <3>4. (target - 1) * stride = target * stride - stride
      BY <2>2, <3>1
    <3>5. target * stride \in Nat
      BY <2>2, <3>1
    <3>6. (k - 1) * stride + 1 <= size
      BY <2>2, <3>1, <3>2, <3>3, <3>4, <3>5
    <3>7. ((k - 1) * stride) % stride = 0
      BY <2>2, <3>1, MultipleLeavesNothing
    <3>8. ((k - 1) * stride + 1) - 1 = (k - 1) * stride
      BY <3>2
    <3> QED BY <3>2, <3>6, <3>7, <3>8
  <2>4. ASSUME NEW k \in 1..target, NEW l \in 1..target, k # l
        PROVE  (k - 1) * stride + 1 # (l - 1) * stride + 1
    <3> SUFFICES ASSUME (k - 1) * stride = (l - 1) * stride PROVE FALSE
      BY <2>1, <2>2
    <3>1. ((k - 1) - (l - 1)) * stride = 0
      BY <2>1, <2>2
    <3>2. (k - 1) - (l - 1) # 0
      BY <2>1, <2>4
    <3> QED BY <2>1, <2>2, <3>1, <3>2
  <2>5. at \in Injection(1..target, sample)
    <3> HIDE DEF sample
    <3> QED BY <2>3, <2>4 DEF Injection, IsInjective
  <2>6. Cardinality(1..target) <= Cardinality(sample)
    <3> HIDE DEF sample, at
    <3> QED BY <1>4, <2>5, FS_Injection
  <2>7. Cardinality(1..target) = target
    <3>1. target \in Int /\ 1 <= target
      BY <2>1
    <3> QED BY <3>1, FS_Interval
  <2> HIDE DEF sample
  <2>8. target \in Nat /\ Min({size, SampleFloor}) \in Nat
    BY <1>1, <1>6, <2>1
  <2> QED BY <1>2, <1>4, <1>5, <2>1, <2>6, <2>7, <2>8
<1> QED BY <1>7, <1>8

-----------------------------------------------------------------------------
(* The phrases *)

\* The places a window of this size may begin at.
Beginnings(tokens, size) == IF Len(tokens) >= size THEN Len(tokens) - size + 1 ELSE 0

\* A window at each of them.
WindowsOf(S, tokens, size, w) ==
  /\ w \in Seq(Seq(S)) /\ Len(w) = Beginnings(tokens, size) /\ Len(w) \in Nat
  /\ \A i \in 1..Len(w) : /\ Len(w[i]) = size /\ w[i] \in Seq(S)
                          /\ \A j \in 1..size : w[i][j] = tokens[i + j - 1]

\* The windows of a size are the slices of that length.
LEMMA WindowsAt ==
  ASSUME NEW S, NEW tokens \in Seq(S), NEW size \in Nat \ {0}
  PROVE  WindowsOf(S, tokens, size, Windows(tokens, size))
<1> DEFINE w == Windows(tokens, size)
           n == Beginnings(tokens, size)
           l == Len(tokens)
<1>1. l \in Nat /\ n \in Nat /\ 1..(l - size + 1) = 1..n
  BY DEF Beginnings
<1>2. \A i \in 1..n : i \in Nat \ {0} /\ i + size - 1 \in Nat /\ i + size - 1 <= l
  BY DEF Beginnings
<1>3. w = [i \in 1..n |-> SubSeq(tokens, i, i + size - 1)]
  BY <1>1 DEF Windows
<1> HIDE DEF n, w
<1>4. ASSUME NEW i \in 1..n
      PROVE  LET s == SubSeq(tokens, i, i + size - 1)
             IN /\ s \in Seq(S) /\ Len(s) = size
                /\ \A j \in 1..size : s[j] = tokens[i + j - 1]
  <2>1. i \in Nat \ {0} /\ i + size - 1 \in Nat /\ i + size - 1 <= l /\ size \in Nat \ {0}
    BY <1>2
  <2> DEFINE s == SubSeq(tokens, i, i + size - 1)
  <2>2. s = [j \in 1..((i + size - 1) - i + 1) |-> tokens[i + j - 1]]
    BY <2>1
  <2>3. (i + size - 1) - i + 1 = size
    BY <2>1
  <2>4. \A j \in 1..size : i + j - 1 \in 1..l
    BY <1>1, <2>1
  <2>5. \A j \in 1..size : tokens[i + j - 1] \in S
    <3>1. \A k \in 1..l : tokens[k] \in S
      OBVIOUS
    <3> QED BY <2>4, <3>1
  <2> HIDE DEF s
  <2>6. s = [j \in 1..size |-> tokens[i + j - 1]]
    BY <2>2, <2>3
  <2>7. s \in [1..size -> S]
    BY <2>5, <2>6
  <2>8. s \in Seq(S) /\ Len(s) = size
    BY <2>1, <2>7
  <2> QED BY <2>6, <2>8 DEF s
<1>5. \A i \in 1..n : /\ w[i] \in Seq(S) /\ Len(w[i]) = size
                      /\ \A j \in 1..size : w[i][j] = tokens[i + j - 1]
  BY <1>3, <1>4
<1>6. w \in Seq(Seq(S)) /\ Len(w) = n
  <2> DEFINE T == Seq(S)
  <2>1. w = [i \in 1..n |-> w[i]] /\ \A i \in 1..n : w[i] \in T
    BY <1>3, <1>5
  <2> HIDE DEF T
  <2>2. w \in [1..n -> T]
    BY <2>1
  <2>3. w \in Seq(T) /\ Len(w) = n
    BY <1>1, <2>2
  <2> QED BY <2>3 DEF T
<1>7. w \in Seq(Seq(S)) /\ Len(w) = Beginnings(tokens, size) /\ Len(w) \in Nat
  BY <1>1, <1>6 DEF n
<1>8. WindowsOf(S, tokens, size, w)
  BY <1>5, <1>6, <1>7 DEF WindowsOf
<1> QED BY <1>8 DEF w

\* A sequence and another one.
LEMMA Concatenation ==
  ASSUME NEW T, NEW s \in Seq(T), NEW t \in Seq(T)
  PROVE  /\ s \o t \in Seq(T) /\ Len(s \o t) = Len(s) + Len(t)
         /\ \A j \in 1..Len(s) : (s \o t)[j] = s[j]
         /\ \A j \in 1..Len(t) : (s \o t)[Len(s) + j] = t[j]
OBVIOUS

\* The first two of three.
LEMMA FirstTwo ==
  ASSUME NEW S, NEW t \in Seq(S), Len(t) = 3
  PROVE  SubSeq(t, 1, 2) = <<t[1], t[2]>>
<1> DEFINE r == SubSeq(t, 1, 2)
<1>1. r \in Seq(S) /\ Len(r) = 2
  OBVIOUS
<1>2. r[1] = t[1] /\ r[2] = t[2]
  OBVIOUS
<1> HIDE DEF r
<1>3. r = <<r[1], r[2]>>
  BY <1>1
<1> QED BY <1>2, <1>3 DEF r

\* A phrase of three words comes with its first two, in a place of its own
\* among the first.
LedIn(phrases, pairs) ==
  \A j \in 1..Len(phrases) :
    Len(phrases[j]) = 3 => /\ j - pairs \in 1..Len(phrases)
                           /\ phrases[j - pairs] = SubSeq(phrases[j], 1, 2)

\* In the phrases of one subject it does.
LEMMA PhrasesLedIn ==
  ASSUME NEW subject \in Seq(STRING)
  PROVE  /\ PhrasesOf(subject) \in Seq(Seq(STRING))
         /\ \E pairs \in Nat : LedIn(PhrasesOf(subject), pairs)
<1> DEFINE tokens == CleanTokens(subject)
           two == Windows(tokens, 2)
           three == Windows(tokens, 3)
           n == Len(two)
           m == Len(three)
           phrases == PhrasesOf(subject)
<1>1. tokens \in Seq(STRING)
  BY PickPlaces DEF CleanTokens
<1> HIDE DEF tokens
<1>2. n \in Nat /\ two \in Seq(Seq(STRING)) /\ n = Beginnings(tokens, 2)
      /\ \A i \in 1..n : /\ Len(two[i]) = 2 /\ two[i] \in Seq(STRING)
                         /\ \A j \in 1..2 : two[i][j] = tokens[i + j - 1]
  <2>1. WindowsOf(STRING, tokens, 2, two)
    BY <1>1, WindowsAt
  <2> HIDE DEF two
  <2> QED BY <2>1 DEF WindowsOf
<1>3. m \in Nat /\ three \in Seq(Seq(STRING)) /\ m = Beginnings(tokens, 3)
      /\ \A i \in 1..m : /\ Len(three[i]) = 3 /\ three[i] \in Seq(STRING)
                         /\ \A j \in 1..3 : three[i][j] = tokens[i + j - 1]
  <2>1. WindowsOf(STRING, tokens, 3, three)
    BY <1>1, WindowsAt
  <2> HIDE DEF three
  <2> QED BY <2>1 DEF WindowsOf
<1>4. phrases = two \o three
  BY DEF PhrasesOf, tokens
<1>5. m <= n
  BY <1>1, <1>2, <1>3 DEF Beginnings
<1> HIDE DEF two, three, phrases
<1> DEFINE T == Seq(STRING)
<1> HIDE DEF T
<1>6. two \in Seq(T) /\ three \in Seq(T)
  BY <1>2, <1>3 DEF T
<1>7. /\ phrases \in Seq(T) /\ Len(phrases) = n + m
      /\ \A j \in 1..n : phrases[j] = two[j]
      /\ \A j \in 1..m : phrases[n + j] = three[j]
  BY <1>4, <1>6, Concatenation
<1>9. n \in Nat /\ m \in Nat /\ m <= n
  BY <1>2, <1>3, <1>5
<1> HIDE DEF n, m
<1>8. LedIn(phrases, n)
  <2> SUFFICES ASSUME NEW j \in 1..n + m, Len(phrases[j]) = 3
               PROVE  j - n \in 1..n + m /\ phrases[j - n] = SubSeq(phrases[j], 1, 2)
    BY <1>7 DEF LedIn
  <2>1. j \notin 1..n
    <3> SUFFICES ASSUME j \in 1..n PROVE FALSE
      OBVIOUS
    <3>1. phrases[j] = two[j]
      BY <1>7
    <3>2. Len(two[j]) = 2
      BY <1>2
    <3> QED BY <3>1, <3>2, SMTT(30)
  <2> DEFINE i == j - n
  <2>2. i \in 1..m /\ i \in 1..n /\ j = n + i
    BY <1>9, <2>1
  <2> HIDE DEF i
  <2>3. phrases[i] = two[i] /\ phrases[j] = three[i]
    BY <1>7, <2>2
  <2>4. two[i] \in Seq(STRING) /\ Len(two[i]) = 2 /\ three[i] \in Seq(STRING) /\ Len(three[i]) = 3
    BY <1>2, <1>3, <2>2
  <2>5. two[i][1] = tokens[i] /\ two[i][2] = tokens[i + 1]
        /\ three[i][1] = tokens[i] /\ three[i][2] = tokens[i + 1]
    <3>1. 1 \in 1..2 /\ 2 \in 1..2 /\ 1 \in 1..3 /\ 2 \in 1..3
      OBVIOUS
    <3>2. i + 1 - 1 = i /\ i + 2 - 1 = i + 1
      BY <2>2
    <3> QED BY <1>2, <1>3, <2>2, <3>1, <3>2
  <2>6. SubSeq(three[i], 1, 2) = <<three[i][1], three[i][2]>>
    BY <2>4, FirstTwo
  <2>7. two[i] = <<two[i][1], two[i][2]>>
    BY <2>4
  <2>8. two[i] = SubSeq(three[i], 1, 2)
    BY <2>5, <2>6, <2>7
  <2>9. j - n \in 1..n + m /\ j - n = i
    BY <1>9, <2>2
  <2> QED BY <2>3, <2>8, <2>9
<1> QED BY <1>2, <1>7, <1>8 DEF phrases, T

\* A phrase of three words is no more frequent than its first two, in all
\* the subjects.
LEMMA FirstTwoAreMore ==
  ASSUME NEW ss \in Seq(Seq(Seq(STRING))), NEW t, Len(t) = 3,
         \A i \in 1..Len(ss) : \E pairs \in Nat : LedIn(ss[i], pairs)
  PROVE  LET flat == FlattenSeq(ss)
             long == {k \in 1..Len(flat) : flat[k] = t}
             short == {k \in 1..Len(flat) : flat[k] = SubSeq(t, 1, 2)}
         IN /\ flat \in Seq(Seq(STRING))
            /\ Cardinality(long) <= Cardinality(short)
            /\ long # {} => short # {}
<1> DEFINE P == Seq(STRING)
           flat == FlattenSeq(ss)
           n == Len(ss)
           N == Len(flat)
           pairs == [i \in 1..n |-> CHOOSE p \in Nat : LedIn(ss[i], p)]
           s == SubSeq(t, 1, 2)
           long == {k \in 1..N : flat[k] = t}
           short == {k \in 1..N : flat[k] = s}
<1>1. flat \in Seq(P) /\ \E off : Offsets(ss, off)
  <2> HIDE DEF P
  <2>1. ss \in Seq(Seq(P))
    BY DEF P
  <2> QED BY <2>1, FlattenPlaces
<1>2. PICK off : Offsets(ss, off)
  BY <1>1
<1> HIDE DEF P
<1>3. n \in Nat /\ N \in Nat /\ \A i \in 1..n : ss[i] \in Seq(P) /\ Len(ss[i]) \in Nat
  <2>1. ss \in Seq(Seq(P))
    BY DEF P
  <2>2. flat \in Seq(P)
    BY <1>1
  <2> HIDE DEF flat
  <2>3. \A i \in 1..n : ss[i] \in Seq(P)
    BY <2>1
  <2> QED BY <2>1, <2>2, <2>3
<1> HIDE DEF n, N, flat, s
<1>4. \A i \in 1..n : pairs[i] \in Nat /\ LedIn(ss[i], pairs[i])
  BY DEF n
<1> HIDE DEF pairs
<1>5. /\ \A i \in 0..n : off[i] \in Nat /\ off[i] <= N
      /\ \A i \in 1..n : off[i] = off[i - 1] + Len(ss[i])
      /\ \A i, j \in 0..n : i <= j => off[i] <= off[j]
      /\ \A i \in 1..n : \A j \in 1..Len(ss[i]) : flat[off[i - 1] + j] = ss[i][j]
      /\ \A k \in 1..N : \E i \in 1..n : \E j \in 1..Len(ss[i]) : k = off[i - 1] + j
  <2>1. n \in 0..n /\ \A i \in 0..n : i <= n
    BY <1>3
  <2> QED BY <1>2, <2>1 DEF Offsets, n, N, flat
<1> DEFINE At(k, i) == \E j \in 1..Len(ss[i]) : k = off[i - 1] + j
           part == [k \in 1..N |-> CHOOSE i \in 1..n : At(k, i)]
           f == [k \in long |-> k - pairs[part[k]]]
<1>6. \A k \in 1..N : part[k] \in 1..n /\ At(k, part[k])
  <2>1. \A k \in 1..N : \E i \in 1..n : At(k, i)
    BY <1>5
  <2> HIDE DEF At
  <2> QED BY <2>1
<1> HIDE DEF part
<1>7. ASSUME NEW k \in long
      PROVE  LET i == part[k]
             IN /\ f[k] \in short /\ f[k] = k - pairs[i]
                /\ i \in 1..n /\ off[i - 1] < f[k] /\ f[k] <= off[i]
  <2> DEFINE i == part[k]
             p == pairs[i]
  <2>1. k \in 1..N /\ flat[k] = t /\ f[k] = k - p
    OBVIOUS
  <2>2. i \in 1..n
    BY <1>6, <2>1
  <2>3. PICK j \in 1..Len(ss[i]) : k = off[i - 1] + j
    BY <1>6, <2>1
  <2> HIDE DEF f
  <2>4. p \in Nat /\ LedIn(ss[i], p)
    BY <1>4, <2>2
  <2>5. off[i - 1] \in Nat /\ off[i] \in Nat /\ off[i] <= N /\ off[i] = off[i - 1] + Len(ss[i])
    <3>1. i - 1 \in 0..n /\ i \in 0..n
      BY <1>3, <2>2
    <3> QED BY <1>5, <2>2, <3>1
  <2>6. ss[i][j] = t
    BY <1>5, <2>1, <2>2, <2>3
  <2> HIDE DEF i, p
  <2>7. j - p \in 1..Len(ss[i]) /\ ss[i][j - p] = s
    BY <2>3, <2>4, <2>6 DEF LedIn, s
  <2>8. Len(ss[i]) \in Nat
    BY <1>3, <2>2
  <2>9. f[k] = off[i - 1] + (j - p)
    <3>1. PICK a \in Nat, b \in Nat, c \in Nat : a = off[i - 1] /\ b = p /\ c = j
      BY <2>3, <2>4, <2>5, <2>8
    <3>2. f[k] = (a + c) - b
      BY <2>1, <2>3, <3>1
    <3>3. (a + c) - b = a + (c - b)
      OBVIOUS
    <3> QED BY <3>1, <3>2, <3>3
  <2>10. flat[f[k]] = s
    BY <1>5, <2>2, <2>7, <2>9
  <2>11. off[i - 1] < f[k] /\ f[k] <= off[i] /\ f[k] \in 1..N
    <3>1. N \in Nat
      BY <1>3
    <3>2. PICK a \in Nat, b \in Nat, l \in Nat : a = off[i - 1] /\ b = off[i] /\ l = Len(ss[i])
      BY <2>5, <2>8
    <3>3. b = a + l /\ b <= N
      BY <2>5, <3>2
    <3>4. PICK x \in 1..l : f[k] = a + x
      BY <2>7, <2>9, <3>2
    <3>5. a < a + x /\ a + x <= b /\ a + x \in 1..N
      BY <3>1, <3>3
    <3> QED BY <3>2, <3>4, <3>5
  <2> QED BY <2>1, <2>2, <2>10, <2>11 DEF i, p
<1>8. ASSUME NEW k \in long, NEW l \in long, f[k] = f[l]
      PROVE  k = l
  <2> DEFINE i == part[k]
             m == part[l]
  <2>1. /\ i \in 1..n /\ off[i - 1] < f[k] /\ f[k] <= off[i] /\ f[k] = k - pairs[i]
        /\ f[k] \in 1..N
    BY <1>7
  <2>2. /\ m \in 1..n /\ off[m - 1] < f[k] /\ f[k] <= off[m] /\ f[k] = l - pairs[m]
    BY <1>7, <1>8
  <2>3. k \in 1..N /\ l \in 1..N
    OBVIOUS
  <2> HIDE DEF i, m, f, long
  <2>4. i - 1 \in 0..n /\ i \in 0..n /\ m - 1 \in 0..n /\ m \in 0..n
    BY <1>3, <2>1, <2>2
  <2>5. off[i - 1] \in Nat /\ off[i] \in Nat /\ off[m - 1] \in Nat /\ off[m] \in Nat
    BY <1>5, <2>4
  <2>6. ~(i < m)
    <3> SUFFICES ASSUME i < m PROVE FALSE
      OBVIOUS
    <3>1. i <= m - 1
      BY <2>4
    <3>2. off[i] <= off[m - 1]
      BY <1>5, <2>4, <3>1
    <3> QED BY <2>1, <2>2, <2>5, <3>2
  <2>7. ~(m < i)
    <3> SUFFICES ASSUME m < i PROVE FALSE
      OBVIOUS
    <3>1. m <= i - 1
      BY <2>4
    <3>2. off[m] <= off[i - 1]
      BY <1>5, <2>4, <3>1
    <3> QED BY <2>1, <2>2, <2>5, <3>2
  <2>8. i = m
    BY <2>4, <2>6, <2>7
  <2>9. pairs[i] \in Nat
    BY <1>4, <2>1
  <2> QED BY <2>1, <2>2, <2>3, <2>8, <2>9
<1>9. f \in Injection(long, short)
  <2>1. \A k \in long : f[k] \in short
    BY <1>7
  <2>2. f = [k \in long |-> f[k]]
    OBVIOUS
  <2> HIDE DEF f, long, short
  <2> QED BY <1>8, <2>1, <2>2 DEF Injection, IsInjective
<1>10. IsFiniteSet(short)
  <2>1. IsFiniteSet(1..N)
    BY <1>3, FS_Interval
  <2> QED BY <2>1, FS_Subset
<1>11. Cardinality(long) <= Cardinality(short)
  <2> HIDE DEF f, long, short
  <2> QED BY <1>9, <1>10, FS_Injection
<1>12. long # {} => short # {}
  <2> HIDE DEF f, long, short
  <2> QED BY <1>7
<1> HIDE DEF long, short
<1> QED BY <1>1, <1>11, <1>12 DEF long, short, N, flat, s, P

\* So is one reported, when none is left out.
LEMMA PhraseLedIn ==
  ASSUME NEW inbox, NEW n \in Nat, DOMAIN inbox = 1..n,
         \A i \in 1..n : inbox[i].subject \in Seq(STRING),
         NEW p \in TopSubjectNgrams(inbox), Len(p.phrase) = 3,
         Cardinality(TopSubjectNgrams(inbox)) < Top
  PROVE  \E q \in TopSubjectNgrams(inbox) :
           q.phrase = SubSeq(p.phrase, 1, 2) /\ q.occurrences >= p.occurrences
<1> DEFINE ss == [i \in DOMAIN inbox |-> PhrasesOf(inbox[i].subject)]
           flat == FlattenSeq(ss)
           places == 1..Len(flat)
           counts == [x \in ToSet(flat) |-> Cardinality({k \in DOMAIN flat : flat[k] = x})]
           kept == Busiest(counts)
           row == [x \in kept |-> [phrase |-> x, occurrences |-> counts[x]]]
           rows == {row[x] : x \in kept}
           s == SubSeq(p.phrase, 1, 2)
           At(x) == {k \in places : flat[k] = x}
<1>1. /\ ss \in Seq(Seq(Seq(STRING)))
      /\ \A i \in 1..Len(ss) : \E pairs \in Nat : LedIn(ss[i], pairs)
  <2> DEFINE T == Seq(Seq(STRING))
  <2>1. ASSUME NEW i \in 1..n
        PROVE  ss[i] \in T /\ \E pairs \in Nat : LedIn(ss[i], pairs)
    <3>1. ss[i] = PhrasesOf(inbox[i].subject)
      OBVIOUS
    <3> HIDE DEF ss
    <3> QED BY <3>1, PhrasesLedIn
  <2>2. ss = [i \in 1..n |-> ss[i]]
    OBVIOUS
  <2> HIDE DEF ss, T
  <2>3. ss \in [1..n -> T]
    BY <2>1, <2>2
  <2>4. ss \in Seq(T) /\ Len(ss) = n
    BY <2>3
  <2> QED BY <2>1, <2>4 DEF T
<1> HIDE DEF ss
<1>2. /\ flat \in Seq(Seq(STRING))
      /\ Cardinality(At(p.phrase)) <= Cardinality(At(s))
      /\ At(p.phrase) # {} => At(s) # {}
  BY <1>1, FirstTwoAreMore
<1> DEFINE T == Seq(STRING)
<1> HIDE DEF T
<1>3. DOMAIN flat = places /\ Len(flat) \in Nat
  <2>1. flat \in Seq(T)
    BY <1>2 DEF T
  <2> HIDE DEF flat
  <2> QED BY <2>1
<1>4. TopSubjectNgrams(inbox) = rows
  <2>1. TopSubjectNgrams(inbox) = {[phrase |-> x, occurrences |-> counts[x]] : x \in kept}
    BY DEF TopSubjectNgrams, Tally, ss
  <2> HIDE DEF counts, kept
  <2> QED BY <2>1
<1> HIDE DEF flat
<1>5. CountsOf(counts, places, flat)
  <2>1. IsFiniteSet(places)
    BY <1>3, FS_Interval
  <2>2. DOMAIN counts = {flat[k] : k \in places}
    BY <1>3 DEF ToSet
  <2>3. \A x \in DOMAIN counts : counts[x] = Cardinality({k \in places : flat[k] = x})
    BY <1>3
  <2> HIDE DEF counts, places
  <2> QED BY <2>1, <2>2, <2>3 DEF CountsOf
<1>6. kept \subseteq DOMAIN counts /\ IsFiniteSet(kept)
  <2> HIDE DEF counts, places
  <2> QED BY <1>5, CountsKept
<1>7. Cardinality(rows) = Cardinality(kept)
  <2>1. row \in Surjection(kept, rows) /\ row \in Injection(kept, rows)
    <3> HIDE DEF kept, counts
    <3> QED BY DEF Surjection, Injection, IsInjective
  <2> HIDE DEF row, rows, kept
  <2> QED BY <1>6, <2>1, FS_Surjection
<1>8. kept = DOMAIN counts
  <2>1. Cardinality(kept) < Top
    <3> HIDE DEF kept, rows
    <3> QED BY <1>4, <1>7
  <2> HIDE DEF counts, places
  <2> QED BY <1>5, <2>1, NothingDropped
<1>9. p.phrase \in kept /\ p.occurrences = counts[p.phrase]
  <2>1. p \in rows
    BY <1>4
  <2> HIDE DEF kept, counts
  <2> QED BY <2>1
<1>10. /\ p.phrase \in DOMAIN counts /\ counts[p.phrase] = Cardinality(At(p.phrase))
       /\ At(p.phrase) # {}
  <2> HIDE DEF counts, places, kept
  <2> QED BY <1>5, <1>6, <1>9 DEF CountsOf
<1>11. s \in DOMAIN counts /\ counts[s] = Cardinality(At(s))
  <2>1. PICK k \in places : flat[k] = s
    <3> HIDE DEF places, s
    <3> QED BY <1>2, <1>10
  <2> HIDE DEF counts, places, kept, s
  <2> QED BY <1>5, <2>1 DEF CountsOf
<1>12. row[s] \in rows /\ row[s].phrase = s /\ row[s].occurrences = counts[s]
  <2>1. s \in kept
    <3> HIDE DEF kept, counts, s
    <3> QED BY <1>8, <1>11
  <2> HIDE DEF kept, counts, s
  <2> QED BY <2>1
<1>13. IsFiniteSet(At(s)) /\ IsFiniteSet(At(p.phrase))
  <2>1. IsFiniteSet(places)
    BY <1>3, FS_Interval
  <2> HIDE DEF places, s
  <2> QED BY <2>1, FS_Subset
<1>14. Cardinality(At(s)) \in Nat /\ Cardinality(At(p.phrase)) \in Nat
  <2> HIDE DEF At
  <2> QED BY <1>13, FS_CardinalityType
<1> HIDE DEF At, row, rows, counts, kept
<1>15. row[s].occurrences >= p.occurrences
  BY <1>2, <1>9, <1>10, <1>11, <1>12, <1>14
<1> QED BY <1>4, <1>12, <1>15

-----------------------------------------------------------------------------
(* The report *)

InboxEnvelopes == [i \in DOMAIN scanned |-> scanned[i].envelope]

\* The envelopes of a scan that is done, as its report reads them.
LEMMA InboxOfScan ==
  ASSUME ScanDone
  PROVE  LET inbox == InboxEnvelopes
         IN /\ IsFiniteSet(DOMAIN inbox) /\ DOMAIN inbox = 1..Len(scanned)
            /\ Len(inbox) = Len(scanned) /\ Cardinality(DOMAIN inbox) = Len(scanned)
            /\ \A i \in DOMAIN inbox : /\ inbox[i].date \in Int
                                      /\ inbox[i].subject \in Seq(STRING)
<1> DEFINE inbox == InboxEnvelopes
<1>1. DOMAIN inbox = DOMAIN scanned /\ \A i \in DOMAIN inbox : inbox[i] = scanned[i].envelope
  BY DEF InboxEnvelopes
<1>2. /\ IsFiniteSet(DOMAIN scanned) /\ Len(scanned) \in Nat /\ DOMAIN scanned = 1..Len(scanned)
      /\ \A i \in DOMAIN scanned : InboxMail[i] \in Message
                                   /\ scanned[i].envelope = Envelope(InboxMail[i])
  BY DEF ScanDone
<1>3. \A m \in Message : Envelope(m).date \in Int /\ Envelope(m).subject \in Seq(STRING)
  BY ScanAssumption DEF Envelope, Message
<1>4. Len(inbox) = Len(scanned)
  <2>1. inbox = [i \in 1..Len(scanned) |-> scanned[i].envelope]
    BY <1>2 DEF InboxEnvelopes
  <2> HIDE DEF inbox
  <2> QED BY <1>2, <2>1
<1>5. Cardinality(1..Len(scanned)) = Len(scanned)
  <2> DEFINE n == Len(scanned)
  <2>1. n \in Nat
    BY <1>2
  <2> HIDE DEF n
  <2>2. Cardinality(1..n) = IF 1 > n THEN 0 ELSE n - 1 + 1
    BY <2>1, FS_Interval
  <2>3. Cardinality(1..n) = n
    BY <2>1, <2>2
  <2> QED BY <2>3 DEF n
<1> HIDE DEF inbox
<1>6. \A i \in DOMAIN inbox : inbox[i].date \in Int /\ inbox[i].subject \in Seq(STRING)
  BY <1>1, <1>2, <1>3
<1> QED BY <1>1, <1>2, <1>4, <1>5, <1>6 DEF inbox

\* The dimensions of a report agree with each other and add up to the inbox
\* (scan/analyzers/*.rs), for any mail, index and limits.
THEOREM ReportsAddUp == Spec => []ReportAddsUp
<1>1. ScanInv => ReportAddsUp
  <2> SUFFICES ASSUME ScanInv, pc = "done" PROVE ReportAddsUp
    BY DEF ReportAddsUp
  <2> DEFINE inbox == InboxEnvelopes
             senders == TopSenders(inbox)
             phrases == TopSubjectNgrams(inbox)
             languages == DetectLanguages(inbox)
  <2>1. ScanDone
    BY DoneIsScanned
  <2>2. /\ IsFiniteSet(DOMAIN inbox) /\ DOMAIN inbox = 1..Len(scanned) /\ Len(scanned) \in Nat
        /\ Len(inbox) = Len(scanned) /\ Cardinality(DOMAIN inbox) = Len(scanned)
        /\ \A i \in DOMAIN inbox : inbox[i].date \in Int /\ inbox[i].subject \in Seq(STRING)
    <3>1. Len(scanned) \in Nat
      BY <2>1 DEF ScanDone
    <3> QED BY <2>1, <3>1, InboxOfScan
  <2>3. /\ report.inbox_messages = Len(scanned)
        /\ report.volume = AnalyzeVolume(inbox)
        /\ report.top_senders = senders
        /\ report.top_domains = TopDomains(inbox)
        /\ report.newsletters = DetectNewsletters(scanned)
        /\ report.subject_ngrams = phrases
        /\ report.languages = languages
    BY <2>1 DEF ScanDone, Analyze, InboxEnvelopes
  <2>4. ContactList(report.bidirectional, inbox, SentEnvelopes)
    BY ContactsOfScan DEF InboxEnvelopes
  <2>5. HoursCounted(report.volume, report.inbox_messages)
    BY <2>2, <2>3, HoursAddUp
  <2>6. \A d \in report.top_domains :
          LET own == {row \in report.top_senders : DomainOf(row.address) = d.domain}
              received == SumFunction([row \in own |-> row.messages_received])
          IN /\ received <= d.messages_received
             /\ Cardinality(report.top_senders) < Top => received = d.messages_received
    BY <2>2, <2>3, DomainReceivesOwn
  <2>7. \A contact \in report.bidirectional, row \in report.top_senders :
          contact.address = row.address => contact.messages_received = row.messages_received
    BY <2>2, <2>3, <2>4, ContactIsSender
  <2>8. \A n \in report.newsletters, d \in report.top_domains :
          n.domain = d.domain => /\ n.distinct_senders <= n.messages
                                 /\ n.messages <= d.messages_received
    <3>1. IsFiniteSet(DOMAIN scanned)
      BY <2>1 DEF ScanDone
    <3> QED BY <2>3, <3>1, NewslettersAreReceived DEF InboxEnvelopes
  <2>9. \A p \in report.subject_ngrams :
          Len(p.phrase) = 3 /\ Cardinality(report.subject_ngrams) < Top =>
            \E q \in report.subject_ngrams : /\ q.phrase = SubSeq(p.phrase, 1, 2)
                                            /\ q.occurrences >= p.occurrences
    BY <2>2, <2>3, PhraseLedIn
  <2>10. IsFiniteSet(Sample(Len(inbox)))
         /\ Cardinality(Sample(Len(inbox))) >= Min({Len(inbox), SampleFloor})
    BY <2>2, EnoughSampled
  <2>11. \A l \in report.languages :
           l.share[2] = SumFunction([k \in report.languages |-> k.share[1]])
    BY <2>3, <2>10, SharesAddUp
  <2>12. inbox = [i \in DOMAIN scanned |-> scanned[i].envelope]
    BY DEF InboxEnvelopes
  <2> HIDE DEF inbox
  <2> QED BY <2>5, <2>6, <2>7, <2>8, <2>9, <2>10, <2>11, <2>12 DEF ReportAddsUp, HoursCounted
<1> QED BY <1>1, ScanInit, ScanStep, PTL DEF Spec
=============================================================================
