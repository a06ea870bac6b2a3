------------------------- MODULE UsageMonitorProofs -------------------------
(* Proofs about UsageMonitor, for every value of its constants: any number *)
(* of servers, locations, operators and answers of panels, any thresholds. *)
(* The sums of traffic are folds; what is needed of them, that they exist  *)
(* and are natural numbers within bounds, is proved from a least           *)
(* counterexample, since no induction over data is available.              *)
EXTENDS UsageMonitor, FiniteSetTheorems, WellFoundedInduction, TLAPS

(***************************************************************************)
(* Least and last                                                          *)
(***************************************************************************)

(* A set of natural numbers has a least one. *)
LEMMA LeastNatural ==
    ASSUME NEW T \in SUBSET Nat, T # {}
    PROVE  \E x \in T : \A y \in T : x <= y
<1> DEFINE R == {ss \in Nat \X Nat : ss[1] < ss[2]}
<1>1. IsWellFoundedOn(R, Nat)
  BY NatLessThanWellFounded DEF OpToRel
<1>2. PICK x \in T : \A y \in T : ~ (<<y, x>> \in R)
  BY <1>1, WFMin
<1>3. \A y \in T : ~ (y < x)
  BY <1>2
<1> QED
  BY <1>3

(* The next server to sample is one that is left. *)
LEMMA NextServer ==
    ASSUME NEW T \in SUBSET Servers, T # {}
    PROVE  Min(T) \in T
<1>1. T \in SUBSET Nat
  BY UsageAssumption
<1>2. \E x \in T : \A y \in T : x =< y
  BY <1>1, LeastNatural
<1> QED
  BY <1>2 DEF Min

(* A row with what measuring a panel may give. *)
Sample == [id : Nat, server : Servers, at : Times, by : Monitors,
           percent : {LoadOf(users).percent : users \in Panels \cup {NoAnswer}},
           gb : {LoadOf(users).gb : users \in Panels \cup {NoAnswer}}]

(* Row r is later than row q. *)
Later(r, q) == q.at < r.at \/ (q.at = r.at /\ q.id < r.id)

(* The last row of a server is there, and no other is later. *)
LEMMA LatestIsLast ==
    ASSUME NEW rows \in SUBSET Sample, IsFiniteSet(rows), NEW v, RowsOf(v, rows) # {}
    PROVE  /\ Latest(v, rows) \in RowsOf(v, rows)
           /\ \A q \in RowsOf(v, rows) : q.at <= Latest(v, rows).at
<1> DEFINE S == RowsOf(v, rows)
           Above(r) == {q \in S : Later(q, r)}
           Counts == {Cardinality(Above(r)) : r \in S}
<1>1. S \subseteq rows /\ IsFiniteSet(S)
  <2>1. S \in SUBSET rows
    BY DEF RowsOf
  <2> QED
    BY <2>1, FS_Subset
<1>2. \A r \in S : r.at \in Nat /\ r.id \in Nat
  <2>1. \A r \in Sample : r.at \in Nat /\ r.id \in Nat
    BY UsageAssumption DEF Sample, Times
  <2> QED
    BY <1>1, <2>1
<1>3. \A r \in S : IsFiniteSet(Above(r)) /\ Cardinality(Above(r)) \in Nat
  <2> TAKE r \in S
  <2>1. Above(r) \in SUBSET S
    OBVIOUS
  <2>2. IsFiniteSet(Above(r))
    BY <1>1, <2>1, FS_Subset
  <2> QED
    BY <2>2, FS_CardinalityType
<1>4. PICK n \in Counts : \A k \in Counts : n <= k
  <2>1. Counts \in SUBSET Nat /\ Counts # {}
    BY <1>3
  <2> QED
    BY <2>1, LeastNatural
<1>5. PICK r \in S : n = Cardinality(Above(r))
  BY <1>4
<1>6. Above(r) = {}
  <2> SUFFICES ASSUME NEW q \in Above(r) PROVE FALSE
    OBVIOUS
  <2>1. q \in S /\ Later(q, r)
    OBVIOUS
  <2>2. Above(q) \in SUBSET Above(r)
    BY <1>2, <2>1 DEF Later
  <2>3. q \notin Above(q)
    BY <1>2, <2>1 DEF Later
  <2>4. Cardinality(Above(q)) <= Cardinality(Above(r)) /\ Cardinality(Above(r)) # Cardinality(Above(q))
    BY <1>3, <2>1, <2>2, <2>3, FS_Subset
  <2>5. n <= Cardinality(Above(q))
    BY <1>4, <2>1
  <2>6. Cardinality(Above(q)) \in Nat /\ Cardinality(Above(r)) \in Nat
    BY <1>3, <2>1
  <2> HIDE DEF Above
  <2> QED
    BY <1>5, <2>4, <2>5, <2>6
<1>7. \A q \in S : q.at < r.at \/ (q.at = r.at /\ q.id <= r.id)
  BY <1>2, <1>6 DEF Later
<1>8. /\ Latest(v, rows) \in S
      /\ \A q \in S : q.at < Latest(v, rows).at \/ (q.at = Latest(v, rows).at /\ q.id <= Latest(v, rows).id)
  BY <1>7 DEF Latest
<1> QED
  BY <1>2, <1>8

(***************************************************************************)
(* Sums                                                                    *)
(***************************************************************************)

(* The element a fold takes next, and what it leaves. *)
First(s) == CHOOSE x \in s : TRUE
Rest(s) == s \ {First(s)}

LEMMA RestIsSmaller ==
    ASSUME NEW T, IsFiniteSet(T), NEW s \in SUBSET T, s # {}
    PROVE  /\ First(s) \in s /\ First(s) \in T /\ Rest(s) \in SUBSET T /\ IsFiniteSet(s)
           /\ Cardinality(s) \in Nat \ {0} /\ Cardinality(Rest(s)) = Cardinality(s) - 1
<1>1. IsFiniteSet(s) /\ First(s) \in s
  BY FS_Subset DEF First
<1>2. Cardinality(s) \in Nat /\ Cardinality(s) # 0
  BY <1>1, FS_CardinalityType, FS_EmptySet
<1>3. Cardinality(s \ {First(s)}) = Cardinality(s) - 1
  BY <1>1, FS_RemoveElement
<1> QED
  BY <1>1, <1>2, <1>3 DEF Rest

(* What a sum over a set of weights is: the first and the sum of the rest. *)
Adds(f, g, T) == f = [s \in SUBSET T |-> IF s = {} THEN 0 ELSE g[First(s)] + f[Rest(s)]]

(* There are such sums: of sets of no more than n elements, for every n.   *)
LEMMA SumsExist ==
    ASSUME NEW T, IsFiniteSet(T), NEW g \in [T -> Nat]
    PROVE  \E f : Adds(f, g, T)
<1> DEFINE Level(n) == {s \in SUBSET T : Cardinality(s) <= n}
           Adding(h, s) == IF s = {} THEN 0 ELSE g[First(s)] + h[Rest(s)]
           Sums(n) == {h \in [Level(n) -> Nat] : \A s \in Level(n) : h[s] = Adding(h, s)}
           Without == {n \in Nat : Sums(n) = {}}
<1>1. \A s \in SUBSET T : IsFiniteSet(s) /\ Cardinality(s) \in Nat
  BY FS_Subset, FS_CardinalityType
<1>2. Without = {}
  <2> SUFFICES ASSUME Without # {} PROVE FALSE
    OBVIOUS
  <2>1. PICK n \in Without : \A k \in Without : n <= k
    <3>1. Without \in SUBSET Nat
      OBVIOUS
    <3> HIDE DEF Without
    <3> QED
      BY <3>1, LeastNatural
  <2>2. n # 0
    <3>1. \A s \in Level(0) : s = {}
      BY <1>1, FS_EmptySet
    <3>2. [s \in Level(0) |-> 0] \in Sums(0)
      BY <3>1
    <3>3. 0 \notin Without
      BY <3>2
    <3> HIDE DEF Without
    <3> QED
      BY <3>3
  <2>3. n - 1 \in Nat /\ n - 1 \notin Without
    <3>1. n \in Nat
      OBVIOUS
    <3> HIDE DEF Without
    <3> QED
      BY <2>1, <2>2, <3>1
  <2>4. PICK h \in [Level(n - 1) -> Nat] : \A s \in Level(n - 1) : h[s] = Adding(h, s)
    BY <2>3
  <2> DEFINE big == [s \in Level(n) |-> Adding(h, s)]
  <2>5. \A s \in Level(n) : s # {} => Rest(s) \in Level(n - 1) /\ g[First(s)] \in Nat
    <3> SUFFICES ASSUME NEW s \in Level(n), s # {}
                 PROVE  Rest(s) \in Level(n - 1) /\ g[First(s)] \in Nat
      OBVIOUS
    <3>1. s \in SUBSET T /\ Cardinality(s) <= n /\ n \in Nat
      BY <2>1
    <3>2. /\ First(s) \in T /\ Rest(s) \in SUBSET T /\ Cardinality(s) \in Nat
          /\ Cardinality(Rest(s)) = Cardinality(s) - 1
      BY <3>1, RestIsSmaller
    <3> QED
      BY <3>1, <3>2
  <2>6. \A s \in Level(n) : Adding(h, s) \in Nat
    BY <2>4, <2>5
  <2>7. big \in [Level(n) -> Nat]
    BY <2>6
  <2>8. \A s \in Level(n - 1) : s \in Level(n) /\ big[s] = h[s]
    <3> SUFFICES ASSUME NEW s \in Level(n - 1) PROVE s \in Level(n) /\ big[s] = h[s]
      OBVIOUS
    <3>1. s \in Level(n)
      BY <1>1, <2>1
    <3> QED
      BY <2>4, <3>1
  <2>9. \A s \in Level(n) : big[s] = Adding(big, s)
    BY <2>5, <2>8
  <2> HIDE DEF big, Level
  <2>10. big \in Sums(n)
    BY <2>7, <2>9
  <2> QED
    BY <2>1, <2>10
<1>3. Cardinality(T) \in Nat /\ Level(Cardinality(T)) = SUBSET T
  <2>1. Cardinality(T) \in Nat
    BY FS_CardinalityType
  <2>2. \A s \in SUBSET T : Cardinality(s) <= Cardinality(T)
    BY FS_Subset
  <2> QED
    BY <2>1, <2>2
<1>4. PICK h \in [SUBSET T -> Nat] : \A s \in SUBSET T : h[s] = Adding(h, s)
  <2>1. Sums(Cardinality(T)) # {}
    BY <1>2, <1>3
  <2> HIDE DEF Level, Adding
  <2> QED
    BY <1>3, <2>1
<1>5. h = [s \in SUBSET T |-> Adding(h, s)]
  BY <1>4
<1> QED
  BY <1>5 DEF Adds

(* A sum of natural numbers is one, ... *)
LEMMA SumIsNatural ==
    ASSUME NEW T, IsFiniteSet(T), NEW g \in [T -> Nat], NEW f, Adds(f, g, T)
    PROVE  f[T] \in Nat
<1> DEFINE Bad == {Cardinality(s) : s \in {u \in SUBSET T : f[u] \notin Nat}}
<1>1. \A s \in SUBSET T : f[s] = IF s = {} THEN 0 ELSE g[First(s)] + f[Rest(s)]
  BY DEF Adds
<1>2. Bad = {}
  <2> SUFFICES ASSUME Bad # {} PROVE FALSE
    OBVIOUS
  <2>1. Bad \in SUBSET Nat
    BY FS_Subset, FS_CardinalityType
  <2>2. PICK n \in Bad : \A k \in Bad : n <= k
    <3> HIDE DEF Bad
    <3> QED
      BY <2>1, LeastNatural
  <2>3. PICK s \in SUBSET T : n = Cardinality(s) /\ f[s] \notin Nat
    BY <2>2
  <2>4. s # {}
    <3>1. f[{}] = 0
      BY <1>1
    <3> QED
      BY <2>3, <3>1
  <2>5. /\ First(s) \in T /\ Rest(s) \in SUBSET T
        /\ Cardinality(s) \in Nat /\ Cardinality(Rest(s)) = Cardinality(s) - 1
    BY <2>4, RestIsSmaller
  <2>6. f[Rest(s)] \in Nat
    <3> SUFFICES ASSUME f[Rest(s)] \notin Nat PROVE FALSE
      OBVIOUS
    <3>1. Cardinality(Rest(s)) \in Bad
      BY <2>5
    <3> HIDE DEF Bad
    <3> QED
      BY <2>2, <2>3, <2>5, <3>1
  <2>7. f[s] = g[First(s)] + f[Rest(s)]
    BY <1>1, <2>4
  <2> QED
    BY <2>3, <2>5, <2>6, <2>7
<1> QED
  BY <1>2

(* ... and no more than its largest term as often as there are terms.      *)
LEMMA SumIsBounded ==
    ASSUME NEW T, IsFiniteSet(T), NEW g \in [T -> Nat], NEW f, Adds(f, g, T),
           NEW m \in Nat, \A x \in T : g[x] <= m
    PROVE  f[T] \in Nat /\ f[T] <= m * Cardinality(T)
<1> DEFINE Fits(u) == f[u] \in Nat /\ f[u] <= m * Cardinality(u)
           Bad == {Cardinality(s) : s \in {u \in SUBSET T : ~ Fits(u)}}
<1>1. \A s \in SUBSET T : f[s] = IF s = {} THEN 0 ELSE g[First(s)] + f[Rest(s)]
  BY DEF Adds
<1>2. Bad = {}
  <2> SUFFICES ASSUME Bad # {} PROVE FALSE
    OBVIOUS
  <2>1. Bad \in SUBSET Nat
    BY FS_Subset, FS_CardinalityType
  <2>2. PICK n \in Bad : \A k \in Bad : n <= k
    <3> HIDE DEF Bad
    <3> QED
      BY <2>1, LeastNatural
  <2>3. PICK s \in SUBSET T : n = Cardinality(s) /\ ~ Fits(s)
    BY <2>2
  <2>4. s # {}
    <3>1. f[{}] = 0
      BY <1>1
    <3>2. Cardinality({}) = 0
      BY FS_EmptySet
    <3>3. m * 0 = 0
      OBVIOUS
    <3> QED
      BY <2>3, <3>1, <3>2, <3>3
  <2>5. /\ First(s) \in T /\ Rest(s) \in SUBSET T
        /\ Cardinality(s) \in Nat \ {0} /\ Cardinality(Rest(s)) = Cardinality(s) - 1
    BY <2>4, RestIsSmaller
  <2>6. Fits(Rest(s))
    <3> SUFFICES ASSUME ~ Fits(Rest(s)) PROVE FALSE
      OBVIOUS
    <3>1. Cardinality(Rest(s)) \in Bad
      BY <2>5
    <3> HIDE DEF Bad
    <3> QED
      BY <2>2, <2>3, <2>5, <3>1
  <2>7. f[s] = g[First(s)] + f[Rest(s)]
    BY <1>1, <2>4
  <2>8. PICK k \in Nat, a \in Nat, b \in Nat :
            k = Cardinality(Rest(s)) /\ a = g[First(s)] /\ b = f[Rest(s)]
    BY <2>5, <2>6
  <2>9. a <= m /\ b <= m * k /\ Cardinality(s) = k + 1
    BY <2>5, <2>6, <2>8
  <2>10. m * (k + 1) = m * k + m
    OBVIOUS
  <2>11. a + b \in Nat /\ a + b <= m * (k + 1)
    <3>1. m * k \in Nat
      OBVIOUS
    <3> QED
      BY <2>9, <2>10, <3>1
  <2> QED
    BY <2>3, <2>7, <2>8, <2>9, <2>11
<1> QED
  BY <1>2

(* An element of a sequence. *)
LEMMA ElementType ==
    ASSUME NEW T, NEW s \in Seq(T), NEW i \in DOMAIN s
    PROVE  s[i] \in T
OBVIOUS

-----------------------------------------------------------------------------
(* The library's sums of the traffic of users and of what samples say. *)
TrafficOf(users, T) == MapThenSumSet(LAMBDA i : UsageOf(users[i]), T)
SampledTraffic(T) == MapThenSumSet(LAMBDA r : r.gb, T)

(* They add the first to the sum of the rest. *)
LEMMA TrafficAdds ==
    ASSUME NEW users, NEW T, IsFiniteSet(T), NEW g \in [T -> Nat],
           \A i \in T : g[i] = UsageOf(users[i])
    PROVE  \E f : Adds(f, g, T) /\ TrafficOf(users, T) = f[T]
<1> DEFINE F == CHOOSE f : f = [s \in SUBSET T |-> IF s = {} THEN 0
                                ELSE LET x == CHOOSE y \in s : TRUE IN
                                     UsageOf(users[x]) + f[s \ {x}]]
<1>1. TrafficOf(users, T) = F[T]
  BY DEF TrafficOf, MapThenSumSet, MapThenFoldSet
<1>2. ASSUME NEW f PROVE Adds(f, g, T) <=>
          f = [s \in SUBSET T |-> IF s = {} THEN 0
               ELSE LET x == CHOOSE y \in s : TRUE IN UsageOf(users[x]) + f[s \ {x}]]
  <2>1. \A s \in SUBSET T : s # {} => g[First(s)] = UsageOf(users[First(s)])
    BY DEF First
  <2>2. [s \in SUBSET T |-> IF s = {} THEN 0 ELSE g[First(s)] + f[Rest(s)]]
        = [s \in SUBSET T |-> IF s = {} THEN 0 ELSE UsageOf(users[First(s)]) + f[Rest(s)]]
    BY <2>1
  <2> QED
    BY <2>2 DEF Adds, First, Rest
<1>3. PICK h : Adds(h, g, T)
  BY SumsExist
<1>4. Adds(F, g, T)
  <2> DEFINE Sums(f) == f = [s \in SUBSET T |-> IF s = {} THEN 0
                               ELSE LET x == CHOOSE y \in s : TRUE IN
                                    UsageOf(users[x]) + f[s \ {x}]]
  <2>1. Sums(h)
    BY <1>2, <1>3
  <2>2. F = CHOOSE f : Sums(f)
    OBVIOUS
  <2> HIDE DEF Sums, F
  <2>3. Sums(F)
    BY <2>1, <2>2
  <2> QED
    BY <1>2, <2>3 DEF Sums
<1> QED
  BY <1>1, <1>4

(* What samples say is added in the same way. *)
LEMMA SamplesAdd ==
    ASSUME NEW T, IsFiniteSet(T), NEW g \in [T -> Nat], \A r \in T : g[r] = r.gb
    PROVE  \E f : Adds(f, g, T) /\ SampledTraffic(T) = f[T]
<1> DEFINE F == CHOOSE f : f = [s \in SUBSET T |-> IF s = {} THEN 0
                                ELSE LET x == CHOOSE y \in s : TRUE IN x.gb + f[s \ {x}]]
<1>1. SampledTraffic(T) = F[T]
  BY DEF SampledTraffic, MapThenSumSet, MapThenFoldSet
<1>2. ASSUME NEW f PROVE Adds(f, g, T) <=>
          f = [s \in SUBSET T |-> IF s = {} THEN 0
               ELSE LET x == CHOOSE y \in s : TRUE IN x.gb + f[s \ {x}]]
  <2>1. \A s \in SUBSET T : s # {} => g[First(s)] = First(s).gb
    BY DEF First
  <2>2. [s \in SUBSET T |-> IF s = {} THEN 0 ELSE g[First(s)] + f[Rest(s)]]
        = [s \in SUBSET T |-> IF s = {} THEN 0 ELSE First(s).gb + f[Rest(s)]]
    BY <2>1
  <2> QED
    BY <2>2 DEF Adds, First, Rest
<1>3. PICK h : Adds(h, g, T)
  BY SumsExist
<1>4. Adds(F, g, T)
  <2> DEFINE Sums(f) == f = [s \in SUBSET T |-> IF s = {} THEN 0
                               ELSE LET x == CHOOSE y \in s : TRUE IN
                                    x.gb + f[s \ {x}]]
  <2>1. Sums(h)
    BY <1>2, <1>3
  <2>2. F = CHOOSE f : Sums(f)
    OBVIOUS
  <2> HIDE DEF Sums, F
  <2>3. Sums(F)
    BY <2>1, <2>2
  <2> QED
    BY <1>2, <2>3 DEF Sums
<1> QED
  BY <1>1, <1>4

(* What a panel does not know of a user counts as nothing. *)
LEMMA UsageType ==
    ASSUME NEW u \in RemoteUser
    PROVE  UsageOf(u) \in Known
<1>1. /\ u.gb \in Known /\ u.bytes \in Known /\ u.upload \in Known /\ u.download \in Known
      /\ Known = Nat \cup {-1} /\ None = -1
  BY DEF RemoteUser, Known, None
<1>2. ASSUME NEW a \in Known PROVE Max({a, 0}) \in Nat
  <2>1. CASE a >= 0
    BY <1>1, <1>2, <2>1 DEF Max
  <2>2. CASE ~ (a >= 0)
    BY <1>1, <1>2, <2>2 DEF Max
  <2> QED
    BY <2>1, <2>2
<1>3. Max({u.upload, 0}) \in Nat /\ Max({u.download, 0}) \in Nat
  BY <1>1, <1>2
<1> QED
  BY <1>1, <1>3 DEF UsageOf

(* A panel's load is a percentage and a sum, or nothing. *)
LEMMA LoadType ==
    ASSUME NEW users \in Panels \cup {NoAnswer}
    PROVE  LoadOf(users).percent \in Known /\ LoadOf(users).gb \in Known
<1>1. CASE users = NoAnswer
  BY <1>1 DEF LoadOf, Known, None
<1>2. CASE users # NoAnswer
  <2>1. users \in Seq(RemoteUser)
    BY <1>2, UsageAssumption
  <2>2. Len(users) \in Nat /\ DOMAIN users = 1..Len(users) /\ IsFiniteSet(DOMAIN users)
    BY <2>1, FS_Interval
  <2>3. LoadOf(users).percent \in Known
    <3>1. PICK n \in Nat : n = Cardinality({i \in DOMAIN users : CountsAsActive(users[i])})
      <4>1. {i \in DOMAIN users : CountsAsActive(users[i])} \in SUBSET (DOMAIN users)
        OBVIOUS
      <4>2. IsFiniteSet({i \in DOMAIN users : CountsAsActive(users[i])})
        BY <2>2, <4>1, FS_Subset
      <4> QED
        BY <4>2, FS_CardinalityType
    <3>2. CASE users = <<>>
      BY <1>2, <3>2 DEF LoadOf, Known
    <3>3. CASE users # <<>>
      <4>1. PICK k \in Nat : k = Len(users) /\ k > 0
        BY <2>1, <3>3
      <4>2. (100 * n) \div k \in Nat
        <5>1. 100 * n \in Nat
          OBVIOUS
        <5> QED
          BY <4>1, <5>1
      <4> QED
        BY <1>2, <3>1, <3>3, <4>1, <4>2 DEF LoadOf, Known
    <3> QED
      BY <3>2, <3>3
  <2>4. CurrentUsage(users) \in Known
    <3> DEFINE known == {i \in DOMAIN users : UsageOf(users[i]) # None}
               g == [i \in known |-> UsageOf(users[i])]
    <3>1. CASE known = {}
      BY <3>1 DEF CurrentUsage, Known
    <3>2. CASE known # {}
      <4>1. IsFiniteSet(known)
        <5>1. known \in SUBSET (DOMAIN users)
          OBVIOUS
        <5> QED
          BY <2>2, <5>1, FS_Subset
      <4>2. \A i \in known : UsageOf(users[i]) \in Nat
        <5> TAKE i \in known
        <5>1. users[i] \in RemoteUser
          BY <2>1, ElementType
        <5> QED
          BY <5>1, UsageType DEF Known
      <4>3. g \in [known -> Nat] /\ \A i \in known : g[i] = UsageOf(users[i])
        BY <4>2
      <4> HIDE DEF known, g
      <4>4. PICK f : Adds(f, g, known) /\ TrafficOf(users, known) = f[known]
        BY <4>1, <4>3, TrafficAdds
      <4>5. f[known] \in Nat
        BY <4>1, <4>3, <4>4, SumIsNatural
      <4>6. CurrentUsage(users) = TrafficOf(users, known)
        BY <3>2 DEF CurrentUsage, TrafficOf, known
      <4> QED
        BY <4>4, <4>5, <4>6 DEF Known
    <3> QED
      BY <3>1, <3>2
  <2>5. LoadOf(users).gb = CurrentUsage(users)
    BY <1>2 DEF LoadOf
  <2> QED
    BY <2>3, <2>4, <2>5
<1> QED
  BY <1>1, <1>2

(* So what is stored of a panel has the types of the table's columns. *)
LEMMA SampleType == Sample \subseteq Snapshot
<1>1. \A users \in Panels \cup {NoAnswer} : LoadOf(users).percent \in Known /\ LoadOf(users).gb \in Known
  BY LoadType
<1> QED
  BY <1>1 DEF Sample, Snapshot

(* An average that reaches a threshold has a term that does. *)
LEMMA AverageReaches ==
    ASSUME NEW T, IsFiniteSet(T), T # {}, NEW g \in [T -> Nat], NEW f, Adds(f, g, T),
           NEW t \in Nat, t > 0, f[T] \div Cardinality(T) >= t
    PROVE  \E x \in T : g[x] >= t
<1>1. PICK n \in Nat : n = Cardinality(T) /\ n > 0
  <2>1. Cardinality(T) \in Nat /\ Cardinality(T) # 0
    BY FS_CardinalityType, FS_EmptySet
  <2> QED
    BY <2>1
<1>2. PICK total \in Nat : total = f[T]
  BY SumIsNatural
<1> SUFFICES ASSUME \A x \in T : ~ (g[x] >= t) PROVE FALSE
  OBVIOUS
<1>3. t - 1 \in Nat /\ \A x \in T : g[x] <= t - 1
  OBVIOUS
<1>4. total <= (t - 1) * n
  BY <1>1, <1>2, <1>3, SumIsBounded
<1>5. total >= t * n
  <2>1. PICK q \in Nat : q = total \div n
    BY <1>1, <1>2
  <2>2. q * n <= total
    BY <1>1, <1>2, <2>1
  <2>3. q >= t
    BY <1>1, <1>2, <2>1
  <2>4. q * n >= t * n
    BY <1>1, <2>3
  <2>5. q * n \in Nat /\ t * n \in Nat
    OBVIOUS
  <2> QED
    BY <2>2, <2>4, <2>5
<1>6. (t - 1) * n = t * n - n /\ t * n \in Nat
  OBVIOUS
<1> QED
  BY <1>1, <1>2, <1>4, <1>5, <1>6

(***************************************************************************)
(* The invariant                                                           *)
(***************************************************************************)

Steps == {"idle", "measure", "alert", "record"}

Session == [pc : Steps, began : Times, listed : SUBSET Servers, todo : SUBSET Servers,
            hot : SUBSET (Locations \X Kinds),
            sending : (Locations \X Kinds) \cup {Idle.sending},
            rows : SUBSET Sample, records : SUBSET AlertRow]

Shape ==
    /\ now \in Times /\ active \subseteq Servers
    /\ snapshots \subseteq Sample /\ IsFiniteSet(snapshots)
    /\ alerts \subseteq AlertRow
    /\ run \in [Monitors -> Session]
    /\ \A m \in Monitors : IsFiniteSet(run[m].rows)

(* Nothing is of a later time than it is. *)
Begun ==
    /\ \A m \in Monitors : run[m].began <= now
    /\ \A r \in alerts : r.began <= now

(* A server that is listed and need not be measured any more has a sample  *)
(* of less than an interval.                                               *)
FreshAt(m) ==
    run[m].pc = "measure" =>
        \A v \in run[m].listed \ run[m].todo :
            \E r \in Seen(m) : r.server = v /\ r.at > run[m].began - Interval

(* The alert that was just sent respects the cooldown. *)
SentAt(m) ==
    run[m].pc = "record" =>
        /\ run[m].sending \in Locations \X Kinds
        /\ \A r \in alerts :
              /\ r.key = KeyOf[run[m].sending[1]] /\ r.kind = run[m].sending[2]
              /\ r.at < run[m].began
              => r.at < run[m].began - Cooldown

(* What the loop has still to measure it has not sampled lately. *)
DueAt ==
    run[Loop].pc = "measure" =>
        \A v \in run[Loop].todo : \A r \in snapshots :
            r.server = v /\ r.by = Loop => r.at <= run[Loop].began - Interval

UsageInv ==
    /\ Shape /\ Begun
    /\ \A m \in Monitors : FreshAt(m) /\ SentAt(m)
    /\ DueAt /\ SamplesSpaced /\ CooldownHolds

(* The loop is a monitor, and times are natural numbers. *)
LEMMA Naturals ==
    /\ Loop \in Monitors /\ Times \subseteq Nat
    /\ Interval \in Nat /\ Interval > 0 /\ Cooldown \in Nat
    /\ \A r \in Sample : r.at \in Nat
    /\ \A r \in AlertRow : r.at \in Nat /\ r.began \in Nat
    /\ \A l \in Session : l.began \in Nat
BY UsageAssumption DEF Monitors, Times, Sample, AlertRow, Session

(* The session nobody uses. *)
LEMMA IdleShape ==
    /\ Idle \in Session /\ Idle.pc = "idle" /\ Idle.began = 0
    /\ Idle.rows = {} /\ IsFiniteSet(Idle.rows)
<1>1. 0 \in Times
  BY UsageAssumption DEF Times
<1> QED
  BY <1>1, FS_EmptySet DEF Idle, Session, Steps

(* The shop opens. *)
LEMMA UsageStarts ==
    ASSUME Init
    PROVE  UsageInv
<1>1. Shape /\ Begun
  <2>1. 0 \in Times /\ 0 <= 0
    BY UsageAssumption DEF Times
  <2>2. IsFiniteSet({})
    BY FS_EmptySet
  <2> QED
    BY <2>1, <2>2, IdleShape DEF Init, Shape, Begun
<1>2. \A m \in Monitors : FreshAt(m) /\ SentAt(m)
  BY IdleShape DEF Init, FreshAt, SentAt
<1>3. DueAt /\ SamplesSpaced /\ CooldownHolds
  BY IdleShape, Naturals DEF Init, DueAt, SamplesSpaced, CooldownHolds
<1> QED
  BY <1>1, <1>2, <1>3 DEF UsageInv

-----------------------------------------------------------------------------
(* A session goes on to l: the others keep what they have, and the tables  *)
(* are as they were.                                                       *)
LEMMA SessionKeeps ==
    ASSUME UsageInv, NEW m \in Monitors, NEW l \in Session, IsFiniteSet(l.rows),
           run' = [run EXCEPT ![m] = l],
           UNCHANGED <<now, active, snapshots, alerts>>,
           l.began <= now,
           l.pc = "measure" => \A v \in l.listed \ l.todo :
               \E r \in snapshots \cup l.rows : r.server = v /\ r.at > l.began - Interval,
           l.pc = "record" =>
               /\ l.sending \in Locations \X Kinds
               /\ \A r \in alerts :
                     /\ r.key = KeyOf[l.sending[1]] /\ r.kind = l.sending[2]
                     /\ r.at < l.began
                     => r.at < l.began - Cooldown,
           m = Loop /\ l.pc = "measure" => \A v \in l.todo : \A r \in snapshots :
               r.server = v /\ r.by = Loop => r.at <= l.began - Interval
    PROVE  UsageInv'
<1>1. \A g \in Monitors : run'[g] = IF g = m THEN l ELSE run[g]
  BY DEF UsageInv, Shape
<1>2. Shape' /\ Begun'
  BY <1>1 DEF UsageInv, Shape, Begun
<1>3. ASSUME NEW g \in Monitors PROVE FreshAt(g)'
  <2>1. CASE g = m
    BY <1>1, <2>1 DEF FreshAt, Seen
  <2>2. CASE g # m
    BY <1>1, <2>2 DEF UsageInv, FreshAt, Seen
  <2> QED
    BY <2>1, <2>2
<1>4. ASSUME NEW g \in Monitors PROVE SentAt(g)'
  <2>1. CASE g = m
    BY <1>1, <2>1 DEF SentAt
  <2>2. CASE g # m
    BY <1>1, <2>2 DEF UsageInv, SentAt
  <2> QED
    BY <2>1, <2>2
<1>5. DueAt'
  <2>1. CASE Loop = m
    BY <1>1, <2>1, Naturals DEF DueAt
  <2>2. CASE Loop # m
    BY <1>1, <2>2, Naturals DEF UsageInv, DueAt
  <2> QED
    BY <2>1, <2>2
<1>6. SamplesSpaced' /\ CooldownHolds'
  BY DEF UsageInv, SamplesSpaced, CooldownHolds
<1> QED
  BY <1>2, <1>3, <1>4, <1>5, <1>6 DEF UsageInv

(* A session that stops. *)
LEMMA StopKeeps ==
    ASSUME UsageInv, NEW m \in Monitors, run' = [run EXCEPT ![m] = Idle],
           UNCHANGED <<now, active, snapshots, alerts>>
    PROVE  UsageInv'
<1>1. Idle.began <= now
  BY IdleShape, Naturals DEF UsageInv, Shape
<1> QED
  BY <1>1, IdleShape, SessionKeeps

(* The list of the servers. *)
LEMMA BeginKeeps ==
    ASSUME UsageInv, NEW m \in Monitors, Begin(m)
    PROVE  UsageInv'
<1>1. PICK todo \in SUBSET Servers :
          /\ todo = IF m = Loop THEN {v \in active : Due(v, snapshots, now)} ELSE active
          /\ todo \subseteq active
  BY DEF UsageInv, Shape
<1>2. PICK l : l = [Idle EXCEPT !.pc = "measure", !.began = now, !.listed = active, !.todo = todo]
  OBVIOUS
<1>3. now \in Times /\ active \in SUBSET Servers /\ snapshots \subseteq Sample
  BY DEF UsageInv, Shape
<1>4. /\ l \in Session /\ l.pc = "measure" /\ l.began = now /\ l.listed = active /\ l.todo = todo
      /\ IsFiniteSet(l.rows)
  BY <1>2, <1>3, IdleShape DEF Session, Steps
<1>5. run' = [run EXCEPT ![m] = l] /\ UNCHANGED <<now, active, snapshots, alerts>>
  BY <1>1, <1>2 DEF Begin
<1>6. now <= now
  BY <1>3, Naturals
<1>7. ASSUME NEW v \in active \ todo
      PROVE  \E r \in snapshots : r.server = v /\ r.at > now - Interval
  <2>1. PICK r \in snapshots : r.server = v /\ ~ (r.at <= now - Interval)
    BY <1>1, <1>7 DEF Due, RowsOf
  <2> QED
    BY <1>3, <2>1, Naturals
<1>8. m = Loop => \A v \in todo : \A r \in snapshots : r.server = v => r.at <= now - Interval
  BY <1>1 DEF Due, RowsOf
<1> QED
  BY <1>4, <1>5, <1>6, <1>7, <1>8, SessionKeeps

(* What a panel answers. *)
LEMMA MeasureKeeps ==
    ASSUME UsageInv, NEW m \in Monitors, NEW users \in Panels \cup {NoAnswer}, Measure(m, users)
    PROVE  UsageInv'
<1>1. PICK old \in Session : old = run[m]
  BY DEF UsageInv, Shape
<1>2. PICK v \in Servers : v = Min(old.todo) /\ v \in old.todo
  <2>1. old.todo \in SUBSET Servers /\ old.todo # {}
    BY <1>1 DEF Session, Measure
  <2> QED
    BY <2>1, NextServer
<1>3. IsFiniteSet(old.rows) /\ IsFiniteSet(snapshots) /\ old.rows \subseteq Sample
      /\ snapshots \subseteq Sample /\ old.began \in Times /\ old.pc = "measure"
      /\ old.began <= now
  BY <1>1 DEF UsageInv, Shape, Session, Begun, Measure
<1>4. Cardinality(Seen(m)) + 1 \in Nat
  <2>1. IsFiniteSet(snapshots \cup old.rows)
    BY <1>3, FS_Union
  <2> QED
    BY <1>1, <2>1, FS_CardinalityType DEF Seen
<1>5. PICK row \in Sample :
          /\ row = [id |-> Cardinality(Seen(m)) + 1, server |-> v, at |-> old.began, by |-> m,
                    percent |-> LoadOf(users).percent, gb |-> LoadOf(users).gb]
          /\ row.server = v /\ row.at = old.began /\ row.by = m
  <2>1. PICK id \in Nat : id = Cardinality(Seen(m)) + 1
    BY <1>4
  <2>. PICK p, g : p = LoadOf(users).percent /\ g = LoadOf(users).gb
    OBVIOUS
  <2>2. /\ p \in {LoadOf(u).percent : u \in Panels \cup {NoAnswer}}
        /\ g \in {LoadOf(u).gb : u \in Panels \cup {NoAnswer}}
    OBVIOUS
  <2>3. PICK row : row = [id |-> id, server |-> v, at |-> old.began, by |-> m, percent |-> p, gb |-> g]
    OBVIOUS
  <2>4. row \in Sample
    BY <1>2, <1>3, <2>2, <2>3 DEF Sample
  <2>5. row.server = v /\ row.at = old.began /\ row.by = m
    BY <2>3
  <2> QED
    BY <2>1, <2>3, <2>4, <2>5
<1>6. row.at > old.began - Interval
  BY <1>1, <1>5, Naturals
<1>7. \A w \in old.listed \ (old.todo \ {v}) :
          \E r \in snapshots \cup old.rows \cup {row} :
              r.server = w /\ r.at > old.began - Interval
  <2> TAKE w \in old.listed \ (old.todo \ {v})
  <2>1. CASE w = v
    BY <1>5, <1>6, <2>1
  <2>2. CASE w # v
    BY <1>1, <1>3, <2>2 DEF UsageInv, FreshAt, Seen
  <2> QED
    BY <2>1, <2>2
<1>8. m = Loop => \A w \in old.todo : \A r \in snapshots :
          r.server = w /\ r.by = Loop => r.at <= old.began - Interval
  BY <1>1, <1>3 DEF UsageInv, DueAt
<1>9. UNCHANGED <<now, active, alerts>>
  BY DEF Measure
<1>10. CASE Open(m)
  <2>1. PICK l : l = [old EXCEPT !.todo = old.todo \ {v}, !.rows = old.rows \cup {row}]
    OBVIOUS
  <2>2. /\ l \in Session /\ l.pc = "measure" /\ l.began = old.began /\ l.listed = old.listed
        /\ l.todo = old.todo \ {v} /\ l.rows = old.rows \cup {row}
    BY <1>3, <1>5, <2>1 DEF Session
  <2>3. IsFiniteSet(l.rows)
    BY <1>3, <2>2, FS_AddElement
  <2>4. run' = [run EXCEPT ![m] = l] /\ snapshots' = snapshots
    <3>1. /\ run' = [run EXCEPT ![m].todo = old.todo \ {v}, ![m].rows = old.rows \cup {row}]
          /\ snapshots' = snapshots
      BY <1>1, <1>2, <1>5, <1>10 DEF Measure
    <3> QED
      BY <1>1, <2>1, <3>1 DEF UsageInv, Shape
  <2> QED
    BY <1>3, <1>7, <1>8, <1>9, <2>2, <2>3, <2>4, SessionKeeps
<1>11. CASE ~ Open(m)
  <2>1. PICK l : l = [old EXCEPT !.todo = old.todo \ {v}]
    OBVIOUS
  <2>2. /\ l \in Session /\ l.pc = "measure" /\ l.began = old.began /\ l.listed = old.listed
        /\ l.todo = old.todo \ {v} /\ l.rows = old.rows
    BY <1>3, <2>1 DEF Session
  <2>3. run' = [run EXCEPT ![m] = l] /\ snapshots' = snapshots \cup {row}
    <3>1. /\ run' = [run EXCEPT ![m].todo = old.todo \ {v}]
          /\ snapshots' = snapshots \cup {row}
      BY <1>1, <1>2, <1>5, <1>11 DEF Measure
    <3> QED
      BY <1>1, <2>1, <3>1 DEF UsageInv, Shape
  <2>4. \A g \in Monitors : run'[g] = IF g = m THEN l ELSE run[g]
    BY <2>3 DEF UsageInv, Shape
  <2>5. Shape'
    <3>1. IsFiniteSet(snapshots')
      BY <1>3, <2>3, FS_AddElement
    <3>2. run' \in [Monitors -> Session]
      BY <2>2, <2>3 DEF UsageInv, Shape
    <3>3. \A g \in Monitors : IsFiniteSet(run'[g].rows)
      BY <1>3, <2>2, <2>4 DEF UsageInv, Shape
    <3> QED
      BY <1>5, <1>9, <2>3, <3>1, <3>2, <3>3 DEF UsageInv, Shape
  <2>6. Begun'
    BY <1>3, <1>9, <2>2, <2>4 DEF UsageInv, Begun
  <2>7. ASSUME NEW g \in Monitors PROVE FreshAt(g)' /\ SentAt(g)'
    <3>1. CASE g = m
      <4>1. FreshAt(g)'
        BY <1>7, <2>2, <2>3, <2>4, <3>1 DEF FreshAt, Seen
      <4> QED
        BY <2>2, <2>4, <3>1, <4>1 DEF SentAt
    <3>2. CASE g # m
      BY <1>9, <2>3, <2>4, <3>2 DEF UsageInv, FreshAt, SentAt, Seen
    <3> QED
      BY <3>1, <3>2
  <2>8. DueAt'
    <3>1. CASE m = Loop
      BY <1>5, <1>8, <2>2, <2>3, <2>4, <3>1 DEF DueAt
    <3>2. CASE m # Loop
      BY <1>5, <2>3, <2>4, <3>2, Naturals DEF UsageInv, DueAt
    <3> QED
      BY <3>1, <3>2
  <2>9. SamplesSpaced'
    <3> SUFFICES ASSUME NEW r \in snapshots', NEW q \in snapshots', r # q, r.server = q.server,
                        r.by = Loop, q.by = Loop
                 PROVE  r.at >= q.at + Interval \/ q.at >= r.at + Interval
      BY DEF SamplesSpaced
    <3>1. CASE r \in snapshots /\ q \in snapshots
      BY <3>1 DEF UsageInv, SamplesSpaced
    <3>2. CASE r = row /\ q \in snapshots
      <4>1. q.at <= old.began - Interval
        BY <1>2, <1>5, <1>8, <3>2
      <4> QED
        BY <1>1, <1>3, <1>5, <3>2, <4>1, Naturals
    <3>3. CASE q = row /\ r \in snapshots
      <4>1. r.at <= old.began - Interval
        BY <1>2, <1>5, <1>8, <3>3
      <4> QED
        BY <1>1, <1>3, <1>5, <3>3, <4>1, Naturals
    <3> QED
      BY <2>3, <3>1, <3>2, <3>3
  <2>10. CooldownHolds'
    BY <1>9 DEF UsageInv, CooldownHolds
  <2> QED
    BY <2>5, <2>6, <2>7, <2>8, <2>9, <2>10 DEF UsageInv
<1> QED
  BY <1>10, <1>11

(* The comparison, ... *)
LEMMA CompareKeeps ==
    ASSUME UsageInv, NEW m \in Monitors, Compare(m)
    PROVE  UsageInv'
<1>1. PICK old \in Session : old = run[m] /\ old.began <= now /\ IsFiniteSet(old.rows)
  BY DEF UsageInv, Shape, Begun
<1>2. PICK hot \in SUBSET (Locations \X Kinds) : hot = Hot(m)
  BY DEF Hot
<1>3. PICK l : l = [old EXCEPT !.pc = "alert", !.hot = hot]
  OBVIOUS
<1>4. l \in Session /\ l.pc = "alert" /\ l.began = old.began /\ l.rows = old.rows
  BY <1>3 DEF Session, Steps
<1>5. run' = [run EXCEPT ![m] = l] /\ UNCHANGED <<now, active, snapshots, alerts>>
  BY <1>1, <1>2, <1>3 DEF Compare, UsageInv, Shape
<1> QED
  BY <1>1, <1>4, <1>5, SessionKeeps

(* ... an alert that the cooldown stops, ... *)
LEMMA QuietKeeps ==
    ASSUME UsageInv, NEW m \in Monitors, NEW x, Quiet(m, x)
    PROVE  UsageInv'
<1>1. PICK old \in Session : old = run[m] /\ old.began <= now /\ IsFiniteSet(old.rows)
  BY DEF UsageInv, Shape, Begun
<1>2. PICK l : l = [old EXCEPT !.hot = old.hot \ {x}]
  OBVIOUS
<1>3. l \in Session /\ l.pc = "alert" /\ l.began = old.began /\ l.rows = old.rows
  BY <1>1, <1>2 DEF Session, Quiet
<1>4. run' = [run EXCEPT ![m] = l] /\ UNCHANGED <<now, active, snapshots, alerts>>
  BY <1>1, <1>2 DEF Quiet, UsageInv, Shape
<1> QED
  BY <1>1, <1>3, <1>4, SessionKeeps

(* ... and one that it lets through. *)
LEMMA SendKeeps ==
    ASSUME UsageInv, NEW m \in Monitors, NEW x \in Locations \X Kinds, Send(m, x)
    PROVE  UsageInv'
<1>1. PICK old \in Session : old = run[m] /\ old.began <= now /\ IsFiniteSet(old.rows)
  BY DEF UsageInv, Shape, Begun
<1>2. PICK l : l = [old EXCEPT !.pc = "record", !.sending = x]
  OBVIOUS
<1>3. l \in Session /\ l.pc = "record" /\ l.began = old.began /\ l.rows = old.rows /\ l.sending = x
  BY <1>2 DEF Session, Steps
<1>4. run' = [run EXCEPT ![m] = l] /\ UNCHANGED <<now, active, snapshots, alerts>>
  BY <1>1, <1>2 DEF Send, UsageInv, Shape
<1>5. ASSUME NEW r \in alerts, r.key = KeyOf[x[1]], r.kind = x[2]
      PROVE  r.at < old.began - Cooldown
  <2>1. ~ (r.at >= old.began - Cooldown)
    BY <1>1, <1>5 DEF Send, Recent
  <2>2. r.at \in Nat /\ old.began \in Nat /\ Cooldown \in Nat
    BY <1>1, Naturals DEF UsageInv, Shape
  <2> QED
    BY <2>1, <2>2
<1> QED
  BY <1>1, <1>3, <1>4, <1>5, SessionKeeps

(* The row of an alert. *)
LEMMA RecordKeeps ==
    ASSUME UsageInv, NEW m \in Monitors, Record(m)
    PROVE  UsageInv'
<1>1. PICK old \in Session : old = run[m] /\ old.began <= now /\ IsFiniteSet(old.rows)
                             /\ old.pc = "record"
  BY DEF UsageInv, Shape, Begun, Record
<1>2. PICK x \in Locations \X Kinds : x = old.sending
  BY <1>1 DEF UsageInv, SentAt
<1>3. now \in Times /\ old.began \in Times
  BY <1>1 DEF UsageInv, Shape, Session
<1>4. PICK row \in AlertRow :
          /\ row = [key |-> KeyOf[x[1]], kind |-> x[2], at |-> now, by |-> m, began |-> old.began]
          /\ row.key = KeyOf[x[1]] /\ row.kind = x[2] /\ row.at = now /\ row.began = old.began
  <2>1. PICK key \in {KeyOf[l] : l \in Locations}, kind \in Kinds : key = KeyOf[x[1]] /\ kind = x[2]
    BY <1>2
  <2>2. PICK row : row = [key |-> key, kind |-> kind, at |-> now, by |-> m, began |-> old.began]
    OBVIOUS
  <2>3. row \in AlertRow
    BY <1>3, <2>2 DEF AlertRow
  <2> QED
    BY <2>1, <2>2, <2>3
<1>5. PICK after : after = [old EXCEPT !.pc = "alert", !.hot = old.hot \ {x}, !.sending = Idle.sending]
  OBVIOUS
<1>6. /\ after \in Session /\ after.pc = "alert" /\ after.began = old.began /\ after.rows = old.rows
      /\ after.records = old.records
  BY <1>5 DEF Session, Steps
<1>7. CASE Open(m)
  <2>1. PICK l : l = [after EXCEPT !.records = after.records \cup {row}]
    OBVIOUS
  <2>2. l \in Session /\ l.pc = "alert" /\ l.began = old.began /\ l.rows = old.rows
    BY <1>4, <1>6, <2>1 DEF Session
  <2>3. run' = [run EXCEPT ![m] = l] /\ UNCHANGED <<now, active, snapshots, alerts>>
    BY <1>1, <1>2, <1>4, <1>5, <1>7, <2>1 DEF Record
  <2> QED
    BY <1>1, <2>2, <2>3, SessionKeeps
<1>8. CASE ~ Open(m)
  <2>1. /\ run' = [run EXCEPT ![m] = after] /\ alerts' = alerts \cup {row}
        /\ UNCHANGED <<now, active, snapshots>>
    BY <1>1, <1>2, <1>4, <1>5, <1>8 DEF Record
  <2>2. \A g \in Monitors : run'[g] = IF g = m THEN after ELSE run[g]
    BY <2>1 DEF UsageInv, Shape
  <2>3. Shape' /\ Begun'
    BY <1>1, <1>4, <1>6, <2>1, <2>2 DEF UsageInv, Shape, Begun
  <2>4. ASSUME NEW g \in Monitors PROVE FreshAt(g)'
    BY <1>6, <2>1, <2>2 DEF UsageInv, FreshAt, Seen
  <2>5. ASSUME NEW g \in Monitors PROVE SentAt(g)'
    <3>1. CASE g = m
      BY <1>6, <2>2, <3>1 DEF SentAt
    <3>2. CASE g # m
      <4>1. run'[g] = run[g] /\ run[g].began <= now /\ run[g].began \in Nat /\ now \in Nat
        BY <1>3, <2>2, <3>2, Naturals DEF UsageInv, Begun, Shape
      <4>2. ~ (row.at < run[g].began)
        BY <1>4, <4>1
      <4> QED
        BY <2>1, <4>1, <4>2 DEF UsageInv, SentAt
    <3> QED
      BY <3>1, <3>2
  <2>6. DueAt' /\ SamplesSpaced'
    BY <1>6, <2>1, <2>2, Naturals DEF UsageInv, DueAt, SamplesSpaced
  <2>7. CooldownHolds'
    <3> SUFFICES ASSUME NEW r \in alerts', NEW q \in alerts', r.key = q.key, r.kind = q.kind,
                        r.at < q.began
                 PROVE  r.at < q.began - Cooldown
      BY DEF CooldownHolds
    <3>1. q.began <= now /\ q.began \in Nat /\ now \in Nat
      BY <1>1, <1>3, <1>4, <2>1, Naturals DEF UsageInv, Begun, Shape
    <3>2. r # row
      BY <1>4, <3>1
    <3>3. CASE q = row
      BY <1>1, <1>2, <1>4, <2>1, <3>2, <3>3 DEF UsageInv, SentAt
    <3>4. CASE q # row
      BY <2>1, <3>2, <3>4 DEF UsageInv, CooldownHolds
    <3> QED
      BY <3>3, <3>4
  <2> QED
    BY <2>3, <2>4, <2>5, <2>6, <2>7 DEF UsageInv
<1> QED
  BY <1>7, <1>8

(* Time, and servers that are switched. *)
LEMMA OutsideKeeps ==
    ASSUME UsageInv, Tick \/ (\E v \in Servers : Toggle(v)) \/ UNCHANGED vars
    PROVE  UsageInv'
<1>1. /\ UNCHANGED <<snapshots, alerts, run>>
      /\ active' \subseteq Servers
      /\ now' \in Times /\ now \in Nat /\ now' \in Nat /\ now <= now'
  <2>1. CASE Tick
    BY <2>1, UsageAssumption DEF Tick, UsageInv, Shape, Times
  <2>2. CASE \E v \in Servers : Toggle(v)
    BY <2>2, Naturals DEF Toggle, UsageInv, Shape
  <2>3. CASE UNCHANGED vars
    BY <2>3, Naturals DEF vars, UsageInv, Shape
  <2> QED
    BY <2>1, <2>2, <2>3
<1>2. Shape'
  BY <1>1 DEF UsageInv, Shape
<1>3. Begun'
  <2>1. \A m \in Monitors : run[m].began \in Nat
    BY Naturals DEF UsageInv, Shape
  <2>2. \A r \in alerts : r.began \in Nat
    BY Naturals DEF UsageInv, Shape
  <2> QED
    BY <1>1, <2>1, <2>2 DEF UsageInv, Begun
<1>4. \A m \in Monitors : (FreshAt(m) /\ SentAt(m))'
  BY <1>1 DEF UsageInv, FreshAt, SentAt, Seen
<1>5. DueAt' /\ SamplesSpaced' /\ CooldownHolds'
  BY <1>1 DEF UsageInv, DueAt, SamplesSpaced, CooldownHolds
<1> QED
  BY <1>2, <1>3, <1>4, <1>5 DEF UsageInv

(* Every step. *)
LEMMA UsageStep ==
    ASSUME UsageInv, [Next]_vars
    PROVE  UsageInv'
<1>1. ASSUME NEW m \in Monitors, Finish(m) \/ Crash(m) PROVE UsageInv'
  BY <1>1, StopKeeps DEF Finish, Crash
<1>2. ASSUME NEW m \in Monitors,
             \/ Begin(m) \/ Compare(m) \/ Record(m)
             \/ \E users \in Panels \cup {NoAnswer} : Measure(m, users)
             \/ \E x \in Locations \X Kinds : Quiet(m, x) \/ Send(m, x)
      PROVE  UsageInv'
  BY <1>2, BeginKeeps, CompareKeeps, RecordKeeps, MeasureKeeps, QuietKeeps, SendKeeps
<1>3. CASE Tick \/ (\E v \in Servers : Toggle(v)) \/ UNCHANGED vars
  BY <1>3, OutsideKeeps
<1> QED
  BY <1>1, <1>2, <1>3 DEF Next

-----------------------------------------------------------------------------
(***************************************************************************)
(* The operators' screen                                                   *)
(***************************************************************************)

(* Thresholds are natural numbers: an entry that is none is passed over.   *)
LEMMA ThresholdType ==
    ASSUME NEW kind \in Kinds, NEW l \in Locations
    PROVE  Threshold(kind, l) \in Nat
<1>1. PICK entries \in Seq([name : Locations, value : Known]) : entries = Overrides[kind]
  BY UsageAssumption
<1> DEFINE read == {i \in DOMAIN entries : entries[i].value # None}
           of(key) == {i \in read : KeyOf[entries[i].name] = key}
<1>2. CASE KeyOf[l] \notin DOMAIN Parsed(entries)
  BY <1>1, <1>2, UsageAssumption DEF Threshold
<1>3. CASE KeyOf[l] \in DOMAIN Parsed(entries)
  <2>1. of(KeyOf[l]) # {}
    BY <1>3 DEF Parsed
  <2>2. Max(of(KeyOf[l])) \in of(KeyOf[l])
    <3>1. \A i \in of(KeyOf[l]) : i \in 1..Len(entries) /\ Len(entries) \in Nat
      BY <1>1
    <3>2. {Len(entries) - i : i \in of(KeyOf[l])} \in SUBSET Nat
      BY <3>1
    <3>3. {Len(entries) - i : i \in of(KeyOf[l])} # {}
      BY <2>1
    <3>4. PICK n \in {Len(entries) - i : i \in of(KeyOf[l])} :
              \A k \in {Len(entries) - i : i \in of(KeyOf[l])} : n <= k
      BY <3>2, <3>3, LeastNatural
    <3>5. PICK i \in of(KeyOf[l]) : n = Len(entries) - i
      BY <3>4
    <3>6. \A j \in of(KeyOf[l]) : Len(entries) - i <= Len(entries) - j
      BY <3>4, <3>5
    <3>7. \A j \in of(KeyOf[l]) : i >= j
      BY <3>1, <3>6
    <3> HIDE DEF of
    <3> QED
      BY <3>5, <3>7 DEF Max
  <2>3. PICK i : i = Max(of(KeyOf[l]))
    OBVIOUS
  <2>4. i \in DOMAIN entries /\ entries[i].value # None
    BY <2>2, <2>3
  <2>5. entries[i].value \in Nat
    <3>1. entries[i] \in [name : Locations, value : Known]
      BY <2>4, ElementType
    <3> QED
      BY <2>4, <3>1 DEF Known
  <2>6. Threshold(kind, l) = entries[i].value
    BY <1>1, <1>3, <2>3 DEF Threshold, Parsed
  <2> QED
    BY <2>5, <2>6
<1> QED
  BY <1>2, <1>3

(* A state asks for a server exactly when the alert does. *)
LEMMA StateIsAlert ==
    ASSUME NEW values, IsFiniteSet(DOMAIN values), DOMAIN values # {}, NEW threshold \in Nat
    PROVE  CapacityState(values, threshold) = "needs_capacity" <=> AllHot(values, threshold)
<1> DEFINE All == DOMAIN values
           unknown == {v \in All : values[v] = None}
           hot == {v \in All : values[v] # None /\ values[v] >= threshold}
<1>1. CASE threshold = 0
  BY <1>1 DEF CapacityState, AllHot
<1>2. CASE threshold # 0 /\ unknown = All
  <2>1. CapacityState(values, threshold) = "unknown"
    BY <1>2 DEF CapacityState
  <2> QED
    BY <1>2, <2>1 DEF AllHot
<1>3. CASE threshold # 0 /\ unknown # All
  <2>1. hot \in SUBSET All
    OBVIOUS
  <2>2. Cardinality(hot) = Cardinality(All) <=> hot = All
    BY <2>1, FS_Subset
  <2>3. HotCount(values, threshold) = Cardinality(hot)
    BY <1>3 DEF HotCount
  <2>4. CapacityState(values, threshold) = "needs_capacity"
            <=> HotCount(values, threshold) = Cardinality(All) /\ unknown = {}
    BY <1>3 DEF CapacityState
  <2>5. AllHot(values, threshold) <=> hot = All /\ unknown = {}
    BY <1>3 DEF AllHot
  <2> QED
    BY <2>2, <2>3, <2>4, <2>5
<1> QED
  BY <1>2, <1>1, <1>3

(* It does so of every location that has a server. *)
LEMMA ScreenIsAlert ==
    ASSUME UsageInv
    PROVE  ScreenAgrees
<1> DEFINE screen == Statuses(active, snapshots, now)
           state(l, kind) == CapacityState(Values(kind, l, active, snapshots, now), Threshold(kind, l))
<1>1. active \subseteq Servers /\ IsFiniteSet(Servers)
  BY UsageAssumption DEF UsageInv, Shape
<1>2. DOMAIN screen = {LocationOf[v] : v \in active}
  BY DEF Statuses
<1> SUFFICES ASSUME NEW l \in {LocationOf[v] : v \in active}
             PROVE  screen[l].capacity_needed <=>
                       \E kind \in Kinds :
                          AllHot(Values(kind, l, active, snapshots, now), Threshold(kind, l))
  BY <1>2 DEF ScreenAgrees
<1>3. l \in Locations
  BY <1>1, UsageAssumption
<1>4. screen[l].capacity_needed <=> \E kind \in Kinds : state(l, kind) = "needs_capacity"
  BY DEF Statuses
<1>5. ASSUME NEW kind \in Kinds
      PROVE  state(l, kind) = "needs_capacity" <=>
                AllHot(Values(kind, l, active, snapshots, now), Threshold(kind, l))
  <2>1. PICK values : values = Values(kind, l, active, snapshots, now)
    OBVIOUS
  <2>2. DOMAIN values = {u \in active : LocationOf[u] = l}
    BY <2>1 DEF Values
  <2>3. DOMAIN values # {} /\ DOMAIN values \in SUBSET Servers
    BY <1>1, <2>2
  <2>4. IsFiniteSet(DOMAIN values)
    BY <1>1, <2>3, FS_Subset
  <2> QED
    BY <1>3, <2>1, <2>3, <2>4, ThresholdType, StateIsAlert
<1> QED
  BY <1>4, <1>5

-----------------------------------------------------------------------------
(***************************************************************************)
(* Theorems                                                                *)
(***************************************************************************)

(* The inductive invariant of sessions, samples and alerts. *)
THEOREM UsageInvariant == Spec => []UsageInv
<1>1. Init => UsageInv
  BY UsageStarts
<1>2. UsageInv /\ [Next]_vars => UsageInv'
  BY UsageStep
<1> QED
  BY <1>1, <1>2, PTL DEF Spec

(* An alert that is recorded keeps the sessions that begin after it quiet  *)
(* for the cooldown, whatever fails and however many operators there are.  *)
THEOREM CooldownIsHeld == Spec => []CooldownHolds
<1>1. UsageInv => CooldownHolds
  BY DEF UsageInv
<1> QED
  BY <1>1, UsageInvariant, PTL

(* The loop samples a server once per interval. *)
THEOREM LoopSamplesSpaced == Spec => []SamplesSpaced
<1>1. UsageInv => SamplesSpaced
  BY DEF UsageInv
<1> QED
  BY <1>1, UsageInvariant, PTL

(* The operators' screen asks for a server exactly when an alert does. *)
THEOREM ScreenAndAlertsAgree == Spec => []ScreenAgrees
<1>1. UsageInv => ScreenAgrees
  BY ScreenIsAlert
<1> QED
  BY <1>1, UsageInvariant, PTL

(* The samples a session sees. *)
LEMMA SeenShape ==
    ASSUME UsageInv, NEW m \in Monitors
    PROVE  Seen(m) \in SUBSET Sample /\ IsFiniteSet(Seen(m))
<1>1. run[m] \in Session /\ IsFiniteSet(run[m].rows) /\ IsFiniteSet(snapshots)
      /\ snapshots \subseteq Sample
  BY DEF UsageInv, Shape
<1> QED
  BY <1>1, FS_Union DEF Seen, Session

(* Only a comparison finds a location hot. *)
LEMMA OnlyCompareFinds ==
    ASSUME UsageInv, [Next]_vars, NEW m \in Monitors, NEW x, x \in run'[m].hot, x \notin run[m].hot
    PROVE  Compare(m) /\ run'[m].hot = Hot(m)
<1>1. /\ run[m] \in Session /\ run \in [Monitors -> Session] /\ Idle.hot = {}
  BY DEF UsageInv, Shape, Idle
<1>2. run' # run
  OBVIOUS
<1>3. ASSUME NEW g \in Monitors, Begin(g) \/ Finish(g) \/ Crash(g) PROVE FALSE
  <2>1. PICK l : run' = [run EXCEPT ![g] = l] /\ l.hot = {}
    <3>1. CASE Finish(g) \/ Crash(g)
      BY <1>1, <3>1 DEF Finish, Crash
    <3>2. CASE Begin(g)
      <4>1. PICK todo : run' = [run EXCEPT ![g] = [Idle EXCEPT !.pc = "measure", !.began = now,
                                                            !.listed = active, !.todo = todo]]
        BY <3>2 DEF Begin
      <4> QED
        BY <1>1, <4>1 DEF Idle
    <3> QED
      BY <1>3, <3>1, <3>2
  <2> QED
    BY <1>1, <2>1
<1>4. ASSUME NEW g \in Monitors, NEW users, Measure(g, users) PROVE FALSE
  <2>1. run'[m].hot = run[m].hot
    BY <1>1, <1>4 DEF Measure, Session
  <2> QED
    BY <2>1
<1>5. ASSUME NEW g \in Monitors, NEW y, Quiet(g, y) PROVE FALSE
  <2>1. run'[m].hot \subseteq run[m].hot
    BY <1>1, <1>5 DEF Quiet, Session
  <2> QED
    BY <2>1
<1>6. ASSUME NEW g \in Monitors, NEW y, Send(g, y) PROVE FALSE
  <2>1. run'[m].hot = run[m].hot
    BY <1>1, <1>6 DEF Send, Session
  <2> QED
    BY <2>1
<1>7. ASSUME NEW g \in Monitors, Record(g) PROVE FALSE
  <2>1. PICK y, after : /\ after = [run[g] EXCEPT !.pc = "alert", !.hot = run[g].hot \ {y},
                                                  !.sending = Idle.sending]
                        /\ \/ \E row : run' = [run EXCEPT ![g] =
                                            [after EXCEPT !.records = after.records \cup {row}]]
                           \/ run' = [run EXCEPT ![g] = after]
    BY <1>7 DEF Record
  <2>2. run[g] \in Session
    BY <1>1
  <2>3. after.hot \subseteq run[g].hot
    BY <2>1, <2>2 DEF Session
  <2>4. PICK l : run' = [run EXCEPT ![g] = l] /\ l.hot = after.hot
    <3>1. ASSUME NEW row PROVE [after EXCEPT !.records = after.records \cup {row}].hot = after.hot
      BY <2>1, <2>2 DEF Session
    <3> QED
      BY <2>1, <3>1
  <2> QED
    BY <1>1, <2>3, <2>4
<1>8. ~ Tick /\ \A v \in Servers : ~ Toggle(v)
  BY <1>2 DEF Tick, Toggle
<1>9. PICK g \in Monitors : Compare(g)
  BY <1>2, <1>3, <1>4, <1>5, <1>6, <1>7, <1>8 DEF Next, vars
<1>10. g = m
  BY <1>1, <1>9 DEF Compare, Session
<1> QED
  BY <1>1, <1>9, <1>10 DEF Compare, Session

(* A comparison for which a server is hot has a sample of it that says so: *)
(* the last one, for the number of users, ...                              *)
LEMMA HotByLatest ==
    ASSUME UsageInv, NEW m \in Monitors, NEW l \in Locations, NEW v, Compare(m),
           v \in run[m].listed,
           Value("percent", v, Seen(m), run[m].began) >= Threshold("percent", l)
    PROVE  \E r \in Seen(m) : r.server = v /\ Supports(r, "percent", l, run[m].began)
<1>1. run[m].pc = "measure" /\ run[m].todo = {}
  BY DEF Compare
<1>2. PICK fresh \in Seen(m) : fresh.server = v /\ fresh.at > run[m].began - Interval
  BY <1>1 DEF UsageInv, FreshAt
<1>3. Seen(m) \in SUBSET Sample /\ IsFiniteSet(Seen(m))
  BY SeenShape
<1>4. fresh \in RowsOf(v, Seen(m))
  BY <1>2 DEF RowsOf
<1>5. PICK r : r = Latest(v, Seen(m))
  OBVIOUS
<1>6. r \in Seen(m) /\ r.server = v /\ fresh.at <= r.at
  <2>1. r \in RowsOf(v, Seen(m)) /\ fresh.at <= r.at
    BY <1>3, <1>4, <1>5, LatestIsLast
  <2> QED
    BY <2>1 DEF RowsOf
<1>7. r.at > run[m].began - Interval
  <2>1. run[m].began \in Nat /\ r.at \in Nat /\ fresh.at \in Nat /\ Interval \in Nat
    BY <1>2, <1>3, <1>6, Naturals DEF UsageInv, Shape
  <2> QED
    BY <1>2, <1>6, <2>1
<1>8. Value("percent", v, Seen(m), run[m].began) = r.percent
  BY <1>4, <1>5 DEF Value
<1> QED
  BY <1>6, <1>7, <1>8 DEF Supports

(* ... and one of the window, for an average of the traffic. *)
LEMMA HotByAverage ==
    ASSUME UsageInv, NEW m \in Monitors, NEW l \in Locations, NEW v,
           Threshold("gb", l) > 0,
           Value("gb", v, Seen(m), run[m].began) >= Threshold("gb", l)
    PROVE  \E r \in Seen(m) : r.server = v /\ Supports(r, "gb", l, run[m].began)
<1> DEFINE known == {r \in RowsOf(v, Seen(m)) : r.at >= run[m].began - Window /\ r.gb # None}
           g == [r \in known |-> r.gb]
<1>1. PICK t \in Nat : t = Threshold("gb", l) /\ t > 0
  BY ThresholdType DEF Kinds
<1>2. Seen(m) \in SUBSET Sample /\ IsFiniteSet(Seen(m))
  BY SeenShape
<1>3. Value("gb", v, Seen(m), run[m].began) =
          IF known = {} THEN None ELSE SampledTraffic(known) \div Cardinality(known)
  BY DEF Value, Average, SampledTraffic
<1>4. known # {}
  BY <1>1, <1>3 DEF None
<1>5. IsFiniteSet(known)
  <2>1. known \in SUBSET Seen(m)
    BY DEF RowsOf
  <2> QED
    BY <1>2, <2>1, FS_Subset
<1>6. \A r \in known : /\ r \in Seen(m) /\ r.server = v /\ r.at >= run[m].began - Window
                       /\ r.gb \in Nat
  <2> TAKE r \in known
  <2>1. r \in Seen(m) /\ r.server = v /\ r.at >= run[m].began - Window /\ r.gb # None
    BY DEF RowsOf
  <2>2. r.gb \in Known
    BY <1>2, <2>1, SampleType DEF Snapshot
  <2> QED
    BY <2>1, <2>2 DEF Known
<1>7. g \in [known -> Nat] /\ \A r \in known : g[r] = r.gb
  BY <1>6
<1> HIDE DEF known, g
<1>8. PICK f : Adds(f, g, known) /\ SampledTraffic(known) = f[known]
  BY <1>5, <1>7, SamplesAdd
<1>9. f[known] \div Cardinality(known) >= t
  BY <1>1, <1>3, <1>4, <1>8
<1>10. PICK r \in known : g[r] >= t
  BY <1>1, <1>4, <1>5, <1>7, <1>8, <1>9, AverageReaches
<1> QED
  BY <1>1, <1>6, <1>7, <1>10 DEF Supports

(* A session alerts only where every server that was active all along has  *)
(* a sample that by itself says so: of less than an interval for the       *)
(* number of users, of the window for the traffic.                         *)
THEOREM AlertsLookAtFreshSamples == Spec => AlertsAreFresh
<1>1. ASSUME UsageInv, [Next]_vars
      PROVE  [\A m \in Monitors, l \in Locations, kind \in Kinds :
                <<l, kind>> \in run'[m].hot /\ <<l, kind>> \notin run[m].hot =>
                  \A v \in active \cap run[m].listed : LocationOf[v] = l =>
                      \E r \in Seen(m) : r.server = v /\ Supports(r, kind, l, run[m].began)]_vars
  <2> SUFFICES ASSUME NEW m \in Monitors, NEW l \in Locations, NEW kind \in Kinds,
                      <<l, kind>> \in run'[m].hot, <<l, kind>> \notin run[m].hot,
                      NEW v \in active \cap run[m].listed, LocationOf[v] = l
               PROVE  \E r \in Seen(m) : r.server = v /\ Supports(r, kind, l, run[m].began)
    OBVIOUS
  <2>1. Compare(m) /\ run'[m].hot = Hot(m)
    BY <1>1, OnlyCompareFinds
  <2>2. AllHot(Values(kind, l, Considered(m), Seen(m), run[m].began), Threshold(kind, l))
    <3>1. <<l, kind>> \in Hot(m)
      BY <2>1
    <3> QED
      BY <3>1 DEF Hot
  <2>3. /\ Value(kind, v, Seen(m), run[m].began) >= Threshold(kind, l)
        /\ Threshold(kind, l) > 0
    <3>1. v \in Considered(m)
      BY DEF Considered
    <3> QED
      BY <2>2, <3>1 DEF AllHot, Values
  <2>4. kind = "percent" \/ kind = "gb"
    BY DEF Kinds
  <2> QED
    BY <1>1, <2>1, <2>3, <2>4, HotByLatest, HotByAverage
<1> QED
  BY <1>1, UsageInvariant, PTL DEF Spec, AlertsAreFresh

-----------------------------------------------------------------------------
(***************************************************************************)
(* Types                                                                   *)
(***************************************************************************)

(* What Shape does not say of a session. *)
TypesAt(m) ==
    /\ run[m].todo \subseteq run[m].listed
    /\ run[m].rows \cup run[m].records # {} => Open(m)

Types == events \in 0..MaxEvents /\ \A m \in Monitors : TypesAt(m)

(* An open session is the loop's, and the loop is one session. *)
LEMMA TypesStep ==
    ASSUME UsageInv, Types, [Next]_vars
    PROVE  Types'
<1>1. run \in [Monitors -> Session] /\ active \in SUBSET Servers /\ events \in 0..MaxEvents
      /\ MaxEvents \in Nat
  BY UsageAssumption DEF UsageInv, Shape, Types
<1>2. ASSUME Event \/ UNCHANGED events PROVE events' \in 0..MaxEvents
  BY <1>1, <1>2 DEF Event
<1>3. ASSUME NEW m \in Monitors, NEW l, run' = [run EXCEPT ![m] = l],
             l.todo \subseteq l.listed, l.rows \cup l.records # {} => Open(m)
      PROVE  \A g \in Monitors : TypesAt(g)'
  <2>1. \A g \in Monitors : run'[g] = IF g = m THEN l ELSE run[g]
    BY <1>1, <1>3
  <2> QED
    BY <1>3, <2>1 DEF Types, TypesAt, Open
<1>4. ASSUME NEW m \in Monitors, Begin(m) PROVE Types'
  <2>1. PICK todo : todo = IF m = Loop THEN {v \in active : Due(v, snapshots, now)} ELSE active
    OBVIOUS
  <2>2. PICK l : l = [Idle EXCEPT !.pc = "measure", !.began = now, !.listed = active,
                                  !.todo = todo]
    OBVIOUS
  <2>3. todo \subseteq active /\ run' = [run EXCEPT ![m] = l]
    BY <1>4, <2>1, <2>2 DEF Begin
  <2>4. l.todo = todo /\ l.listed = active /\ l.rows = {} /\ l.records = {}
    BY <2>2 DEF Idle
  <2>5. Event \/ UNCHANGED events
    BY <1>4 DEF Begin, Monitors
  <2> QED
    BY <1>2, <1>3, <2>4, <2>5, <2>3 DEF Types
<1>5. ASSUME NEW m \in Monitors, NEW users, Measure(m, users) PROVE Types'
  <2>1. PICK old \in Session : old = run[m]
    BY <1>1
  <2>2. PICK v, row :
            \/ Open(m) /\ run' = [run EXCEPT ![m].todo = run[m].todo \ {v},
                                             ![m].rows = run[m].rows \cup {row}]
            \/ run' = [run EXCEPT ![m].todo = run[m].todo \ {v}]
    BY <1>5 DEF Measure
  <2>3. PICK l : /\ run' = [run EXCEPT ![m] = l] /\ l.todo \subseteq run[m].todo
                 /\ l.listed = run[m].listed /\ l.records = run[m].records
                 /\ l.rows = run[m].rows \/ Open(m)
    <3>1. CASE Open(m) /\ run' = [run EXCEPT ![m].todo = run[m].todo \ {v},
                                             ![m].rows = run[m].rows \cup {row}]
      <4>1. PICK l : l = [old EXCEPT !.todo = old.todo \ {v}, !.rows = old.rows \cup {row}]
        OBVIOUS
      <4>2. run' = [run EXCEPT ![m] = l]
        BY <1>1, <3>1, <2>1, <4>1
      <4>3. /\ l.todo \subseteq old.todo /\ l.listed = old.listed /\ l.records = old.records
            /\ l.rows = old.rows \/ Open(m)
        BY <4>1, <3>1 DEF Session
      <4> QED
        BY <2>1, <4>2, <4>3
    <3>2. CASE run' = [run EXCEPT ![m].todo = run[m].todo \ {v}]
      <4>1. PICK l : l = [old EXCEPT !.todo = old.todo \ {v}]
        OBVIOUS
      <4>2. run' = [run EXCEPT ![m] = l]
        BY <1>1, <3>2, <2>1, <4>1
      <4>3. /\ l.todo \subseteq old.todo /\ l.listed = old.listed /\ l.records = old.records
            /\ l.rows = old.rows \/ Open(m)
        BY <4>1, <3>2 DEF Session
      <4> QED
        BY <2>1, <4>2, <4>3
    <3> QED
      BY <2>2, <3>1, <3>2
  <2>4. Event \/ UNCHANGED events
    BY <1>5 DEF Measure
  <2>5. TypesAt(m)
    BY DEF Types
  <2> QED
    BY <1>2, <1>3, <2>3, <2>4, <2>5 DEF Types, TypesAt
<1>6. ASSUME NEW m \in Monitors, NEW x,
             \/ Compare(m) \/ Quiet(m, x) \/ Send(m, x)
      PROVE  Types'
  <2>1. PICK old \in Session : old = run[m]
    BY <1>1
  <2>2. PICK l : /\ run' = [run EXCEPT ![m] = l] /\ l.todo \subseteq run[m].todo
                 /\ l.listed = run[m].listed /\ l.records = run[m].records
                 /\ l.rows = run[m].rows \/ Open(m)
    <3>1. CASE Compare(m)
      <4>1. PICK l : l = [old EXCEPT !.pc = "alert", !.hot = Hot(m)]
        OBVIOUS
      <4>2. run' = [run EXCEPT ![m] = l]
        BY <1>1, <3>1, <2>1, <4>1 DEF Compare
      <4>3. /\ l.todo \subseteq old.todo /\ l.listed = old.listed /\ l.records = old.records
            /\ l.rows = old.rows \/ Open(m)
        BY <4>1, <3>1 DEF Session
      <4> QED
        BY <2>1, <4>2, <4>3
    <3>2. CASE Quiet(m, x)
      <4>1. PICK l : l = [old EXCEPT !.hot = old.hot \ {x}]
        OBVIOUS
      <4>2. run' = [run EXCEPT ![m] = l]
        BY <1>1, <3>2, <2>1, <4>1 DEF Quiet
      <4>3. /\ l.todo \subseteq old.todo /\ l.listed = old.listed /\ l.records = old.records
            /\ l.rows = old.rows \/ Open(m)
        BY <4>1, <3>2 DEF Session
      <4> QED
        BY <2>1, <4>2, <4>3
    <3>3. CASE Send(m, x)
      <4>1. PICK l : l = [old EXCEPT !.pc = "record", !.sending = x]
        OBVIOUS
      <4>2. run' = [run EXCEPT ![m] = l]
        BY <1>1, <3>3, <2>1, <4>1 DEF Send
      <4>3. /\ l.todo \subseteq old.todo /\ l.listed = old.listed /\ l.records = old.records
            /\ l.rows = old.rows \/ Open(m)
        BY <4>1, <3>3 DEF Session
      <4> QED
        BY <2>1, <4>2, <4>3
    <3> QED
      BY <1>6, <3>1, <3>2, <3>3
  <2>3. UNCHANGED events
    BY <1>6 DEF Compare, Quiet, Send
  <2>4. TypesAt(m)
    BY DEF Types
  <2> QED
    BY <1>2, <1>3, <2>2, <2>3, <2>4 DEF Types, TypesAt
<1>7. ASSUME NEW m \in Monitors, Record(m) PROVE Types'
  <2>1. PICK x, row, after :
            /\ after = [run[m] EXCEPT !.pc = "alert", !.hot = run[m].hot \ {x},
                                      !.sending = Idle.sending]
            /\ \/ Open(m) /\ run' = [run EXCEPT ![m] =
                                        [after EXCEPT !.records = after.records \cup {row}]]
               \/ run' = [run EXCEPT ![m] = after]
    BY <1>7 DEF Record
  <2>2. /\ after.todo = run[m].todo /\ after.listed = run[m].listed
        /\ after.records = run[m].records /\ after.rows = run[m].rows
    BY <1>1, <2>1 DEF Session
  <2>3. PICK l : /\ run' = [run EXCEPT ![m] = l] /\ l.todo = run[m].todo
                 /\ l.listed = run[m].listed /\ l.rows = run[m].rows
                 /\ l.records = run[m].records \/ Open(m)
    <3>1. run[m] \in Session
      BY <1>1
    <3>2. ASSUME NEW l, l = [after EXCEPT !.records = after.records \cup {row}]
          PROVE  l.todo = run[m].todo /\ l.listed = run[m].listed /\ l.rows = run[m].rows
      BY <2>1, <3>1, <3>2 DEF Session
    <3> QED
      BY <2>1, <2>2, <3>2
  <2>4. UNCHANGED events
    BY <1>7 DEF Record
  <2>5. TypesAt(m)
    BY DEF Types
  <2> QED
    BY <1>2, <1>3, <2>3, <2>4, <2>5 DEF Types, TypesAt
<1>8. ASSUME NEW m \in Monitors, Finish(m) \/ Crash(m) PROVE Types'
  <2>1. run' = [run EXCEPT ![m] = Idle] /\ (Event \/ UNCHANGED events)
    BY <1>8 DEF Finish, Crash
  <2>2. Idle.todo = {} /\ Idle.rows = {} /\ Idle.records = {}
    BY DEF Idle
  <2> QED
    BY <1>2, <1>3, <2>1, <2>2 DEF Types
<1>9. CASE Tick \/ (\E v \in Servers : Toggle(v)) \/ UNCHANGED vars
  <2>1. run' = run /\ (Event \/ UNCHANGED events)
    BY <1>9 DEF Tick, Toggle, vars
  <2> QED
    BY <1>2, <2>1 DEF Types, TypesAt, Open
<1> QED
  BY <1>4, <1>5, <1>6, <1>7, <1>8, <1>9 DEF Next

(* Every variable has its type in every state: what is stored of a panel   *)
(* is a percentage and a sum, whatever it answers.                         *)
THEOREM UsageTypeCorrect == Spec => []TypeOK
<1>1. Init => Types
  BY IdleShape, UsageAssumption DEF Init, Types, TypesAt, Idle
<1>2. UsageInv /\ Types /\ [Next]_vars => Types'
  BY TypesStep
<1>3. UsageInv /\ Types => TypeOK
  <2> SUFFICES ASSUME UsageInv, Types PROVE TypeOK
    OBVIOUS
  <2>1. ASSUME NEW m \in Monitors
        PROVE  /\ run[m].pc \in Steps /\ run[m].began \in Times
               /\ run[m].listed \subseteq Servers /\ run[m].todo \subseteq run[m].listed
               /\ run[m].hot \subseteq Locations \X Kinds
               /\ run[m].rows \subseteq Snapshot /\ run[m].records \subseteq AlertRow
               /\ run[m].rows \cup run[m].records # {} => m = Loop /\ LoopIsOpen
    <3>1. run[m] \in Session
      BY DEF UsageInv, Shape
    <3> QED
      BY <3>1, SampleType DEF Session, Types, TypesAt, Open
  <2> QED
    BY <2>1, SampleType DEF TypeOK, Types, UsageInv, Shape, Steps
<1> QED
  BY <1>1, <1>2, <1>3, UsageInvariant, PTL DEF Spec

-----------------------------------------------------------------------------
(***************************************************************************)
(* What the loop leaves behind                                             *)
(***************************************************************************)

(* An open loop does not write to the tables. *)
LEMMA LeavesNothingStep ==
    ASSUME OpenLoopLeavesNothing, [Next]_vars
    PROVE  OpenLoopLeavesNothing'
<1> SUFFICES ASSUME LoopIsOpen, NEW r \in snapshots' \cup alerts', r \notin snapshots \cup alerts
             PROVE  r.by # Loop
  BY DEF OpenLoopLeavesNothing
<1>1. ASSUME NEW m \in Monitors, NEW users, Measure(m, users) PROVE r.by # Loop
  <2>1. ~ Open(m)
    BY <1>1 DEF Measure
  <2>2. PICK id, v, at, p, g : r = [id |-> id, server |-> v, at |-> at, by |-> m,
                                    percent |-> p, gb |-> g]
    BY <1>1, <2>1 DEF Measure
  <2> QED
    BY <2>1, <2>2 DEF Open
<1>2. ASSUME NEW m \in Monitors, Record(m) PROVE r.by # Loop
  <2>1. ~ Open(m)
    BY <1>2 DEF Record
  <2>2. PICK key, kind, at, began : r = [key |-> key, kind |-> kind, at |-> at, by |-> m,
                                         began |-> began]
    BY <1>2, <2>1 DEF Record
  <2> QED
    BY <2>1, <2>2 DEF Open
<1>3. ~ UNCHANGED <<snapshots, alerts>>
  OBVIOUS
<1> QED
  BY <1>1, <1>2, <1>3
     DEF Next, vars, Begin, Compare, Finish, Crash, Quiet, Send, Toggle, Tick

(* What the loop does in an open session is lost for good. *)
THEOREM OpenLoopIsLost == Spec => []OpenLoopLeavesNothing
<1>1. Init => OpenLoopLeavesNothing
  BY DEF Init, OpenLoopLeavesNothing
<1> QED
  BY <1>1, LeavesNothingStep, PTL DEF Spec

(***************************************************************************)
(* When the loop repeats an alert                                          *)
(***************************************************************************)

Topics == {KeyOf[l] : l \in Locations} \X Kinds

(* What the loop sent is written, or about to be. *)
SentAndWritten ==
    /\ lastSent \in [Topics -> Times \cup {None}]
    /\ \A x \in Topics : lastSent[x] # None =>
         /\ lastSent[x] <= now
         /\ \/ /\ run[Loop].pc = "record"
               /\ x = <<KeyOf[run[Loop].sending[1]], run[Loop].sending[2]>>
            \/ \E r \in alerts : r.key = x[1] /\ r.kind = x[2] /\ r.at >= lastSent[x]

(* Who has sent goes on by writing, unless it crashes. *)
LEMMA SentGoesOn ==
    ASSUME UsageInv, [Next]_vars, run[Loop].pc = "record", ~ Crash(Loop), ~ Record(Loop)
    PROVE  run'[Loop] = run[Loop]
<1>1. run \in [Monitors -> Session] /\ Loop \in Monitors
  BY Naturals DEF UsageInv, Shape
<1>2. ASSUME NEW m \in Monitors, m # Loop,
             \/ Begin(m) \/ Compare(m) \/ Record(m) \/ Finish(m) \/ Crash(m)
             \/ \E users \in Panels \cup {NoAnswer} : Measure(m, users)
             \/ \E x \in Locations \X Kinds : Quiet(m, x) \/ Send(m, x)
      PROVE  run'[Loop] = run[Loop]
  BY <1>1, <1>2 DEF Begin, Compare, Record, Finish, Crash, Measure, Quiet, Send
<1>3. ~ Begin(Loop) /\ ~ Compare(Loop) /\ ~ Finish(Loop)
  BY DEF Begin, Compare, Finish
<1>4. \A users, x : ~ Measure(Loop, users) /\ ~ Quiet(Loop, x) /\ ~ Send(Loop, x)
  BY DEF Measure, Quiet, Send
<1>5. CASE Tick \/ (\E v \in Servers : Toggle(v)) \/ UNCHANGED vars
  BY <1>5 DEF Tick, Toggle, vars
<1> QED
  BY <1>2, <1>3, <1>4, <1>5 DEF Next

(* Nothing else touches what the loop sent, rows stay, and time goes on. *)
LEMMA RowsStay ==
    ASSUME UsageInv, [Next]_vars
    PROVE  /\ alerts \subseteq alerts' /\ now <= now' /\ now \in Nat /\ now' \in Nat
           /\ (\E x \in Locations \X Kinds : Send(Loop, x)) \/ lastSent' = lastSent
<1>1. now \in Nat
  BY Naturals DEF UsageInv, Shape
<1>2. CASE Tick \/ (\E v \in Servers : Toggle(v)) \/ UNCHANGED vars
  <2>1. alerts' = alerts /\ lastSent' = lastSent /\ (now' = now \/ now' = now + 1)
    BY <1>2 DEF Tick, Toggle, vars
  <2> QED
    BY <1>1, <2>1
<1>3. ASSUME NEW m \in Monitors,
             \/ Begin(m) \/ Compare(m) \/ Record(m) \/ Finish(m) \/ Crash(m)
             \/ \E users \in Panels \cup {NoAnswer} : Measure(m, users)
             \/ \E x \in Locations \X Kinds : Quiet(m, x) \/ Send(m, x)
      PROVE  /\ alerts \subseteq alerts' /\ now' = now
             /\ (\E x \in Locations \X Kinds : Send(Loop, x)) \/ lastSent' = lastSent
  <2>1. CASE Begin(m) \/ Compare(m) \/ Record(m) \/ Finish(m) \/ Crash(m)
    BY <2>1 DEF Begin, Compare, Record, Finish, Crash
  <2>2. CASE \E users \in Panels \cup {NoAnswer} : Measure(m, users)
    BY <2>2 DEF Measure
  <2>3. CASE \E x \in Locations \X Kinds : Quiet(m, x) \/ Send(m, x)
    <3>1. PICK x \in Locations \X Kinds : Quiet(m, x) \/ Send(m, x)
      BY <2>3
    <3>2. CASE Quiet(m, x)
      BY <3>2 DEF Quiet
    <3>3. CASE Send(m, x)
      BY <3>3 DEF Send
    <3> QED
      BY <3>1, <3>2, <3>3
  <2> QED
    BY <1>3, <2>1, <2>2, <2>3
<1> QED
  BY <1>1, <1>2, <1>3 DEF Next

(* The loop sends only when its last row of the topic is older than the    *)
(* cooldown.                                                               *)
LEMMA SendsWhenCool ==
    ASSUME UsageInv, SentAndWritten, NEW x \in Locations \X Kinds, Send(Loop, x)
    PROVE  /\ <<KeyOf[x[1]], x[2]>> \in Topics
           /\ lastSent' = [lastSent EXCEPT ![<<KeyOf[x[1]], x[2]>>] = now]
           /\ lastSent[<<KeyOf[x[1]], x[2]>>] # None =>
                 now > lastSent[<<KeyOf[x[1]], x[2]>>] + Cooldown
<1>1. PICK t \in Topics : t = <<KeyOf[x[1]], x[2]>> /\ t[1] = KeyOf[x[1]] /\ t[2] = x[2]
  <2>1. x[1] \in Locations /\ x[2] \in Kinds
    OBVIOUS
  <2>2. <<KeyOf[x[1]], x[2]>> \in Topics
    BY <2>1 DEF Topics
  <2> QED
    BY <2>2
<1>2. /\ run[Loop].pc = "alert" /\ ~ Recent(Loop, x) /\ lastSent' = [lastSent EXCEPT ![t] = now]
  BY <1>1 DEF Send
<1>3. ASSUME lastSent[t] # None PROVE now > lastSent[t] + Cooldown
  <2>1. PICK r \in alerts : r.key = t[1] /\ r.kind = t[2] /\ r.at >= lastSent[t]
    BY <1>2, <1>3 DEF SentAndWritten
  <2>2. ~ (r.at >= run[Loop].began - Cooldown)
    BY <1>1, <1>2, <2>1 DEF Recent
  <2>3. /\ r.at \in Nat /\ run[Loop].began \in Nat /\ now \in Nat /\ Cooldown \in Nat
        /\ run[Loop].began <= now /\ lastSent[t] \in Nat
    BY <1>3, <2>1, Naturals DEF UsageInv, Shape, Begun, SentAndWritten
  <2> QED
    BY <2>1, <2>2, <2>3
<1> QED
  BY <1>1, <1>2, <1>3

(* Every step of the loop but a crash between the two keeps it so. *)
LEMMA SentStep ==
    ASSUME ~ LoopIsOpen, UsageInv, SentAndWritten, [Next]_vars,
           ~ (Crash(Loop) /\ run[Loop].pc = "record")
    PROVE  SentAndWritten'
<1>1. /\ alerts \subseteq alerts' /\ now <= now' /\ now \in Nat /\ now' \in Nat
  BY RowsStay
<1>2. \A t \in Topics : lastSent[t] # None => lastSent[t] \in Nat /\ lastSent[t] <= now
  BY Naturals DEF SentAndWritten
<1>3. CASE \E x \in Locations \X Kinds : Send(Loop, x)
  <2>1. PICK x \in Locations \X Kinds : Send(Loop, x)
    BY <1>3
  <2>2. PICK t \in Topics : /\ t = <<KeyOf[x[1]], x[2]>> /\ lastSent' = [lastSent EXCEPT ![t] = now]
    BY <2>1, SendsWhenCool
  <2>3. /\ now \in Times /\ now' = now /\ alerts' = alerts /\ run[Loop].pc = "alert"
        /\ run'[Loop].pc = "record" /\ run'[Loop].sending = x
    BY <2>1, Naturals DEF Send, UsageInv, Shape, Session
  <2>4. \A u \in Topics : lastSent'[u] = IF u = t THEN now ELSE lastSent[u]
    BY <2>2 DEF SentAndWritten
  <2>5. lastSent' \in [Topics -> Times \cup {None}]
    BY <2>2, <2>3 DEF SentAndWritten
  <2>6. ASSUME NEW u \in Topics, lastSent'[u] # None
        PROVE  /\ lastSent'[u] <= now'
               /\ \/ /\ run'[Loop].pc = "record"
                     /\ u = <<KeyOf[run'[Loop].sending[1]], run'[Loop].sending[2]>>
                  \/ \E r \in alerts' : r.key = u[1] /\ r.kind = u[2] /\ r.at >= lastSent'[u]
    <3>1. CASE u = t
      BY <1>1, <2>2, <2>3, <2>4, <3>1
    <3>2. CASE u # t
      BY <1>2, <2>3, <2>4, <2>6, <3>2 DEF SentAndWritten
    <3> QED
      BY <3>1, <3>2
  <2> QED
    BY <2>5, <2>6 DEF SentAndWritten
<1>4. CASE Record(Loop)
  <2>1. PICK x \in Locations \X Kinds : x = run[Loop].sending
    BY <1>4, Naturals DEF UsageInv, SentAt, Record
  <2>2. PICK row : /\ row = [key |-> KeyOf[x[1]], kind |-> x[2], at |-> now, by |-> Loop,
                             began |-> run[Loop].began]
                   /\ alerts' = alerts \cup {row} /\ lastSent' = lastSent /\ now' = now
    BY <1>4, <2>1 DEF Record, Open
  <2>3. row.key = KeyOf[x[1]] /\ row.kind = x[2] /\ row.at = now
    BY <2>2
  <2>4. ASSUME NEW t \in Topics, lastSent[t] # None
        PROVE  \E r \in alerts' : r.key = t[1] /\ r.kind = t[2] /\ r.at >= lastSent[t]
    <3>1. CASE t = <<KeyOf[x[1]], x[2]>>
      BY <1>1, <1>2, <2>2, <2>3, <2>4, <3>1
    <3>2. CASE t # <<KeyOf[x[1]], x[2]>>
      BY <2>1, <2>2, <2>4, <3>2 DEF SentAndWritten
    <3> QED
      BY <3>1, <3>2
  <2> QED
    BY <1>2, <2>2, <2>4 DEF SentAndWritten
<1>5. CASE ~ Record(Loop) /\ ~ (\E x \in Locations \X Kinds : Send(Loop, x))
  <2>1. lastSent' = lastSent
    BY <1>5, RowsStay
  <2>2. run[Loop].pc = "record" => run'[Loop] = run[Loop]
    BY <1>5, SentGoesOn
  <2>3. ASSUME NEW t \in Topics, lastSent[t] # None
        PROVE  /\ lastSent[t] <= now'
               /\ \/ /\ run'[Loop].pc = "record"
                     /\ t = <<KeyOf[run'[Loop].sending[1]], run'[Loop].sending[2]>>
                  \/ \E r \in alerts' : r.key = t[1] /\ r.kind = t[2] /\ r.at >= lastSent[t]
    <3>1. lastSent[t] <= now'
      BY <1>1, <1>2, <2>3
    <3> QED
      BY <1>1, <2>2, <2>3, <3>1 DEF SentAndWritten
  <2> QED
    BY <2>1, <2>3 DEF SentAndWritten
<1> QED
  BY <1>3, <1>4, <1>5

(* The complement of the finding that the loop repeats its alerts: where   *)
(* its session is closed it does so only when it stops between a message   *)
(* and its row, whatever else fails, and however many operators alert.     *)
THEOREM OnlyLostRowsRepeat ==
    ~ LoopIsOpen => (Spec /\ MessagesAreRecorded => AlertedOncePerCooldown)
<1> SUFFICES ASSUME ~ LoopIsOpen
             PROVE  Spec /\ MessagesAreRecorded => AlertedOncePerCooldown
  OBVIOUS
<1>1. Init => SentAndWritten
  BY DEF Init, SentAndWritten, Topics
<1>2. ASSUME UsageInv, SentAndWritten, [Next]_vars,
             [~ (Crash(Loop) /\ run[Loop].pc = "record")]_vars
      PROVE  SentAndWritten'
  <2>1. CASE ~ (Crash(Loop) /\ run[Loop].pc = "record")
    BY <1>2, <2>1, SentStep
  <2>2. CASE UNCHANGED vars
    BY <1>2, <2>2 DEF vars, SentAndWritten
  <2> QED
    BY <1>2, <2>1, <2>2
<1>3. ASSUME UsageInv, SentAndWritten, [Next]_vars
      PROVE  [\A x \in DOMAIN lastSent : lastSent'[x] # lastSent[x] /\ lastSent[x] # None =>
                  now > lastSent[x] + Cooldown]_vars
  <2>1. DOMAIN lastSent = Topics
    BY <1>3 DEF SentAndWritten
  <2> SUFFICES ASSUME NEW t \in Topics, lastSent'[t] # lastSent[t], lastSent[t] # None
               PROVE  now > lastSent[t] + Cooldown
    BY <2>1
  <2>2. PICK x \in Locations \X Kinds : Send(Loop, x)
    BY <1>3, RowsStay
  <2>3. /\ lastSent' = [lastSent EXCEPT ![<<KeyOf[x[1]], x[2]>>] = now]
        /\ lastSent[<<KeyOf[x[1]], x[2]>>] # None =>
              now > lastSent[<<KeyOf[x[1]], x[2]>>] + Cooldown
    BY <1>3, <2>2, SendsWhenCool
  <2> QED
    BY <2>1, <2>3
<1> QED
  BY <1>1, <1>2, <1>3, UsageInvariant, PTL
     DEF Spec, MessagesAreRecorded, AlertedOncePerCooldown
=============================================================================
