--------------------------- MODULE CompilerProofs ---------------------------
(***************************************************************************)
(* A process without diagnostics compiles to a graph the engine can run,   *)
(* and its gateways go where their conditions send them, proved for every  *)
(* process, whatever the number of its nodes and flows.                    *)
(*                                                                         *)
(* The search of the seventh rule is a function by recursion over numbers. *)
(* What it computes is proved with the least number of a set instead of an *)
(* induction theorem (UpTo): the levels grow until one of them is closed,  *)
(* which happens after as many levels as there are flows, because a level  *)
(* that is not closed adds an id and there are no more of them than flows, *)
(* besides the start (SearchIsComplete).  The flows of a node are numbered *)
(* by counting those before them (NthCounts).  From there on each part of  *)
(* the two theorems follows from one of the rules.                         *)
(***************************************************************************)
EXTENDS BpmnCompiler, FiniteSetTheorems, FunctionTheorems, TLAPS

-----------------------------------------------------------------------------
(* Counting, and induction over the numbers up to a bound.                 *)

(* Counting the elements of a finite set of numbers from below reaches     *)
(* each number up to its cardinality once.                                 *)
LEMMA Counted ==
  ASSUME NEW S, IsFiniteSet(S), S \subseteq Nat
  PROVE  /\ Cardinality(S) \in Nat
         /\ \A k \in S : Cardinality({j \in S : j <= k}) \in 1..Cardinality(S)
         /\ \A k, m \in S :
              Cardinality({j \in S : j <= k}) = Cardinality({j \in S : j <= m}) => k = m
         /\ \A n \in 1..Cardinality(S) : \E k \in S : Cardinality({j \in S : j <= k}) = n
<1> DEFINE c == Cardinality(S)
           T == 1..c
           up(k) == {j \in S : j <= k}
           f == [k \in S |-> Cardinality(up(k))]
<1>1. c \in Nat
  BY FS_CardinalityType
<1>2. ASSUME NEW k \in S
      PROVE  IsFiniteSet(up(k)) /\ Cardinality(up(k)) \in T
  <2>1. up(k) \subseteq S
    OBVIOUS
  <2>2. IsFiniteSet(up(k)) /\ Cardinality(up(k)) <= c
    BY <2>1, FS_Subset
  <2>3. k \in up(k)
    OBVIOUS
  <2>4. Cardinality(up(k)) \in Nat /\ Cardinality(up(k)) # 0
    BY <2>2, <2>3, FS_CardinalityType, FS_EmptySet
  <2> QED
    BY <1>1, <2>2, <2>4
<1>3. ASSUME NEW k \in S, NEW m \in S, k < m
      PROVE  f[k] # f[m]
  <2>1. up(k) \subseteq up(m) /\ m \in up(m) /\ m \notin up(k)
    <3>1. k \in Nat /\ m \in Nat /\ \A j \in S : j \in Nat
      OBVIOUS
    <3>2. m <= m /\ ~(m <= k) /\ \A j \in S : j <= k => j <= m
      BY <1>3, <3>1
    <3> QED
      BY <3>2
  <2>2. up(k) # up(m)
    BY <2>1
  <2>3. Cardinality(up(k)) # Cardinality(up(m))
    BY <1>2, <2>1, <2>2, FS_Subset
  <2> QED
    BY <2>3
<1>8. \A k, m \in S : f[k] = f[m] => k = m
  <2>1. \A k, m \in S : k # m => k < m \/ m < k
    OBVIOUS
  <2> QED
    BY <1>3, <2>1
<1>4. f \in Injection(S, T)
  <2>1. f \in [S -> T]
    BY <1>2
  <2> QED
    BY <1>8, <2>1, Fun_IsInj
<1>5. IsFiniteSet(T) /\ Cardinality(T) = c
  BY <1>1, FS_Interval
<1>6. f \in Surjection(S, T)
  BY <1>4, <1>5, FS_Injection
<1>7. \A n \in T : \E k \in S : f[k] = n
  BY <1>6 DEF Surjection
<1> QED
  BY <1>1, <1>2, <1>7, <1>8

(* A set of positions has a least element,                                 *)
LEMMA Least ==
  ASSUME NEW S, IsFiniteSet(S), S \subseteq Nat, S # {}
  PROVE  \E k \in S : \A j \in S : k <= j
<1> DEFINE up(k) == {j \in S : j <= k}
<1>1. Cardinality(S) \in Nat /\ Cardinality(S) # 0
  BY FS_CardinalityType, FS_EmptySet
<1>2. 1 \in 1..Cardinality(S)
  BY <1>1
<1>3. PICK k \in S : Cardinality(up(k)) = 1
  BY <1>2, Counted
<1>4. IsFiniteSet(up(k)) /\ k \in up(k)
  <2>1. up(k) \subseteq S
    OBVIOUS
  <2> QED
    BY <2>1, FS_Subset
<1>5. ASSUME NEW j \in S, ~(k <= j)
      PROVE  FALSE
  <2>1. j \in up(k) /\ j # k
    BY <1>5
  <2>2. PICK x : up(k) = {x}
    BY <1>3, <1>4, FS_Singleton
  <2> QED
    BY <1>4, <2>1, <2>2
<1> QED
  BY <1>5

(* ... and a last one.                                                     *)
LEMMA Greatest ==
  ASSUME NEW S, IsFiniteSet(S), S \subseteq Nat, S # {}
  PROVE  \E k \in S : \A j \in S : j <= k
<1> DEFINE c == Cardinality(S)
           up(k) == {j \in S : j <= k}
<1>1. c \in Nat /\ c # 0
  BY FS_CardinalityType, FS_EmptySet
<1>2. c \in 1..c
  BY <1>1
<1>3. PICK k \in S : Cardinality(up(k)) = c
  BY <1>2, Counted
<1>4. up(k) = S
  <2>1. up(k) \subseteq S
    OBVIOUS
  <2> QED
    BY <1>3, <2>1, FS_Subset
<1> QED
  BY <1>4

(* What holds of 0 and goes on holding, holds up to the bound.             *)
LEMMA UpTo ==
  ASSUME NEW n \in Nat, NEW A, 0 \in A, \A k \in 0..(n - 1) : k \in A => k + 1 \in A
  PROVE  \A k \in 0..n : k \in A
<1> DEFINE B == {k \in 0..n : k \notin A}
<1>1. SUFFICES ASSUME B # {}
               PROVE  FALSE
  OBVIOUS
<1>2. IsFiniteSet(B) /\ B \subseteq Nat
  <2>1. IsFiniteSet(0..n)
    BY FS_Interval
  <2>2. B \subseteq 0..n
    OBVIOUS
  <2> QED
    BY <2>1, <2>2, FS_Subset
<1>3. PICK b \in B : \A j \in B : b <= j
  BY <1>1, <1>2, Least
<1>4. b # 0 /\ b \in 0..n /\ b \notin A
  OBVIOUS
<1>5. b - 1 \in 0..(n - 1) /\ b - 1 + 1 = b /\ b - 1 \in 0..n /\ ~(b <= b - 1)
  BY <1>4
<1>6. b - 1 \in A
  BY <1>3, <1>5
<1> QED
  BY <1>4, <1>5, <1>6

-----------------------------------------------------------------------------
(* The flows that leave a node.                                            *)

(* Sets of positions are finite.                                           *)
LEMMA Positions ==
  ASSUME NEW R, NEW s \in Seq(R), NEW S, S \subseteq DOMAIN s
  PROVE  IsFiniteSet(S) /\ S \subseteq Nat
<1>1. DOMAIN s = 1..Len(s) /\ Len(s) \in Nat
  OBVIOUS
<1>2. IsFiniteSet(1..Len(s))
  BY <1>1, FS_Interval
<1>3. IsFiniteSet(S)
  BY <1>1, <1>2, FS_Subset
<1> QED
  BY <1>1, <1>3

(* Nth runs through the whole set.                                         *)
LEMMA NthCounts ==
  ASSUME NEW S, IsFiniteSet(S), S \subseteq Nat
  PROVE  /\ \A n \in 1..Cardinality(S) : Nth(S, n) \in S
         /\ \A k \in S : \E n \in 1..Cardinality(S) : Nth(S, n) = k
<1> DEFINE count(k) == Cardinality({j \in S : j <= k})
<1>1. /\ \A k \in S : count(k) \in 1..Cardinality(S)
      /\ \A k, m \in S : count(k) = count(m) => k = m
      /\ \A n \in 1..Cardinality(S) : \E k \in S : count(k) = n
  BY Counted
<1>2. \A n : Nth(S, n) = CHOOSE k \in S : count(k) = n
  BY DEF Nth
<1> HIDE DEF count
<1>3. \A n \in 1..Cardinality(S) : Nth(S, n) \in S /\ count(Nth(S, n)) = n
  BY <1>1, <1>2
<1>4. ASSUME NEW k \in S
      PROVE  \E n \in 1..Cardinality(S) : Nth(S, n) = k
  <2>1. PICK n \in 1..Cardinality(S) : n = count(k)
    BY <1>1
  <2>2. Nth(S, n) \in S /\ count(Nth(S, n)) = count(k)
    BY <1>3, <2>1
  <2> QED
    BY <1>1, <2>2
<1> QED
  BY <1>3, <1>4

(* The nodes and the flows are of their types.                             *)
LEMMA TypedProcess ==
  ASSUME TypeOK
  PROVE  /\ \A k \in DOMAIN nodes : /\ nodes[k].tag \in NodeTag
                                   /\ nodes[k].id \in Attribute
         /\ \A k \in DOMAIN flows : /\ flows[k].condition \in ConditionText \cup {NoCondition}
                                   /\ flows[k].default \in BOOLEAN
<1>1. (\A k \in DOMAIN nodes : nodes[k] \in Node) /\ (\A k \in DOMAIN flows : flows[k] \in Flow)
  BY DEF TypeOK
<1>2. \A n \in Node : n.tag \in NodeTag /\ n.id \in Attribute
  BY DEF Node
<1>3. \A f \in Flow : f.condition \in ConditionText \cup {NoCondition} /\ f.default \in BOOLEAN
  BY DEF Flow
<1> QED
  BY <1>1, <1>2, <1>3

(* The compiled flows of a node are its flows.                             *)
LEMMA Leaving ==
  ASSUME TypeOK, NEW id
  PROVE  /\ IsFiniteSet(From(flows, id)) /\ From(flows, id) \subseteq Nat
         /\ Cardinality(From(flows, id)) \in Nat
         /\ DOMAIN CompiledOutgoing(id) = 1..Cardinality(From(flows, id))
         /\ \A R : (\A n \in DOMAIN CompiledOutgoing(id) : CompiledOutgoing(id)[n] \in R)
                  => CompiledOutgoing(id) \in Seq(R)
         /\ \A n \in DOMAIN CompiledOutgoing(id) :
              \E k \in From(flows, id) : CompiledOutgoing(id)[n] = CompiledFlow(flows[k])
         /\ \A k \in From(flows, id) :
              \E n \in DOMAIN CompiledOutgoing(id) : CompiledOutgoing(id)[n] = CompiledFlow(flows[k])
<1> DEFINE S == From(flows, id)
           out == CompiledOutgoing(id)
<1>1. IsFiniteSet(S) /\ S \subseteq Nat
  <2>1. S \subseteq DOMAIN flows
    BY DEF From
  <2> DEFINE R == Flow
  <2>2. flows \in Seq(R)
    BY DEF TypeOK
  <2> HIDE DEF R, S
  <2> QED
    BY <2>1, <2>2, Positions
<1>2. out = [n \in 1..Cardinality(S) |-> CompiledFlow(flows[Nth(S, n)])]
  BY DEF CompiledOutgoing
<1>3. Cardinality(S) \in Nat
  BY <1>1, FS_CardinalityType
<1> HIDE DEF S, out
<1>4. /\ \A n \in 1..Cardinality(S) : Nth(S, n) \in S
      /\ \A k \in S : \E n \in 1..Cardinality(S) : Nth(S, n) = k
  BY <1>1, NthCounts
<1>5. DOMAIN out = 1..Cardinality(S)
      /\ \A n \in 1..Cardinality(S) : out[n] = CompiledFlow(flows[Nth(S, n)])
  BY <1>2
<1>6. ASSUME NEW R, \A n \in DOMAIN out : out[n] \in R
      PROVE  out \in Seq(R)
  <2>1. out \in [1..Cardinality(S) -> R]
    BY <1>2, <1>5, <1>6
  <2> QED
    BY <1>3, <2>1
<1>7. \A n \in DOMAIN out : \E k \in S : out[n] = CompiledFlow(flows[k])
  BY <1>4, <1>5
<1>8. \A k \in S : \E n \in DOMAIN out : out[n] = CompiledFlow(flows[k])
  BY <1>4, <1>5
<1> QED
  BY <1>1, <1>3, <1>5, <1>7, <1>8, <1>6 DEF S, out

-----------------------------------------------------------------------------
(* The search.                                                             *)

(* The levels of the search are what their recursive definition says.      *)
LEMMA LevelsFollow ==
  ASSUME NEW fs, NEW start, NEW N \in Nat, N = Len(fs)
  PROVE  /\ Levels(fs, start)[0] = {start}
         /\ \A n \in 0..(N - 1) : Levels(fs, start)[n + 1] = Step(fs, Levels(fs, start)[n])
<1> DEFINE Follows(g, m) ==
             /\ g = [n \in 0..m |-> g[n]] /\ g[0] = {start}
             /\ \A n \in 0..(m - 1) : g[n + 1] = Step(fs, g[n])
           Defined(g) ==
             g = [n \in 0..N |-> IF n = 0 THEN {start} ELSE Step(fs, g[n - 1])]
           A == {m \in Nat : \E g : Follows(g, m)}
<1>1. 0 \in A
  <2> DEFINE g == [n \in 0..0 |-> {start}]
  <2>1. Follows(g, 0)
    OBVIOUS
  <2> QED
    BY <2>1
<1>2. ASSUME NEW m \in 0..(N - 1), m \in A
      PROVE  m + 1 \in A
  <2>1. PICK g : Follows(g, m)
    BY <1>2
  <2>6. PICK h : h = [n \in 0..(m + 1) |-> IF n = m + 1 THEN Step(fs, g[m]) ELSE g[n]]
    OBVIOUS
  <2>2. m \in Nat /\ 0 # m + 1 /\ m # m + 1 /\ 0 \in 0..(m + 1) /\ m \in 0..(m + 1)
        /\ m + 1 \in 0..(m + 1)
    OBVIOUS
  <2>3. h[0] = {start} /\ h[m + 1] = Step(fs, g[m]) /\ h[m] = g[m]
    BY <2>1, <2>2, <2>6
  <2>4. ASSUME NEW n \in 0..m
        PROVE  h[n + 1] = Step(fs, h[n])
    <3>1. n \in 0..(m + 1) /\ n + 1 \in 0..(m + 1) /\ n # m + 1 /\ h[n] = g[n]
      BY <2>2, <2>6
    <3>2. CASE n = m
      BY <2>3, <3>2
    <3>3. CASE n # m
      <4>1. n \in 0..(m - 1) /\ n + 1 # m + 1
        BY <2>2, <3>3
      <4>2. h[n + 1] = g[n + 1]
        BY <2>6, <3>1, <4>1
      <4> QED
        BY <2>1, <3>1, <4>1, <4>2
    <3> QED
      BY <3>2, <3>3
  <2>5. Follows(h, m + 1)
    <3>1. (m + 1) - 1 = m
      BY <2>2
    <3>2. h = [n \in 0..(m + 1) |-> h[n]]
      BY <2>6
    <3>3. \A n \in 0..((m + 1) - 1) : h[n + 1] = Step(fs, h[n])
      BY <2>4, <3>1
    <3> QED
      BY <2>3, <3>2, <3>3
  <2> HIDE DEF Follows
  <2> QED
    BY <2>2, <2>5
<1>3. N \in A
  <2> HIDE DEF A
  <2>1. N \in 0..N
    OBVIOUS
  <2> QED
    BY <1>1, <1>2, <2>1, UpTo
<1>4. PICK g : Follows(g, N)
  BY <1>3
<1>5. Defined(g)
  <2>1. \A n \in 0..N : g[n] = IF n = 0 THEN {start} ELSE Step(fs, g[n - 1])
    <3> TAKE n \in 0..N
    <3>1. n # 0 => n - 1 \in 0..(N - 1) /\ n - 1 + 1 = n
      OBVIOUS
    <3> QED
      BY <1>4, <3>1
  <2> QED
    BY <1>4, <2>1
<1>6. Levels(fs, start) = CHOOSE f : Defined(f)
  BY DEF Levels
<1> DEFINE L == Levels(fs, start)
<1>7. Defined(L)
  <2> HIDE DEF Defined
  <2> QED
    BY <1>5, <1>6
<1>8. \A n \in 0..N : L[n] = IF n = 0 THEN {start} ELSE Step(fs, L[n - 1])
  BY <1>7
<1> HIDE DEF L
<1>9. \A n \in 0..(N - 1) : L[n + 1] = Step(fs, L[n])
  <2> TAKE n \in 0..(N - 1)
  <2>1. n + 1 \in 0..N /\ n + 1 # 0 /\ n + 1 - 1 = n
    OBVIOUS
  <2> QED
    BY <1>8, <2>1
<1>10. L[0] = {start}
  BY <1>8
<1> QED
  BY <1>9, <1>10 DEF L

(* What is visited is in every set that has the start and is closed.       *)
LEMMA VisitedInClosed ==
  ASSUME NEW fs, Len(fs) \in Nat, NEW start, NEW S, start \in S,
         \A k \in DOMAIN fs : fs[k].source \in S => fs[k].target \in S
  PROVE  Visited(fs, start) \subseteq S
<1>1. PICK N \in Nat : N = Len(fs)
  OBVIOUS
<1> DEFINE L == Levels(fs, start)
           A == {n \in Nat : L[n] \subseteq S}
<1>2. L[0] = {start} /\ \A n \in 0..(N - 1) : L[n + 1] = Step(fs, L[n])
  BY <1>1, LevelsFollow
<1> HIDE DEF L
<1>3. 0 \in A
  BY <1>2
<1>4. ASSUME NEW n \in 0..(N - 1), n \in A
      PROVE  n + 1 \in A
  <2>1. Step(fs, L[n]) \subseteq S
    BY <1>4 DEF Step
  <2> QED
    BY <1>2, <2>1
<1>5. N \in A
  <2> HIDE DEF A
  <2>1. N \in 0..N
    OBVIOUS
  <2> QED
    BY <1>3, <1>4, <2>1, UpTo
<1> QED
  BY <1>1, <1>5 DEF Visited, L

(* The search is complete after as many levels as there are flows: it does *)
(* not stop short of what a queue that runs empty would visit (validate.rs *)
(* 150-161).                                                               *)
THEOREM SearchIsComplete ==
  ASSUME NEW fs, Len(fs) \in Nat, DOMAIN fs = 1..Len(fs), NEW start
  PROVE  /\ start \in Visited(fs, start)
         /\ Step(fs, Visited(fs, start)) = Visited(fs, start)
<1>1. PICK N \in Nat : N = Len(fs)
  OBVIOUS
<1> DEFINE L == Levels(fs, start)
           T == {fs[k].target : k \in 1..N}
           U == T \cup {start}
           A == {n \in Nat : /\ start \in L[n] /\ L[n] \subseteq U
                             /\ Step(fs, L[n]) = L[n] \/ Cardinality(L[n]) >= n + 1}
<1>2. L[0] = {start} /\ \A n \in 0..(N - 1) : L[n + 1] = Step(fs, L[n])
  BY <1>1, LevelsFollow
<1>3. IsFiniteSet(U) /\ Cardinality(U) <= N + 1
  <2>1. IsFiniteSet(1..N) /\ Cardinality(1..N) = N
    BY FS_Interval
  <2>2. IsFiniteSet(T) /\ Cardinality(T) <= N
    <3> DEFINE f == [k \in 1..N |-> fs[k].target]
    <3>1. f \in [1..N -> T] /\ \A t \in T : \E k \in 1..N : f[k] = t
      OBVIOUS
    <3> HIDE DEF f, T
    <3>2. f \in Surjection(1..N, T)
      BY <3>1, Fun_IsSurj
    <3> QED
      BY <2>1, <3>2, FS_Surjection
  <2>3. Cardinality(T) \in Nat
    BY <2>2, FS_CardinalityType
  <2> HIDE DEF T
  <2> QED
    BY <2>2, <2>3, FS_AddElement
<1>4. \A S \in SUBSET U : S \subseteq Step(fs, S) /\ Step(fs, S) \subseteq U
  BY <1>1 DEF Step
<1> HIDE DEF L, U
<1>5. 0 \in A
  <2>1. start \in U
    BY DEF U
  <2>2. Cardinality({start}) = 1
    BY FS_Singleton
  <2>3. start \in L[0] /\ L[0] \subseteq U /\ Cardinality(L[0]) = 1
    BY <1>2, <2>1, <2>2
  <2>4. Cardinality(L[0]) >= 0 + 1
    BY <2>3
  <2> QED
    BY <2>3, <2>4
<1>6. ASSUME NEW n \in 0..(N - 1), n \in A
      PROVE  n + 1 \in A
  <2>1. /\ L[n + 1] = Step(fs, L[n]) /\ n \in Nat /\ n + 1 \in Nat
        /\ L[n] \subseteq L[n + 1] /\ L[n + 1] \subseteq U /\ start \in L[n + 1]
    BY <1>2, <1>4, <1>6
  <2>2. CASE Step(fs, L[n]) = L[n]
    <3>1. Step(fs, L[n + 1]) = L[n + 1]
      BY <2>1, <2>2
    <3> QED
      BY <2>1, <3>1
  <2>3. CASE Step(fs, L[n]) # L[n]
    <3>1. Cardinality(L[n]) >= n + 1
      BY <1>6, <2>3
    <3>2. IsFiniteSet(L[n + 1]) /\ Cardinality(L[n + 1]) \in Nat
      BY <1>3, <2>1, FS_Subset, FS_CardinalityType
    <3>3. Cardinality(L[n]) < Cardinality(L[n + 1])
      <4>1. Cardinality(L[n]) <= Cardinality(L[n + 1]) /\ IsFiniteSet(L[n])
        BY <2>1, <3>2, FS_Subset
      <4>2. Cardinality(L[n]) # Cardinality(L[n + 1])
        BY <2>1, <2>3, <3>2, FS_Subset
      <4>3. Cardinality(L[n]) \in Nat
        BY <4>1, FS_CardinalityType
      <4> QED
        BY <3>2, <4>1, <4>2, <4>3
    <3>4. Cardinality(L[n]) \in Nat
      BY <2>1, <3>2, FS_Subset, FS_CardinalityType
    <3>5. Cardinality(L[n + 1]) >= (n + 1) + 1
      BY <2>1, <3>1, <3>2, <3>3, <3>4
    <3> QED
      BY <2>1, <3>5
  <2> QED
    BY <2>2, <2>3
<1>7. N \in A
  <2> HIDE DEF A
  <2>1. N \in 0..N
    OBVIOUS
  <2> QED
    BY <1>5, <1>6, <2>1, UpTo
<1>8. ASSUME Cardinality(L[N]) >= N + 1
      PROVE  Step(fs, L[N]) = L[N]
  <2>1. L[N] \subseteq U
    BY <1>7
  <2>2. Cardinality(L[N]) <= Cardinality(U) /\ IsFiniteSet(L[N])
    BY <1>3, <2>1, FS_Subset
  <2>3. Cardinality(L[N]) \in Nat /\ Cardinality(U) \in Nat
    BY <1>3, <2>2, FS_CardinalityType
  <2>4. Cardinality(L[N]) = Cardinality(U)
    BY <1>3, <1>8, <2>2, <2>3
  <2>5. L[N] = U
    BY <1>3, <2>1, <2>4, FS_Subset
  <2>6. U \subseteq Step(fs, U) /\ Step(fs, U) \subseteq U
    BY <1>4
  <2> QED
    BY <2>5, <2>6
<1>9. Step(fs, L[N]) = L[N] /\ start \in L[N]
  BY <1>7, <1>8
<1> QED
  BY <1>1, <1>9 DEF Visited, L

-----------------------------------------------------------------------------
(* What a process without diagnostics is.                                  *)

(* No rule has a finding.                                                  *)
LEMMA NoFindings ==
  ASSUME Valid
  PROVE  /\ UnsupportedElement(nodes) = {} /\ StartEventCount(nodes) = {}
         /\ EndEventMissing(nodes) = {} /\ InvalidFlowRef(nodes, flows) = {}
         /\ MultipleDefaultFlows(nodes, flows) = {}
         /\ MissingCondition(nodes, flows) = {} /\ UnreachableNode(nodes, flows) = {}
  BY DEF Valid, Diagnostics

(* Its nodes are supported, its flows lead from node to node, and it has   *)
(* one start event, from which the search finds all its nodes.             *)
LEMMA ValidProcess ==
  ASSUME TypeOK, Valid
  PROVE  /\ Supported = DOMAIN nodes /\ CompiledNodes = NodeIds(nodes)
         /\ \A k \in DOMAIN flows : /\ flows[k].source \in CompiledNodes
                                   /\ flows[k].target \in CompiledNodes
         /\ \E e \in DOMAIN nodes : nodes[e].tag = "endEvent"
         /\ \E s \in DOMAIN nodes :
              /\ nodes[s].tag = "startEvent" /\ CompiledStart = nodes[s].id
              /\ CompiledNodes \subseteq Visited(flows, nodes[s].id)
<1>1. Supported = DOMAIN nodes /\ CompiledNodes = NodeIds(nodes)
  BY NoFindings DEF UnsupportedElement, Tagged, Supported, CompiledNodes, NodeIds
<1>2. \A k \in DOMAIN flows : /\ flows[k].source \in CompiledNodes
                             /\ flows[k].target \in CompiledNodes
  BY <1>1, NoFindings DEF InvalidFlowRef
<1>3. \E e \in DOMAIN nodes : nodes[e].tag = "endEvent"
  BY NoFindings DEF EndEventMissing, Tagged
<1>4. PICK s : Tagged(nodes, "startEvent") = {s}
  <2>1. Cardinality(Tagged(nodes, "startEvent")) = 1
    BY NoFindings DEF StartEventCount
  <2>2. IsFiniteSet(Tagged(nodes, "startEvent"))
    <3> DEFINE R == Node
    <3>1. nodes \in Seq(R)
      BY DEF TypeOK
    <3>2. Tagged(nodes, "startEvent") \subseteq DOMAIN nodes
      BY DEF Tagged
    <3> HIDE DEF R
    <3> QED
      BY <3>1, <3>2, Positions
  <2> QED
    BY <2>1, <2>2, FS_Singleton
<1>5. s \in DOMAIN nodes /\ nodes[s].tag = "startEvent"
  BY <1>4 DEF Tagged
<1>6. s \in Nat
  BY <1>5 DEF TypeOK
<1>7. CompiledStart = nodes[s].id
  BY <1>4, <1>6 DEF CompiledStart
<1>8. CompiledNodes \subseteq Visited(flows, nodes[s].id)
  <2>1. (CHOOSE k \in Tagged(nodes, "startEvent") : TRUE) = s
    BY <1>4
  <2>2. \A k \in DOMAIN nodes : nodes[k].id \in Visited(flows, nodes[s].id)
    BY <2>1, NoFindings DEF UnreachableNode
  <2> QED
    BY <1>1, <2>2 DEF NodeIds
<1> QED
  BY <1>1, <1>2, <1>3, <1>5, <1>7, <1>8

(* The node that stays of those with one id.                               *)
LEMMA LastStays ==
  ASSUME TypeOK, NEW id \in CompiledNodes
  PROVE  LastWith(id) \in Supported /\ nodes[LastWith(id)].id = id
<1> DEFINE S == {k \in Supported : nodes[k].id = id}
<1>1. S # {}
  BY DEF CompiledNodes
<1>2. IsFiniteSet(S) /\ S \subseteq Nat
  <2> DEFINE R == Node
  <2>1. nodes \in Seq(R)
    BY DEF TypeOK
  <2>2. S \subseteq DOMAIN nodes
    BY DEF Supported
  <2> HIDE DEF R, S
  <2> QED
    BY <2>1, <2>2, Positions
<1>3. \E k \in S : \A j \in S : j <= k
  <2> HIDE DEF S
  <2> QED
    BY <1>1, <1>2, Greatest
<1>4. \E k \in Supported : /\ nodes[k].id = id
                          /\ \A j \in Supported : nodes[j].id = id => j <= k
  BY <1>3
<1> QED
  BY <1>4 DEF LastWith

(* The graph of a process without diagnostics is one the engine can load.  *)
LEMMA GraphIsOK ==
  ASSUME CompilerOK, TypeOK, Valid
  PROVE  Graph!GraphOK
<1> DEFINE N == CompiledNodes
           GF == Graph!Flow
<1>1. NoNode \notin N /\ CompiledStart \in N
  <2>2. NoNode \notin N
    BY TypedProcess DEF CompilerOK, CompiledNodes, Supported
  <2> QED
    BY <2>2, ValidProcess DEF NodeIds
<1>2. ASSUME NEW n \in N
      PROVE  CompiledKind(nodes[LastWith(n)].tag) \in Graph!NodeKind
  <2>1. nodes[LastWith(n)].tag \in NodeTag \ {"unsupported"}
    <3>1. LastWith(n) \in DOMAIN nodes /\ nodes[LastWith(n)].tag # "unsupported"
      BY LastStays DEF Supported
    <3> QED
      BY <3>1, TypedProcess
  <2> QED
    BY <2>1 DEF CompiledKind, Graph!NodeKind, NodeTag
<1>3. ASSUME NEW k \in DOMAIN flows
      PROVE  CompiledFlow(flows[k]) \in GF
  <2>1. /\ flows[k].condition \in ConditionText \cup {NoCondition}
        /\ flows[k].default \in BOOLEAN
    BY TypedProcess
  <2>2. flows[k].target \in N
    BY ValidProcess
  <2>3. Absent \in Graph!Condition
    <3>1. (CHOOSE v \in Var : TRUE) \in Var /\ (CHOOSE v \in Val : TRUE) \in Val
      BY DEF CompilerOK
    <3> QED
      BY <3>1 DEF Absent, Graph!Condition
  <2>4. ConditionText \subseteq Graph!Condition
    BY DEF CompilerOK, Graph!Condition
  <2>5. CompiledFlow(flows[k]).cond \in Graph!Condition
    BY <2>1, <2>3, <2>4 DEF CompiledFlow
  <2> QED
    BY <2>1, <2>2, <2>5 DEF CompiledFlow, Graph!Flow
<1>4. ASSUME NEW n \in N
      PROVE  CompiledOutgoing(n) \in Seq(GF)
  <2>1. \A k \in From(flows, n) : k \in DOMAIN flows
    BY DEF From
  <2> HIDE DEF GF
  <2>2. \A k \in DOMAIN CompiledOutgoing(n) : CompiledOutgoing(n)[k] \in GF
    BY <1>3, <2>1, Leaving
  <2> QED
    BY <2>2, Leaving
<1>5. [v \in {} |-> v] \in UNION {[T -> Var] : T \in SUBSET Var}
  <2>1. [v \in {} |-> v] \in [{} -> Var] /\ {} \in SUBSET Var
    OBVIOUS
  <2> QED
    BY <2>1
<1> HIDE DEF N, GF
<1>6. [n \in N |-> CompiledKind(nodes[LastWith(n)].tag)] \in [N -> Graph!NodeKind]
  BY <1>2
<1>7. [n \in N |-> CompiledOutgoing(n)] \in [N -> Seq(GF)]
  BY <1>4
<1>8. [n \in N |-> {}] \in [N -> SUBSET Var]
  OBVIOUS
<1>9. \A n \in N : [m \in N |-> [v \in {} |-> v]][n] \in UNION {[T -> Var] : T \in SUBSET Var}
  BY <1>5
<1>10. Unset \notin Val
  BY DEF CompilerOK
<1> QED
  BY <1>1, <1>6, <1>7, <1>8, <1>9, <1>10 DEF Graph!GraphOK, N, GF

(* A token can get to every node: any set that has the start node and is   *)
(* closed under flows has them all.                                        *)
LEMMA AllCanBeReached ==
  ASSUME TypeOK, Valid, NEW S \in SUBSET CompiledNodes, CompiledStart \in S, Closed(S)
  PROVE  S = CompiledNodes
<1>1. PICK s \in DOMAIN nodes : /\ CompiledStart = nodes[s].id
                              /\ CompiledNodes \subseteq Visited(flows, nodes[s].id)
  BY ValidProcess
<1>2. ASSUME NEW k \in DOMAIN flows, flows[k].source \in S
      PROVE  flows[k].target \in S
  <2>1. PICK id : id = flows[k].source
    OBVIOUS
  <2>2. k \in From(flows, id)
    BY <2>1 DEF From
  <2>3. PICK n \in DOMAIN CompiledOutgoing(id) : CompiledOutgoing(id)[n] = CompiledFlow(flows[k])
    BY <2>2, Leaving
  <2>4. CompiledOutgoing(id)[n].target = flows[k].target
    BY <2>3 DEF CompiledFlow
  <2>5. id \in S \cap CompiledNodes
    BY <1>2, <2>1
  <2> QED
    BY <2>4, <2>5 DEF Closed
<1>3. Len(flows) \in Nat
  BY DEF TypeOK
<1>4. Visited(flows, nodes[s].id) \subseteq S
  BY <1>1, <1>2, <1>3, VisitedInClosed
<1> QED
  BY <1>1, <1>4

(* The start event can be left, or nothing but it would be reached.        *)
LEMMA StartCanBeLeft ==
  ASSUME TypeOK, Valid, DistinctIds
  PROVE  /\ CompiledKind(nodes[LastWith(CompiledStart)].tag) = "start"
         /\ CompiledOutgoing(CompiledStart) # <<>>
<1>1. PICK s \in DOMAIN nodes : /\ nodes[s].tag = "startEvent" /\ CompiledStart = nodes[s].id
                              /\ CompiledNodes \subseteq Visited(flows, nodes[s].id)
  BY ValidProcess
<1>2. PICK e \in DOMAIN nodes : nodes[e].tag = "endEvent"
  BY ValidProcess
<1>3. nodes[s].id \in CompiledNodes /\ nodes[e].id \in CompiledNodes /\ Supported = DOMAIN nodes
  BY ValidProcess DEF NodeIds
<1>4. LastWith(nodes[s].id) = s
  BY <1>3, LastStays DEF DistinctIds
<1>5. nodes[e].id # nodes[s].id
  BY <1>1, <1>2 DEF DistinctIds
<1>6. ASSUME CompiledOutgoing(CompiledStart) = <<>>
      PROVE  FALSE
  <2>1. PICK S : S = {CompiledStart}
    OBVIOUS
  <2>2. S \in SUBSET CompiledNodes /\ CompiledStart \in S
    BY <1>1, <1>3, <2>1
  <2>3. Closed(S)
    BY <1>6, <2>1 DEF Closed
  <2>4. S = CompiledNodes
    BY <2>2, <2>3, AllCanBeReached
  <2> QED
    BY <1>1, <1>3, <1>5, <2>1, <2>4
<1>7. CompiledKind(nodes[LastWith(CompiledStart)].tag) = "start"
  BY <1>1, <1>4 DEF CompiledKind
<1> QED
  BY <1>6, <1>7

(* A process without diagnostics compiles to a graph the engine can run    *)
(* (validate.rs 14-174, compile.rs 5-63).                                  *)
THEOREM ValidCompiles ==
  ASSUME CompilerOK, TypeOK
  PROVE  ValidGraphIsRunnable
<1> SUFFICES ASSUME Valid, DistinctIds
             PROVE  /\ Graph!GraphOK
                    /\ CompiledKind(nodes[LastWith(CompiledStart)].tag) = "start"
                    /\ Graph!HasNext(CompiledStart)
                    /\ \A S \in SUBSET CompiledNodes :
                         CompiledStart \in S /\ Closed(S) => S = CompiledNodes
  BY DEF ValidGraphIsRunnable
<1>1. Graph!GraphOK
  BY GraphIsOK
<1>2. CompiledKind(nodes[LastWith(CompiledStart)].tag) = "start"
  BY StartCanBeLeft
<1>3. CompiledStart \in CompiledNodes
  BY ValidProcess DEF NodeIds
<1>4. Graph!HasNext(CompiledStart)
  BY <1>3, StartCanBeLeft DEF Graph!HasNext
<1>5. \A S \in SUBSET CompiledNodes : CompiledStart \in S /\ Closed(S) => S = CompiledNodes
  BY AllCanBeReached
<1> QED
  BY <1>1, <1>2, <1>4, <1>5

-----------------------------------------------------------------------------
(* Routing.                                                                *)

(* The scan of a gateway, on its compiled flows.                           *)
LEMMA Scan ==
  ASSUME NEW g \in CompiledNodes, NEW scope, NEW out, out = CompiledOutgoing(g)
  PROVE  /\ \A i : Graph!FirstStop(g, scope, i) <=>
                    /\ Graph!StopsAt(out[i], scope)
                    /\ \A j \in DOMAIN out : j < i => ~Graph!StopsAt(out[j], scope)
         /\ \A i : Graph!LastDefault(g, i) <=>
                    out[i].default /\ \A j \in DOMAIN out : j > i => ~out[j].default
         /\ (\E i \in DOMAIN out : Graph!FirstStop(g, scope, i)) =>
              \E i \in DOMAIN out :
                /\ Graph!FirstStop(g, scope, i)
                /\ Graph!GatewayTarget(g, scope) =
                     IF out[i].cond.op # "none" /\ Graph!Evaluate(out[i].cond, scope) = "error"
                     THEN NoNode ELSE out[i].target
         /\ ~(\E i \in DOMAIN out : Graph!FirstStop(g, scope, i)) =>
              \/ Graph!GatewayTarget(g, scope) = NoNode
              \/ \E i \in DOMAIN out : /\ Graph!LastDefault(g, i)
                                      /\ Graph!GatewayTarget(g, scope) = out[i].target
<1>1. [n \in CompiledNodes |-> CompiledOutgoing(n)][g] = out
  OBVIOUS
<1>2. \A i : Graph!FirstStop(g, scope, i) <=>
              /\ Graph!StopsAt(out[i], scope)
              /\ \A j \in DOMAIN out : j < i => ~Graph!StopsAt(out[j], scope)
  BY <1>1 DEF Graph!FirstStop
<1>3. \A i : Graph!LastDefault(g, i) <=>
              out[i].default /\ \A j \in DOMAIN out : j > i => ~out[j].default
  BY <1>1 DEF Graph!LastDefault
<1>4. Graph!GatewayTarget(g, scope) =
        IF \E i \in DOMAIN out : Graph!FirstStop(g, scope, i)
        THEN LET f == out[CHOOSE i \in DOMAIN out : Graph!FirstStop(g, scope, i)]
             IN IF f.cond.op # "none" /\ Graph!Evaluate(f.cond, scope) = "error"
                THEN NoNode ELSE f.target
        ELSE IF \E i \in DOMAIN out : Graph!LastDefault(g, i)
             THEN out[CHOOSE i \in DOMAIN out : Graph!LastDefault(g, i)].target
             ELSE NoNode
  BY <1>1 DEF Graph!GatewayTarget
<1>5. ASSUME \E i \in DOMAIN out : Graph!FirstStop(g, scope, i)
      PROVE  \E i \in DOMAIN out :
               /\ Graph!FirstStop(g, scope, i)
               /\ Graph!GatewayTarget(g, scope) =
                    IF out[i].cond.op # "none" /\ Graph!Evaluate(out[i].cond, scope) = "error"
                    THEN NoNode ELSE out[i].target
  <2>1. PICK i : i = CHOOSE k \in DOMAIN out : Graph!FirstStop(g, scope, k)
    OBVIOUS
  <2>2. i \in DOMAIN out /\ Graph!FirstStop(g, scope, i)
    BY <1>5, <2>1
  <2> QED
    BY <1>4, <1>5, <2>1, <2>2
<1>6. ASSUME ~(\E i \in DOMAIN out : Graph!FirstStop(g, scope, i)),
             \E i \in DOMAIN out : Graph!LastDefault(g, i)
      PROVE  \E i \in DOMAIN out : /\ Graph!LastDefault(g, i)
                                  /\ Graph!GatewayTarget(g, scope) = out[i].target
  <2>1. PICK i : i = CHOOSE k \in DOMAIN out : Graph!LastDefault(g, k)
    OBVIOUS
  <2>2. i \in DOMAIN out /\ Graph!LastDefault(g, i)
    BY <1>6, <2>1
  <2> QED
    BY <1>4, <1>6, <2>1, <2>2
<1> QED
  BY <1>2, <1>3, <1>4, <1>5, <1>6

(* If no flow is the first the scan stops at, it stops at none.            *)
LEMMA NoFirstStop ==
  ASSUME TypeOK, NEW g \in CompiledNodes, NEW scope, NEW out, out = CompiledOutgoing(g),
         ~(\E i \in DOMAIN out : Graph!FirstStop(g, scope, i))
  PROVE  \A j \in DOMAIN out : ~Graph!StopsAt(out[j], scope)
<1> DEFINE S == {j \in DOMAIN out : Graph!StopsAt(out[j], scope)}
<1>1. SUFFICES ASSUME S # {}
               PROVE  FALSE
  OBVIOUS
<1>2. PICK c \in Nat : DOMAIN out = 1..c
  BY Leaving
<1>3. IsFiniteSet(S) /\ S \subseteq Nat
  <2>1. IsFiniteSet(1..c) /\ S \subseteq 1..c
    BY <1>2, FS_Interval
  <2> QED
    BY <2>1, FS_Subset
<1>4. PICK i \in S : \A j \in S : i <= j
  <2> HIDE DEF S
  <2> QED
    BY <1>1, <1>3, Least
<1>5. \A j \in DOMAIN out : j < i => ~Graph!StopsAt(out[j], scope)
  <2>1. \A j \in DOMAIN out : j < i => ~(i <= j)
    BY <1>2, <1>3
  <2> QED
    BY <1>4, <2>1
<1>6. Graph!FirstStop(g, scope, i)
  BY <1>5, Scan
<1> QED
  BY <1>6

(* A gateway of a process without diagnostics takes a flow whose condition *)
(* is true, the default flow only if no condition is true, and a flow      *)
(* without condition only if there is no other (validate.rs 99-134,        *)
(* gateway.rs 42-113).                                                     *)
THEOREM ValidRoutes ==
  ASSUME CompilerOK, TypeOK
  PROVE  RoutesByConditions
<1> DEFINE out(g) == CompiledOutgoing(g)
           holds(g, scope, k) ==
             out(g)[k].cond.op # "none" /\ Graph!Evaluate(out(g)[k].cond, scope) = "true"
           Right(g, scope, k) ==
             \/ holds(g, scope, k) /\ ~out(g)[k].default
             \/ out(g)[k].default /\ \A j \in DOMAIN out(g) : out(g)[j].default \/ ~holds(g, scope, j)
             \/ Len(out(g)) = 1
<1>1. SUFFICES ASSUME Valid, NEW g \in CompiledNodes,
                      CompiledKind(nodes[LastWith(g)].tag) = "gateway",
                      NEW scope \in Graph!Scope, Graph!GatewayTarget(g, scope) # NoNode
               PROVE  \E k \in DOMAIN out(g) : /\ out(g)[k].target = Graph!GatewayTarget(g, scope)
                                             /\ Right(g, scope, k)
  BY DEF RoutesByConditions
<1>2. LastWith(g) \in DOMAIN nodes /\ nodes[LastWith(g)].id = g
      /\ nodes[LastWith(g)].tag = "exclusiveGateway"
  <2>1. LastWith(g) \in DOMAIN nodes /\ nodes[LastWith(g)].id = g
        /\ nodes[LastWith(g)].tag # "unsupported"
    BY LastStays DEF Supported
  <2>2. nodes[LastWith(g)].tag \in NodeTag \ {"unsupported"}
    BY <2>1, TypedProcess
  <2> QED
    BY <1>1, <2>1, <2>2 DEF CompiledKind, NodeTag
<1>3. PICK o : o = CompiledOutgoing(g)
  OBVIOUS
<1>4. CASE \E i \in DOMAIN o : Graph!FirstStop(g, scope, i)
  <2>1. PICK i \in DOMAIN o :
          /\ Graph!FirstStop(g, scope, i)
          /\ Graph!GatewayTarget(g, scope) =
               IF o[i].cond.op # "none" /\ Graph!Evaluate(o[i].cond, scope) = "error"
               THEN NoNode ELSE o[i].target
    BY <1>3, <1>4, Scan
  <2>2. Graph!GatewayTarget(g, scope) = o[i].target
        /\ (o[i].cond.op = "none" \/ Graph!Evaluate(o[i].cond, scope) # "error")
    BY <1>1, <2>1
  <2>3. ~o[i].default /\ (o[i].cond.op # "none" => Graph!Evaluate(o[i].cond, scope) # "false")
    BY <1>3, <2>1, Scan DEF Graph!StopsAt
  <2>4. Graph!Evaluate(o[i].cond, scope) \in {"error", "true", "false"}
    BY DEF Graph!Evaluate
  <2>5. CASE o[i].cond.op # "none"
    <3>1. holds(g, scope, i)
      BY <1>3, <2>2, <2>3, <2>4, <2>5
    <3> QED
      BY <1>3, <2>2, <2>3, <3>1
  <2>6. CASE o[i].cond.op = "none"
    <3>1. PICK k \in From(flows, g) : o[i] = CompiledFlow(flows[k])
      BY <1>3, Leaving
    <3>2. k \in DOMAIN flows /\ flows[k].source = g
      BY <3>1 DEF From
    <3>3. ~flows[k].default
      BY <2>3, <3>1 DEF CompiledFlow
    <3>4. flows[k].condition = NoCondition
      <4>1. flows[k].condition \in ConditionText \cup {NoCondition}
        BY <3>2, TypedProcess
      <4>2. \A c \in ConditionText : c.op # "none"
        BY DEF CompilerOK
      <4>3. flows[k].condition # NoCondition => o[i].cond = flows[k].condition
        BY <3>1 DEF CompiledFlow
      <4> QED
        BY <2>6, <4>1, <4>2, <4>3
    <3>5. ~(Cardinality(From(flows, g)) > 1)
      BY <1>1, <1>2, <3>2, <3>3, <3>4, NoFindings DEF MissingCondition, Tagged
    <3>6. Cardinality(From(flows, g)) = 1
      <4>1. Cardinality(From(flows, g)) \in Nat /\ IsFiniteSet(From(flows, g))
        BY Leaving
      <4>2. Cardinality(From(flows, g)) # 0
        BY <3>1, <4>1, FS_EmptySet
      <4> QED
        BY <3>5, <4>1, <4>2
    <3>7. Len(o) = 1
      <4>1. DOMAIN o = 1..1
        BY <1>3, <3>6, Leaving
      <4>2. o \in Seq({o[n] : n \in DOMAIN o})
        BY <1>3, Leaving
      <4> QED
        BY <4>1, <4>2
    <3> QED
      BY <1>3, <2>2, <3>7
  <2> QED
    BY <2>5, <2>6
<1>5. CASE ~(\E i \in DOMAIN o : Graph!FirstStop(g, scope, i))
  <2>1. PICK i \in DOMAIN o : /\ Graph!LastDefault(g, i)
                             /\ Graph!GatewayTarget(g, scope) = o[i].target
    BY <1>1, <1>3, <1>5, Scan
  <2>2. o[i].default
    BY <1>3, <2>1, Scan
  <2>3. \A j \in DOMAIN o : ~Graph!StopsAt(o[j], scope)
    BY <1>3, <1>5, NoFirstStop
  <2>4. \A j \in DOMAIN o : o[j].default \/ ~holds(g, scope, j)
    BY <1>3, <2>3 DEF Graph!StopsAt
  <2> QED
    BY <1>3, <2>1, <2>2, <2>4
<1> QED
  BY <1>4, <1>5
=============================================================================
