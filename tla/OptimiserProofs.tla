-------------------------- MODULE OptimiserProofs --------------------------
(***************************************************************************)
(* Proofs about the multipart optimiser, for any scenes, hierarchies of    *)
(* bounds, orders and limits: its supermeshes keep the limits, each is of  *)
(* one floor and of meshes that are drawn in the same way, and each face   *)
(* is in one of them, when no group of meshes has two big clusters.        *)
(***************************************************************************)
EXTENDS Storage, FiniteSetTheorems, SequenceTheorems, WellFoundedInduction, TLAPS

-----------------------------------------------------------------------------
(* Induction over the natural numbers, by the least of those that are not  *)
(* in a set, and what it says of FoldLeft: the result is the last of the   *)
(* values that the steps give one after the other.                         *)

LEMMA LeastNat ==
  ASSUME NEW T, T \subseteq Nat, T # {}
  PROVE  \E n \in T : \A m \in T : n <= m
<1>1. PICK n \in T : \A m \in T : ~ (<<m, n>> \in OpToRel(<, Nat))
  BY NatLessThanWellFounded, WFMin
<1>2. \A m \in T : ~ (m < n)
  BY <1>1 DEF OpToRel
<1> QED BY <1>2

LEMMA InductiveSet ==
  ASSUME NEW S, 0 \in S, \A n \in Nat : n \in S => n + 1 \in S
  PROVE  Nat \subseteq S
<1> SUFFICES ASSUME Nat \ S # {} PROVE FALSE
  OBVIOUS
<1>1. PICK n \in Nat \ S : \A m \in Nat \ S : n <= m
  BY LeastNat
<1>2. n - 1 \in Nat /\ n - 1 \notin Nat \ S
  BY <1>1
<1> QED BY <1>1, <1>2

LEMMA MaxIs ==
  ASSUME NEW S, NEW k \in S, S \subseteq Int, \A i \in S : i <= k
  PROVE  Max(S) = k
<1>1. \A x \in S : (\A y \in S : x >= y) <=> x = k
  OBVIOUS
<1> QED BY <1>1 DEF Max

LEMMA MaxIn ==
  ASSUME NEW n \in Nat, NEW S, S \subseteq 1..n, S # {}
  PROVE  Max(S) \in S /\ \A i \in S : i <= Max(S)
<1> DEFINE T == {n - i : i \in S}
<1>1. T \subseteq Nat /\ T # {}
  <2>1. ASSUME NEW i \in S PROVE n - i \in Nat
    <3>1. i \in 1..n
      OBVIOUS
    <3> QED BY <3>1
  <2>2. PICK i \in S : TRUE
    OBVIOUS
  <2>3. n - i \in T
    OBVIOUS
  <2> QED BY <2>1, <2>3
<1>2. PICK m \in T : \A t \in T : m <= t
  BY <1>1, LeastNat
<1>3. PICK k \in S : m = n - k
  BY <1>2
<1>4. \A i \in S : i <= k
  <2> TAKE i \in S
  <2>1. n - i \in T
    OBVIOUS
  <2>2. m <= n - i
    BY <1>2, <2>1
  <2> QED BY <1>3, <2>2
<1>5. S \subseteq Int
  OBVIOUS
<1> HIDE DEF T
<1>6. Max(S) = k
  BY <1>4, <1>5, MaxIs
<1> QED BY <1>4, <1>6

\* A function that makes the steps of FoldLeft for each set of positions.
Iterates(f, base, step, z, n) ==
  /\ f[{}] = base
  /\ \A T \in SUBSET (1..n) : T # {} => f[T] = step[<<f[T \ {Max(T)}], z[Max(T)]>>]

IterateTo(A, base, step, z, k) ==
  \E f \in [SUBSET (1..k) -> A] : Iterates(f, base, step, z, k)

LEMMA IterateExists ==
  ASSUME NEW A, NEW S, NEW base \in A, NEW step \in [A \X S -> A],
         NEW n \in Nat, NEW z, \A i \in 1..n : z[i] \in S
  PROVE  IterateTo(A, base, step, z, n)
<1> DEFINE K == {k \in Nat : k <= n => IterateTo(A, base, step, z, k)}
<1>1. 0 \in K
  <2> DEFINE f == [T \in SUBSET (1..0) |-> base]
  <2>1. \A T \in SUBSET (1..0) : T = {}
    OBVIOUS
  <2>2. f \in [SUBSET (1..0) -> A] /\ f[{}] = base
    OBVIOUS
  <2> HIDE DEF f
  <2>3. Iterates(f, base, step, z, 0)
    BY <2>1, <2>2 DEF Iterates
  <2>4. IterateTo(A, base, step, z, 0)
    BY <2>2, <2>3 DEF IterateTo
  <2> QED BY <2>4
<1>2. ASSUME NEW k \in Nat, k \in K PROVE k + 1 \in K
  <2> SUFFICES ASSUME k + 1 <= n PROVE IterateTo(A, base, step, z, k + 1)
    OBVIOUS
  <2>0. IterateTo(A, base, step, z, k)
    BY <1>2
  <2>1. PICK f \in [SUBSET (1..k) -> A] : Iterates(f, base, step, z, k)
    BY <2>0 DEF IterateTo
  <2> DEFINE g == [T \in SUBSET (1..k + 1) |->
                     IF k + 1 \in T THEN step[<<f[T \ {k + 1}], z[k + 1]>>] ELSE f[T]]
  <2>2. \A T \in SUBSET (1..k + 1) : T \ {k + 1} \in SUBSET (1..k)
    OBVIOUS
  <2>3. g \in [SUBSET (1..k + 1) -> A]
    <3> SUFFICES ASSUME NEW T \in SUBSET (1..k + 1) PROVE g[T] \in A
      OBVIOUS
    <3>1. f[T \ {k + 1}] \in A
      BY <2>2
    <3>2. z[k + 1] \in S
      OBVIOUS
    <3>3. k + 1 \notin T => T = T \ {k + 1}
      OBVIOUS
    <3> QED BY <3>1, <3>2, <3>3
  <2>4. g[{}] = base
    BY <2>1 DEF Iterates
  <2>5. ASSUME NEW T \in SUBSET (1..k + 1), T # {}
        PROVE  g[T] = step[<<g[T \ {Max(T)}], z[Max(T)]>>]
    <3>1. CASE k + 1 \in T
      <4>1. Max(T) = k + 1
        <5>1. T \subseteq Int /\ \A i \in T : i <= k + 1
          OBVIOUS
        <5> QED BY <3>1, <5>1, MaxIs
      <4>2. g[T \ {k + 1}] = f[T \ {k + 1}]
        BY <2>2
      <4> QED BY <3>1, <4>1, <4>2
    <3>2. CASE k + 1 \notin T
      <4>1. T \in SUBSET (1..k) /\ g[T] = f[T]
        BY <3>2
      <4>2. f[T] = step[<<f[T \ {Max(T)}], z[Max(T)]>>]
        BY <2>1, <2>5, <4>1 DEF Iterates
      <4>3. g[T \ {Max(T)}] = f[T \ {Max(T)}]
        BY <3>2
      <4> QED BY <4>1, <4>2, <4>3
    <3> QED BY <3>1, <3>2
  <2> HIDE DEF g
  <2>6. Iterates(g, base, step, z, k + 1)
    BY <2>4, <2>5 DEF Iterates
  <2> QED BY <2>3, <2>6 DEF IterateTo
<1> HIDE DEF K
<1>3. Nat \subseteq K
  BY <1>1, <1>2, InductiveSet
<1>4. n \in K
  BY <1>3
<1> QED BY <1>4 DEF K

AgreeTo(f, g, k) == \A T \in SUBSET (1..k) : g[T] = f[T]

Follows(g, A, base, step, z, n) ==
  /\ g[{}] = base
  /\ \A T \in SUBSET (1..n) : T # {} /\ g[T \ {Max(T)}] \in A =>
       g[T] = step[<<g[T \ {Max(T)}], z[Max(T)]>>]

\* Another one makes the same steps.
LEMMA IteratesAgree ==
  ASSUME NEW A, NEW S, NEW base \in A, NEW step \in [A \X S -> A],
         NEW n \in Nat, NEW z, \A i \in 1..n : z[i] \in S,
         NEW f \in [SUBSET (1..n) -> A], Iterates(f, base, step, z, n),
         NEW g, Follows(g, A, base, step, z, n)
  PROVE  AgreeTo(f, g, n)
<1> DEFINE K == {k \in Nat : k <= n => AgreeTo(f, g, k)}
<1>1. 0 \in K
  <2>1. \A T \in SUBSET (1..0) : T = {}
    OBVIOUS
  <2>2. AgreeTo(f, g, 0)
    BY <2>1 DEF AgreeTo, Iterates, Follows
  <2> QED BY <2>2
<1>2. ASSUME NEW k \in Nat, k \in K PROVE k + 1 \in K
  <2> SUFFICES ASSUME k + 1 <= n PROVE AgreeTo(f, g, k + 1)
    OBVIOUS
  <2> SUFFICES ASSUME NEW T \in SUBSET (1..k + 1) PROVE g[T] = f[T]
    BY DEF AgreeTo
  <2> HIDE DEF K
  <2>0. T \in SUBSET (1..n)
    <3>1. \A i \in 1..k + 1 : i \in 1..n
      OBVIOUS
    <3> QED BY <3>1
  <2>1. CASE T = {}
    BY <2>1 DEF Iterates, Follows
  <2>2. CASE T # {}
    <3>1. Max(T) \in T /\ \A i \in T : i <= Max(T)
      <4>1. k + 1 \in Nat /\ T \subseteq 1..(k + 1)
        OBVIOUS
      <4> QED BY <2>2, <4>1, MaxIn
    <3>2. T \ {Max(T)} \in SUBSET (1..k)
      <4>1. ASSUME NEW i \in T \ {Max(T)} PROVE i \in 1..k
        <5>1. i \in 1..k + 1 /\ Max(T) \in 1..k + 1 /\ i <= Max(T) /\ i # Max(T)
          BY <3>1
        <5> QED BY <5>1
      <4> QED BY <4>1
    <3>3. g[T \ {Max(T)}] = f[T \ {Max(T)}]
      <4>1. AgreeTo(f, g, k)
        BY <1>2 DEF K
      <4> QED BY <3>2, <4>1 DEF AgreeTo
    <3>4. T \ {Max(T)} \in SUBSET (1..n)
      BY <2>0
    <3>5. g[T \ {Max(T)}] \in A
      BY <3>3, <3>4
    <3> QED BY <2>0, <2>2, <3>3, <3>5 DEF Iterates, Follows
  <2> QED BY <2>1, <2>2
<1> HIDE DEF K
<1>3. Nat \subseteq K
  BY <1>1, <1>2, InductiveSet
<1>4. n \in K
  BY <1>3
<1> QED BY <1>4 DEF K

\* The values one after the other.
InTurn(p, base, step, z, n) ==
  /\ p[0] = base
  /\ \A k \in 1..n : p[k] = step[<<p[k - 1], z[k]>>]

InTurnTo(A, base, step, z, n, a) ==
  \E p \in [0..n -> A] : InTurn(p, base, step, z, n) /\ p[n] = a

LEMMA IteratesInTurn ==
  ASSUME NEW A, NEW S, NEW base \in A, NEW step \in [A \X S -> A],
         NEW n \in Nat, NEW z, \A i \in 1..n : z[i] \in S,
         NEW f \in [SUBSET (1..n) -> A], Iterates(f, base, step, z, n)
  PROVE  InTurnTo(A, base, step, z, n, f[1..n])
<1> DEFINE p == [k \in 0..n |-> f[1..k]]
<1>1. \A k \in 0..n : 1..k \in SUBSET (1..n)
  <2> TAKE k \in 0..n
  <2>1. \A i \in 1..k : i \in 1..n
    OBVIOUS
  <2> QED BY <2>1
<1>2. p \in [0..n -> A] /\ p[n] = f[1..n]
  BY <1>1
<1>3. p[0] = base
  <2>1. 1..0 = {}
    OBVIOUS
  <2> QED BY <2>1 DEF Iterates
<1>4. ASSUME NEW k \in 1..n PROVE p[k] = step[<<p[k - 1], z[k]>>]
  <2>1. k \in 1..k /\ 1..k \in SUBSET (1..n) /\ k - 1 \in 0..n /\ k \in 0..n
    BY <1>1
  <2>2. Max(1..k) = k
    <3>1. 1..k \subseteq Int /\ \A i \in 1..k : i <= k
      OBVIOUS
    <3> QED BY <2>1, <3>1, MaxIs
  <2>3. (1..k) \ {k} = 1..(k - 1)
    OBVIOUS
  <2>4. f[1..k] = step[<<f[(1..k) \ {Max(1..k)}], z[Max(1..k)]>>]
    BY <2>1 DEF Iterates
  <2> QED BY <2>1, <2>2, <2>3, <2>4
<1> HIDE DEF p
<1>5. InTurn(p, base, step, z, n)
  BY <1>3, <1>4 DEF InTurn
<1> QED BY <1>2, <1>5 DEF InTurnTo

PushTo(A, base, z) ==
  \E p \in [0..Len(z) -> A] :
    /\ p[0] = base /\ FoldLeft(Push, base, z) = p[Len(z)]
    /\ \A k \in 1..Len(z) : p[k] = Push(p[k - 1], z[k])

LEMMA PushInTurn ==
  ASSUME NEW A, NEW S, NEW base \in A, NEW z \in Seq(S), \A a \in A, x \in S : Push(a, x) \in A
  PROVE  PushTo(A, base, z)
<1> DEFINE n == Len(z)
           step == [q \in A \X S |-> Push(q[1], q[2])]
<1>1. n \in Nat /\ DOMAIN z = 1..n /\ \A i \in 1..n : z[i] \in S
  OBVIOUS
<1>2. step \in [A \X S -> A] /\ \A a \in A, x \in S : step[<<a, x>>] = Push(a, x)
  OBVIOUS
<1> HIDE DEF n, step
<1>3. PICK f \in [SUBSET (1..n) -> A] : Iterates(f, base, step, z, n)
  <2>1. IterateTo(A, base, step, z, n)
    BY <1>1, <1>2, IterateExists
  <2> QED BY <2>1 DEF IterateTo
<1>4. f = [T \in SUBSET (1..n) |-> IF T = {} THEN base ELSE Push(f[T \ {Max(T)}], z[Max(T)])]
  <2> SUFFICES ASSUME NEW T \in SUBSET (1..n), T # {}
               PROVE  f[T] = Push(f[T \ {Max(T)}], z[Max(T)])
    BY <1>3 DEF Iterates
  <2>1. Max(T) \in 1..n
    BY <1>1, MaxIn
  <2>2. f[T \ {Max(T)}] \in A /\ z[Max(T)] \in S
    BY <1>1, <2>1
  <2> QED BY <1>2, <1>3, <2>2 DEF Iterates
<1>5. FoldLeft(Push, base, z) =
        (CHOOSE g : g = [T \in SUBSET (1..n) |->
           IF T = {} THEN base ELSE Push(g[T \ {Max(T)}], z[Max(T)])])[1..n]
  BY <1>1 DEF FoldLeft, MapThenFoldSet
<1>6. PICK g : /\ g = [T \in SUBSET (1..n) |->
                        IF T = {} THEN base ELSE Push(g[T \ {Max(T)}], z[Max(T)])]
               /\ FoldLeft(Push, base, z) = g[1..n]
  BY <1>4, <1>5
<1>7. g[1..n] = f[1..n]
  <2>1. g[{}] = base
    BY <1>6
  <2>2. ASSUME NEW T \in SUBSET (1..n), T # {}, g[T \ {Max(T)}] \in A
        PROVE  g[T] = step[<<g[T \ {Max(T)}], z[Max(T)]>>]
    <3>1. Max(T) \in 1..n
      BY <1>1, <2>2, MaxIn
    <3>2. g[T] = Push(g[T \ {Max(T)}], z[Max(T)])
      BY <1>6, <2>2
    <3> QED BY <1>1, <1>2, <2>2, <3>1, <3>2
  <2>3. Follows(g, A, base, step, z, n)
    BY <2>1, <2>2 DEF Follows
  <2>4. AgreeTo(f, g, n)
    BY <1>1, <1>2, <1>3, <2>3, IteratesAgree
  <2> QED BY <2>4 DEF AgreeTo
<1>8. PICK p \in [0..n -> A] : InTurn(p, base, step, z, n) /\ p[n] = f[1..n]
  <2>1. InTurnTo(A, base, step, z, n, f[1..n])
    BY <1>1, <1>2, <1>3, IteratesInTurn
  <2> QED BY <2>1 DEF InTurnTo
<1>9. \A k \in 1..n : p[k] = Push(p[k - 1], z[k])
  <2> TAKE k \in 1..n
  <2>1. p[k - 1] \in A /\ z[k] \in S
    BY <1>1
  <2> QED BY <1>2, <1>8, <2>1 DEF InTurn
<1> QED BY <1>6, <1>7, <1>8, <1>9 DEF n, InTurn, PushTo

SplitTo(A, base, z) ==
  \E p \in [0..Len(z) -> A] :
    /\ p[0] = base /\ FoldLeft(SplitCluster, base, z) = p[Len(z)]
    /\ \A k \in 1..Len(z) : p[k] = SplitCluster(p[k - 1], z[k])

LEMMA SplitInTurn ==
  ASSUME NEW A, NEW S, NEW base \in A, NEW z \in Seq(S), \A a \in A, x \in S : SplitCluster(a, x) \in A
  PROVE  SplitTo(A, base, z)
<1> DEFINE n == Len(z)
           step == [q \in A \X S |-> SplitCluster(q[1], q[2])]
<1>1. n \in Nat /\ DOMAIN z = 1..n /\ \A i \in 1..n : z[i] \in S
  OBVIOUS
<1>2. step \in [A \X S -> A] /\ \A a \in A, x \in S : step[<<a, x>>] = SplitCluster(a, x)
  OBVIOUS
<1> HIDE DEF n, step
<1>3. PICK f \in [SUBSET (1..n) -> A] : Iterates(f, base, step, z, n)
  <2>1. IterateTo(A, base, step, z, n)
    BY <1>1, <1>2, IterateExists
  <2> QED BY <2>1 DEF IterateTo
<1>4. f = [T \in SUBSET (1..n) |-> IF T = {} THEN base ELSE SplitCluster(f[T \ {Max(T)}], z[Max(T)])]
  <2> SUFFICES ASSUME NEW T \in SUBSET (1..n), T # {}
               PROVE  f[T] = SplitCluster(f[T \ {Max(T)}], z[Max(T)])
    BY <1>3 DEF Iterates
  <2>1. Max(T) \in 1..n
    BY <1>1, MaxIn
  <2>2. f[T \ {Max(T)}] \in A /\ z[Max(T)] \in S
    BY <1>1, <2>1
  <2> QED BY <1>2, <1>3, <2>2 DEF Iterates
<1>5. FoldLeft(SplitCluster, base, z) =
        (CHOOSE g : g = [T \in SUBSET (1..n) |->
           IF T = {} THEN base ELSE SplitCluster(g[T \ {Max(T)}], z[Max(T)])])[1..n]
  BY <1>1 DEF FoldLeft, MapThenFoldSet
<1>6. PICK g : /\ g = [T \in SUBSET (1..n) |->
                        IF T = {} THEN base ELSE SplitCluster(g[T \ {Max(T)}], z[Max(T)])]
               /\ FoldLeft(SplitCluster, base, z) = g[1..n]
  BY <1>4, <1>5
<1>7. g[1..n] = f[1..n]
  <2>1. g[{}] = base
    BY <1>6
  <2>2. ASSUME NEW T \in SUBSET (1..n), T # {}, g[T \ {Max(T)}] \in A
        PROVE  g[T] = step[<<g[T \ {Max(T)}], z[Max(T)]>>]
    <3>1. Max(T) \in 1..n
      BY <1>1, <2>2, MaxIn
    <3>2. g[T] = SplitCluster(g[T \ {Max(T)}], z[Max(T)])
      BY <1>6, <2>2
    <3> QED BY <1>1, <1>2, <2>2, <3>1, <3>2
  <2>3. Follows(g, A, base, step, z, n)
    BY <2>1, <2>2 DEF Follows
  <2>4. AgreeTo(f, g, n)
    BY <1>1, <1>2, <1>3, <2>3, IteratesAgree
  <2> QED BY <2>4 DEF AgreeTo
<1>8. PICK p \in [0..n -> A] : InTurn(p, base, step, z, n) /\ p[n] = f[1..n]
  <2>1. InTurnTo(A, base, step, z, n, f[1..n])
    BY <1>1, <1>2, <1>3, IteratesInTurn
  <2> QED BY <2>1 DEF InTurnTo
<1>9. \A k \in 1..n : p[k] = SplitCluster(p[k - 1], z[k])
  <2> TAKE k \in 1..n
  <2>1. p[k - 1] \in A /\ z[k] \in S
    BY <1>1
  <2> QED BY <1>2, <1>8, <2>1 DEF InTurn
<1> QED BY <1>6, <1>7, <1>8, <1>9 DEF n, InTurn, SplitTo

TakeTo(A, base, z) ==
  \E p \in [0..Len(z) -> A] :
    /\ p[0] = base /\ FoldLeft(Take, base, z) = p[Len(z)]
    /\ \A k \in 1..Len(z) : p[k] = Take(p[k - 1], z[k])

LEMMA TakeInTurn ==
  ASSUME NEW A, NEW S, NEW base \in A, NEW z \in Seq(S), \A a \in A, x \in S : Take(a, x) \in A
  PROVE  TakeTo(A, base, z)
<1> DEFINE n == Len(z)
           step == [q \in A \X S |-> Take(q[1], q[2])]
<1>1. n \in Nat /\ DOMAIN z = 1..n /\ \A i \in 1..n : z[i] \in S
  OBVIOUS
<1>2. step \in [A \X S -> A] /\ \A a \in A, x \in S : step[<<a, x>>] = Take(a, x)
  OBVIOUS
<1> HIDE DEF n, step
<1>3. PICK f \in [SUBSET (1..n) -> A] : Iterates(f, base, step, z, n)
  <2>1. IterateTo(A, base, step, z, n)
    BY <1>1, <1>2, IterateExists
  <2> QED BY <2>1 DEF IterateTo
<1>4. f = [T \in SUBSET (1..n) |-> IF T = {} THEN base ELSE Take(f[T \ {Max(T)}], z[Max(T)])]
  <2> SUFFICES ASSUME NEW T \in SUBSET (1..n), T # {}
               PROVE  f[T] = Take(f[T \ {Max(T)}], z[Max(T)])
    BY <1>3 DEF Iterates
  <2>1. Max(T) \in 1..n
    BY <1>1, MaxIn
  <2>2. f[T \ {Max(T)}] \in A /\ z[Max(T)] \in S
    BY <1>1, <2>1
  <2> QED BY <1>2, <1>3, <2>2 DEF Iterates
<1>5. FoldLeft(Take, base, z) =
        (CHOOSE g : g = [T \in SUBSET (1..n) |->
           IF T = {} THEN base ELSE Take(g[T \ {Max(T)}], z[Max(T)])])[1..n]
  BY <1>1 DEF FoldLeft, MapThenFoldSet
<1>6. PICK g : /\ g = [T \in SUBSET (1..n) |->
                        IF T = {} THEN base ELSE Take(g[T \ {Max(T)}], z[Max(T)])]
               /\ FoldLeft(Take, base, z) = g[1..n]
  BY <1>4, <1>5
<1>7. g[1..n] = f[1..n]
  <2>1. g[{}] = base
    BY <1>6
  <2>2. ASSUME NEW T \in SUBSET (1..n), T # {}, g[T \ {Max(T)}] \in A
        PROVE  g[T] = step[<<g[T \ {Max(T)}], z[Max(T)]>>]
    <3>1. Max(T) \in 1..n
      BY <1>1, <2>2, MaxIn
    <3>2. g[T] = Take(g[T \ {Max(T)}], z[Max(T)])
      BY <1>6, <2>2
    <3> QED BY <1>1, <1>2, <2>2, <3>1, <3>2
  <2>3. Follows(g, A, base, step, z, n)
    BY <2>1, <2>2 DEF Follows
  <2>4. AgreeTo(f, g, n)
    BY <1>1, <1>2, <1>3, <2>3, IteratesAgree
  <2> QED BY <2>4 DEF AgreeTo
<1>8. PICK p \in [0..n -> A] : InTurn(p, base, step, z, n) /\ p[n] = f[1..n]
  <2>1. InTurnTo(A, base, step, z, n, f[1..n])
    BY <1>1, <1>2, <1>3, IteratesInTurn
  <2> QED BY <2>1 DEF InTurnTo
<1>9. \A k \in 1..n : p[k] = Take(p[k - 1], z[k])
  <2> TAKE k \in 1..n
  <2>1. p[k - 1] \in A /\ z[k] \in S
    BY <1>1
  <2> QED BY <1>2, <1>8, <2>1 DEF InTurn
<1> QED BY <1>6, <1>7, <1>8, <1>9 DEF n, InTurn, TakeTo

Add(kept, x, I) == IF x \in I THEN Append(kept, x) ELSE kept

OnlyTo(A, z, I) ==
  \E p \in [0..Len(z) -> A] :
    /\ p[0] = <<>> /\ OnlyIn(z, I) = p[Len(z)]
    /\ \A k \in 1..Len(z) : p[k] = Add(p[k - 1], z[k], I)

LEMMA OnlyInTurn ==
  ASSUME NEW A, NEW S, NEW I, <<>> \in A, NEW z \in Seq(S), \A a \in A, x \in S : Add(a, x, I) \in A
  PROVE  OnlyTo(A, z, I)
<1> DEFINE n == Len(z)
           step == [q \in A \X S |-> Add(q[1], q[2], I)]
<1>1. n \in Nat /\ DOMAIN z = 1..n /\ \A i \in 1..n : z[i] \in S
  OBVIOUS
<1>2. step \in [A \X S -> A] /\ \A a \in A, x \in S : step[<<a, x>>] = Add(a, x, I)
  OBVIOUS
<1> HIDE DEF n, step
<1>3. PICK f \in [SUBSET (1..n) -> A] : Iterates(f, <<>>, step, z, n)
  <2>1. IterateTo(A, <<>>, step, z, n)
    BY <1>1, <1>2, IterateExists
  <2> QED BY <2>1 DEF IterateTo
<1>4. f = [T \in SUBSET (1..n) |-> IF T = {} THEN <<>> ELSE Add(f[T \ {Max(T)}], z[Max(T)], I)]
  <2> SUFFICES ASSUME NEW T \in SUBSET (1..n), T # {}
               PROVE  f[T] = Add(f[T \ {Max(T)}], z[Max(T)], I)
    BY <1>3 DEF Iterates
  <2>1. Max(T) \in 1..n
    BY <1>1, MaxIn
  <2>2. f[T \ {Max(T)}] \in A /\ z[Max(T)] \in S
    BY <1>1, <2>1
  <2> QED BY <1>2, <1>3, <2>2 DEF Iterates
<1>5. OnlyIn(z, I) =
        (CHOOSE g : g = [T \in SUBSET (1..n) |->
           IF T = {} THEN <<>> ELSE Add(g[T \ {Max(T)}], z[Max(T)], I)])[1..n]
  BY <1>1 DEF OnlyIn, FoldLeft, MapThenFoldSet, Add
<1>6. PICK g : /\ g = [T \in SUBSET (1..n) |->
                        IF T = {} THEN <<>> ELSE Add(g[T \ {Max(T)}], z[Max(T)], I)]
               /\ OnlyIn(z, I) = g[1..n]
  BY <1>4, <1>5
<1>7. g[1..n] = f[1..n]
  <2>1. g[{}] = <<>>
    BY <1>6
  <2>2. ASSUME NEW T \in SUBSET (1..n), T # {}, g[T \ {Max(T)}] \in A
        PROVE  g[T] = step[<<g[T \ {Max(T)}], z[Max(T)]>>]
    <3>1. Max(T) \in 1..n
      BY <1>1, <2>2, MaxIn
    <3>2. g[T] = Add(g[T \ {Max(T)}], z[Max(T)], I)
      BY <1>6, <2>2
    <3> QED BY <1>1, <1>2, <2>2, <3>1, <3>2
  <2>3. Follows(g, A, <<>>, step, z, n)
    BY <2>1, <2>2 DEF Follows
  <2>4. AgreeTo(f, g, n)
    BY <1>1, <1>2, <1>3, <2>3, IteratesAgree
  <2> QED BY <2>4 DEF AgreeTo
<1>8. PICK p \in [0..n -> A] : InTurn(p, <<>>, step, z, n) /\ p[n] = f[1..n]
  <2>1. InTurnTo(A, <<>>, step, z, n, f[1..n])
    BY <1>1, <1>2, <1>3, IteratesInTurn
  <2> QED BY <2>1 DEF InTurnTo
<1>9. \A k \in 1..n : p[k] = Add(p[k - 1], z[k], I)
  <2> TAKE k \in 1..n
  <2>1. p[k - 1] \in A /\ z[k] \in S
    BY <1>1
  <2> QED BY <1>2, <1>8, <2>1 DEF InTurn
<1> QED BY <1>6, <1>7, <1>8, <1>9 DEF n, InTurn, OnlyTo

MoreJobs(done, look) == done \o Batch(2, look) \o Batch(3, look)

FirstJobs ==
  Batch(2, "transparent") \o Batch(2, "opaque") \o Batch(3, "transparent") \o Batch(3, "opaque")

JobsTo(A, z) ==
  \E p \in [0..Len(z) -> A] :
    /\ p[0] = FirstJobs /\ Jobs(z) = p[Len(z)]
    /\ \A k \in 1..Len(z) : p[k] = MoreJobs(p[k - 1], z[k])

LEMMA JobsInTurn ==
  ASSUME NEW A, NEW S, FirstJobs \in A, NEW z \in Seq(S), \A a \in A, x \in S : MoreJobs(a, x) \in A
  PROVE  JobsTo(A, z)
<1> DEFINE n == Len(z)
           step == [q \in A \X S |-> MoreJobs(q[1], q[2])]
<1>1. n \in Nat /\ DOMAIN z = 1..n /\ \A i \in 1..n : z[i] \in S
  OBVIOUS
<1>2. step \in [A \X S -> A] /\ \A a \in A, x \in S : step[<<a, x>>] = MoreJobs(a, x)
  OBVIOUS
<1> HIDE DEF n, step
<1>3. PICK f \in [SUBSET (1..n) -> A] : Iterates(f, FirstJobs, step, z, n)
  <2>1. IterateTo(A, FirstJobs, step, z, n)
    BY <1>1, <1>2, IterateExists
  <2> QED BY <2>1 DEF IterateTo
<1>4. f = [T \in SUBSET (1..n) |-> IF T = {} THEN FirstJobs ELSE MoreJobs(f[T \ {Max(T)}], z[Max(T)])]
  <2> SUFFICES ASSUME NEW T \in SUBSET (1..n), T # {}
               PROVE  f[T] = MoreJobs(f[T \ {Max(T)}], z[Max(T)])
    BY <1>3 DEF Iterates
  <2>1. Max(T) \in 1..n
    BY <1>1, MaxIn
  <2>2. f[T \ {Max(T)}] \in A /\ z[Max(T)] \in S
    BY <1>1, <2>1
  <2> QED BY <1>2, <1>3, <2>2 DEF Iterates
<1>5. Jobs(z) =
        (CHOOSE g : g = [T \in SUBSET (1..n) |->
           IF T = {} THEN FirstJobs ELSE MoreJobs(g[T \ {Max(T)}], z[Max(T)])])[1..n]
  BY <1>1 DEF Jobs, FoldLeft, MapThenFoldSet, MoreJobs, FirstJobs
<1>6. PICK g : /\ g = [T \in SUBSET (1..n) |->
                        IF T = {} THEN FirstJobs ELSE MoreJobs(g[T \ {Max(T)}], z[Max(T)])]
               /\ Jobs(z) = g[1..n]
  BY <1>4, <1>5
<1>7. g[1..n] = f[1..n]
  <2>1. g[{}] = FirstJobs
    BY <1>6
  <2>2. ASSUME NEW T \in SUBSET (1..n), T # {}, g[T \ {Max(T)}] \in A
        PROVE  g[T] = step[<<g[T \ {Max(T)}], z[Max(T)]>>]
    <3>1. Max(T) \in 1..n
      BY <1>1, <2>2, MaxIn
    <3>2. g[T] = MoreJobs(g[T \ {Max(T)}], z[Max(T)])
      BY <1>6, <2>2
    <3> QED BY <1>1, <1>2, <2>2, <3>1, <3>2
  <2>3. Follows(g, A, FirstJobs, step, z, n)
    BY <2>1, <2>2 DEF Follows
  <2>4. AgreeTo(f, g, n)
    BY <1>1, <1>2, <1>3, <2>3, IteratesAgree
  <2> QED BY <2>4 DEF AgreeTo
<1>8. PICK p \in [0..n -> A] : InTurn(p, FirstJobs, step, z, n) /\ p[n] = f[1..n]
  <2>1. InTurnTo(A, FirstJobs, step, z, n, f[1..n])
    BY <1>1, <1>2, <1>3, IteratesInTurn
  <2> QED BY <2>1 DEF InTurnTo
<1>9. \A k \in 1..n : p[k] = MoreJobs(p[k - 1], z[k])
  <2> TAKE k \in 1..n
  <2>1. p[k - 1] \in A /\ z[k] \in S
    BY <1>1
  <2> QED BY <1>2, <1>8, <2>1 DEF InTurn
<1> QED BY <1>6, <1>7, <1>8, <1>9 DEF n, InTurn, JobsTo

-----------------------------------------------------------------------------
(* Induction up to a number, and over a finite set with a well-founded     *)
(* relation, on which a recursive function exists.                         *)

LEMMA UpTo ==
  ASSUME NEW n \in Nat, NEW K, 0 \in K, \A k \in 1..n : k - 1 \in K => k \in K
  PROVE  \A k \in 0..n : k \in K
<1> DEFINE J == {k \in Nat : k <= n => k \in K}
<1>1. 0 \in J
  OBVIOUS
<1>2. ASSUME NEW k \in Nat, k \in J PROVE k + 1 \in J
  <2> SUFFICES ASSUME k + 1 <= n PROVE k + 1 \in K
    OBVIOUS
  <2>1. k \in K /\ k + 1 \in 1..n /\ (k + 1) - 1 = k
    BY <1>2
  <2> QED BY <2>1
<1> HIDE DEF J
<1>3. Nat \subseteq J
  BY <1>1, <1>2, InductiveSet
<1>4. ASSUME NEW k \in 0..n PROVE k \in J
  BY <1>3
<1> QED BY <1>4 DEF J

\* Whatever of D is not all of it has a next element, with all below it in that part.
WellFoundedOn(R, D) ==
  \A S \in SUBSET D : S # {} => \E x \in S : \A y \in S : <<y, x>> \notin R

LEMMA BelowFirst ==
  ASSUME NEW D, NEW R, WellFoundedOn(R, D), NEW S,
         \A x \in D : (\A y \in D : <<y, x>> \in R => y \in S) => x \in S
  PROVE  D \subseteq S
<1> SUFFICES ASSUME D \ S # {} PROVE FALSE
  OBVIOUS
<1>1. PICK x \in D \ S : \A y \in D \ S : <<y, x>> \notin R
  <2>1. D \ S \in SUBSET D
    OBVIOUS
  <2> QED BY <2>1 DEF WellFoundedOn
<1> QED BY <1>1

\* step has a value for each element that depends on what is below it only.
Local(step, R, D, V) ==
  \A f, g \in [D -> V], x \in D :
    (\A y \in D : <<y, x>> \in R => f[y] = g[y]) => step[<<f, x>>] = step[<<g, x>>]

Solves(f, step, C) == \A x \in C : f[x] = step[<<f, x>>]

Closed(C, R, D) == \A x \in C, y \in D : <<y, x>> \in R => y \in C

Solvable(k, step, R, D, V) ==
  \E C \in SUBSET D, f \in [D -> V] :
    IsFiniteSet(C) /\ Cardinality(C) = k /\ Closed(C, R, D) /\ Solves(f, step, C)

LEMMA RecursionExists ==
  ASSUME NEW D, IsFiniteSet(D), NEW R, WellFoundedOn(R, D), NEW V, V # {},
         NEW step \in [[D -> V] \X D -> V], Local(step, R, D, V)
  PROVE  \E f \in [D -> V] : Solves(f, step, D)
<1> DEFINE n == Cardinality(D)
           K == {k \in Nat : Solvable(k, step, R, D, V)}
<1>1. n \in Nat
  BY FS_CardinalityType
<1>2. 0 \in K
  <2>1. PICK v \in V : TRUE
    OBVIOUS
  <2>2. [x \in D |-> v] \in [D -> V]
    OBVIOUS
  <2>3. IsFiniteSet({}) /\ Cardinality({}) = 0
    BY FS_EmptySet
  <2>4. Closed({}, R, D) /\ Solves([x \in D |-> v], step, {}) /\ {} \in SUBSET D
    BY DEF Closed, Solves
  <2>5. Solvable(0, step, R, D, V)
    BY <2>2, <2>3, <2>4 DEF Solvable
  <2> QED BY <2>5
<1>3. ASSUME NEW k \in 1..n, k - 1 \in K PROVE k \in K
  <2>0. k \in Nat /\ n \in Nat /\ k - 1 < n /\ k - 1 \in Nat
    BY <1>1
  <2> HIDE DEF n
  <2>1. PICK C \in SUBSET D, f \in [D -> V] :
          /\ IsFiniteSet(C) /\ Cardinality(C) = k - 1
          /\ Closed(C, R, D) /\ Solves(f, step, C)
    BY <1>3 DEF Solvable
  <2>2. D \ C # {}
    BY <2>0, <2>1 DEF n
  <2>3. PICK x \in D \ C : \A y \in D \ C : <<y, x>> \notin R
    <3>1. D \ C \in SUBSET D
      OBVIOUS
    <3> QED BY <2>2, <3>1 DEF WellFoundedOn
  <2> DEFINE B == C \cup {x}
             g == [f EXCEPT ![x] = step[<<f, x>>]]
  <2>4. B \in SUBSET D /\ g \in [D -> V]
    <3>1. step[<<f, x>>] \in V
      OBVIOUS
    <3> QED BY <3>1
  <2>5. IsFiniteSet(B) /\ Cardinality(B) = k
    <3>1. Cardinality(B) = Cardinality(C) + 1 /\ IsFiniteSet(B)
      BY <2>1, <2>3, FS_AddElement
    <3> QED BY <2>0, <2>1, <3>1
  <2>6. Closed(B, R, D)
    <3> SUFFICES ASSUME NEW b \in B, NEW y \in D, <<y, b>> \in R PROVE y \in B
      BY DEF Closed
    <3>1. CASE b \in C
      BY <2>1, <3>1 DEF Closed
    <3>2. CASE b = x
      BY <2>3, <3>2
    <3> QED BY <3>1, <3>2
  <2>7. Solves(g, step, B)
    <3>0. x \notin C /\ x \in D /\ \A c \in C : g[c] = f[c]
      BY <2>3
    <3>1. g[x] = step[<<f, x>>]
      BY <3>0
    <3> SUFFICES ASSUME NEW b \in B PROVE g[b] = step[<<g, b>>]
      BY DEF Solves
    <3>2. g[b] = step[<<f, b>>]
      <4>1. CASE b \in C
        <5>1. g[b] = f[b]
          BY <3>0, <4>1
        <5> QED BY <2>1, <4>1, <5>1 DEF Solves
      <4>2. CASE b = x
        BY <3>1, <4>2
      <4> QED BY <4>1, <4>2
    <3>3. \A y \in D : <<y, b>> \in R => f[y] = g[y]
      <4> TAKE y \in D
      <4> HAVE <<y, b>> \in R
      <4>1. y \in C
        <5>1. CASE b \in C
          BY <2>1, <5>1 DEF Closed
        <5>2. CASE b = x
          BY <2>3, <5>2
        <5> QED BY <5>1, <5>2
      <4> QED BY <3>0, <4>1
    <3>4. f \in [D -> V] /\ g \in [D -> V] /\ b \in D
      BY <2>4
    <3> HIDE DEF g
    <3>5. step[<<f, b>>] = step[<<g, b>>]
      BY <3>3, <3>4 DEF Local
    <3> QED BY <3>2, <3>5
  <2> HIDE DEF B, g
  <2>8. Solvable(k, step, R, D, V)
    BY <2>4, <2>5, <2>6, <2>7 DEF Solvable
  <2> QED BY <2>0, <2>8
<1> HIDE DEF K, n
<1>4. n \in K
  <2>1. \A k \in 0..n : k \in K
    BY <1>1, <1>2, <1>3, UpTo
  <2> QED BY <1>1, <2>1
<1>5. PICK C \in SUBSET D, f \in [D -> V] :
        IsFiniteSet(C) /\ Cardinality(C) = n /\ Closed(C, R, D) /\ Solves(f, step, C)
  BY <1>4 DEF K, Solvable
<1>6. C = D
  BY <1>5, FS_Subset DEF n
<1> QED BY <1>5, <1>6

-----------------------------------------------------------------------------
(* The hierarchies of a mesh's faces and of the meshes that are left, from *)
(* which parts and branches are cut.                                       *)

LEMMA SubsetsWellFounded ==
  ASSUME NEW S, IsFiniteSet(S)
  PROVE  WellFoundedOn(StrictSubsetOrdering(S), SUBSET S)
<1> DEFINE R == StrictSubsetOrdering(S)
<1>1. IsWellFoundedOn(R, SUBSET S)
  <2>1. IsWellFoundedOn(R, FiniteSubsetsOf(S))
    BY FS_StrictSubsetOrderingWellFounded
  <2>2. FiniteSubsetsOf(S) = SUBSET S
    BY FS_FiniteSubsetsOfFinite
  <2> QED BY <2>1, <2>2
<1> HIDE DEF R
<1>2. ASSUME NEW F \in SUBSET SUBSET S, F # {}
      PROVE  \E T \in F : \A U \in F : <<U, T>> \notin R
  <2>1. F \subseteq SUBSET S
    OBVIOUS
  <2> QED BY <1>1, <1>2, <2>1, WFMin
<1>3. WellFoundedOn(R, SUBSET S)
  BY <1>2 DEF WellFoundedOn
<1> QED BY <1>3 DEF R

LEMMA BelowInSubsets ==
  ASSUME NEW S, NEW T \in SUBSET S, NEW U \in SUBSET T, U # T
  PROVE  <<U, T>> \in StrictSubsetOrdering(S)
BY DEF StrictSubsetOrdering

Parted(P, S) ==
  /\ UNION P = S /\ {} \notin P
  /\ \A p, q \in P : p # q => p \cap q = {}

LEMMA PartedTogether ==
  ASSUME NEW P, NEW Q, NEW S, NEW T, Parted(P, S), Parted(Q, T), S \cap T = {}
  PROVE  Parted(P \cup Q, S \cup T)
<1>1. UNION (P \cup Q) = S \cup T /\ {} \notin P \cup Q
  BY DEF Parted
<1>2. ASSUME NEW p \in P, NEW q \in Q PROVE p \cap q = {}
  BY DEF Parted
<1>3. ASSUME NEW p \in P \cup Q, NEW q \in P \cup Q, p # q PROVE p \cap q = {}
  BY <1>2, <1>3 DEF Parted
<1> QED BY <1>1, <1>3 DEF Parted

\* What the front of a split mesh may be at a branch with these faces.
GoodFront(r, fs) ==
  /\ Parted(r.parts, UNION r.parts) /\ r.front \cap (UNION r.parts) = {}
  /\ r.front \cup (UNION r.parts) = fs
  /\ NumVertices(r.front) <= MaxVertices
  /\ \A p \in r.parts : NumVertices(p) <= MaxVertices

LEMMA AdvanceIsGood ==
  ASSUME NEW l, NEW r, NEW left, NEW right, GoodFront(l, left), GoodFront(r, right),
         left \cap right = {}
  PROVE  GoodFront(Advance(l, r), left \cup right)
<1> DEFINE both == l.front \cup r.front
           parts == l.parts \cup r.parts
           cut == {l.front, r.front} \ {{}}
<1>0. NumVertices({}) <= MaxVertices
  <2>1. UNION {FaceVertices[f] : f \in {}} = {}
    OBVIOUS
  <2> QED BY <2>1, FS_EmptySet, MeshAssumption DEF NumVertices
<1>1. Parted(parts, UNION parts)
  <2>1. (UNION l.parts) \cap (UNION r.parts) = {}
    BY DEF GoodFront
  <2>2. UNION parts = (UNION l.parts) \cup (UNION r.parts)
    OBVIOUS
  <2> QED BY <2>1, <2>2, PartedTogether DEF GoodFront
<1>2. both \cap (UNION parts) = {} /\ both \cup (UNION parts) = left \cup right
  BY DEF GoodFront
<1>3. \A p \in parts \cup cut : NumVertices(p) <= MaxVertices
  BY DEF GoodFront
<1>4. Parted(cut, both)
  <2>1. l.front \cap r.front = {}
    BY DEF GoodFront
  <2>2. UNION cut = both /\ {} \notin cut
    OBVIOUS
  <2> QED BY <2>1, <2>2 DEF Parted
<1>5. CASE NumVertices(both) <= MaxVertices
  <2>1. Advance(l, r) = [front |-> both, parts |-> parts]
    BY <1>5 DEF Advance
  <2> HIDE DEF both, parts
  <2> QED BY <1>1, <1>2, <1>3, <1>5, <2>1 DEF GoodFront
<1>6. CASE ~ NumVertices(both) <= MaxVertices
  <2>1. Advance(l, r) = [front |-> {}, parts |-> parts \cup cut]
    BY <1>6 DEF Advance
  <2> HIDE DEF both, parts, cut
  <2>2. Parted(parts \cup cut, (UNION parts) \cup both)
    BY <1>1, <1>2, <1>4, PartedTogether
  <2>3. UNION (parts \cup cut) = (UNION parts) \cup both
    BY <2>2 DEF Parted
  <2>4. PICK a : a = Advance(l, r)
    OBVIOUS
  <2>5. a.front = {} /\ a.parts = parts \cup cut
    BY <2>1, <2>4
  <2>6. Parted(a.parts, UNION a.parts) /\ a.front \cap (UNION a.parts) = {}
    BY <2>2, <2>3, <2>5
  <2>7. a.front \cup (UNION a.parts) = left \cup right
    BY <1>2, <2>3, <2>5
  <2>8. NumVertices(a.front) <= MaxVertices /\ \A p \in a.parts : NumVertices(p) <= MaxVertices
    BY <1>0, <1>3, <2>5
  <2>9. GoodFront(a, left \cup right)
    BY <2>6, <2>7, <2>8 DEF GoodFront
  <2> QED BY <2>4, <2>9
<1> QED BY <1>5, <1>6

\* The ways to a branch, from what the function says of those below it.
FrontsAt(f, fs) ==
  (UNION {{Advance(b[1], b[2]) : b \in f[left] \X f[fs \ left]} :
          left \in (SUBSET fs) \ {{}, fs}})
    \cup (IF Cardinality(fs) <= LeafSize THEN {[front |-> fs, parts |-> {}]} ELSE {})

\* What is below a branch leads to r there.
Leads(r, f, fs) ==
  \E left \in (SUBSET fs) \ {{}, fs} :
    \E l \in f[left], q \in f[fs \ left] : r = Advance(l, q)

LEMMA FrontsAtAre ==
  ASSUME NEW f, NEW fs, NEW r
  PROVE  r \in FrontsAt(f, fs) <=>
           \/ Leads(r, f, fs)
           \/ Cardinality(fs) <= LeafSize /\ r = [front |-> fs, parts |-> {}]
<1> DEFINE W == (SUBSET fs) \ {{}, fs}
           at == [left \in W |-> {Advance(b[1], b[2]) : b \in f[left] \X f[fs \ left]}]
           ways == {at[left] : left \in W}
<1>1. \A left \in W : r \in at[left] <=> \E l \in f[left], q \in f[fs \ left] : r = Advance(l, q)
  <2> TAKE left \in W
  <2>1. r \in at[left] <=> \E b \in f[left] \X f[fs \ left] : r = Advance(b[1], b[2])
    OBVIOUS
  <2>2. \A X, Y : \A b \in X \X Y : b[1] \in X /\ b[2] \in Y
    OBVIOUS
  <2>4. ASSUME NEW b \in f[left] \X f[fs \ left], r = Advance(b[1], b[2])
        PROVE  \E l \in f[left], q \in f[fs \ left] : r = Advance(l, q)
    BY <2>2, <2>4
  <2>5. ASSUME NEW l \in f[left], NEW q \in f[fs \ left], r = Advance(l, q)
        PROVE  \E b \in f[left] \X f[fs \ left] : r = Advance(b[1], b[2])
    <3>1. PICK b : b = <<l, q>>
      OBVIOUS
    <3>2. b \in f[left] \X f[fs \ left] /\ b[1] = l /\ b[2] = q
      BY <3>1
    <3> QED BY <2>5, <3>2
  <2> HIDE DEF at
  <2> QED BY <2>1, <2>4, <2>5
<1>2. FrontsAt(f, fs) = (UNION ways)
          \cup (IF Cardinality(fs) <= LeafSize THEN {[front |-> fs, parts |-> {}]} ELSE {})
  <2>1. ways = {{Advance(b[1], b[2]) : b \in f[left] \X f[fs \ left]} : left \in W}
    OBVIOUS
  <2> HIDE DEF ways
  <2> QED BY <2>1 DEF FrontsAt
<1>3. r \in UNION ways <=> Leads(r, f, fs)
  <2>1. Leads(r, f, fs) <=>
          \E left \in W : \E l \in f[left], q \in f[fs \ left] : r = Advance(l, q)
    BY DEF Leads
  <2> HIDE DEF W, at
  <2> QED BY <1>1, <2>1
<1> HIDE DEF ways
<1> QED BY <1>2, <1>3

LEMMA FrontsExist ==
  ASSUME NEW S, IsFiniteSet(S)
  PROVE  \E f : f = [fs \in SUBSET S |-> FrontsAt(f, fs)]
<1> DEFINE R == StrictSubsetOrdering(S)
           Fronts == [front : SUBSET S, parts : SUBSET SUBSET S]
           D == SUBSET S
           V == SUBSET Fronts
           step == [q \in [D -> V] \X D |-> FrontsAt(q[1], q[2])]
<1>1. IsFiniteSet(D) /\ WellFoundedOn(R, D)
  BY FS_SUBSET, SubsetsWellFounded
<1>2. ASSUME NEW f \in [D -> V], NEW fs \in D PROVE FrontsAt(f, fs) \in V
  <2>1. ASSUME NEW left \in (SUBSET fs) \ {{}, fs}, NEW l \in f[left], NEW r \in f[fs \ left]
        PROVE  Advance(l, r) \in Fronts
    <3>1. left \in D /\ fs \ left \in D
      OBVIOUS
    <3>2. l \in Fronts /\ r \in Fronts
      BY <3>1
    <3>3. l.front \in SUBSET S /\ r.front \in SUBSET S
          /\ l.parts \in SUBSET SUBSET S /\ r.parts \in SUBSET SUBSET S
      BY <3>2
    <3> HIDE DEF D, V, Fronts
    <3> DEFINE both == l.front \cup r.front
               parts == l.parts \cup r.parts
               all == parts \cup ({l.front, r.front} \ {{}})
    <3>4. both \in SUBSET S /\ parts \in SUBSET SUBSET S /\ all \in SUBSET SUBSET S
      BY <3>3
    <3>5. Advance(l, r) = IF NumVertices(both) <= MaxVertices THEN [front |-> both, parts |-> parts]
                          ELSE [front |-> {}, parts |-> all]
      BY DEF Advance
    <3> HIDE DEF both, parts, all
    <3> QED BY <3>4, <3>5 DEF Fronts
  <2>2. [front |-> fs, parts |-> {}] \in Fronts
    OBVIOUS
  <2>3. ASSUME NEW r \in FrontsAt(f, fs) PROVE r \in Fronts
    <3> HIDE DEF Fronts
    <3>1. Leads(r, f, fs) => r \in Fronts
      BY <2>1 DEF Leads
    <3> QED BY <2>2, <3>1, FrontsAtAre
  <2> HIDE DEF Fronts
  <2> QED BY <2>3
<1>3. ASSUME NEW f \in [D -> V], NEW g \in [D -> V], NEW fs \in D,
             \A y \in D : <<y, fs>> \in R => f[y] = g[y]
      PROVE  FrontsAt(f, fs) = FrontsAt(g, fs)
  <2>1. ASSUME NEW left \in (SUBSET fs) \ {{}, fs}
        PROVE  f[left] = g[left] /\ f[fs \ left] = g[fs \ left]
    <3>1. left \in D /\ fs \ left \in D /\ fs \ left # fs /\ left # fs
      OBVIOUS
    <3>2. <<left, fs>> \in R /\ <<fs \ left, fs>> \in R
      BY <3>1, BelowInSubsets
    <3> QED BY <1>3, <3>1, <3>2
  <2> HIDE DEF D, V, R
  <2>2. \A r : Leads(r, f, fs) <=> Leads(r, g, fs)
    BY <2>1 DEF Leads
  <2>3. \A r : r \in FrontsAt(f, fs) <=> r \in FrontsAt(g, fs)
    BY <2>2, FrontsAtAre
  <2>4. \A A, B : (\A r : r \in A <=> r \in B) => A = B
    OBVIOUS
  <2> QED BY <2>3
<1> HIDE DEF Fronts, R, V
<1>4. V # {}
  BY DEF V
<1>5. step \in [[D -> V] \X D -> V] /\ \A f \in [D -> V], x \in D : step[<<f, x>>] = FrontsAt(f, x)
  BY <1>2
<1> HIDE DEF step, D
<1>6. Local(step, R, D, V)
  <2> SUFFICES ASSUME NEW f \in [D -> V], NEW g \in [D -> V], NEW x \in D,
                      \A y \in D : <<y, x>> \in R => f[y] = g[y]
               PROVE  step[<<f, x>>] = step[<<g, x>>]
    BY DEF Local
  <2>1. FrontsAt(f, x) = FrontsAt(g, x)
    BY <1>3
  <2> QED BY <1>5, <2>1
<1>7. PICK f \in [D -> V] : Solves(f, step, D)
  BY <1>1, <1>4, <1>5, <1>6, RecursionExists
<1>8. \A x \in D : f[x] = FrontsAt(f, x)
  BY <1>5, <1>7 DEF Solves
<1>9. f = [fs \in D |-> FrontsAt(f, fs)]
  BY <1>8
<1> QED BY <1>9 DEF D

LEMMA SplitsAreGood ==
  ASSUME NEW m \in Meshes, NEW parts \in Splits(m)
  PROVE  Parted(parts, MeshFaces[m]) /\ \A p \in parts : NumVertices(p) <= MaxVertices
<1> DEFINE S == MeshFaces[m]
<1>1. IsFiniteSet(S) /\ \A fs \in SUBSET S : Cardinality(fs) <= LeafSize => NumVertices(fs) <= MaxVertices
  BY MeshAssumption
<1>2. PICK f : /\ f = [fs \in SUBSET S |-> FrontsAt(f, fs)]
               /\ \E r \in f[S] : parts = r.parts \cup ({r.front} \ {{}})
  <2>1. Splits(m) = {r.parts \cup ({r.front} \ {{}}) :
                      r \in (CHOOSE f : f = [fs \in SUBSET S |-> FrontsAt(f, fs)])[S]}
    BY Zenon DEF Splits, FrontsAt
  <2> HIDE DEF S
  <2>2. \E f : f = [fs \in SUBSET S |-> FrontsAt(f, fs)]
    BY <1>1, FrontsExist
  <2> DEFINE h == CHOOSE f : f = [fs \in SUBSET S |-> FrontsAt(f, fs)]
  <2>3. h = [fs \in SUBSET S |-> FrontsAt(h, fs)]
    BY <2>2
  <2>4. \E r \in h[S] : parts = r.parts \cup ({r.front} \ {{}})
    BY <2>1
  <2> QED BY <2>3, <2>4
<1> HIDE DEF S
<1> DEFINE G == {fs \in SUBSET S : \A r \in f[fs] : GoodFront(r, fs)}
<1>3. ASSUME NEW fs \in SUBSET S,
             \A y \in SUBSET S : <<y, fs>> \in StrictSubsetOrdering(S) => y \in G
      PROVE  fs \in G
  <2> SUFFICES ASSUME NEW r \in f[fs] PROVE GoodFront(r, fs)
    OBVIOUS
  <2>1. f[fs] = FrontsAt(f, fs)
    BY <1>2
  <2>2. ASSUME NEW left \in (SUBSET fs) \ {{}, fs}, NEW l \in f[left], NEW q \in f[fs \ left]
        PROVE  GoodFront(Advance(l, q), fs)
    <3>1. left \in SUBSET S /\ fs \ left \in SUBSET S /\ fs \ left # fs /\ left # fs
      OBVIOUS
    <3>2. left \in G /\ fs \ left \in G
      BY <1>3, <3>1, BelowInSubsets
    <3>3. GoodFront(l, left) /\ GoodFront(q, fs \ left)
      BY <3>2
    <3>4. left \cap (fs \ left) = {} /\ left \cup (fs \ left) = fs
      OBVIOUS
    <3>5. GoodFront(Advance(l, q), left \cup (fs \ left))
      BY <3>3, <3>4, AdvanceIsGood
    <3> QED BY <3>4, <3>5
  <2>3. CASE r = [front |-> fs, parts |-> {}] /\ Cardinality(fs) <= LeafSize
    <3>1. r.front = fs /\ r.parts = {} /\ UNION {} = {}
      BY <2>3
    <3>2. NumVertices(fs) <= MaxVertices
      BY <1>1, <2>3
    <3> QED BY <3>1, <3>2 DEF GoodFront, Parted
  <2> HIDE DEF G
  <2>4. Leads(r, f, fs) => GoodFront(r, fs)
    BY <2>2 DEF Leads
  <2>5. r \in FrontsAt(f, fs)
    BY <2>1
  <2> QED BY <2>3, <2>4, <2>5, FrontsAtAre
<1>4. SUBSET S \subseteq G
  <2>1. WellFoundedOn(StrictSubsetOrdering(S), SUBSET S)
    BY <1>1, SubsetsWellFounded
  <2> HIDE DEF G
  <2> QED BY <1>3, <2>1, BelowFirst
<1>5. PICK r \in f[S] : parts = r.parts \cup ({r.front} \ {{}})
  BY <1>2
<1>6. GoodFront(r, S)
  BY <1>4, <1>5
<1> HIDE DEF G
<1>7. Parted({r.front} \ {{}}, r.front)
  BY DEF Parted
<1>8. Parted(parts, (UNION r.parts) \cup r.front)
  BY <1>5, <1>6, <1>7, PartedTogether DEF GoodFront
<1> QED BY <1>5, <1>6, <1>8 DEF GoodFront, S

\* The same for the hierarchy of the meshes.
BelowAt(f, ms) ==
  UNION {{b[1] \cup b[2] : b \in f[left] \X f[ms \ left]} : left \in (SUBSET ms) \ {{}, ms}}

Joins(cs, f, ms) ==
  \E left \in (SUBSET ms) \ {{}, ms} :
    \E l \in f[left], r \in f[ms \ left] : cs = l \cup r

LEMMA BelowAtAre ==
  ASSUME NEW f, NEW ms, NEW cs
  PROVE  cs \in BelowAt(f, ms) <=> Joins(cs, f, ms)
<1> DEFINE W == (SUBSET ms) \ {{}, ms}
           at == [left \in W |-> {b[1] \cup b[2] : b \in f[left] \X f[ms \ left]}]
           ways == {at[left] : left \in W}
<1>1. ASSUME NEW left \in W
      PROVE  cs \in at[left] <=> \E l \in f[left], r \in f[ms \ left] : cs = l \cup r
  <2>1. cs \in at[left] <=> \E b \in f[left] \X f[ms \ left] : cs = b[1] \cup b[2]
    OBVIOUS
  <2>2. \A X, Y : \A b \in X \X Y : b[1] \in X /\ b[2] \in Y
    OBVIOUS
  <2>3. ASSUME NEW b \in f[left] \X f[ms \ left], cs = b[1] \cup b[2]
        PROVE  \E l \in f[left], r \in f[ms \ left] : cs = l \cup r
    BY <2>2, <2>3
  <2>4. ASSUME NEW l \in f[left], NEW r \in f[ms \ left], cs = l \cup r
        PROVE  \E b \in f[left] \X f[ms \ left] : cs = b[1] \cup b[2]
    <3>1. PICK b : b = <<l, r>>
      OBVIOUS
    <3>2. b \in f[left] \X f[ms \ left] /\ b[1] = l /\ b[2] = r
      BY <3>1
    <3> QED BY <2>4, <3>2
  <2> HIDE DEF at
  <2> QED BY <2>1, <2>3, <2>4
<1>2. BelowAt(f, ms) = UNION ways
  <2>1. ways = {{b[1] \cup b[2] : b \in f[left] \X f[ms \ left]} : left \in W}
    OBVIOUS
  <2> HIDE DEF ways
  <2> QED BY <2>1 DEF BelowAt
<1>3. cs \in UNION ways <=> Joins(cs, f, ms)
  <2>1. Joins(cs, f, ms) <=>
          \E left \in W : \E l \in f[left], r \in f[ms \ left] : cs = l \cup r
    BY DEF Joins
  <2> HIDE DEF W, at
  <2> QED BY <1>1, <2>1
<1> HIDE DEF ways
<1> QED BY <1>2, <1>3

BranchesAt(f, ms) ==
  IF Cardinality(ms) = 1 \/ NumVertices(FacesOf(ms)) < MaxVertices THEN {{ms}}
  ELSE IF Cardinality(ms) <= LeafSize THEN {{ms}} \cup BelowAt(f, ms)
  ELSE BelowAt(f, ms)

LEMMA BranchesExist ==
  ASSUME NEW S, IsFiniteSet(S)
  PROVE  \E f : f = [ms \in SUBSET S |-> BranchesAt(f, ms)]
<1> DEFINE R == StrictSubsetOrdering(S)
           D == SUBSET S
           V == SUBSET SUBSET SUBSET S
           step == [q \in [D -> V] \X D |-> BranchesAt(q[1], q[2])]
<1>1. IsFiniteSet(D) /\ WellFoundedOn(R, D)
  BY FS_SUBSET, SubsetsWellFounded
<1>2. ASSUME NEW f \in [D -> V], NEW ms \in D PROVE BranchesAt(f, ms) \in V
  <2>1. ASSUME NEW left \in (SUBSET ms) \ {{}, ms}, NEW l \in f[left], NEW r \in f[ms \ left]
        PROVE  l \cup r \in SUBSET SUBSET S
    <3>1. left \in D /\ ms \ left \in D
      OBVIOUS
    <3>2. l \in SUBSET SUBSET S /\ r \in SUBSET SUBSET S
      BY <3>1
    <3> QED BY <3>2
  <2>2. \A cs : Joins(cs, f, ms) => cs \in SUBSET SUBSET S
    BY <2>1 DEF Joins
  <2>3. BelowAt(f, ms) \in V
    BY <2>2, BelowAtAre
  <2>4. {{ms}} \in V
    OBVIOUS
  <2> QED BY <2>3, <2>4 DEF BranchesAt
<1>3. ASSUME NEW f \in [D -> V], NEW g \in [D -> V], NEW ms \in D,
             \A y \in D : <<y, ms>> \in R => f[y] = g[y]
      PROVE  BranchesAt(f, ms) = BranchesAt(g, ms)
  <2>1. ASSUME NEW left \in (SUBSET ms) \ {{}, ms}
        PROVE  f[left] = g[left] /\ f[ms \ left] = g[ms \ left]
    <3>1. left \in D /\ ms \ left \in D /\ ms \ left # ms /\ left # ms
      OBVIOUS
    <3>2. <<left, ms>> \in R /\ <<ms \ left, ms>> \in R
      BY <3>1, BelowInSubsets
    <3> QED BY <1>3, <3>1, <3>2
  <2> HIDE DEF D, V, R
  <2>2. \A cs : Joins(cs, f, ms) <=> Joins(cs, g, ms)
    BY <2>1 DEF Joins
  <2>3. \A cs : cs \in BelowAt(f, ms) <=> cs \in BelowAt(g, ms)
    BY <2>2, BelowAtAre
  <2>4. BelowAt(f, ms) = BelowAt(g, ms)
    BY <2>3
  <2> QED BY <2>4 DEF BranchesAt
<1> HIDE DEF R, V
<1>4. V # {}
  BY DEF V
<1>5. step \in [[D -> V] \X D -> V] /\ \A f \in [D -> V], x \in D : step[<<f, x>>] = BranchesAt(f, x)
  BY <1>2
<1> HIDE DEF step, D
<1>6. Local(step, R, D, V)
  <2> SUFFICES ASSUME NEW f \in [D -> V], NEW g \in [D -> V], NEW x \in D,
                      \A y \in D : <<y, x>> \in R => f[y] = g[y]
               PROVE  step[<<f, x>>] = step[<<g, x>>]
    BY DEF Local
  <2>1. BranchesAt(f, x) = BranchesAt(g, x)
    BY <1>3
  <2> QED BY <1>5, <2>1
<1>7. PICK f \in [D -> V] : Solves(f, step, D)
  BY <1>1, <1>4, <1>5, <1>6, RecursionExists
<1>8. \A x \in D : f[x] = BranchesAt(f, x)
  BY <1>5, <1>7 DEF Solves
<1>9. f = [ms \in D |-> BranchesAt(f, ms)]
  BY <1>8
<1> QED BY <1>9 DEF D

LEMMA BranchesArePart ==
  ASSUME NEW S, IsFiniteSet(S), NEW branches \in BranchClusters(S)
  PROVE  Parted(branches, S)
<1>1. CASE S = {}
  <2>1. branches = {} /\ UNION {} = {}
    BY <1>1 DEF BranchClusters
  <2> QED BY <1>1, <2>1 DEF Parted
<1>2. CASE S # {}
  <2>1. PICK f : f = [ms \in SUBSET S |-> BranchesAt(f, ms)] /\ branches \in f[S]
    <3>1. BranchClusters(S) = (CHOOSE f : f = [ms \in SUBSET S |-> BranchesAt(f, ms)])[S]
      BY <1>2, Zenon DEF BranchClusters, BranchesAt, BelowAt
    <3>2. \E f : f = [fs \in SUBSET S |-> BranchesAt(f, fs)]
      BY BranchesExist
    <3> DEFINE h == CHOOSE f : f = [fs \in SUBSET S |-> BranchesAt(f, fs)]
    <3>3. h = [fs \in SUBSET S |-> BranchesAt(h, fs)]
      BY <3>2
    <3>4. branches \in h[S]
      BY <3>1
    <3> HIDE DEF h
    <3> QED BY <3>3, <3>4
  <2> DEFINE G == {ms \in SUBSET S : ms # {} => \A cs \in f[ms] : Parted(cs, ms)}
  <2>2. ASSUME NEW ms \in SUBSET S,
               \A y \in SUBSET S : <<y, ms>> \in StrictSubsetOrdering(S) => y \in G
        PROVE  ms \in G
    <3> SUFFICES ASSUME ms # {}, NEW cs \in f[ms] PROVE Parted(cs, ms)
      OBVIOUS
    <3>1. f[ms] = BranchesAt(f, ms)
      BY <2>1
    <3>2. ASSUME NEW left \in (SUBSET ms) \ {{}, ms}, NEW l \in f[left], NEW r \in f[ms \ left]
          PROVE  Parted(l \cup r, ms)
      <4>1. /\ left \in SUBSET S /\ ms \ left \in SUBSET S /\ ms \ left # ms /\ left # ms
            /\ left # {} /\ ms \ left # {}
        OBVIOUS
      <4>2. left \in G /\ ms \ left \in G
        BY <2>2, <4>1, BelowInSubsets
      <4>3. Parted(l, left) /\ Parted(r, ms \ left)
        BY <4>1, <4>2
      <4>4. left \cap (ms \ left) = {} /\ left \cup (ms \ left) = ms
        OBVIOUS
      <4>5. Parted(l \cup r, left \cup (ms \ left))
        BY <4>3, <4>4, PartedTogether
      <4> QED BY <4>4, <4>5
    <3>3. Parted({ms}, ms)
      BY DEF Parted
    <3> HIDE DEF G
    <3>4. Joins(cs, f, ms) => Parted(cs, ms)
      BY <3>2 DEF Joins
    <3>5. cs = {ms} \/ cs \in BelowAt(f, ms)
      BY <3>1 DEF BranchesAt
    <3> QED BY <3>3, <3>4, <3>5, BelowAtAre
  <2>3. SUBSET S \subseteq G
    <3>1. WellFoundedOn(StrictSubsetOrdering(S), SUBSET S)
      BY SubsetsWellFounded
    <3> HIDE DEF G
    <3> QED BY <2>2, <3>1, BelowFirst
  <2>4. S \in G
    BY <2>3
  <2> QED BY <1>2, <2>1, <2>4
<1> QED BY <1>1, <1>2

-----------------------------------------------------------------------------
(* What the folds of clustering return.                                    *)

NoRepeats(s) == \A i, j \in DOMAIN s : s[i] = s[j] => i = j

LEMMA AppendElements ==
  ASSUME NEW T, NEW s \in Seq(T), NEW x \in T
  PROVE  /\ Append(s, x) \in Seq(T) /\ Len(Append(s, x)) = Len(s) + 1
         /\ ToSet(Append(s, x)) = ToSet(s) \cup {x}
         /\ NoRepeats(s) /\ x \notin ToSet(s) => NoRepeats(Append(s, x))
<1> DEFINE a == Append(s, x)
           n == Len(s)
<1>1. n \in Nat /\ DOMAIN s = 1..n /\ a \in Seq(T) /\ Len(a) = n + 1 /\ DOMAIN a = 1..(n + 1)
  OBVIOUS
<1>2. a[n + 1] = x /\ \A i \in 1..n : a[i] = s[i]
  OBVIOUS
<1> HIDE DEF a, n
<1>3. \A y : y \in ToSet(a) <=> \E i \in 1..(n + 1) : y = a[i]
  BY <1>1 DEF ToSet
<1>4. \A y : y \in ToSet(s) <=> \E i \in 1..n : y = s[i]
  BY <1>1 DEF ToSet
<1>5. \A i \in 1..(n + 1) : i = n + 1 \/ i \in 1..n
  BY <1>1
<1>6. \A i \in 1..n : i \in 1..(n + 1)
  BY <1>1
<1>7. n + 1 \in 1..(n + 1)
  BY <1>1
<1>8. ToSet(a) = ToSet(s) \cup {x}
  <2>1. ASSUME NEW y \in ToSet(a) PROVE y \in ToSet(s) \cup {x}
    BY <1>2, <1>3, <1>4, <1>5
  <2>2. ASSUME NEW y \in ToSet(s) \cup {x} PROVE y \in ToSet(a)
    BY <1>2, <1>3, <1>4, <1>6, <1>7
  <2> QED BY <2>1, <2>2
<1>9. ASSUME NoRepeats(s), x \notin ToSet(s) PROVE NoRepeats(a)
  <2> SUFFICES ASSUME NEW i \in 1..(n + 1), NEW j \in 1..(n + 1), a[i] = a[j] PROVE i = j
    BY <1>1 DEF NoRepeats
  <2>1. \A k \in 1..n : s[k] # x
    BY <1>4, <1>9
  <2>2. CASE i \in 1..n /\ j \in 1..n
    BY <1>1, <1>2, <1>9, <2>2 DEF NoRepeats
  <2> QED BY <1>2, <1>5, <2>1, <2>2
<1> QED BY <1>1, <1>8, <1>9 DEF a, n

LEMMA NothingInEmpty ==
  ToSet(<<>>) = {} /\ NoRepeats(<<>>) /\ \A T : <<>> \in Seq(T)
BY DEF ToSet, NoRepeats

\* The elements of the first k places.
UpToPlace(s, k) == {s[i] : i \in 1..k}

LEMMA NextPlace ==
  ASSUME NEW T, NEW s \in Seq(T), NEW k \in 1..Len(s)
  PROVE  /\ UpToPlace(s, k) = UpToPlace(s, k - 1) \cup {s[k]} /\ s[k] \in T
         /\ NoRepeats(s) => s[k] \notin UpToPlace(s, k - 1)
<1>1. k \in DOMAIN s /\ \A i \in 1..(k - 1) : i \in DOMAIN s /\ i # k
  OBVIOUS
<1>2. \A i : i \in 1..k <=> i \in 1..(k - 1) \/ i = k
  OBVIOUS
<1>3. \A y : y \in UpToPlace(s, k) <=> \E i \in 1..k : y = s[i]
  BY DEF UpToPlace
<1>4. \A y : y \in UpToPlace(s, k - 1) <=> \E i \in 1..(k - 1) : y = s[i]
  BY DEF UpToPlace
<1>5. UpToPlace(s, k) = UpToPlace(s, k - 1) \cup {s[k]}
  <2>1. ASSUME NEW y \in UpToPlace(s, k) PROVE y \in UpToPlace(s, k - 1) \cup {s[k]}
    BY <1>2, <1>3, <1>4
  <2>2. ASSUME NEW y \in UpToPlace(s, k - 1) \cup {s[k]} PROVE y \in UpToPlace(s, k)
    BY <1>2, <1>3, <1>4
  <2> QED BY <2>1, <2>2
<1> QED BY <1>1, <1>4, <1>5 DEF NoRepeats

LEMMA Places ==
  ASSUME NEW T, NEW s \in Seq(T)
  PROVE  UpToPlace(s, 0) = {} /\ UpToPlace(s, Len(s)) = ToSet(s)
<1>1. DOMAIN s = 1..Len(s) /\ 1..0 = {}
  OBVIOUS
<1> QED BY <1>1 DEF UpToPlace, ToSet

LEMMA OnlyInIs ==
  ASSUME NEW T, NEW s \in Seq(T), NEW I
  PROVE  /\ OnlyIn(s, I) \in Seq(T) /\ ToSet(OnlyIn(s, I)) = ToSet(s) \cap I
         /\ NoRepeats(s) => NoRepeats(OnlyIn(s, I))
<1> DEFINE n == Len(s)
<1>0. n \in Nat
  OBVIOUS
<1>1. PICK p \in [0..n -> Seq(T)] :
        /\ p[0] = <<>> /\ OnlyIn(s, I) = p[n]
        /\ \A k \in 1..n : p[k] = Add(p[k - 1], s[k], I)
  <2>1. <<>> \in Seq(T) /\ \A a \in Seq(T), x \in T : Add(a, x, I) \in Seq(T)
    BY DEF Add
  <2>2. OnlyTo(Seq(T), s, I)
    BY <2>1, OnlyInTurn
  <2> QED BY <2>2 DEF OnlyTo
<1> DEFINE K == {k \in 0..n : /\ ToSet(p[k]) = UpToPlace(s, k) \cap I
                              /\ NoRepeats(s) => NoRepeats(p[k])}
<1>2. 0 \in K
  BY <1>0, <1>1, NothingInEmpty, Places
<1>3. ASSUME NEW k \in 1..n, k - 1 \in K PROVE k \in K
  <2>1. /\ UpToPlace(s, k) = UpToPlace(s, k - 1) \cup {s[k]} /\ s[k] \in T
        /\ NoRepeats(s) => s[k] \notin UpToPlace(s, k - 1)
    BY NextPlace
  <2>2. /\ ToSet(p[k - 1]) = UpToPlace(s, k - 1) \cap I
        /\ NoRepeats(s) => NoRepeats(p[k - 1])
    BY <1>3
  <2>3. p[k - 1] \in Seq(T) /\ p[k] = Add(p[k - 1], s[k], I) /\ k \in 0..n
    <3>1. k - 1 \in 0..n /\ k \in 0..n
      BY <1>0
    <3> QED BY <1>1, <3>1
  <2> HIDE DEF n
  <2>4. CASE s[k] \in I
    <3>1. p[k] = Append(p[k - 1], s[k])
      BY <2>3, <2>4 DEF Add
    <3>2. /\ ToSet(p[k]) = ToSet(p[k - 1]) \cup {s[k]}
          /\ NoRepeats(p[k - 1]) /\ s[k] \notin ToSet(p[k - 1]) => NoRepeats(p[k])
      BY <2>1, <2>3, <3>1, AppendElements
    <3> QED BY <2>1, <2>2, <2>3, <2>4, <3>2
  <2>5. CASE s[k] \notin I
    <3>1. p[k] = p[k - 1]
      BY <2>3, <2>5 DEF Add
    <3> QED BY <2>1, <2>2, <2>3, <2>5, <3>1
  <2> QED BY <2>4, <2>5
<1> HIDE DEF K
<1>4. n \in K
  <2> HIDE DEF n
  <2>1. \A k \in 0..n : k \in K
    BY <1>0, <1>2, <1>3, UpTo
  <2> QED BY <1>0, <2>1
<1>5. ToSet(p[n]) = UpToPlace(s, n) \cap I /\ NoRepeats(s) => NoRepeats(p[n])
  BY <1>4 DEF K
<1> QED BY <1>0, <1>1, <1>4, <1>5, Places DEF K

Dealt(cs) == UNION {ToSet(c) : c \in ToSet(cs)}

\* The clusters have each mesh of S once, and no others.
Deals(cs, S) ==
  /\ cs \in Seq(Seq(Meshes)) /\ NoRepeats(cs) /\ Dealt(cs) = S
  /\ \A c \in ToSet(cs) : c # <<>> /\ NoRepeats(c)
  /\ \A c, d \in ToSet(cs) : c # d => ToSet(c) \cap ToSet(d) = {}

\* The same with one that is not full yet.
Dealing(cs, bin, S) ==
  /\ Deals(cs, S \ ToSet(bin))
  /\ bin \in Seq(Meshes) /\ NoRepeats(bin) /\ ToSet(bin) \subseteq S

LEMMA NotEmpty ==
  ASSUME NEW T, NEW s \in Seq(T)
  PROVE  ToSet(s) \subseteq T /\ (s # <<>> => ToSet(s) # {})
<1>1. \A i \in DOMAIN s : s[i] \in T
  OBVIOUS
<1>2. s # <<>> => 1 \in DOMAIN s
  OBVIOUS
<1> QED BY <1>1, <1>2 DEF ToSet

LEMMA DealtAre ==
  ASSUME NEW cs, NEW x
  PROVE  x \in Dealt(cs) <=> \E c \in ToSet(cs) : x \in ToSet(c)
BY DEF Dealt

LEMMA DealNone ==
  Deals(<<>>, {}) /\ Dealing(<<>>, <<>>, {})
<1>1. Dealt(<<>>) = {}
  BY NothingInEmpty, DealtAre
<1>2. Deals(<<>>, {})
  BY <1>1, NothingInEmpty DEF Deals
<1> QED BY <1>2, NothingInEmpty DEF Dealing

LEMMA DealOne ==
  ASSUME NEW cs, NEW bin, NEW S, Dealing(cs, bin, S), NEW m \in Meshes, m \notin S
  PROVE  Dealing(cs, Append(bin, m), S \cup {m})
<1>1. bin \in Seq(Meshes) /\ NoRepeats(bin) /\ ToSet(bin) \subseteq S
  BY DEF Dealing
<1>2. /\ Append(bin, m) \in Seq(Meshes) /\ NoRepeats(Append(bin, m))
      /\ ToSet(Append(bin, m)) = ToSet(bin) \cup {m}
  <2>1. m \notin ToSet(bin)
    BY <1>1
  <2> QED BY <1>1, <2>1, AppendElements
<1>3. (S \cup {m}) \ ToSet(Append(bin, m)) = S \ ToSet(bin)
  BY <1>2
<1> QED BY <1>1, <1>2, <1>3 DEF Dealing

LEMMA DealFull ==
  ASSUME NEW cs, NEW bin, NEW S, Dealing(cs, bin, S), bin # <<>>
  PROVE  Deals(Append(cs, bin), S) /\ Dealing(Append(cs, bin), <<>>, S)
<1>1. bin \in Seq(Meshes) /\ NoRepeats(bin) /\ ToSet(bin) \subseteq S /\ Deals(cs, S \ ToSet(bin))
  BY DEF Dealing
<1>2. cs \in Seq(Seq(Meshes)) /\ NoRepeats(cs) /\ Dealt(cs) = S \ ToSet(bin)
  BY <1>1 DEF Deals
<1>3. \A c \in ToSet(cs) : ToSet(c) \cap ToSet(bin) = {}
  BY <1>2, DealtAre
<1>4. ToSet(bin) # {}
  BY <1>1, NotEmpty
<1>5. bin \notin ToSet(cs)
  BY <1>3, <1>4
<1>6. /\ Append(cs, bin) \in Seq(Seq(Meshes)) /\ NoRepeats(Append(cs, bin))
      /\ ToSet(Append(cs, bin)) = ToSet(cs) \cup {bin}
  BY <1>1, <1>2, <1>5, AppendElements
<1>7. Dealt(Append(cs, bin)) = S
  <2>1. \A x : x \in Dealt(Append(cs, bin)) <=> x \in Dealt(cs) \/ x \in ToSet(bin)
    BY <1>6, DealtAre
  <2> QED BY <1>1, <1>2, <2>1
<1>8. Deals(Append(cs, bin), S)
  BY <1>1, <1>3, <1>6, <1>7 DEF Deals
<1>9. S \ ToSet(<<>>) = S /\ ToSet(<<>>) \subseteq S
  BY NothingInEmpty
<1> QED BY <1>8, <1>9, NothingInEmpty DEF Dealing

LEMMA Joined ==
  ASSUME NEW T, NEW s \in Seq(T), NEW t \in Seq(T)
  PROVE  /\ s \o t \in Seq(T) /\ ToSet(s \o t) = ToSet(s) \cup ToSet(t)
         /\ NoRepeats(s) /\ NoRepeats(t) /\ ToSet(s) \cap ToSet(t) = {} => NoRepeats(s \o t)
<1> DEFINE u == s \o t
           n == Len(s)
           k == Len(t)
<1>1. n \in Nat /\ k \in Nat /\ DOMAIN s = 1..n /\ DOMAIN t = 1..k /\ u \in Seq(T) /\ DOMAIN u = 1..(n + k)
  OBVIOUS
<1>2. \A i \in 1..(n + k) : u[i] = IF i <= n THEN s[i] ELSE t[i - n]
  OBVIOUS
<1> HIDE DEF u, n, k
<1>3. \A y : y \in ToSet(u) <=> \E i \in 1..(n + k) : y = u[i]
  BY <1>1 DEF ToSet
<1>4. \A y : y \in ToSet(s) <=> \E i \in 1..n : y = s[i]
  BY <1>1 DEF ToSet
<1>5. \A y : y \in ToSet(t) <=> \E i \in 1..k : y = t[i]
  BY <1>1 DEF ToSet
<1>6. ASSUME NEW i \in 1..(n + k)
      PROVE  (i \in 1..n /\ u[i] = s[i]) \/ (i - n \in 1..k /\ i > n /\ u[i] = t[i - n])
  BY <1>1, <1>2
<1>7. ASSUME NEW i \in 1..n PROVE i \in 1..(n + k) /\ u[i] = s[i]
  BY <1>1, <1>2
<1>8. ASSUME NEW i \in 1..k PROVE n + i \in 1..(n + k) /\ u[n + i] = t[i]
  <2>1. n + i \in 1..(n + k) /\ ~ (n + i <= n) /\ (n + i) - n = i
    BY <1>1
  <2> QED BY <1>2, <2>1
<1>9. ToSet(u) = ToSet(s) \cup ToSet(t)
  <2>1. ASSUME NEW y \in ToSet(u) PROVE y \in ToSet(s) \cup ToSet(t)
    BY <1>3, <1>4, <1>5, <1>6
  <2>2. ASSUME NEW y \in ToSet(s) PROVE y \in ToSet(u)
    BY <1>3, <1>4, <1>7
  <2>3. ASSUME NEW y \in ToSet(t) PROVE y \in ToSet(u)
    BY <1>3, <1>5, <1>8
  <2> QED BY <2>1, <2>2, <2>3
<1>10. ASSUME NoRepeats(s), NoRepeats(t), ToSet(s) \cap ToSet(t) = {} PROVE NoRepeats(u)
  <2> SUFFICES ASSUME NEW i \in 1..(n + k), NEW j \in 1..(n + k), u[i] = u[j] PROVE i = j
    BY <1>1 DEF NoRepeats
  <2>1. CASE i \in 1..n /\ u[i] = s[i] /\ j \in 1..n /\ u[j] = s[j]
    BY <1>1, <1>10, <2>1 DEF NoRepeats
  <2>2. CASE i - n \in 1..k /\ u[i] = t[i - n] /\ j - n \in 1..k /\ u[j] = t[j - n]
    <3>1. i - n = j - n
      BY <1>1, <1>10, <2>2 DEF NoRepeats
    <3> QED BY <1>1, <3>1
  <2>3. CASE i \in 1..n /\ u[i] = s[i] /\ j - n \in 1..k /\ u[j] = t[j - n]
    <3>1. u[i] \in ToSet(s) /\ u[j] \in ToSet(t)
      BY <1>4, <1>5, <2>3
    <3> QED BY <1>10, <3>1
  <2>4. CASE i - n \in 1..k /\ u[i] = t[i - n] /\ j \in 1..n /\ u[j] = s[j]
    <3>1. u[j] \in ToSet(s) /\ u[i] \in ToSet(t)
      BY <1>4, <1>5, <2>4
    <3> QED BY <1>10, <3>1
  <2> QED BY <1>6, <2>1, <2>2, <2>3, <2>4
<1> QED BY <1>1, <1>9, <1>10 DEF u

LEMMA DealsTogether ==
  ASSUME NEW cs, NEW ds, NEW S, NEW T, Deals(cs, S), Deals(ds, T), S \cap T = {}
  PROVE  Deals(cs \o ds, S \cup T)
<1>1. /\ cs \in Seq(Seq(Meshes)) /\ NoRepeats(cs) /\ Dealt(cs) = S
      /\ ds \in Seq(Seq(Meshes)) /\ NoRepeats(ds) /\ Dealt(ds) = T
  BY DEF Deals
<1>2. ASSUME NEW c \in ToSet(cs), NEW d \in ToSet(ds)
      PROVE  ToSet(c) \cap ToSet(d) = {} /\ c # d
  <2>1. ToSet(c) \subseteq S /\ ToSet(d) \subseteq T
    BY <1>1, DealtAre
  <2>2. c # <<>> /\ ToSet(cs) \subseteq Seq(Meshes)
    BY <1>1, NotEmpty DEF Deals
  <2>3. ToSet(c) # {}
    BY <2>2, NotEmpty
  <2> QED BY <2>1, <2>3
<1>3. ToSet(cs) \cap ToSet(ds) = {}
  BY <1>2
<1>4. cs \o ds \in Seq(Seq(Meshes)) /\ ToSet(cs \o ds) = ToSet(cs) \cup ToSet(ds) /\ NoRepeats(cs \o ds)
  BY <1>1, <1>3, Joined
<1>5. Dealt(cs \o ds) = S \cup T
  <2>1. \A x : x \in Dealt(cs \o ds) <=> x \in Dealt(cs) \/ x \in Dealt(ds)
    BY <1>4, DealtAre
  <2> QED BY <1>1, <2>1
<1>6. \A c \in ToSet(cs \o ds) : c # <<>> /\ NoRepeats(c)
  BY <1>4 DEF Deals
<1>7. \A c, d \in ToSet(cs \o ds) : c # d => ToSet(c) \cap ToSet(d) = {}
  <2> SUFFICES ASSUME NEW c \in ToSet(cs \o ds), NEW d \in ToSet(cs \o ds), c # d
               PROVE  ToSet(c) \cap ToSet(d) = {}
    OBVIOUS
  <2>1. \A a, b \in ToSet(cs) : a # b => ToSet(a) \cap ToSet(b) = {}
    BY DEF Deals
  <2>2. \A a, b \in ToSet(ds) : a # b => ToSet(a) \cap ToSet(b) = {}
    BY DEF Deals
  <2> QED BY <1>2, <1>4, <2>1, <2>2
<1> QED BY <1>4, <1>5, <1>6, <1>7 DEF Deals

LEMMA DealSome ==
  ASSUME NEW cs, NEW S, Deals(cs, S), NEW I
  PROVE  /\ OnlyIn(cs, I) \in Seq(Seq(Meshes)) /\ ToSet(OnlyIn(cs, I)) = ToSet(cs) \cap I
         /\ NoRepeats(OnlyIn(cs, I))
         /\ Deals(OnlyIn(cs, I), Dealt(OnlyIn(cs, I)))
<1>1. cs \in Seq(Seq(Meshes)) /\ NoRepeats(cs)
  BY DEF Deals
<1>2. /\ OnlyIn(cs, I) \in Seq(Seq(Meshes)) /\ ToSet(OnlyIn(cs, I)) = ToSet(cs) \cap I
      /\ NoRepeats(OnlyIn(cs, I))
  BY <1>1, OnlyInIs
<1>3. /\ \A c \in ToSet(cs) : c # <<>> /\ NoRepeats(c)
      /\ \A c, d \in ToSet(cs) : c # d => ToSet(c) \cap ToSet(d) = {}
  BY DEF Deals
<1> QED BY <1>2, <1>3 DEF Deals

LEMMA OrderIs ==
  ASSUME NEW S, IsFiniteSet(S), NEW order \in SetToSeqs(S)
  PROVE  order \in Seq(S) /\ NoRepeats(order) /\ ToSet(order) = S
<1> DEFINE n == Cardinality(S)
<1>1. n \in Nat /\ order \in [1..n -> S] /\ \A i, j \in 1..n : i # j => order[i] # order[j]
  BY FS_CardinalityType DEF SetToSeqs
<1> HIDE DEF n
<1>2. order \in Seq(S) /\ DOMAIN order = 1..n
  BY <1>1
<1>3. NoRepeats(order)
  BY <1>1 DEF NoRepeats
<1>4. order \in Surjection(1..n, S)
  <2>1. order \in Injection(1..n, S)
    BY <1>1 DEF Injection, IsInjective
  <2>2. IsFiniteSet(1..n) /\ Cardinality(1..n) = n
    BY <1>1, FS_Interval
  <2> QED BY <2>1, <2>2, FS_Injection DEF n
<1>5. ToSet(order) = S
  BY <1>1, <1>2, <1>4 DEF Surjection, ToSet
<1> QED BY <1>2, <1>3, <1>5

LEMMA VerticesFinite ==
  ASSUME NEW fs, IsFiniteSet(fs), \A f \in fs : IsFiniteSet(FaceVertices[f])
  PROVE  IsFiniteSet(UNION {FaceVertices[f] : f \in fs}) /\ NumVertices(fs) \in Nat
<1> DEFINE T == {FaceVertices[f] : f \in fs}
           v == [f \in fs |-> FaceVertices[f]]
<1>1. v \in Surjection(fs, T) /\ \A t \in T : IsFiniteSet(t)
  BY DEF Surjection
<1>2. IsFiniteSet(T)
  <2> HIDE DEF T, v
  <2> QED BY <1>1, FS_Surjection
<1>3. IsFiniteSet(UNION T)
  <2> HIDE DEF T, v
  <2> QED BY <1>1, <1>2, FS_UNION
<1> QED BY <1>3, FS_CardinalityType DEF NumVertices

LEMMA MeshVertices ==
  ASSUME NEW m \in Meshes
  PROVE  NumVertices(MeshFaces[m]) \in Nat
BY MeshAssumption, VerticesFinite

LEMMA LowBins ==
  ASSUME NEW g \in SUBSET Meshes, IsFiniteSet(g), NEW order \in SetToSeqs(g)
  PROVE  LET low == TakeLow(order)
         IN  low.rest \subseteq g /\ Dealing(low.full, low.bin, g \ low.rest)
<1> DEFINE n == Len(order)
           base == [taken |-> 0, bin |-> <<>>, full |-> <<>>, rest |-> {}]
           A == [taken : Nat, bin : Seq(Meshes), full : Seq(Seq(Meshes)), rest : SUBSET Meshes]
<1>1. order \in Seq(Meshes) /\ NoRepeats(order) /\ ToSet(order) = g /\ n \in Nat
  <2>1. order \in Seq(g) /\ NoRepeats(order) /\ ToSet(order) = g
    BY OrderIs
  <2> QED BY <2>1
<1>2. base \in A
  OBVIOUS
<1>3. ASSUME NEW a \in A, NEW m \in Meshes PROVE Take(a, m) \in A
  <2>1. NumVertices(MeshFaces[m]) \in Nat
    BY MeshVertices
  <2>2. a.taken \in Nat /\ a.bin \in Seq(Meshes) /\ a.full \in Seq(Seq(Meshes)) /\ a.rest \in SUBSET Meshes
    OBVIOUS
  <2>3. /\ Append(a.bin, m) \in Seq(Meshes) /\ Append(a.full, Append(a.bin, m)) \in Seq(Seq(Meshes))
        /\ a.rest \cup {m} \in SUBSET Meshes /\ a.taken + NumVertices(MeshFaces[m]) \in Nat
        /\ <<>> \in Seq(Meshes)
    BY <2>1, <2>2
  <2>4. CASE a.taken > MaxVertices
    <3>1. Take(a, m) = [a EXCEPT !.rest = a.rest \cup {m}]
      BY <2>4 DEF Take
    <3> QED BY <2>3, <3>1
  <2>5. CASE ~ (a.taken > MaxVertices) /\ NumVertices(FacesOf(ToSet(Append(a.bin, m)))) >= MaxVertices
    <3>1. Take(a, m) = [a EXCEPT !.taken = a.taken + NumVertices(MeshFaces[m]),
                                 !.full = Append(a.full, Append(a.bin, m)), !.bin = <<>>]
      BY <2>5 DEF Take
    <3> QED BY <2>3, <3>1
  <2>6. CASE ~ (a.taken > MaxVertices) /\ ~ (NumVertices(FacesOf(ToSet(Append(a.bin, m)))) >= MaxVertices)
    <3>1. Take(a, m) = [a EXCEPT !.taken = a.taken + NumVertices(MeshFaces[m]),
                                 !.bin = Append(a.bin, m)]
      BY <2>6 DEF Take
    <3> QED BY <2>3, <3>1
  <2> QED BY <2>4, <2>5, <2>6
<1>4. PICK p \in [0..n -> A] :
        /\ p[0] = base /\ TakeLow(order) = p[n]
        /\ \A k \in 1..n : p[k] = Take(p[k - 1], order[k])
  <2> HIDE DEF A, base
  <2>1. TakeTo(A, base, order)
    BY <1>1, <1>2, <1>3, TakeInTurn
  <2>2. TakeLow(order) = FoldLeft(Take, base, order)
    BY DEF TakeLow, base
  <2> QED BY <2>1, <2>2 DEF TakeTo
<1> DEFINE K == {k \in 0..n : /\ p[k].rest \subseteq UpToPlace(order, k)
                              /\ Dealing(p[k].full, p[k].bin, UpToPlace(order, k) \ p[k].rest)}
<1>5. 0 \in K
  <2>1. p[0].rest = {} /\ p[0].full = <<>> /\ p[0].bin = <<>> /\ 0 \in 0..n
    BY <1>1, <1>4
  <2> HIDE DEF base, A
  <2> QED BY <1>1, <2>1, Places, DealNone
<1>6. ASSUME NEW k \in 1..n, k - 1 \in K PROVE k \in K
  <2> DEFINE m == order[k]
             U == UpToPlace(order, k - 1)
  <2>1. UpToPlace(order, k) = U \cup {m} /\ m \in Meshes /\ m \notin U
    BY <1>1, NextPlace
  <2>2. k - 1 \in 0..n /\ k \in 0..n
    BY <1>1
  <2>3. PICK a \in A : a = p[k - 1]
    BY <2>2
  <2>4. a.rest \subseteq U /\ Dealing(a.full, a.bin, U \ a.rest) /\ p[k] = Take(a, m)
    BY <1>4, <1>6, <2>3
  <2> HIDE DEF m, U, n, base
  <2>5. CASE a.taken > MaxVertices
    <3>1. p[k].rest = a.rest \cup {m} /\ p[k].full = a.full /\ p[k].bin = a.bin
      BY <2>3, <2>4, <2>5 DEF Take
    <3>2. (U \cup {m}) \ (a.rest \cup {m}) = U \ a.rest
      BY <2>1
    <3> QED BY <2>1, <2>2, <2>4, <3>1, <3>2
  <2>6. CASE ~ (a.taken > MaxVertices)
    <3>1. Dealing(a.full, Append(a.bin, m), (U \ a.rest) \cup {m})
      BY <2>1, <2>4, DealOne
    <3>2. (U \cup {m}) \ a.rest = (U \ a.rest) \cup {m}
      BY <2>1, <2>4
    <3>3. Append(a.bin, m) # <<>>
      <4>1. a.bin \in Seq(Meshes)
        BY <2>3
      <4>2. Append(a.bin, m) # <<>>
        BY <2>1, <4>1
      <4> QED BY <4>2
    <3>4. Dealing(Append(a.full, Append(a.bin, m)), <<>>, (U \ a.rest) \cup {m})
      BY <3>1, <3>3, DealFull
    <3>5. /\ p[k].rest = a.rest
          /\ \/ p[k].full = a.full /\ p[k].bin = Append(a.bin, m)
             \/ p[k].full = Append(a.full, Append(a.bin, m)) /\ p[k].bin = <<>>
      BY <2>3, <2>4, <2>6 DEF Take
    <3> QED BY <2>1, <2>2, <2>4, <3>1, <3>2, <3>4, <3>5
  <2> QED BY <2>5, <2>6
<1>7. n \in K
  <2> HIDE DEF n, K
  <2>1. \A k \in 0..n : k \in K
    BY <1>1, <1>5, <1>6, UpTo
  <2> QED BY <1>1, <2>1
<1>8. UpToPlace(order, n) = g
  BY <1>1, Places
<1> HIDE DEF n, A, base
<1> QED BY <1>4, <1>7, <1>8

Short(S) == {c \in Seq(S) : Len(c) <= MaxMeshes}

Splitting(S) == [parts : Seq(Short(S)), part : {c \in Seq(S) : Len(c) < MaxMeshes}]

LEMMA PushShort ==
  ASSUME NEW S, NEW a \in Splitting(S), NEW m \in S
  PROVE  Push(a, m) \in Splitting(S)
<1> DEFINE longer == Append(a.part, m)
<1>1. a.parts \in Seq(Short(S)) /\ a.part \in Seq(S) /\ Len(a.part) < MaxMeshes
  BY DEF Splitting
<1>2. longer \in Seq(S) /\ Len(longer) = Len(a.part) + 1
  BY <1>1, AppendElements
<1>3. MaxMeshes \in Nat /\ 0 < MaxMeshes /\ Len(a.part) \in Nat
  BY <1>1, MeshAssumption
<1>4. CASE Len(a.part) + 1 >= MaxMeshes
  <2>1. Push(a, m) = [parts |-> Append(a.parts, longer), part |-> <<>>]
    BY <1>4 DEF Push
  <2> HIDE DEF longer
  <2>2. longer \in Short(S)
    BY <1>1, <1>2, <1>3 DEF Short
  <2>3. Append(a.parts, longer) \in Seq(Short(S)) /\ <<>> \in Seq(S) /\ Len(<<>>) < MaxMeshes
    BY <1>1, <1>3, <2>2
  <2> QED BY <2>1, <2>3 DEF Splitting
<1>5. CASE ~ (Len(a.part) + 1 >= MaxMeshes)
  <2>1. Push(a, m) = [a EXCEPT !.part = longer]
    BY <1>5 DEF Push
  <2> HIDE DEF longer
  <2>2. Len(longer) < MaxMeshes
    BY <1>2, <1>3, <1>5
  <2> QED BY <1>2, <2>1, <2>2 DEF Splitting
<1> QED BY <1>4, <1>5

LEMMA PushAllShort ==
  ASSUME NEW S, NEW a \in Splitting(S), NEW c \in Seq(S)
  PROVE  FoldLeft(Push, a, c) \in Splitting(S)
<1>1. PushTo(Splitting(S), a, c)
  BY PushShort, PushInTurn
<1>2. Len(c) \in 0..Len(c)
  OBVIOUS
<1> QED BY <1>1, <1>2 DEF PushTo

LEMMA SplitShort ==
  ASSUME NEW S, NEW a \in Splitting(S), NEW c \in Seq(S)
  PROVE  SplitCluster(a, c) \in Splitting(S)
<1>1. PICK d \in Splitting(S) : d = FoldLeft(Push, a, c)
  BY PushAllShort
<1>2. SplitCluster(a, c) = IF d.part = <<>> THEN d ELSE [d EXCEPT !.parts = Append(d.parts, d.part)]
  BY <1>1 DEF SplitCluster
<1>3. d.parts \in Seq(Short(S)) /\ d.part \in Seq(S) /\ Len(d.part) < MaxMeshes
  BY DEF Splitting
<1>4. d.part \in Short(S)
  BY <1>3, MeshAssumption DEF Short
<1>5. Append(d.parts, d.part) \in Seq(Short(S))
  BY <1>3, <1>4
<1> QED BY <1>2, <1>5 DEF Splitting

NoParts == [parts |-> <<>>, part |-> <<>>]

LEMMA NoPartsSplitting ==
  ASSUME NEW S
  PROVE  NoParts \in Splitting(S)
<1>1. <<>> \in Seq(Short(S)) /\ <<>> \in Seq(S) /\ Len(<<>>) < MaxMeshes
  BY MeshAssumption
<1> QED BY <1>1 DEF NoParts, Splitting

\* Whatever the clusters, what is made of them has no big one.
LEMMA SplitBigShort ==
  ASSUME NEW S, NEW cs \in Seq(Seq(S))
  PROVE  SplitBigClusters(cs) \in Seq(Short(S))
<1> DEFINE big == {c \in ToSet(cs) : Len(c) > MaxMeshes}
           few == OnlyIn(cs, ToSet(cs) \ big)
           many == OnlyIn(cs, big)
<1>1. ToSet(cs) \subseteq Seq(S)
  BY NotEmpty
<1>2. few \in Seq(Seq(S)) /\ many \in Seq(Seq(S)) /\ ToSet(few) = ToSet(cs) \cap (ToSet(cs) \ big)
  <2> HIDE DEF big
  <2> QED BY OnlyInIs
<1>3. few \in Seq(Short(S))
  <2>1. ToSet(few) \subseteq Short(S)
    BY <1>1, <1>2, MeshAssumption DEF Short
  <2> HIDE DEF few
  <2>2. \A i \in DOMAIN few : few[i] \in ToSet(few)
    BY DEF ToSet
  <2>3. Len(few) \in Nat /\ few \in [1..Len(few) -> Seq(S)]
    BY <1>2
  <2>4. few \in [1..Len(few) -> Short(S)]
    BY <2>1, <2>2, <2>3
  <2> QED BY <2>3, <2>4
<1>4. FoldLeft(SplitCluster, NoParts, many).parts \in Seq(Short(S))
  <2> HIDE DEF many
  <2>1. SplitTo(Splitting(S), NoParts, many)
    BY <1>2, SplitShort, NoPartsSplitting, SplitInTurn
  <2>2. Len(many) \in 0..Len(many)
    BY <1>2
  <2>3. FoldLeft(SplitCluster, NoParts, many) \in Splitting(S)
    BY <2>1, <2>2 DEF SplitTo
  <2> QED BY <2>3 DEF Splitting
<1>5. SplitBigClusters(cs) = few \o FoldLeft(SplitCluster, NoParts, many).parts
  BY DEF SplitBigClusters, NoParts
<1> HIDE DEF few, many
<1> QED BY <1>3, <1>4, <1>5, Joined

LEMMA PushAllDeals ==
  ASSUME NEW c \in Seq(Meshes), NoRepeats(c), NEW d, d = FoldLeft(Push, NoParts, c)
  PROVE  Dealing(d.parts, d.part, ToSet(c))
<1> DEFINE n == Len(c)
<1>0. n \in Nat
  OBVIOUS
<1>1. PICK p \in [0..n -> Splitting(Meshes)] :
        /\ p[0] = NoParts /\ d = p[n] /\ \A k \in 1..n : p[k] = Push(p[k - 1], c[k])
  <2>1. PushTo(Splitting(Meshes), NoParts, c)
    BY PushShort, NoPartsSplitting, PushInTurn
  <2> QED BY <2>1 DEF PushTo
<1> DEFINE K == {k \in 0..n : Dealing(p[k].parts, p[k].part, UpToPlace(c, k))}
<1>2. 0 \in K
  <2>1. p[0].parts = <<>> /\ p[0].part = <<>> /\ 0 \in 0..n
    BY <1>0, <1>1 DEF NoParts
  <2> QED BY <2>1, Places, DealNone
<1>3. ASSUME NEW k \in 1..n, k - 1 \in K PROVE k \in K
  <2> DEFINE m == c[k]
             U == UpToPlace(c, k - 1)
  <2>1. UpToPlace(c, k) = U \cup {m} /\ m \in Meshes /\ m \notin U
    BY NextPlace
  <2>2. k - 1 \in 0..n /\ k \in 0..n
    BY <1>0
  <2>3. PICK a \in Splitting(Meshes) : a = p[k - 1]
    BY <2>2
  <2>4. Dealing(a.parts, a.part, U) /\ p[k] = Push(a, m)
    BY <1>1, <1>3, <2>3
  <2> HIDE DEF m, U, n
  <2>5. Dealing(a.parts, Append(a.part, m), U \cup {m})
    BY <2>1, <2>4, DealOne
  <2>6. Append(a.part, m) # <<>>
    <3>1. a.part \in Seq(Meshes)
      BY DEF Splitting
    <3> QED BY <2>1, <3>1
  <2>7. Dealing(Append(a.parts, Append(a.part, m)), <<>>, U \cup {m})
    BY <2>5, <2>6, DealFull
  <2>8. \/ p[k].parts = Append(a.parts, Append(a.part, m)) /\ p[k].part = <<>>
        \/ p[k].parts = a.parts /\ p[k].part = Append(a.part, m)
    <3>1. CASE Len(a.part) + 1 >= MaxMeshes
      <4>1. Push(a, m) = [parts |-> Append(a.parts, Append(a.part, m)), part |-> <<>>]
        BY <3>1 DEF Push
      <4> QED BY <2>4, <4>1
    <3>2. CASE ~ (Len(a.part) + 1 >= MaxMeshes)
      <4>1. Push(a, m) = [a EXCEPT !.part = Append(a.part, m)]
        BY <3>2 DEF Push
      <4> QED BY <2>4, <4>1 DEF Splitting
    <3> QED BY <3>1, <3>2
  <2> QED BY <2>1, <2>2, <2>5, <2>7, <2>8
<1>4. n \in K
  <2> HIDE DEF n, K
  <2>1. \A k \in 0..n : k \in K
    BY <1>0, <1>2, <1>3, UpTo
  <2> QED BY <1>0, <2>1
<1>5. UpToPlace(c, n) = ToSet(c)
  BY Places
<1> HIDE DEF n
<1> QED BY <1>1, <1>4, <1>5

\* One cluster is split into parts that have its meshes once.
LEMMA SplitDeals ==
  ASSUME NEW c \in Seq(Meshes), NoRepeats(c)
  PROVE  Deals(SplitCluster(NoParts, c).parts, ToSet(c))
<1>1. PICK d \in Splitting(Meshes) : d = FoldLeft(Push, NoParts, c)
  BY PushAllShort, NoPartsSplitting
<1>2. SplitCluster(NoParts, c) = IF d.part = <<>> THEN d ELSE [d EXCEPT !.parts = Append(d.parts, d.part)]
  BY <1>1 DEF SplitCluster
<1>3. Dealing(d.parts, d.part, ToSet(c))
  BY <1>1, PushAllDeals
<1>4. CASE d.part = <<>>
  <2>1. ToSet(c) \ ToSet(<<>>) = ToSet(c)
    BY NothingInEmpty
  <2> QED BY <1>2, <1>3, <1>4, <2>1 DEF Dealing
<1>5. CASE d.part # <<>>
  <2>1. Deals(Append(d.parts, d.part), ToSet(c))
    BY <1>3, <1>5, DealFull
  <2>2. SplitCluster(NoParts, c).parts = Append(d.parts, d.part)
    BY <1>2, <1>5 DEF Splitting
  <2> QED BY <2>1, <2>2
<1> QED BY <1>4, <1>5

\* The clusters that big ones have not been split into yet.
Uncut(order, walk, cut) ==
  LET low == TakeLow(order)
      left == IF low.bin = <<>> THEN <<>> ELSE <<low.bin>>
  IN  low.full \o left \o [i \in DOMAIN cut |-> OnlyIn(walk, cut[i])]

LEMMA BranchesDeal ==
  ASSUME NEW S \in SUBSET Meshes, IsFiniteSet(S), NEW branches \in BranchClusters(S),
         NEW walk \in SetToSeqs(S), NEW cut \in SetToSeqs(branches)
  PROVE  Deals([i \in DOMAIN cut |-> OnlyIn(walk, cut[i])], S)
<1> DEFINE bs == [i \in DOMAIN cut |-> OnlyIn(walk, cut[i])]
<1>1. Parted(branches, S)
  BY BranchesArePart
<1>2. IsFiniteSet(branches)
  <2>1. branches \subseteq SUBSET S
    BY <1>1 DEF Parted
  <2> QED BY <2>1, FS_SUBSET, FS_Subset
<1>3. walk \in Seq(Meshes) /\ NoRepeats(walk) /\ ToSet(walk) = S
  <2>1. walk \in Seq(S) /\ NoRepeats(walk) /\ ToSet(walk) = S
    BY OrderIs
  <2> QED BY <2>1
<1>4. cut \in Seq(branches) /\ NoRepeats(cut) /\ ToSet(cut) = branches
  BY <1>2, OrderIs
<1>5. ASSUME NEW i \in DOMAIN cut
      PROVE  /\ bs[i] \in Seq(Meshes) /\ NoRepeats(bs[i]) /\ ToSet(bs[i]) = cut[i]
             /\ bs[i] # <<>>
  <2>1. cut[i] \in branches
    BY <1>4
  <2>2. cut[i] \subseteq S /\ cut[i] # {}
    BY <1>1, <2>1 DEF Parted
  <2>3. /\ OnlyIn(walk, cut[i]) \in Seq(Meshes) /\ NoRepeats(OnlyIn(walk, cut[i]))
        /\ ToSet(OnlyIn(walk, cut[i])) = ToSet(walk) \cap cut[i]
    BY <1>3, OnlyInIs
  <2>4. ToSet(bs[i]) = cut[i]
    BY <1>3, <2>2, <2>3
  <2>5. bs[i] # <<>>
    BY <2>2, <2>4, NothingInEmpty
  <2> QED BY <2>3, <2>4, <2>5
<1>6. DOMAIN bs = DOMAIN cut /\ DOMAIN cut = 1..Len(cut) /\ Len(cut) \in Nat
  BY <1>4
<1> HIDE DEF bs
<1>7. bs \in Seq(Seq(Meshes))
  <2>1. \A i \in 1..Len(cut) : bs[i] \in Seq(Meshes)
    BY <1>5, <1>6
  <2>2. bs = [i \in 1..Len(cut) |-> bs[i]]
    BY <1>6 DEF bs
  <2> QED BY <1>6, <2>1, <2>2
<1>8. NoRepeats(bs)
  <2> SUFFICES ASSUME NEW i \in DOMAIN bs, NEW j \in DOMAIN bs, bs[i] = bs[j]
               PROVE  i = j
    BY DEF NoRepeats
  <2>1. cut[i] = cut[j]
    BY <1>5, <1>6
  <2> QED BY <1>4, <1>6, <2>1 DEF NoRepeats
<1>9. \A c : c \in ToSet(bs) <=> \E i \in DOMAIN cut : c = bs[i]
  BY <1>6 DEF ToSet
<1>10. Dealt(bs) = S
  <2>1. ASSUME NEW x PROVE x \in Dealt(bs) <=> x \in S
    <3>1. x \in Dealt(bs) <=> \E i \in DOMAIN cut : x \in cut[i]
      <4>1. x \in Dealt(bs) <=> \E c \in ToSet(bs) : x \in ToSet(c)
        BY DealtAre
      <4> QED BY <1>5, <1>9, <4>1
    <3>2. (\E i \in DOMAIN cut : x \in cut[i]) <=> \E b \in branches : x \in b
      BY <1>4 DEF ToSet
    <3> QED BY <1>1, <3>1, <3>2 DEF Parted
  <2> QED BY <2>1
<1>11. ASSUME NEW c \in ToSet(bs) PROVE c # <<>> /\ NoRepeats(c)
  BY <1>5, <1>9
<1>12. ASSUME NEW c \in ToSet(bs), NEW d \in ToSet(bs), c # d
       PROVE  ToSet(c) \cap ToSet(d) = {}
  <2>1. PICK i \in DOMAIN cut : c = bs[i]
    BY <1>9
  <2>2. PICK j \in DOMAIN cut : d = bs[j]
    BY <1>9
  <2>3. i # j
    BY <1>12, <2>1, <2>2
  <2>4. cut[i] # cut[j] /\ cut[i] \in branches /\ cut[j] \in branches
    BY <1>4, <2>3 DEF NoRepeats
  <2>5. cut[i] \cap cut[j] = {}
    BY <1>1, <2>4 DEF Parted
  <2> QED BY <1>5, <2>1, <2>2, <2>5
<1>13. Deals(bs, S)
  BY <1>7, <1>8, <1>10, <1>11, <1>12 DEF Deals
<1> QED BY <1>13 DEF bs

LEMMA UncutDeals ==
  ASSUME NEW g \in SUBSET Meshes, IsFiniteSet(g), NEW order \in SetToSeqs(g),
         NEW branches \in BranchClusters(TakeLow(order).rest),
         NEW walk \in SetToSeqs(TakeLow(order).rest), NEW cut \in SetToSeqs(branches)
  PROVE  Deals(Uncut(order, walk, cut), g)
<1> DEFINE low == TakeLow(order)
           left == IF low.bin = <<>> THEN <<>> ELSE <<low.bin>>
           bs == [i \in DOMAIN cut |-> OnlyIn(walk, cut[i])]
<1>1. low.rest \subseteq g /\ Dealing(low.full, low.bin, g \ low.rest)
  BY LowBins
<1>2. Deals(bs, low.rest)
  <2>1. low.rest \in SUBSET Meshes /\ IsFiniteSet(low.rest)
    BY <1>1, FS_Subset
  <2> HIDE DEF low
  <2>2. branches \in BranchClusters(low.rest) /\ walk \in SetToSeqs(low.rest)
    BY DEF low
  <2> QED BY <2>1, <2>2, BranchesDeal
<1>3. Uncut(order, walk, cut) = low.full \o left \o bs
  BY DEF Uncut
<1> HIDE DEF low, bs
<1>4. Deals(low.full \o left, g \ low.rest)
  <2>1. low.full \in Seq(Seq(Meshes)) /\ low.bin \in Seq(Meshes)
    BY <1>1 DEF Dealing, Deals
  <2>2. CASE low.bin = <<>>
    <3>1. low.full \o left = low.full
      BY <2>1, <2>2
    <3>2. Deals(low.full, (g \ low.rest) \ ToSet(low.bin))
      BY <1>1 DEF Dealing
    <3>3. ToSet(low.bin) = {}
      BY <2>2, NothingInEmpty
    <3> QED BY <3>1, <3>2, <3>3
  <2>3. CASE low.bin # <<>>
    <3>1. low.full \o left = Append(low.full, low.bin)
      BY <2>1, <2>3
    <3> QED BY <1>1, <2>3, <3>1, DealFull
  <2> QED BY <2>2, <2>3
<1> HIDE DEF left
<1>5. (g \ low.rest) \cap low.rest = {} /\ (g \ low.rest) \cup low.rest = g
  BY <1>1
<1>6. Deals((low.full \o left) \o bs, (g \ low.rest) \cup low.rest)
  BY <1>2, <1>4, <1>5, DealsTogether
<1> QED BY <1>3, <1>5, <1>6

LEMMA ElementCount ==
  ASSUME NEW T, NEW s \in Seq(T)
  PROVE  /\ IsFiniteSet(ToSet(s)) /\ Cardinality(ToSet(s)) \in Nat
         /\ Cardinality(ToSet(s)) <= Len(s)
         /\ NoRepeats(s) => Cardinality(ToSet(s)) = Len(s)
<1> DEFINE S == ToSet(s)
           n == Len(s)
<1>1. n \in Nat /\ s \in [1..n -> S] /\ \A x \in S : \E i \in 1..n : s[i] = x
  BY DEF ToSet
<1> HIDE DEF S, n
<1>2. IsFiniteSet(1..n) /\ Cardinality(1..n) = n
  BY <1>1, FS_Interval
<1>3. s \in Surjection(1..n, S)
  BY <1>1 DEF Surjection
<1>4. IsFiniteSet(S) /\ Cardinality(S) <= n /\ (Cardinality(S) = n <=> s \in Injection(1..n, S))
  BY <1>2, <1>3, FS_Surjection
<1>5. ASSUME NoRepeats(s) PROVE s \in Injection(1..n, S)
  BY <1>1, <1>5 DEF NoRepeats, Injection, IsInjective
<1>6. Cardinality(S) \in Nat
  BY <1>4, FS_CardinalityType
<1> QED BY <1>4, <1>5, <1>6 DEF S, n

LEMMA ClustersShort ==
  ASSUME NEW g \in SUBSET Meshes, IsFiniteSet(g), NEW order \in SetToSeqs(g),
         NEW branches \in BranchClusters(TakeLow(order).rest),
         NEW walk \in SetToSeqs(TakeLow(order).rest), NEW cut \in SetToSeqs(branches)
  PROVE  Clusters(order, walk, cut) \in Seq(Short(g))
<1> DEFINE cs == Uncut(order, walk, cut)
<1>1. Deals(cs, g)
  BY UncutDeals
<1>2. Clusters(order, walk, cut) = SplitBigClusters(cs)
  BY DEF Clusters, Uncut
<1> HIDE DEF cs
<1>3. cs \in Seq(Seq(g))
  <2>1. Len(cs) \in Nat /\ cs \in [1..Len(cs) -> Seq(Meshes)]
    BY <1>1 DEF Deals
  <2>2. ASSUME NEW i \in 1..Len(cs) PROVE cs[i] \in Seq(g)
    <3>1. cs[i] \in ToSet(cs) /\ cs[i] \in Seq(Meshes)
      BY <2>1 DEF ToSet
    <3>2. PICK c \in Seq(Meshes) : c = cs[i]
      BY <3>1
    <3>3. ToSet(c) \subseteq g
      BY <1>1, <3>1, <3>2, DealtAre DEF Deals
    <3>4. Len(c) \in Nat /\ c \in [1..Len(c) -> Meshes]
      OBVIOUS
    <3>5. \A j \in 1..Len(c) : c[j] \in g
      BY <3>3, <3>4 DEF ToSet
    <3>6. c \in [1..Len(c) -> g]
      BY <3>4, <3>5
    <3> QED BY <3>2, <3>4, <3>6
  <2> QED BY <2>1, <2>2
<1> QED BY <1>2, <1>3, SplitBigShort

\* At most one cluster is big, and then none of its meshes is shown twice.
LEMMA ClustersDeal ==
  ASSUME NEW g \in SUBSET Meshes, IsFiniteSet(g), Cardinality(g) <= 2 * MaxMeshes + 1,
         NEW order \in SetToSeqs(g), NEW branches \in BranchClusters(TakeLow(order).rest),
         NEW walk \in SetToSeqs(TakeLow(order).rest), NEW cut \in SetToSeqs(branches)
  PROVE  Deals(Clusters(order, walk, cut), g)
<1> DEFINE cs == Uncut(order, walk, cut)
           big == {c \in ToSet(cs) : Len(c) > MaxMeshes}
           few == OnlyIn(cs, ToSet(cs) \ big)
           many == OnlyIn(cs, big)
           parts == FoldLeft(SplitCluster, NoParts, many).parts
<1>1. Deals(cs, g)
  BY UncutDeals
<1>2. Clusters(order, walk, cut) = few \o parts
  BY DEF Clusters, Uncut, SplitBigClusters, NoParts
<1> HIDE DEF cs
<1>3. /\ Deals(few, Dealt(few)) /\ Deals(many, Dealt(many))
      /\ ToSet(few) = ToSet(cs) \ big /\ ToSet(many) = big
  <2>1. ToSet(cs) \cap (ToSet(cs) \ big) = ToSet(cs) \ big /\ ToSet(cs) \cap big = big
    OBVIOUS
  <2> HIDE DEF big
  <2> QED BY <1>1, <2>1, DealSome
<1>4. \A c \in ToSet(cs) : c \in Seq(Meshes) /\ NoRepeats(c) /\ ToSet(c) \subseteq g
  <2>1. cs \in Seq(Seq(Meshes)) /\ Dealt(cs) = g /\ \A c \in ToSet(cs) : NoRepeats(c)
    BY <1>1 DEF Deals
  <2>2. ToSet(cs) \subseteq Seq(Meshes)
    BY <2>1, NotEmpty
  <2> QED BY <2>1, <2>2, DealtAre
<1>5. \A c, d \in big : c = d
  <2> SUFFICES ASSUME NEW c \in big, NEW d \in big, c # d PROVE FALSE
    OBVIOUS
  <2>1. ToSet(c) \cap ToSet(d) = {}
    BY <1>1 DEF Deals
  <2>2. /\ IsFiniteSet(ToSet(c)) /\ Cardinality(ToSet(c)) = Len(c) /\ Len(c) \in Nat
        /\ IsFiniteSet(ToSet(d)) /\ Cardinality(ToSet(d)) = Len(d) /\ Len(d) \in Nat
    BY <1>4, ElementCount
  <2>3. Cardinality(ToSet(c) \cup ToSet(d)) = Len(c) + Len(d)
    <3>1. Cardinality(ToSet(c) \cap ToSet(d)) = 0
      BY <2>1, FS_EmptySet
    <3>2. Cardinality(ToSet(c) \cup ToSet(d)) =
            Cardinality(ToSet(c)) + Cardinality(ToSet(d)) - Cardinality(ToSet(c) \cap ToSet(d))
      BY <2>2, FS_Union
    <3> QED BY <2>2, <3>1, <3>2
  <2>4. Cardinality(ToSet(c) \cup ToSet(d)) <= Cardinality(g) /\ Cardinality(g) \in Nat
    BY <1>4, FS_Subset, FS_CardinalityType
  <2>5. Len(c) > MaxMeshes /\ Len(d) > MaxMeshes /\ MaxMeshes \in Nat
    BY MeshAssumption
  <2> QED BY <2>2, <2>3, <2>4, <2>5
<1>6. Deals(parts, Dealt(many))
  <2>1. many \in Seq(Seq(Meshes)) /\ NoRepeats(many)
    BY <1>3 DEF Deals
  <2> HIDE DEF many, big
  <2>2. Len(many) \in Nat /\ \A i \in 1..Len(many) : many[i] \in big /\ many[i] \in Seq(Meshes)
    BY <1>3, <2>1 DEF ToSet
  <2>3. Len(many) \in {0, 1}
    <3>1. Len(many) \in Nat /\ DOMAIN many = 1..Len(many)
      BY <2>1
    <3>2. ASSUME Len(many) >= 2 PROVE FALSE
      <4>1. 1 \in 1..Len(many) /\ 2 \in 1..Len(many)
        BY <3>1, <3>2
      <4>2. many[1] = many[2]
        BY <1>5, <2>2, <4>1
      <4> QED BY <2>1, <3>1, <4>1, <4>2 DEF NoRepeats
    <3> QED BY <3>1, <3>2
  <2>4. SplitTo(Splitting(Meshes), NoParts, many)
    BY <2>1, SplitShort, NoPartsSplitting, SplitInTurn
  <2>5. CASE Len(many) = 0
    <3>1. FoldLeft(SplitCluster, NoParts, many) = NoParts
      BY <2>4, <2>5 DEF SplitTo
    <3>2. many = <<>>
      BY <2>1, <2>5
    <3>3. Deals(<<>>, Dealt(many))
      BY <3>2, DealNone DEF Deals
    <3> QED BY <3>1, <3>3 DEF NoParts
  <2>6. CASE Len(many) = 1
    <3>1. PICK c \in Seq(Meshes) : c = many[1]
      BY <2>2, <2>6
    <3>2. FoldLeft(SplitCluster, NoParts, many) = SplitCluster(NoParts, c)
      BY <2>4, <2>6, <3>1 DEF SplitTo
    <3>3. \A d : d \in ToSet(many) <=> d = c
      BY <2>1, <2>6, <3>1 DEF ToSet
    <3>4. NoRepeats(c)
      BY <1>3, <3>3 DEF Deals
    <3>5. Dealt(many) = ToSet(c)
      <4>1. \A x : x \in Dealt(many) <=> x \in ToSet(c)
        BY <3>3, DealtAre
      <4> QED BY <4>1
    <3> QED BY <3>2, <3>4, <3>5, SplitDeals
  <2> QED BY <2>3, <2>5, <2>6
<1>7. Dealt(few) \cup Dealt(many) = g /\ Dealt(few) \cap Dealt(many) = {}
  <2>1. Dealt(cs) = g /\ \A c, d \in ToSet(cs) : c # d => ToSet(c) \cap ToSet(d) = {}
    BY <1>1 DEF Deals
  <2>2. \A x : /\ x \in Dealt(few) <=> \E c \in ToSet(cs) \ big : x \in ToSet(c)
               /\ x \in Dealt(many) <=> \E c \in big : x \in ToSet(c)
               /\ x \in Dealt(cs) <=> \E c \in ToSet(cs) : x \in ToSet(c)
    <3> HIDE DEF few, many, big
    <3> QED BY <1>3, DealtAre
  <2>3. big \subseteq ToSet(cs)
    OBVIOUS
  <2> HIDE DEF few, many, big
  <2>4. ASSUME NEW x PROVE ~ (x \in Dealt(few) /\ x \in Dealt(many))
    BY <2>1, <2>2, <2>3
  <2>5. ASSUME NEW x PROVE x \in g <=> x \in Dealt(few) \/ x \in Dealt(many)
    BY <2>1, <2>2, <2>3
  <2> QED BY <2>4, <2>5
<1> HIDE DEF few, many, parts
<1>8. Deals(few \o parts, Dealt(few) \cup Dealt(many))
  BY <1>3, <1>6, <1>7, DealsTogether
<1> QED BY <1>2, <1>7, <1>8

-----------------------------------------------------------------------------
(* Faces and the meshes they are of: faces of different meshes are         *)
(* different, for they share no vertex.                                    *)

LEMMA FacesApart ==
  ASSUME NEW m \in Meshes, NEW n \in Meshes, m # n
  PROVE  MeshFaces[m] \cap MeshFaces[n] = {}
<1> SUFFICES ASSUME NEW f \in MeshFaces[m], f \in MeshFaces[n] PROVE FALSE
  OBVIOUS
<1>1. FaceVertices[f] # {}
  BY MeshAssumption
<1>2. FaceVertices[f] \cap FaceVertices[f] = {}
  BY MeshAssumption
<1> QED BY <1>1, <1>2

LEMMA FacesOfAre ==
  ASSUME NEW ms, NEW f
  PROVE  f \in FacesOf(ms) <=> \E m \in ms : f \in MeshFaces[m]
BY DEF FacesOf

LEMMA MeshesInPart ==
  ASSUME NEW m \in Meshes, NEW fs \in SUBSET MeshFaces[m], fs # {}
  PROVE  MeshesIn(fs) = {m}
<1>1. ASSUME NEW n \in Meshes PROVE MeshFaces[n] \cap fs # {} <=> n = m
  BY FacesApart
<1> QED BY <1>1 DEF MeshesIn

LEMMA MeshesInBoth ==
  ASSUME NEW fs, NEW gs
  PROVE  MeshesIn(fs \cup gs) = MeshesIn(fs) \cup MeshesIn(gs) /\ MeshesIn({}) = {}
BY DEF MeshesIn

LEMMA MeshesInNext ==
  ASSUME NEW fs, NEW m \in Meshes
  PROVE  /\ MeshesIn(MeshFaces[m]) = {m}
         /\ MeshesIn(fs \cup MeshFaces[m]) = MeshesIn(fs) \cup {m}
<1>1. MeshFaces[m] # {}
  BY MeshAssumption
<1>2. MeshesIn(MeshFaces[m]) = {m}
  BY <1>1, MeshesInPart
<1> QED BY <1>2, MeshesInBoth

LEMMA FacesOfNext ==
  ASSUME NEW ms, NEW m
  PROVE  FacesOf(ms \cup {m}) = FacesOf(ms) \cup MeshFaces[m] /\ FacesOf({m}) = MeshFaces[m]
BY FacesOfAre, Zenon DEF FacesOf

LEMMA FacesFinite ==
  ASSUME NEW ms \in SUBSET Meshes
  PROVE  /\ IsFiniteSet(FacesOf(ms)) /\ \A f \in FacesOf(ms) : IsFiniteSet(FaceVertices[f])
         /\ NumVertices(FacesOf(ms)) \in Nat
<1> DEFINE T == {MeshFaces[m] : m \in ms}
           at == [m \in ms |-> MeshFaces[m]]
<1>1. IsFiniteSet(ms)
  BY MeshAssumption, FS_Subset
<1>2. at \in Surjection(ms, T) /\ \A t \in T : IsFiniteSet(t)
  BY MeshAssumption DEF Surjection
<1>3. IsFiniteSet(UNION T)
  <2> HIDE DEF T, at
  <2>1. IsFiniteSet(T)
    BY <1>1, <1>2, FS_Surjection
  <2> QED BY <1>2, <2>1, FS_UNION
<1>4. IsFiniteSet(FacesOf(ms))
  BY <1>3 DEF FacesOf
<1>5. \A f \in FacesOf(ms) : IsFiniteSet(FaceVertices[f])
  BY FacesOfAre, MeshAssumption
<1> QED BY <1>4, <1>5, VerticesFinite

\* Two sets of faces have no more vertices than both of them.
LEMMA VerticesTogether ==
  ASSUME NEW ms \in SUBSET Meshes, NEW ns \in SUBSET Meshes
  PROVE  NumVertices(FacesOf(ms) \cup FacesOf(ns))
           <= NumVertices(FacesOf(ms)) + NumVertices(FacesOf(ns))
<1> DEFINE V(fs) == UNION {FaceVertices[f] : f \in fs}
           A == V(FacesOf(ms))
           B == V(FacesOf(ns))
<1>1. IsFiniteSet(A) /\ IsFiniteSet(B)
  BY FacesFinite, VerticesFinite
<1>2. V(FacesOf(ms) \cup FacesOf(ns)) = A \cup B
  OBVIOUS
<1>3. NumVertices(FacesOf(ms)) = Cardinality(A) /\ NumVertices(FacesOf(ns)) = Cardinality(B)
  BY DEF NumVertices
<1>4. NumVertices(FacesOf(ms) \cup FacesOf(ns)) = Cardinality(A \cup B)
  BY <1>2 DEF NumVertices
<1> HIDE DEF A, B
<1>5. Cardinality(A \cup B) = Cardinality(A) + Cardinality(B) - Cardinality(A \cap B)
  BY <1>1, FS_Union
<1>6. Cardinality(A) \in Nat /\ Cardinality(B) \in Nat /\ Cardinality(A \cap B) \in Nat
  <2>1. IsFiniteSet(A \cap B)
    BY <1>1, FS_Subset
  <2> QED BY <1>1, <2>1, FS_CardinalityType
<1> QED BY <1>3, <1>4, <1>5, <1>6

LEMMA SequenceOfSet ==
  ASSUME NEW S, IsFiniteSet(S)
  PROVE  SetToSeq(S) \in Seq(S) /\ NoRepeats(SetToSeq(S)) /\ ToSet(SetToSeq(S)) = S
<1> DEFINE n == Cardinality(S)
           s == SetToSeq(S)
<1>1. n \in Nat /\ \E f \in [1..n -> S] : IsInjective(f)
  BY FS_CardinalityType DEF ExistsBijection, Bijection, Injection
<1>2. s \in [1..n -> S] /\ IsInjective(s)
  BY <1>1 DEF SetToSeq
<1> HIDE DEF n, s
<1>3. s \in Seq(S) /\ DOMAIN s = 1..n /\ NoRepeats(s)
  BY <1>1, <1>2 DEF NoRepeats, IsInjective
<1>4. s \in Surjection(1..n, S)
  <2>1. s \in Injection(1..n, S)
    BY <1>2 DEF Injection
  <2>2. IsFiniteSet(1..n) /\ Cardinality(1..n) = n
    BY <1>1, FS_Interval
  <2> QED BY <2>1, <2>2, FS_Injection DEF n
<1>5. ToSet(s) = S
  BY <1>3, <1>4 DEF Surjection, ToSet
<1> QED BY <1>3, <1>5 DEF s

-----------------------------------------------------------------------------
(* The limits: what is held back while a cluster is streamed is of meshes  *)
(* of this cluster, and within the limits.                                 *)

IsSequence(s) == s \in Seq(ToSet(s))

Within(fs) ==
  NumVertices(fs) <= MaxVertices /\ Cardinality(MeshesIn(fs)) <= MaxMeshes

\* The meshes in the current supermesh are whole.
CurrentIsOf(ms) ==
  /\ MeshesIn(current) \subseteq ms /\ current = FacesOf(MeshesIn(current))
  /\ NumVertices(current) <= MaxVertices

StreamOK ==
  IF stage = "streaming"
  THEN /\ clusters # <<>> /\ streaming \subseteq ToSet(Head(clusters))
       /\ CurrentIsOf(ToSet(Head(clusters)))
  ELSE streaming = {}

LimitsInv ==
  /\ present \subseteq Meshes /\ groups \subseteq SUBSET Meshes
  /\ clusters \in Seq(Short(Meshes))
  /\ StreamOK
  /\ IsSequence(supermeshes) /\ \A s \in ToSet(supermeshes) : Within(s.faces)

LEMMA OneMore ==
  ASSUME NEW s, IsSequence(s), NEW x
  PROVE  /\ IsSequence(Append(s, x)) /\ ToSet(Append(s, x)) = ToSet(s) \cup {x}
         /\ Len(s) \in Nat /\ Len(Append(s, x)) = Len(s) + 1
         /\ Append(s, x)[Len(s) + 1] = x /\ \A i \in 1..Len(s) : Append(s, x)[i] = s[i]
<1> DEFINE T == ToSet(s) \cup {x}
<1>1. s \in Seq(T) /\ x \in T
  BY DEF IsSequence
<1> HIDE DEF T
<1>2. ToSet(Append(s, x)) = ToSet(s) \cup {x} /\ Append(s, x) \in Seq(T)
  BY <1>1, AppendElements
<1>3. IsSequence(Append(s, x))
  BY <1>2 DEF IsSequence, T
<1> QED BY <1>1, <1>2, <1>3

LEMMA SomeMore ==
  ASSUME NEW s, IsSequence(s), NEW t, IsSequence(t)
  PROVE  /\ IsSequence(s \o t) /\ ToSet(s \o t) = ToSet(s) \cup ToSet(t)
         /\ Len(s) \in Nat /\ Len(t) \in Nat /\ Len(s \o t) = Len(s) + Len(t)
         /\ \A i \in 1..Len(s) : (s \o t)[i] = s[i]
         /\ \A i \in 1..Len(t) : (s \o t)[Len(s) + i] = t[i]
<1> DEFINE T == ToSet(s) \cup ToSet(t)
<1>1. s \in Seq(T) /\ t \in Seq(T)
  BY DEF IsSequence
<1> HIDE DEF T
<1>2. ToSet(s \o t) = ToSet(s) \cup ToSet(t) /\ s \o t \in Seq(T)
  BY <1>1, Joined
<1>3. IsSequence(s \o t)
  BY <1>2 DEF IsSequence, T
<1> QED BY <1>1, <1>2, <1>3

\* Supermeshes of the parts of a split mesh.
LEMMA PartsGiven ==
  ASSUME NEW parts, IsFiniteSet(parts), NEW given,
         given = [i \in DOMAIN SetToSeq(parts) |-> Supermesh(SetToSeq(parts)[i])]
  PROVE  /\ IsSequence(given) /\ DOMAIN given = DOMAIN SetToSeq(parts)
         /\ ToSet(given) = {Supermesh(p) : p \in parts}
<1> DEFINE q == SetToSeq(parts)
<1>1. q \in Seq(parts) /\ ToSet(q) = parts
  BY SequenceOfSet
<1>2. given = [i \in DOMAIN q |-> Supermesh(q[i])]
  OBVIOUS
<1> HIDE DEF q
<1>3. Len(q) \in Nat /\ DOMAIN q = 1..Len(q)
  BY <1>1
<1>4. DOMAIN given = DOMAIN q /\ \A i \in DOMAIN q : given[i] = Supermesh(q[i])
  BY <1>2
<1>5. ToSet(given) = {Supermesh(p) : p \in parts}
  BY <1>1, <1>4 DEF ToSet
<1>6. given \in [1..Len(q) -> ToSet(given)]
  <2>1. given = [i \in 1..Len(q) |-> given[i]]
    BY <1>2, <1>3, <1>4
  <2>2. \A i \in 1..Len(q) : given[i] \in ToSet(given)
    BY <1>3, <1>4 DEF ToSet
  <2> HIDE DEF IsSequence
  <2> QED BY <2>1, <2>2
<1>7. IsSequence(given)
  BY <1>3, <1>6 DEF IsSequence
<1> QED BY <1>4, <1>5, <1>7 DEF q

LEMMA CurrentWithin ==
  ASSUME NEW c \in Short(Meshes), CurrentIsOf(ToSet(c))
  PROVE  Within(current)
<1>1. c \in Seq(Meshes) /\ Len(c) <= MaxMeshes /\ Len(c) \in Nat
  BY DEF Short
<1>2. IsFiniteSet(ToSet(c)) /\ Cardinality(ToSet(c)) <= Len(c) /\ Cardinality(ToSet(c)) \in Nat
  BY <1>1, ElementCount
<1>3. /\ Cardinality(MeshesIn(current)) <= Cardinality(ToSet(c))
      /\ Cardinality(MeshesIn(current)) \in Nat
  <2>1. MeshesIn(current) \in SUBSET ToSet(c)
    BY DEF CurrentIsOf
  <2> QED BY <1>2, <2>1, FS_Subset, FS_CardinalityType
<1> QED BY <1>1, <1>2, <1>3, MeshAssumption DEF Within, CurrentIsOf

LEMMA PartWithin ==
  ASSUME NEW m \in Meshes, NEW fs \in SUBSET MeshFaces[m], NumVertices(fs) <= MaxVertices
  PROVE  Within(fs)
<1>1. MeshesIn(fs) \in SUBSET {m}
  BY MeshesInPart, MeshesInBoth
<1>2. Cardinality(MeshesIn(fs)) <= 1 /\ Cardinality(MeshesIn(fs)) \in Nat
  <2>1. IsFiniteSet({m}) /\ Cardinality({m}) = 1
    BY FS_Singleton
  <2> QED BY <1>1, <2>1, FS_Subset, FS_CardinalityType
<1> QED BY <1>2, MeshAssumption DEF Within

LEMMA TakeGroupWithin ==
  ASSUME LimitsInv, TakeGroup
  PROVE  LimitsInv'
<1>1. PICK g \in groups :
        /\ \E order \in SetToSeqs(g) :
             \E branches \in BranchClusters(TakeLow(order).rest) :
               \E walk \in SetToSeqs(TakeLow(order).rest), cut \in SetToSeqs(branches) :
                 clusters' = Clusters(order, walk, cut)
        /\ groups' = groups \ {g}
  BY DEF TakeGroup
<1>2. PICK order \in SetToSeqs(g) :
        \E branches \in BranchClusters(TakeLow(order).rest) :
          \E walk \in SetToSeqs(TakeLow(order).rest), cut \in SetToSeqs(branches) :
            clusters' = Clusters(order, walk, cut)
  BY <1>1
<1>3. PICK branches \in BranchClusters(TakeLow(order).rest) :
        \E walk \in SetToSeqs(TakeLow(order).rest), cut \in SetToSeqs(branches) :
          clusters' = Clusters(order, walk, cut)
  BY <1>2
<1>4. PICK walk \in SetToSeqs(TakeLow(order).rest), cut \in SetToSeqs(branches) :
        clusters' = Clusters(order, walk, cut)
  BY <1>3
<1>5. g \in SUBSET Meshes /\ IsFiniteSet(g)
  BY MeshAssumption, FS_Subset DEF LimitsInv
<1>6. clusters' \in Seq(Short(g))
  BY <1>4, <1>5, ClustersShort
<1>7. Short(g) \subseteq Short(Meshes)
  BY <1>5 DEF Short
<1>8. clusters' \in Seq(Short(Meshes))
  BY <1>6, <1>7
<1>9. stage = "jobs" /\ stage' = "clusters" /\ UNCHANGED <<present, streaming, current, supermeshes>>
  BY DEF TakeGroup
<1>10. StreamOK'
  BY <1>9 DEF LimitsInv, StreamOK
<1> QED BY <1>1, <1>8, <1>9, <1>10 DEF LimitsInv

\* What a mesh does to the supermesh in work.
LEMMA StreamMeshWithin ==
  ASSUME LimitsInv, NEW m \in Meshes, StreamMesh(m)
  PROVE  LimitsInv'
<1> DEFINE c == Head(clusters)
<1>1. m \in streaming /\ streaming' = streaming \ {m} /\ UNCHANGED <<stage, present, groups, clusters>>
  BY DEF StreamMesh, AppendMesh, SplitMesh, StartAnother
<1>2. /\ stage = "streaming" /\ clusters # <<>> /\ streaming \subseteq ToSet(c)
      /\ CurrentIsOf(ToSet(c))
  BY <1>1 DEF LimitsInv, StreamOK
<1>3. c \in Short(Meshes)
  BY <1>2 DEF LimitsInv
<1> HIDE DEF c
<1>4. /\ MeshesIn(current) \in SUBSET Meshes /\ MeshesIn(current) \subseteq ToSet(c)
      /\ current = FacesOf(MeshesIn(current)) /\ NumVertices(current) <= MaxVertices
  BY <1>2 DEF MeshesIn, CurrentIsOf
<1>5. MeshFaces[m] = FacesOf({m})
  BY FacesOfNext
<1>6. NumVertices(current) \in Nat /\ NumVertices(MeshFaces[m]) \in Nat /\ MaxVertices \in Nat
  BY <1>4, MeshVertices, FacesFinite, MeshAssumption
<1>7. /\ IsSequence(supermeshes) /\ \A s \in ToSet(supermeshes) : Within(s.faces)
  BY DEF LimitsInv
<1>8. CurrentIsOf(ToSet(c))' /\ IsSequence(supermeshes') /\ \A s \in ToSet(supermeshes') : Within(s.faces)
  <2>1. CASE AppendMesh(m)
    <3>1. /\ current' = current \cup MeshFaces[m] /\ supermeshes' = supermeshes
          /\ NumVertices(current) + NumVertices(MeshFaces[m]) <= MaxVertices
      BY <2>1 DEF AppendMesh, Fits
    <3>2. MeshesIn(current') = MeshesIn(current) \cup {m}
      BY <3>1, MeshesInNext
    <3>3. current' = FacesOf(MeshesIn(current'))
      BY <1>4, <3>1, <3>2, FacesOfNext
    <3>4. NumVertices(current') <= NumVertices(current) + NumVertices(MeshFaces[m])
      <4>1. {m} \in SUBSET Meshes
        OBVIOUS
      <4> HIDE <3>3
      <4>2. current' = FacesOf(MeshesIn(current)) \cup FacesOf({m})
        BY <1>4, <1>5, <3>1
      <4>3. NumVertices(current')
              <= NumVertices(FacesOf(MeshesIn(current))) + NumVertices(FacesOf({m}))
        BY <1>4, <4>1, <4>2, VerticesTogether
      <4> QED BY <1>4, <1>5, <4>3
    <3>5. NumVertices(current') \in Nat
      <4>1. MeshesIn(current') \in SUBSET Meshes
        BY DEF MeshesIn
      <4> QED BY <3>3, <4>1, FacesFinite
    <3>6. NumVertices(current') <= MaxVertices
      BY <1>6, <3>1, <3>4, <3>5
    <3>7. MeshesIn(current') \subseteq ToSet(c)
      BY <1>1, <1>2, <1>4, <3>2
    <3>8. CurrentIsOf(ToSet(c))'
      BY <1>1, <3>3, <3>6, <3>7 DEF CurrentIsOf, c
    <3> QED BY <1>7, <3>1, <3>8
  <2>2. CASE SplitMesh(m)
    <3>1. PICK parts \in Splits(m) :
            supermeshes' = supermeshes \o
              [i \in DOMAIN SetToSeq(parts) |-> Supermesh(SetToSeq(parts)[i])]
      BY <2>2 DEF SplitMesh
    <3> DEFINE given == [i \in DOMAIN SetToSeq(parts) |-> Supermesh(SetToSeq(parts)[i])]
    <3>2. Parted(parts, MeshFaces[m]) /\ \A p \in parts : NumVertices(p) <= MaxVertices
      BY SplitsAreGood
    <3>3. IsFiniteSet(parts)
      <4>1. parts \subseteq SUBSET MeshFaces[m] /\ IsFiniteSet(MeshFaces[m])
        BY <3>2, MeshAssumption DEF Parted
      <4> QED BY <4>1, FS_SUBSET, FS_Subset
    <3>4. IsSequence(given) /\ ToSet(given) = {Supermesh(p) : p \in parts}
      BY <3>3, PartsGiven
    <3> HIDE DEF given
    <3>5. supermeshes' = supermeshes \o given
      BY <3>1 DEF given
    <3>6. IsSequence(supermeshes') /\ ToSet(supermeshes') = ToSet(supermeshes) \cup ToSet(given)
      BY <1>7, <3>4, <3>5, SomeMore
    <3>7. ASSUME NEW s \in ToSet(given) PROVE Within(s.faces)
      <4>1. PICK p \in parts : s = Supermesh(p)
        BY <3>4
      <4>2. s.faces = p
        BY <4>1 DEF Supermesh
      <4>3. p \in SUBSET MeshFaces[m] /\ NumVertices(p) <= MaxVertices
        BY <3>2 DEF Parted
      <4> QED BY <4>2, <4>3, PartWithin
    <3>8. current' = current
      BY <2>2 DEF SplitMesh
    <3>9. CurrentIsOf(ToSet(c))'
      BY <1>1, <1>2, <3>8 DEF CurrentIsOf, MeshesIn, FacesOf, NumVertices, c
    <3> QED BY <1>7, <3>6, <3>7, <3>9
  <2>3. CASE StartAnother(m)
    <3>1. /\ current' = MeshFaces[m] /\ NumVertices(MeshFaces[m]) <= MaxVertices
          /\ supermeshes' = Append(supermeshes, Supermesh(current))
      BY <2>3 DEF StartAnother
    <3>2. MeshesIn(current') = {m} /\ current' = FacesOf({m})
      BY <1>5, <3>1, MeshesInNext
    <3>3. CurrentIsOf(ToSet(c))'
      BY <1>1, <1>2, <3>1, <3>2 DEF CurrentIsOf, MeshesIn, FacesOf, NumVertices, c
    <3>4. /\ IsSequence(supermeshes')
          /\ ToSet(supermeshes') = ToSet(supermeshes) \cup {Supermesh(current)}
      BY <1>7, <3>1, OneMore
    <3>5. Within(Supermesh(current).faces)
      BY <1>2, <1>3, CurrentWithin DEF Supermesh
    <3> QED BY <1>7, <3>3, <3>4, <3>5
  <2> QED BY <2>1, <2>2, <2>3 DEF StreamMesh
<1>9. StreamOK'
  BY <1>1, <1>2, <1>8 DEF StreamOK, c
<1> QED BY <1>1, <1>7, <1>8, <1>9 DEF LimitsInv

LEMMA OptimiserKeepsLimits ==
  ASSUME LimitsInv, OptimiserStep
  PROVE  LimitsInv'
<1>1. CASE ReadScene \/ TakeJob \/ CloseGroup \/ FinishScene
  <2>1. /\ stage \in {"read", "jobs", "clusters"} /\ stage' # "streaming"
        /\ UNCHANGED <<present, clusters, streaming, current, supermeshes>>
    BY <1>1 DEF ReadScene, TakeJob, CloseGroup, FinishScene
  <2>2. groups' \subseteq SUBSET Meshes
    BY <1>1 DEF LimitsInv, ReadScene, TakeJob, CloseGroup, FinishScene
  <2>3. StreamOK'
    BY <2>1 DEF LimitsInv, StreamOK
  <2> QED BY <2>1, <2>2, <2>3 DEF LimitsInv
<1>2. CASE TakeGroup
  BY <1>2, TakeGroupWithin
<1>3. CASE OpenCluster
  <2>1. /\ clusters # <<>> /\ streaming' = ToSet(Head(clusters)) /\ current' = {}
        /\ stage' = "streaming" /\ UNCHANGED <<present, groups, clusters, supermeshes>>
    BY <1>3 DEF OpenCluster
  <2>2. MeshesIn({}) = {} /\ FacesOf({}) = {} /\ NumVertices({}) = 0
    BY FS_EmptySet DEF MeshesIn, FacesOf, NumVertices
  <2>3. CurrentIsOf(ToSet(Head(clusters)))'
    BY <2>1, <2>2, MeshAssumption DEF CurrentIsOf, MeshesIn, FacesOf, NumVertices
  <2>4. StreamOK'
    BY <2>1, <2>3 DEF StreamOK
  <2> QED BY <2>1, <2>4 DEF LimitsInv
<1>4. ASSUME NEW m \in Meshes, StreamMesh(m) PROVE LimitsInv'
  BY <1>4, StreamMeshWithin
<1>5. CASE CloseCluster
  <2>1. /\ stage = "streaming" /\ streaming = {} /\ stage' = "clusters"
        /\ clusters' = Tail(clusters) /\ UNCHANGED <<present, groups, streaming, current>>
        /\ supermeshes' = IF current = {} THEN supermeshes
                          ELSE Append(supermeshes, Supermesh(current))
    BY <1>5 DEF CloseCluster
  <2>2. /\ clusters \in Seq(Short(Meshes)) /\ clusters # <<>>
        /\ CurrentIsOf(ToSet(Head(clusters)))
    BY <2>1 DEF LimitsInv, StreamOK
  <2>3. clusters' \in Seq(Short(Meshes)) /\ Head(clusters) \in Short(Meshes)
    BY <2>1, <2>2
  <2>4. Within(Supermesh(current).faces)
    BY <2>2, <2>3, CurrentWithin DEF Supermesh
  <2>5. IsSequence(supermeshes') /\ \A s \in ToSet(supermeshes') : Within(s.faces)
    BY <2>1, <2>4, OneMore DEF LimitsInv
  <2>6. StreamOK'
    BY <2>1 DEF StreamOK
  <2> QED BY <2>1, <2>3, <2>5, <2>6 DEF LimitsInv
<1> QED BY <1>1, <1>2, <1>3, <1>4, <1>5 DEF OptimiserStep

LEMMA LimitsFirst == Init => LimitsInv
<1> SUFFICES ASSUME Init PROVE LimitsInv
  OBVIOUS
<1>1. OptimiserInit
  BY DEF Init
<1>2. present \subseteq Meshes
  BY <1>1, MeshAssumption DEF OptimiserInit
<1>3. StreamOK
  BY <1>1 DEF OptimiserInit, StreamOK
<1>4. supermeshes = <<>> /\ ToSet(supermeshes) = {} /\ IsSequence(supermeshes)
  BY <1>1, NothingInEmpty DEF OptimiserInit, IsSequence
<1> QED BY <1>1, <1>2, <1>3, <1>4 DEF OptimiserInit, LimitsInv

LEMMA LimitsNext == LimitsInv /\ [Next]_vars => LimitsInv'
<1> SUFFICES ASSUME LimitsInv, [Next]_vars PROVE LimitsInv'
  OBVIOUS
<1>1. CASE OptimiserStep
  BY <1>1, OptimiserKeepsLimits
<1>2. CASE UNCHANGED optimiserVars
  BY <1>2 DEF optimiserVars, LimitsInv, StreamOK, CurrentIsOf, MeshesIn
<1> QED BY <1>1, <1>2 DEF Next, vars

\* What is streamed keeps its limits at every step: the supermesh in work, those that
\* were given to the exporter, and the parts that a cluster or a mesh is cut into
\* (MultipartOptimizer::createSuperMeshes, splitMesh).
THEOREM LimitsHold == Spec => []LimitsInv
BY LimitsFirst, LimitsNext, PTL DEF Spec

\* SupermeshesBounded: no supermesh has more vertices or meshes than one may have
\* (MultipartOptimizer::createSuperMeshes, splitMesh, splitBigClusters).
THEOREM LimitsKept == Spec => []SupermeshesBounded
<1>1. LimitsInv => SupermeshesBounded
  <2> SUFFICES ASSUME LimitsInv, NEW i \in DOMAIN supermeshes
               PROVE  Within(supermeshes[i].faces)
    BY DEF SupermeshesBounded, Within
  <2>1. supermeshes[i] \in ToSet(supermeshes)
    BY DEF ToSet
  <2> QED BY <2>1 DEF LimitsInv
<1> QED BY <1>1, LimitsHold, PTL

-----------------------------------------------------------------------------
(* Each face once.  A mesh that is wanted is to be selected by a job, in   *)
(* a group, in a cluster, about to be sent, in the current supermesh, or   *)
(* in the supermeshes of the exporter, and never in two of these places.   *)

Alike(m, n) ==
  /\ Attributes[m].primitive = Attributes[n].primitive /\ Look(m) = Look(n)
  /\ Attributes[m].normals = Attributes[n].normals
  /\ Attributes[m].grouping = Attributes[n].grouping

\* No group has meshes for two clusters that are too big.
FewMeshes ==
  \A s \in Scenes : \A m \in s : Cardinality({n \in s : Alike(n, m)}) <= 2 * MaxMeshes + 1

JobMeshes ==
  IF stage = "read" THEN Wanted ELSE {m \in present : \E j \in ToSet(jobs) : Selects(j, m)}

GroupMeshes == UNION groups

ClusterMeshes == Dealt(IF stage = "streaming" THEN Tail(clusters) ELSE clusters)

InCurrent == IF stage = "streaming" THEN MeshesIn(current) ELSE {}

ToCome == JobMeshes \cup GroupMeshes \cup ClusterMeshes \cup streaming \cup InCurrent

Once(f, s) == \E i \in DOMAIN s : \A j \in DOMAIN s : f \in s[j].faces <=> j = i

Never(f, s) == \A j \in DOMAIN s : f \notin s[j].faces

Accounted ==
  \A m \in Meshes : \A f \in MeshFaces[m] :
    /\ m \in ToCome => Never(f, supermeshes)
    /\ m \in Wanted \ ToCome => Once(f, supermeshes)

GroupsOK ==
  /\ \A g \in groups : Cardinality(g) <= 2 * MaxMeshes + 1
  /\ \A g, h \in groups : g # h => g \cap h = {}

PlacesApart ==
  /\ JobMeshes \cap (GroupMeshes \cup ClusterMeshes \cup streaming \cup InCurrent) = {}
  /\ GroupMeshes \cap (ClusterMeshes \cup streaming \cup InCurrent) = {}
  /\ ClusterMeshes \cap (streaming \cup InCurrent) = {} /\ streaming \cap InCurrent = {}

CoverInv ==
  /\ LimitsInv /\ present \in Scenes
  /\ stage \in {"read", "jobs", "finalised"} => clusters = <<>>
  /\ stage = "finalised" => jobs = <<>> /\ groups = {}
  /\ IsSequence(jobs) /\ NoRepeats(jobs)
  /\ GroupsOK /\ Deals(clusters, Dealt(clusters))
  /\ PlacesApart /\ Accounted

\* The jobs for these primitives and looks.
JobsOf(ps, looks) == [primitive : ps, look : looks, normals : BOOLEAN]

\* Each of them once.
ListsJobs(s, P) == s \in Seq(P) /\ NoRepeats(s) /\ ToSet(s) = P

LEMMA WiderSeq ==
  ASSUME NEW S, NEW T, S \subseteq T, NEW s \in Seq(S)
  PROVE  s \in Seq(T)
OBVIOUS

LEMMA BatchLists ==
  ASSUME NEW p, NEW look
  PROVE  ListsJobs(Batch(p, look), JobsOf({p}, {look}))
<1> DEFINE P == JobsOf({p}, {look})
           job(b) == [primitive |-> p, look |-> look, normals |-> b]
<1>1. /\ DOMAIN Batch(p, look) = 1..2
      /\ Batch(p, look)[1] = job(FALSE) /\ Batch(p, look)[2] = job(TRUE)
  <2>1. /\ Batch(p, look)[1] = [primitive |-> p, look |-> look, normals |-> 1 = 2]
        /\ Batch(p, look)[2] = [primitive |-> p, look |-> look, normals |-> 2 = 2]
        /\ DOMAIN Batch(p, look) = 1..2
    BY DEF Batch
  <2>2. (1 = 2) = FALSE /\ (2 = 2) = TRUE
    OBVIOUS
  <2> QED BY <2>1, <2>2, Zenon
<1>2. \A j : j \in P <=> j = job(FALSE) \/ j = job(TRUE)
  <2> SUFFICES ASSUME NEW j PROVE j \in P <=> j = job(FALSE) \/ j = job(TRUE)
    OBVIOUS
  <2>1. ASSUME j \in P PROVE j = job(FALSE) \/ j = job(TRUE)
    <3>1. j = [primitive |-> j.primitive, look |-> j.look, normals |-> j.normals]
      BY <2>1 DEF JobsOf
    <3>2. j.primitive = p /\ j.look = look /\ (j.normals = TRUE \/ j.normals = FALSE)
      BY <2>1 DEF JobsOf
    <3> QED BY <3>1, <3>2
  <2>2. job(FALSE) \in P /\ job(TRUE) \in P
    BY DEF JobsOf
  <2> QED BY <2>1, <2>2
<1>3. job(FALSE) # job(TRUE)
  <2>1. job(FALSE).normals = FALSE /\ job(TRUE).normals = TRUE
    OBVIOUS
  <2> QED BY <2>1
<1> HIDE DEF job
<1>4. Batch(p, look) \in Seq(P)
  <2>1. Batch(p, look) \in [1..2 -> P]
    <3>1. \A i \in 1..2 : i = 1 \/ i = 2
      OBVIOUS
    <3>2. \A i \in 1..2 : Batch(p, look)[i] \in P
      BY <1>1, <1>2, <3>1
    <3>3. Batch(p, look) = [i \in 1..2 |-> Batch(p, look)[i]]
      BY DEF Batch
    <3> QED BY <3>2, <3>3
  <2>2. PICK n \in Nat : n = 2
    OBVIOUS
  <2>3. Batch(p, look) \in [1..n -> P]
    BY <2>1, <2>2, Zenon
  <2> HIDE DEF P
  <2> QED BY <2>3
<1> HIDE DEF P
<1>5. \A i \in DOMAIN Batch(p, look) : i = 1 \/ i = 2
  BY <1>1
<1>6. NoRepeats(Batch(p, look))
  BY <1>1, <1>3, <1>5 DEF NoRepeats
<1>7. ToSet(Batch(p, look)) = P
  <2>1. \A j : j \in ToSet(Batch(p, look)) <=> j = job(FALSE) \/ j = job(TRUE)
    <3>1. 1 \in DOMAIN Batch(p, look) /\ 2 \in DOMAIN Batch(p, look)
      BY <1>1
    <3> QED BY <1>1, <1>5, <3>1 DEF ToSet
  <2> QED BY <1>2, <2>1
<1> QED BY <1>4, <1>6, <1>7 DEF ListsJobs, P

LEMMA ListsTogether ==
  ASSUME NEW s, NEW P, ListsJobs(s, P), NEW t, NEW Q, ListsJobs(t, Q), P \cap Q = {}
  PROVE  ListsJobs(s \o t, P \cup Q)
<1>1. s \in Seq(P \cup Q) /\ t \in Seq(P \cup Q) /\ ToSet(s) = P /\ ToSet(t) = Q
  BY DEF ListsJobs
<1> QED BY <1>1, Joined DEF ListsJobs

LEMMA JobsOfBoth ==
  ASSUME NEW looks, NEW look, look \notin looks
  PROVE  /\ (JobsOf({2, 3}, looks) \cup JobsOf({2}, {look})) \cup JobsOf({3}, {look})
              = JobsOf({2, 3}, looks \cup {look})
         /\ JobsOf({2, 3}, looks) \cap JobsOf({2}, {look}) = {}
         /\ (JobsOf({2, 3}, looks) \cup JobsOf({2}, {look})) \cap JobsOf({3}, {look}) = {}
         /\ JobsOf({2, 3}, {}) = {}
<1> DEFINE A == JobsOf({2, 3}, looks)
           B == JobsOf({2}, {look})
           C == JobsOf({3}, {look})
           D == JobsOf({2, 3}, looks \cup {look})
<1>0. D \subseteq [primitive : {2, 3}, look : looks \cup {look}, normals : BOOLEAN]
  BY DEF JobsOf
<1>1. \A j \in A : j.primitive \in {2, 3} /\ j.look \in looks /\ j \in D
  BY DEF JobsOf
<1>2. \A j \in B : j.primitive = 2 /\ j.look = look /\ j \in D
  BY DEF JobsOf
<1>3. \A j \in C : j.primitive = 3 /\ j.look = look /\ j \in D
  BY DEF JobsOf
<1>4. \A j \in D : j \in A \/ j \in B \/ j \in C
  BY DEF JobsOf
<1>5. JobsOf({2, 3}, {}) = {}
  BY DEF JobsOf
<1> HIDE DEF A, B, C, D
<1>6. (A \cup B) \cup C = D
  BY <1>1, <1>2, <1>3, <1>4
<1>7. A \cap B = {} /\ (A \cup B) \cap C = {}
  BY <1>1, <1>2, <1>3
<1> QED BY <1>5, <1>6, <1>7 DEF A, B, C, D

LEMMA MoreJobsList ==
  ASSUME NEW done, NEW looks, ListsJobs(done, JobsOf({2, 3}, looks)), NEW look, look \notin looks
  PROVE  ListsJobs(MoreJobs(done, look), JobsOf({2, 3}, looks \cup {look}))
<1>1. ListsJobs(done \o Batch(2, look), JobsOf({2, 3}, looks) \cup JobsOf({2}, {look}))
  BY JobsOfBoth, BatchLists, ListsTogether
<1>2. ListsJobs((done \o Batch(2, look)) \o Batch(3, look),
                (JobsOf({2, 3}, looks) \cup JobsOf({2}, {look})) \cup JobsOf({3}, {look}))
  BY <1>1, JobsOfBoth, BatchLists, ListsTogether
<1> QED BY <1>2, JobsOfBoth DEF MoreJobs

LEMMA FirstJobsList ==
  ListsJobs(FirstJobs, JobsOf({2, 3}, {"transparent", "opaque"}))
<1> DEFINE A == JobsOf({2}, {"transparent"})
           B == JobsOf({2}, {"opaque"})
           C == JobsOf({3}, {"transparent"})
           D == JobsOf({3}, {"opaque"})
           E == JobsOf({2, 3}, {"transparent", "opaque"})
<1>1. \A j \in A : j.primitive = 2 /\ j.look = "transparent" /\ j \in E
  BY DEF JobsOf
<1>2. \A j \in B : j.primitive = 2 /\ j.look = "opaque" /\ j \in E
  BY DEF JobsOf
<1>3. \A j \in C : j.primitive = 3 /\ j.look = "transparent" /\ j \in E
  BY DEF JobsOf
<1>4. \A j \in D : j.primitive = 3 /\ j.look = "opaque" /\ j \in E
  BY DEF JobsOf
<1>5. \A j \in E : j \in A \/ j \in B \/ j \in C \/ j \in D
  BY DEF JobsOf
<1>6. /\ ListsJobs(Batch(2, "transparent"), A) /\ ListsJobs(Batch(2, "opaque"), B)
      /\ ListsJobs(Batch(3, "transparent"), C) /\ ListsJobs(Batch(3, "opaque"), D)
  BY BatchLists
<1>7. "transparent" # "opaque"
  OBVIOUS
<1> HIDE DEF A, B, C, D, E
<1>8. A \cap B = {} /\ (A \cup B) \cap C = {} /\ ((A \cup B) \cup C) \cap D = {}
  BY <1>1, <1>2, <1>3, <1>4, <1>7
<1>9. ((A \cup B) \cup C) \cup D = E
  BY <1>1, <1>2, <1>3, <1>4, <1>5
<1>10. ListsJobs(Batch(2, "transparent") \o Batch(2, "opaque"), A \cup B)
  BY <1>6, <1>8, ListsTogether
<1>11. ListsJobs((Batch(2, "transparent") \o Batch(2, "opaque")) \o Batch(3, "transparent"),
                 (A \cup B) \cup C)
  BY <1>6, <1>8, <1>10, ListsTogether
<1>12. ListsJobs(((Batch(2, "transparent") \o Batch(2, "opaque")) \o Batch(3, "transparent"))
                   \o Batch(3, "opaque"), ((A \cup B) \cup C) \cup D)
  BY <1>6, <1>8, <1>11, ListsTogether
<1> QED BY <1>9, <1>12 DEF FirstJobs, E

LEMMA JobsList ==
  ASSUME NEW texIds \in SetToSeqs(Textures)
  PROVE  ListsJobs(Jobs(texIds), JobsOf({2, 3}, {"transparent", "opaque"} \cup Textures))
<1> DEFINE n == Len(texIds)
           P == JobsOf({2, 3}, {"transparent", "opaque"} \cup Textures)
           looks(k) == {"transparent", "opaque"} \cup UpToPlace(texIds, k)
           A == Seq(JobsOf({2, 3}, {"transparent", "opaque"} \cup Textures))
<1>1. texIds \in Seq(Textures) /\ NoRepeats(texIds) /\ ToSet(texIds) = Textures /\ n \in Nat
  BY AttributesAssumption, OrderIs
<1>2. Textures \cap {"transparent", "opaque"} = {}
  BY AttributesAssumption
<1>3. ASSUME NEW a \in A, NEW look \in Textures PROVE MoreJobs(a, look) \in A
  <2>1. Batch(2, look) \in Seq(P) /\ Batch(3, look) \in Seq(P)
    <3>1. JobsOf({2}, {look}) \subseteq P /\ JobsOf({3}, {look}) \subseteq P
      BY DEF JobsOf
    <3>2. Batch(2, look) \in Seq(JobsOf({2}, {look})) /\ Batch(3, look) \in Seq(JobsOf({3}, {look}))
      BY BatchLists DEF ListsJobs
    <3> HIDE DEF P
    <3>3. Batch(2, look) \in Seq(P)
      <4>1. PICK U : U = JobsOf({2}, {look})
        OBVIOUS
      <4>2. U \subseteq P /\ Batch(2, look) \in Seq(U)
        BY <3>1, <3>2, <4>1
      <4> QED BY <4>2, WiderSeq
    <3>4. Batch(3, look) \in Seq(P)
      <4>1. PICK U : U = JobsOf({3}, {look})
        OBVIOUS
      <4>2. U \subseteq P /\ Batch(3, look) \in Seq(U)
        BY <3>1, <3>2, <4>1
      <4> QED BY <4>2, WiderSeq
    <3> QED BY <3>3, <3>4
  <2> HIDE DEF P
  <2>2. a \in Seq(P)
    BY DEF P
  <2>3. a \o Batch(2, look) \o Batch(3, look) \in Seq(P)
    BY <2>1, <2>2
  <2> QED BY <2>3 DEF MoreJobs, P
<1>4. FirstJobs \in A
  <2>1. JobsOf({2, 3}, {"transparent", "opaque"}) \subseteq P
    BY DEF JobsOf
  <2>2. FirstJobs \in Seq(JobsOf({2, 3}, {"transparent", "opaque"}))
    BY FirstJobsList DEF ListsJobs
  <2> HIDE DEF P
  <2>3. FirstJobs \in Seq(P)
    BY <2>1, <2>2
  <2> QED BY <2>3 DEF P
<1> HIDE DEF A
<1>5. PICK p \in [0..n -> A] :
        /\ p[0] = FirstJobs /\ Jobs(texIds) = p[n]
        /\ \A k \in 1..n : p[k] = MoreJobs(p[k - 1], texIds[k])
  <2>1. JobsTo(A, texIds)
    BY <1>1, <1>3, <1>4, JobsInTurn
  <2> QED BY <2>1 DEF JobsTo
<1> DEFINE K == {k \in 0..n : ListsJobs(p[k], JobsOf({2, 3}, looks(k)))}
<1>6. 0 \in K
  <2>1. looks(0) = {"transparent", "opaque"}
    BY <1>1, Places
  <2>2. ListsJobs(p[0], JobsOf({2, 3}, looks(0)))
    BY <1>5, <2>1, FirstJobsList, Zenon
  <2> HIDE DEF looks
  <2> QED BY <1>1, <2>2
<1>7. ASSUME NEW k \in 1..n, k - 1 \in K PROVE k \in K
  <2>1. /\ UpToPlace(texIds, k) = UpToPlace(texIds, k - 1) \cup {texIds[k]}
        /\ texIds[k] \in Textures /\ texIds[k] \notin UpToPlace(texIds, k - 1)
    BY <1>1, NextPlace
  <2>2. looks(k) = looks(k - 1) \cup {texIds[k]} /\ texIds[k] \notin looks(k - 1)
    BY <1>2, <2>1
  <2>3. ListsJobs(p[k - 1], JobsOf({2, 3}, looks(k - 1)))
    BY <1>7
  <2>4. ListsJobs(MoreJobs(p[k - 1], texIds[k]), JobsOf({2, 3}, looks(k - 1) \cup {texIds[k]}))
    BY <2>2, <2>3, MoreJobsList
  <2>5. p[k] = MoreJobs(p[k - 1], texIds[k])
    BY <1>5
  <2>6. ListsJobs(p[k], JobsOf({2, 3}, looks(k)))
    BY <2>2, <2>4, <2>5, Zenon
  <2> HIDE DEF looks
  <2> QED BY <1>1, <2>6
<1> HIDE DEF K
<1>8. n \in K
  <2>1. \A k \in 0..n : k \in K
    BY <1>1, <1>6, <1>7, UpTo
  <2> QED BY <1>1, <2>1
<1>9. looks(n) = {"transparent", "opaque"} \cup Textures
  BY <1>1, Places
<1> QED BY <1>5, <1>8, <1>9 DEF K

\* There is a job for each mesh that is wanted, and for no other.
LEMMA WantedSelected ==
  ASSUME NEW texIds \in SetToSeqs(Textures), NEW m \in Meshes
  PROVE  (\E j \in ToSet(Jobs(texIds)) : Selects(j, m)) <=> Attributes[m].primitive \in {2, 3}
<1> DEFINE looks == {"transparent", "opaque"} \cup Textures
<1>1. ToSet(Jobs(texIds)) = JobsOf({2, 3}, looks)
  BY JobsList DEF ListsJobs
<1>2. Look(m) \in looks
  BY AttributesAssumption DEF Look
<1>3. Attributes[m].normals \in BOOLEAN
  BY AttributesAssumption
<1> HIDE DEF looks
<1> DEFINE job == [primitive |-> Attributes[m].primitive, look |-> Look(m),
                   normals |-> Attributes[m].normals]
<1>4. (\E j \in ToSet(Jobs(texIds)) : Selects(j, m)) <=> job \in JobsOf({2, 3}, looks)
  BY <1>1 DEF Selects
<1>5. job \in JobsOf({2, 3}, looks) <=>
        /\ Attributes[m].primitive \in {2, 3} /\ Look(m) \in looks
        /\ Attributes[m].normals \in BOOLEAN
  <2> HIDE DEF job
  <2>1. /\ job.primitive = Attributes[m].primitive /\ job.look = Look(m)
        /\ job.normals = Attributes[m].normals
    BY DEF job
  <2>2. job = [primitive |-> job.primitive, look |-> job.look, normals |-> job.normals]
    BY DEF job
  <2> QED BY <2>1, <2>2 DEF JobsOf
<1> QED BY <1>2, <1>3, <1>4, <1>5

LEMMA HeadAndTail ==
  ASSUME NEW T, NEW s \in Seq(T), s # <<>>
  PROVE  /\ Tail(s) \in Seq(T) /\ IsSequence(Tail(s)) /\ Head(s) \in T
         /\ ToSet(s) = {Head(s)} \cup ToSet(Tail(s))
         /\ NoRepeats(s) => NoRepeats(Tail(s)) /\ Head(s) \notin ToSet(Tail(s))
<1> DEFINE n == Len(s)
           t == Tail(s)
<1>1. n \in Nat /\ n >= 1 /\ DOMAIN s = 1..n
  OBVIOUS
<1>2. /\ t \in Seq(T) /\ Len(t) = n - 1 /\ DOMAIN t = 1..n - 1
      /\ \A i \in 1..n - 1 : t[i] = s[i + 1]
  OBVIOUS
<1>3. Head(s) = s[1] /\ s[1] \in T
  BY <1>1
<1> HIDE DEF n, t
<1>4. ToSet(s) = {s[1]} \cup ToSet(t)
  <2>1. ASSUME NEW x \in ToSet(s) PROVE x = s[1] \/ x \in ToSet(t)
    <3>1. PICK i \in 1..n : x = s[i]
      BY <1>1 DEF ToSet
    <3>2. CASE i = 1
      BY <3>1, <3>2
    <3>3. CASE i # 1
      <4>1. i - 1 \in 1..n - 1 /\ (i - 1) + 1 = i
        BY <1>1, <3>3
      <4>2. t[i - 1] = x
        BY <1>2, <3>1, <4>1
      <4> QED BY <1>2, <4>1, <4>2 DEF ToSet
    <3> QED BY <3>2, <3>3
  <2>2. ASSUME NEW x \in ToSet(t) PROVE x \in ToSet(s)
    <3>1. PICK i \in 1..n - 1 : x = t[i]
      BY <1>2 DEF ToSet
    <3>2. i + 1 \in 1..n /\ x = s[i + 1]
      BY <1>1, <1>2, <3>1
    <3> QED BY <1>1, <3>2 DEF ToSet
  <2>3. s[1] \in ToSet(s)
    BY <1>1 DEF ToSet
  <2> QED BY <2>1, <2>2, <2>3
<1>5. ASSUME NoRepeats(s) PROVE NoRepeats(t) /\ s[1] \notin ToSet(t)
  <2>1. ASSUME NEW i \in 1..n - 1, NEW j \in 1..n - 1, t[i] = t[j] PROVE i = j
    <3>1. i + 1 \in 1..n /\ j + 1 \in 1..n
      BY <1>1
    <3>2. s[i + 1] = s[j + 1]
      BY <1>2, <2>1
    <3>3. i + 1 = j + 1
      BY <1>1, <1>5, <3>1, <3>2 DEF NoRepeats
    <3> QED BY <3>3
  <2>2. ASSUME NEW i \in 1..n - 1 PROVE t[i] # s[1]
    <3>1. i + 1 \in 1..n /\ 1 \in 1..n /\ i + 1 # 1
      BY <1>1
    <3> QED BY <1>1, <1>2, <1>5, <3>1 DEF NoRepeats
  <2> QED BY <1>2, <2>1, <2>2 DEF NoRepeats, ToSet
<1>6. IsSequence(t)
  <2>1. \A i \in 1..n - 1 : t[i] \in ToSet(t)
    BY <1>2 DEF ToSet
  <2>2. t \in [1..n - 1 -> T] /\ n - 1 \in Nat
    BY <1>1, <1>2
  <2>3. t \in [1..n - 1 -> ToSet(t)]
    BY <2>1, <2>2
  <2> QED BY <2>2, <2>3 DEF IsSequence
<1> QED BY <1>2, <1>3, <1>4, <1>5, <1>6 DEF t

LEMMA DealRest ==
  ASSUME NEW cs, NEW S, Deals(cs, S), cs # <<>>
  PROVE  Deals(Tail(cs), S \ ToSet(Head(cs))) /\ ToSet(Head(cs)) \subseteq S
<1> DEFINE t == Tail(cs)
           c == Head(cs)
<1>1. cs \in Seq(Seq(Meshes)) /\ NoRepeats(cs) /\ Dealt(cs) = S
  BY DEF Deals
<1>2. /\ t \in Seq(Seq(Meshes)) /\ ToSet(cs) = {c} \cup ToSet(t)
      /\ NoRepeats(t) /\ c \notin ToSet(t)
  BY <1>1, HeadAndTail
<1> HIDE DEF t, c
<1>3. \A d \in ToSet(t) : d # <<>> /\ NoRepeats(d) /\ ToSet(d) \cap ToSet(c) = {}
  BY <1>2 DEF Deals
<1>4. \A d, e \in ToSet(t) : d # e => ToSet(d) \cap ToSet(e) = {}
  BY <1>2 DEF Deals
<1>5. \A x : /\ x \in Dealt(t) <=> \E d \in ToSet(t) : x \in ToSet(d)
             /\ x \in S <=> \E d \in ToSet(cs) : x \in ToSet(d)
  BY <1>1, DealtAre
<1>6. Dealt(t) = S \ ToSet(c) /\ ToSet(c) \subseteq S
  <2>1. ASSUME NEW x PROVE x \in S <=> x \in ToSet(c) \/ x \in Dealt(t)
    BY <1>2, <1>5
  <2>2. ASSUME NEW x PROVE ~ (x \in ToSet(c) /\ x \in Dealt(t))
    BY <1>3, <1>5
  <2> QED BY <2>1, <2>2
<1>7. Deals(t, S \ ToSet(c))
  BY <1>2, <1>3, <1>4, <1>6 DEF Deals
<1> QED BY <1>6, <1>7 DEF t, c

LEMMA GivenAfter ==
  ASSUME NEW f, NEW s, IsSequence(s), NEW t, IsSequence(t)
  PROVE  /\ Never(f, s) /\ Once(f, t) => Once(f, s \o t)
         /\ Once(f, s) /\ Never(f, t) => Once(f, s \o t)
         /\ Never(f, s) /\ Never(f, t) => Never(f, s \o t)
<1> DEFINE n == Len(s)
           k == Len(t)
           u == s \o t
<1>1. /\ n \in Nat /\ k \in Nat /\ Len(u) = n + k /\ IsSequence(u)
      /\ \A i \in 1..n : u[i] = s[i]
      /\ \A i \in 1..k : u[n + i] = t[i]
  BY SomeMore
<1>2. DOMAIN s = 1..n /\ DOMAIN t = 1..k /\ DOMAIN u = 1..n + k
  BY <1>1 DEF IsSequence
<1> HIDE DEF n, k, u
<1>3. ASSUME NEW j \in 1..n + k
      PROVE  \/ j \in 1..n /\ u[j] = s[j]
             \/ j - n \in 1..k /\ u[j] = t[j - n]
  <2>1. CASE j <= n
    BY <1>1, <2>1
  <2>2. CASE ~ (j <= n)
    <3>1. j - n \in 1..k /\ n + (j - n) = j
      BY <1>1, <2>2
    <3> QED BY <1>1, <3>1
  <2> QED BY <2>1, <2>2
<1>4. ASSUME Never(f, s), Once(f, t) PROVE Once(f, u)
  <2>1. PICK i \in 1..k : \A j \in 1..k : f \in t[j].faces <=> j = i
    BY <1>2, <1>4 DEF Once
  <2>2. n + i \in 1..n + k
    BY <1>1
  <2>3. ASSUME NEW j \in 1..n + k PROVE f \in u[j].faces <=> j = n + i
    <3>1. CASE j \in 1..n /\ u[j] = s[j]
      <4>1. j # n + i
        BY <1>1, <3>1
      <4> QED BY <1>2, <1>4, <3>1, <4>1 DEF Never
    <3>2. CASE j - n \in 1..k /\ u[j] = t[j - n]
      <4>1. j - n = i <=> j = n + i
        BY <1>1
      <4> QED BY <2>1, <3>2, <4>1
    <3> QED BY <1>3, <3>1, <3>2
  <2> QED BY <1>2, <2>2, <2>3 DEF Once
<1>5. ASSUME Once(f, s), Never(f, t) PROVE Once(f, u)
  <2>1. PICK i \in 1..n : \A j \in 1..n : f \in s[j].faces <=> j = i
    BY <1>2, <1>5 DEF Once
  <2>2. i \in 1..n + k
    BY <1>1
  <2>3. ASSUME NEW j \in 1..n + k PROVE f \in u[j].faces <=> j = i
    <3>1. CASE j \in 1..n /\ u[j] = s[j]
      BY <2>1, <3>1
    <3>2. CASE j - n \in 1..k /\ u[j] = t[j - n]
      <4>1. j # i
        BY <1>1, <3>2
      <4> QED BY <1>2, <1>5, <3>2, <4>1 DEF Never
    <3> QED BY <1>3, <3>1, <3>2
  <2> QED BY <1>2, <2>2, <2>3 DEF Once
<1>6. ASSUME Never(f, s), Never(f, t) PROVE Never(f, u)
  BY <1>2, <1>3, <1>6 DEF Never
<1> QED BY <1>4, <1>5, <1>6 DEF u

LEMMA StillAccounted ==
  ASSUME Accounted, UNCHANGED <<present, supermeshes>>, ToCome' = ToCome
  PROVE  Accounted'
<1>1. Wanted' = Wanted
  BY DEF Wanted
<1> QED BY <1>1 DEF Accounted

\* The exporter is given the supermeshes of t, and they show the meshes of D.
LEMMA AccountedWhenShown ==
  ASSUME Accounted, IsSequence(supermeshes), UNCHANGED present,
         NEW D, D \subseteq ToCome, ToCome' = ToCome \ D,
         NEW t, IsSequence(t), supermeshes' = supermeshes \o t,
         \A m \in Meshes : \A f \in MeshFaces[m] : IF m \in D THEN Once(f, t) ELSE Never(f, t)
  PROVE  Accounted'
<1>1. Wanted' = Wanted
  BY DEF Wanted
<1>2. ASSUME NEW m \in Meshes, NEW f \in MeshFaces[m]
      PROVE  /\ m \in ToCome' => Never(f, supermeshes')
             /\ m \in Wanted' \ ToCome' => Once(f, supermeshes')
  <2>1. /\ m \in ToCome => Never(f, supermeshes)
        /\ m \in Wanted \ ToCome => Once(f, supermeshes)
    BY DEF Accounted
  <2>2. IF m \in D THEN Once(f, t) ELSE Never(f, t)
    OBVIOUS
  <2>3. /\ Never(f, supermeshes) /\ Once(f, t) => Once(f, supermeshes')
        /\ Once(f, supermeshes) /\ Never(f, t) => Once(f, supermeshes')
        /\ Never(f, supermeshes) /\ Never(f, t) => Never(f, supermeshes')
    BY GivenAfter
  <2> QED BY <1>1, <2>1, <2>2, <2>3
<1> QED BY <1>2 DEF Accounted

\* The current supermesh shows the meshes that are in it.
LEMMA CurrentShows ==
  ASSUME current = FacesOf(MeshesIn(current)), NEW t, t = <<Supermesh(current)>>,
         NEW m \in Meshes, NEW f \in MeshFaces[m]
  PROVE  /\ IsSequence(t)
         /\ IF m \in MeshesIn(current) THEN Once(f, t) ELSE Never(f, t)
<1>1. DOMAIN t = {1} /\ t[1].faces = current
  <2>1. DOMAIN t = 1..1 /\ t[1] = Supermesh(current)
    OBVIOUS
  <2> QED BY <2>1 DEF Supermesh
<1>2. IsSequence(t)
  <2>1. Supermesh(current) \in ToSet(t)
    BY <1>1 DEF ToSet
  <2> QED BY <2>1 DEF IsSequence
<1>3. m \in MeshesIn(current) <=> f \in current
  <2>1. ASSUME f \in current PROVE m \in MeshesIn(current)
    BY <2>1 DEF MeshesIn
  <2>2. ASSUME m \in MeshesIn(current) PROVE f \in current
    <3>1. f \in FacesOf(MeshesIn(current))
      BY <2>2, FacesOfAre
    <3> QED BY <3>1
  <2> QED BY <2>1, <2>2
<1>4. CASE f \in current
  <2>1. 1 \in DOMAIN t /\ \A j \in DOMAIN t : f \in t[j].faces <=> j = 1
    BY <1>1, <1>4
  <2>2. Once(f, t)
    BY <2>1 DEF Once
  <2> QED BY <1>2, <1>3, <1>4, <2>2
<1>5. CASE f \notin current
  <2>1. Never(f, t)
    BY <1>1, <1>5 DEF Never
  <2> QED BY <1>2, <1>3, <1>5, <2>1
<1> QED BY <1>2, <1>4, <1>5

\* The parts of a split mesh show it.
LEMMA PartsShow ==
  ASSUME NEW m \in Meshes, NEW parts, Parted(parts, MeshFaces[m]), NEW t,
         t = [i \in DOMAIN SetToSeq(parts) |-> Supermesh(SetToSeq(parts)[i])],
         NEW n \in Meshes, NEW f \in MeshFaces[n]
  PROVE  IsSequence(t) /\ IF n \in {m} THEN Once(f, t) ELSE Never(f, t)
<1> DEFINE q == SetToSeq(parts)
<1>1. IsFiniteSet(parts)
  <2>1. parts \subseteq SUBSET MeshFaces[m] /\ IsFiniteSet(MeshFaces[m])
    BY MeshAssumption DEF Parted
  <2> QED BY <2>1, FS_SUBSET, FS_Subset
<1>2. q \in Seq(parts) /\ NoRepeats(q) /\ ToSet(q) = parts
  BY <1>1, SequenceOfSet
<1>3. IsSequence(t) /\ DOMAIN t = DOMAIN q
  BY <1>1, PartsGiven
<1>4. \A i \in DOMAIN q : t[i].faces = q[i]
  BY DEF Supermesh
<1> HIDE DEF q
<1>5. CASE n = m
  <2>1. PICK p \in parts : f \in p
    BY <1>5 DEF Parted
  <2>2. PICK i \in DOMAIN q : q[i] = p
    BY <1>2 DEF ToSet
  <2>3. ASSUME NEW j \in DOMAIN q PROVE f \in q[j] <=> j = i
    <3>1. q[j] \in parts
      BY <1>2 DEF ToSet
    <3>2. q[j] # p => f \notin q[j]
      BY <2>1, <3>1 DEF Parted
    <3> QED BY <1>2, <2>1, <2>2, <3>2 DEF NoRepeats
  <2>4. Once(f, t)
    BY <1>3, <1>4, <2>2, <2>3 DEF Once
  <2> QED BY <1>3, <1>5, <2>4
<1>6. CASE n # m
  <2>1. f \notin MeshFaces[m]
    BY <1>6, FacesApart
  <2>2. ASSUME NEW j \in DOMAIN q PROVE f \notin q[j]
    <3>1. q[j] \in parts
      BY <1>2 DEF ToSet
    <3> QED BY <2>1, <3>1 DEF Parted
  <2>3. Never(f, t)
    BY <1>3, <1>4, <2>2 DEF Never
  <2> QED BY <1>3, <1>6, <2>3
<1> QED BY <1>5, <1>6

LEMMA ReadSceneCovers ==
  ASSUME CoverInv, LimitsInv', ReadScene
  PROVE  CoverInv'
<1>1. PICK texIds \in SetToSeqs(Textures) : jobs' = Jobs(texIds)
  BY DEF ReadScene
<1>2. /\ stage = "read" /\ stage' = "jobs"
      /\ UNCHANGED <<present, groups, clusters, streaming, current, supermeshes>>
  BY DEF ReadScene
<1>3. IsSequence(jobs') /\ NoRepeats(jobs')
  BY <1>1, JobsList DEF ListsJobs, IsSequence
<1>4. present \subseteq Meshes
  BY DEF CoverInv, LimitsInv
<1>5. JobMeshes' = JobMeshes
  <2>1. JobMeshes = {m \in present : Attributes[m].primitive \in {2, 3}}
    BY <1>2 DEF JobMeshes, Wanted
  <2>2. JobMeshes' = {m \in present : \E j \in ToSet(Jobs(texIds)) : Selects(j, m)}
    BY <1>1, <1>2 DEF JobMeshes
  <2> QED BY <1>4, <2>1, <2>2, WantedSelected
<1>6. /\ GroupMeshes' = GroupMeshes /\ ClusterMeshes' = ClusterMeshes
      /\ InCurrent' = InCurrent /\ ToCome' = ToCome
  BY <1>2, <1>5 DEF GroupMeshes, ClusterMeshes, InCurrent, ToCome
<1>7. Accounted'
  BY <1>2, <1>6, StillAccounted DEF CoverInv
<1>8. PlacesApart'
  BY <1>2, <1>5, <1>6 DEF CoverInv, PlacesApart
<1>9. GroupsOK'
  BY <1>2 DEF CoverInv, GroupsOK
<1> QED BY <1>2, <1>3, <1>7, <1>8, <1>9 DEF CoverInv

LEMMA TakeJobCovers ==
  ASSUME FewMeshes, CoverInv, LimitsInv', TakeJob
  PROVE  CoverInv'
<1> DEFINE job == Head(jobs)
           selected == {m \in present : Selects(job, m)}
<1>1. /\ stage = "jobs" /\ stage' = "jobs" /\ groups = {} /\ jobs # <<>> /\ jobs' = Tail(jobs)
      /\ groups' = {{n \in selected : GroupKey(n) = GroupKey(m)} : m \in selected}
      /\ UNCHANGED <<present, clusters, streaming, current, supermeshes>>
  BY DEF TakeJob
<1>2. /\ IsSequence(jobs') /\ NoRepeats(jobs') /\ ToSet(jobs) = {job} \cup ToSet(jobs')
      /\ job \notin ToSet(jobs')
  BY <1>1, HeadAndTail DEF CoverInv, IsSequence
<1> HIDE DEF job
<1>3. GroupMeshes' = selected
  <2>1. ASSUME NEW m \in selected PROVE \E g \in groups' : m \in g
    <3>1. {n \in selected : GroupKey(n) = GroupKey(m)} \in groups'
      BY <1>1
    <3> QED BY <3>1
  <2>2. ASSUME NEW g \in groups' PROVE g \subseteq selected
    BY <1>1
  <2> QED BY <2>1, <2>2 DEF GroupMeshes
<1>4. selected \cup JobMeshes' = JobMeshes /\ selected \cap JobMeshes' = {}
  <2>1. JobMeshes = {m \in present : \E j \in ToSet(jobs) : Selects(j, m)}
    BY <1>1 DEF JobMeshes
  <2>2. JobMeshes' = {m \in present : \E j \in ToSet(jobs') : Selects(j, m)}
    BY <1>1 DEF JobMeshes
  <2>3. ASSUME NEW j, NEW m, Selects(j, m), Selects(job, m) PROVE j = job
    BY <2>3 DEF Selects
  <2>4. ASSUME NEW m \in present
        PROVE  /\ m \in JobMeshes <=> m \in selected \/ m \in JobMeshes'
               /\ ~ (m \in selected /\ m \in JobMeshes')
    BY <1>2, <2>1, <2>2, <2>3
  <2>5. JobMeshes \subseteq present /\ JobMeshes' \subseteq present /\ selected \subseteq present
    BY <2>1, <2>2
  <2> QED BY <2>4, <2>5
<1>5. GroupMeshes = {} /\ ClusterMeshes' = ClusterMeshes /\ InCurrent' = InCurrent
  BY <1>1 DEF GroupMeshes, ClusterMeshes, InCurrent
<1>6. ToCome' = ToCome
  BY <1>1, <1>3, <1>4, <1>5 DEF ToCome
<1>7. Accounted'
  BY <1>1, <1>6, StillAccounted DEF CoverInv
<1>8. PlacesApart'
  <2>1. JobMeshes \cap (ClusterMeshes \cup streaming \cup InCurrent) = {}
    BY DEF CoverInv, PlacesApart
  <2>2. ClusterMeshes \cap (streaming \cup InCurrent) = {} /\ streaming \cap InCurrent = {}
    BY DEF CoverInv, PlacesApart
  <2>3. streaming' = streaming
    BY <1>1
  <2> HIDE DEF selected
  <2>4. JobMeshes' \subseteq JobMeshes /\ selected \subseteq JobMeshes
    BY <1>4
  <2>5. JobMeshes' \cap (selected \cup ClusterMeshes \cup streaming \cup InCurrent) = {}
    BY <1>4, <2>1, <2>4
  <2>6. selected \cap (ClusterMeshes \cup streaming \cup InCurrent) = {}
    BY <2>1, <2>4
  <2> QED BY <1>3, <1>5, <2>2, <2>3, <2>5, <2>6 DEF PlacesApart
<1>9. GroupsOK'
  <2>1. ASSUME NEW g \in groups' PROVE Cardinality(g) <= 2 * MaxMeshes + 1
    <3>1. PICK m \in selected : g = {n \in selected : GroupKey(n) = GroupKey(m)}
      BY <1>1
    <3> DEFINE same == {n \in present : Alike(n, m)}
    <3>2. ASSUME NEW n \in g PROVE Alike(n, m)
      <4>1. Selects(job, n) /\ Selects(job, m) /\ GroupKey(n) = GroupKey(m)
        BY <3>1
      <4>2. Attributes[n].grouping = Attributes[m].grouping
        BY <4>1 DEF GroupKey
      <4>3. /\ job.primitive = Attributes[n].primitive /\ job.primitive = Attributes[m].primitive
            /\ job.look = Look(n) /\ job.look = Look(m)
            /\ job.normals = Attributes[n].normals /\ job.normals = Attributes[m].normals
        <5> HIDE DEF Look
        <5> QED BY <4>1 DEF Selects
      <4> QED BY <4>2, <4>3 DEF Alike
    <3>3. g \in SUBSET same
      BY <3>1, <3>2
    <3>4. IsFiniteSet(same) /\ Cardinality(same) <= 2 * MaxMeshes + 1
      <4>1. same \in SUBSET Meshes
        BY DEF CoverInv, LimitsInv
      <4>2. present \in Scenes /\ m \in present
        BY DEF CoverInv
      <4> QED BY <4>1, <4>2, MeshAssumption, FS_Subset DEF FewMeshes
    <3> HIDE DEF same
    <3>5. Cardinality(g) <= Cardinality(same) /\ Cardinality(g) \in Nat /\ Cardinality(same) \in Nat
      BY <3>3, <3>4, FS_Subset, FS_CardinalityType
    <3>6. 2 * MaxMeshes + 1 \in Nat
      BY MeshAssumption
    <3> QED BY <3>4, <3>5, <3>6
  <2>2. ASSUME NEW g \in groups', NEW h \in groups', g # h PROVE g \cap h = {}
    <3>1. PICK m \in selected : g = {n \in selected : GroupKey(n) = GroupKey(m)}
      BY <1>1
    <3>2. PICK k \in selected : h = {n \in selected : GroupKey(n) = GroupKey(k)}
      BY <1>1
    <3>3. ASSUME NEW n \in g \cap h PROVE FALSE
      <4>1. GroupKey(n) = GroupKey(m) /\ GroupKey(n) = GroupKey(k)
        BY <3>1, <3>2, <3>3
      <4> HIDE DEF selected
      <4>2. g = h
        BY <3>1, <3>2, <4>1
      <4> QED BY <2>2, <4>2
    <3> QED BY <3>3
  <2> QED BY <2>1, <2>2 DEF GroupsOK
<1> QED BY <1>1, <1>2, <1>7, <1>8, <1>9 DEF CoverInv

LEMMA TakeGroupCovers ==
  ASSUME CoverInv, LimitsInv', TakeGroup
  PROVE  CoverInv'
<1>1. PICK g \in groups :
        /\ \E order \in SetToSeqs(g) :
             \E branches \in BranchClusters(TakeLow(order).rest) :
               \E walk \in SetToSeqs(TakeLow(order).rest), cut \in SetToSeqs(branches) :
                 clusters' = Clusters(order, walk, cut)
        /\ groups' = groups \ {g}
  BY DEF TakeGroup
<1>2. PICK order \in SetToSeqs(g) :
        \E branches \in BranchClusters(TakeLow(order).rest) :
          \E walk \in SetToSeqs(TakeLow(order).rest), cut \in SetToSeqs(branches) :
            clusters' = Clusters(order, walk, cut)
  BY <1>1
<1>3. PICK branches \in BranchClusters(TakeLow(order).rest) :
        \E walk \in SetToSeqs(TakeLow(order).rest), cut \in SetToSeqs(branches) :
          clusters' = Clusters(order, walk, cut)
  BY <1>2
<1>4. PICK walk \in SetToSeqs(TakeLow(order).rest), cut \in SetToSeqs(branches) :
        clusters' = Clusters(order, walk, cut)
  BY <1>3
<1>5. g \in SUBSET Meshes /\ IsFiniteSet(g) /\ Cardinality(g) <= 2 * MaxMeshes + 1
  BY MeshAssumption, FS_Subset DEF CoverInv, LimitsInv, GroupsOK
<1>6. Deals(clusters', g)
  BY <1>4, <1>5, ClustersDeal
<1>7. /\ stage = "jobs" /\ stage' = "clusters"
      /\ UNCHANGED <<present, jobs, streaming, current, supermeshes>>
  BY DEF TakeGroup
<1>8. clusters = <<>> /\ ClusterMeshes = {} /\ ClusterMeshes' = g
  <2>1. clusters = <<>>
    BY <1>7 DEF CoverInv
  <2>2. Dealt(<<>>) = {}
    BY DealNone DEF Deals
  <2>3. Dealt(clusters') = g
    BY <1>6 DEF Deals
  <2> QED BY <1>7, <2>1, <2>2, <2>3 DEF ClusterMeshes
<1>9. GroupMeshes' \cup g = GroupMeshes /\ GroupMeshes' \cap g = {}
  <2>1. \A h \in groups' : h \in groups /\ h \cap g = {}
    BY <1>1 DEF CoverInv, GroupsOK
  <2>2. \A x : /\ x \in GroupMeshes <=> \E h \in groups : x \in h
               /\ x \in GroupMeshes' <=> \E h \in groups' : x \in h
    BY DEF GroupMeshes
  <2>3. ASSUME NEW x PROVE x \in GroupMeshes <=> x \in GroupMeshes' \/ x \in g
    BY <1>1, <2>1, <2>2
  <2>4. ASSUME NEW x PROVE ~ (x \in GroupMeshes' /\ x \in g)
    BY <2>1, <2>2
  <2> QED BY <2>3, <2>4
<1>10. JobMeshes' = JobMeshes /\ InCurrent' = {} /\ InCurrent = {}
  BY <1>7 DEF JobMeshes, InCurrent
<1>11. ToCome' = ToCome
  BY <1>7, <1>8, <1>9, <1>10 DEF ToCome
<1>12. Accounted'
  BY <1>7, <1>11, StillAccounted DEF CoverInv
<1>13. PlacesApart'
  <2>1. /\ JobMeshes \cap (GroupMeshes \cup streaming) = {}
        /\ GroupMeshes \cap streaming = {}
    BY DEF CoverInv, PlacesApart
  <2>2. GroupMeshes' \subseteq GroupMeshes /\ g \subseteq GroupMeshes /\ streaming' = streaming
    BY <1>7, <1>9
  <2>3. /\ JobMeshes \cap (GroupMeshes' \cup g \cup streaming) = {}
        /\ GroupMeshes' \cap (g \cup streaming) = {} /\ g \cap streaming = {}
    BY <1>9, <2>1, <2>2
  <2> QED BY <1>8, <1>10, <2>2, <2>3 DEF PlacesApart
<1>14. GroupsOK'
  BY <1>1 DEF CoverInv, GroupsOK
<1>15. Deals(clusters', Dealt(clusters'))
  BY <1>6 DEF Deals
<1> QED BY <1>7, <1>12, <1>13, <1>14, <1>15 DEF CoverInv

LEMMA OpenClusterCovers ==
  ASSUME CoverInv, LimitsInv', OpenCluster
  PROVE  CoverInv'
<1> DEFINE c == Head(clusters)
<1>1. /\ stage = "clusters" /\ stage' = "streaming" /\ clusters # <<>>
      /\ streaming' = ToSet(c) /\ current' = {}
      /\ UNCHANGED <<present, jobs, groups, clusters, supermeshes>>
  BY DEF OpenCluster
<1>2. ClusterMeshes = Dealt(clusters) /\ ClusterMeshes' = Dealt(Tail(clusters))
  BY <1>1 DEF ClusterMeshes
<1>3. /\ Dealt(Tail(clusters)) = Dealt(clusters) \ ToSet(c)
      /\ ToSet(c) \subseteq Dealt(clusters)
  <2>1. Deals(clusters, Dealt(clusters))
    BY DEF CoverInv
  <2> QED BY <1>1, <2>1, DealRest DEF Deals
<1> HIDE DEF c
<1>4. streaming = {} /\ InCurrent = {} /\ InCurrent' = {}
  <2>1. streaming = {}
    BY <1>1 DEF CoverInv, LimitsInv, StreamOK
  <2> QED BY <1>1, <2>1, MeshesInBoth DEF InCurrent
<1>5. JobMeshes' = JobMeshes /\ GroupMeshes' = GroupMeshes
  BY <1>1 DEF JobMeshes, GroupMeshes
<1>6. ToCome' = ToCome
  BY <1>1, <1>2, <1>3, <1>4, <1>5 DEF ToCome
<1>7. Accounted'
  BY <1>1, <1>6, StillAccounted DEF CoverInv
<1>8. PlacesApart'
  <2>1. JobMeshes \cap (GroupMeshes \cup ClusterMeshes) = {} /\ GroupMeshes \cap ClusterMeshes = {}
    BY DEF CoverInv, PlacesApart
  <2>2. /\ ClusterMeshes' \subseteq ClusterMeshes /\ streaming' \subseteq ClusterMeshes
        /\ ClusterMeshes' \cap streaming' = {}
    BY <1>1, <1>2, <1>3
  <2> QED BY <1>4, <1>5, <2>1, <2>2 DEF PlacesApart
<1>9. GroupsOK' /\ Deals(clusters, Dealt(clusters))'
  BY <1>1 DEF CoverInv, GroupsOK, Deals, Dealt
<1> QED BY <1>1, <1>7, <1>8, <1>9 DEF CoverInv

LEMMA StreamMeshCovers ==
  ASSUME CoverInv, LimitsInv', NEW m \in Meshes, StreamMesh(m)
  PROVE  CoverInv'
<1>1. /\ m \in streaming /\ streaming' = streaming \ {m}
      /\ UNCHANGED <<stage, present, jobs, groups, clusters>>
  BY DEF StreamMesh, AppendMesh, SplitMesh, StartAnother
<1>2. stage = "streaming" /\ current = FacesOf(MeshesIn(current))
  BY <1>1 DEF CoverInv, LimitsInv, StreamOK, CurrentIsOf
<1>3. InCurrent = MeshesIn(current) /\ InCurrent' = MeshesIn(current')
  BY <1>1, <1>2 DEF InCurrent
<1>4. /\ JobMeshes' = JobMeshes /\ GroupMeshes' = GroupMeshes
      /\ ClusterMeshes' = ClusterMeshes
  BY <1>1, <1>2 DEF JobMeshes, GroupMeshes, ClusterMeshes
<1>5. /\ JobMeshes \cap (GroupMeshes \cup ClusterMeshes \cup streaming \cup InCurrent) = {}
      /\ GroupMeshes \cap (ClusterMeshes \cup streaming \cup InCurrent) = {}
      /\ ClusterMeshes \cap (streaming \cup InCurrent) = {} /\ streaming \cap InCurrent = {}
  BY DEF CoverInv, PlacesApart
<1>6. IsSequence(supermeshes) /\ Accounted
  BY DEF CoverInv, LimitsInv
<1>7. Accounted' /\ PlacesApart'
  <2>1. CASE AppendMesh(m)
    <3>1. current' = current \cup MeshFaces[m] /\ supermeshes' = supermeshes
      BY <2>1 DEF AppendMesh
    <3>2. InCurrent' = InCurrent \cup {m}
      BY <1>3, <3>1, MeshesInNext
    <3>3. ToCome' = ToCome
      BY <1>1, <1>4, <3>2 DEF ToCome
    <3>4. PlacesApart'
      BY <1>1, <1>4, <1>5, <3>2 DEF PlacesApart
    <3> QED BY <1>1, <1>6, <3>1, <3>3, <3>4, StillAccounted
  <2>2. CASE SplitMesh(m)
    <3>1. PICK parts \in Splits(m) :
            supermeshes' = supermeshes \o
              [i \in DOMAIN SetToSeq(parts) |-> Supermesh(SetToSeq(parts)[i])]
      BY <2>2 DEF SplitMesh
    <3>2. PICK t : t = [i \in DOMAIN SetToSeq(parts) |-> Supermesh(SetToSeq(parts)[i])]
      OBVIOUS
    <3>3. Parted(parts, MeshFaces[m])
      BY SplitsAreGood
    <3>4. \A n \in Meshes : \A f \in MeshFaces[n] :
            IsSequence(t) /\ IF n \in {m} THEN Once(f, t) ELSE Never(f, t)
      BY <3>2, <3>3, PartsShow
    <3>5. IsSequence(t)
      BY <3>4, MeshAssumption
    <3>6. InCurrent' = InCurrent
      <4>1. current' = current
        BY <2>2 DEF SplitMesh
      <4> QED BY <1>3, <4>1
    <3>7. {m} \subseteq ToCome /\ ToCome' = ToCome \ {m}
      BY <1>1, <1>4, <1>5, <3>6 DEF ToCome
    <3>8. PlacesApart'
      BY <1>1, <1>4, <1>5, <3>6 DEF PlacesApart
    <3>9. Accounted'
      <4>1. supermeshes' = supermeshes \o t /\ present' = present
        BY <1>1, <3>1, <3>2
      <4> QED BY <1>6, <3>4, <3>5, <3>7, <4>1, AccountedWhenShown
    <3> QED BY <3>8, <3>9
  <2>3. CASE StartAnother(m)
    <3>1. current' = MeshFaces[m] /\ supermeshes' = Append(supermeshes, Supermesh(current))
      BY <2>3 DEF StartAnother
    <3>2. PICK t : t = <<Supermesh(current)>>
      OBVIOUS
    <3>3. PICK D : D = MeshesIn(current)
      OBVIOUS
    <3>4. \A n \in Meshes : \A f \in MeshFaces[n] :
            IsSequence(t) /\ IF n \in D THEN Once(f, t) ELSE Never(f, t)
      BY <1>2, <3>2, <3>3, CurrentShows
    <3>5. IsSequence(t)
      BY <3>4, MeshAssumption
    <3>6. InCurrent' = {m} /\ InCurrent = D
      BY <1>3, <3>1, <3>3, MeshesInNext
    <3>7. D \subseteq ToCome /\ ToCome' = ToCome \ D
      BY <1>1, <1>4, <1>5, <3>6 DEF ToCome
    <3>8. PlacesApart'
      BY <1>1, <1>4, <1>5, <3>6 DEF PlacesApart
    <3>9. Accounted'
      <4>1. supermeshes' = supermeshes \o t /\ present' = present
        BY <1>1, <1>6, <3>1, <3>2 DEF IsSequence
      <4> QED BY <1>6, <3>4, <3>5, <3>7, <4>1, AccountedWhenShown
    <3> QED BY <3>8, <3>9
  <2> QED BY <2>1, <2>2, <2>3 DEF StreamMesh
<1>8. GroupsOK' /\ Deals(clusters, Dealt(clusters))'
  BY <1>1 DEF CoverInv, GroupsOK, Deals, Dealt
<1> QED BY <1>1, <1>2, <1>7, <1>8 DEF CoverInv

LEMMA CloseClusterCovers ==
  ASSUME CoverInv, LimitsInv', CloseCluster
  PROVE  CoverInv'
<1>1. /\ stage = "streaming" /\ stage' = "clusters" /\ streaming = {} /\ streaming' = {}
      /\ clusters' = Tail(clusters) /\ UNCHANGED <<present, jobs, groups>>
      /\ supermeshes' = IF current = {} THEN supermeshes
                        ELSE Append(supermeshes, Supermesh(current))
  BY DEF CloseCluster
<1>2. clusters # <<>> /\ current = FacesOf(MeshesIn(current))
  BY <1>1 DEF CoverInv, LimitsInv, StreamOK, CurrentIsOf
<1>3. PICK D : D = MeshesIn(current)
  OBVIOUS
<1>4. /\ JobMeshes' = JobMeshes /\ GroupMeshes' = GroupMeshes
      /\ ClusterMeshes' = ClusterMeshes /\ InCurrent = D /\ InCurrent' = {}
  BY <1>1, <1>3 DEF JobMeshes, GroupMeshes, ClusterMeshes, InCurrent
<1>5. /\ JobMeshes \cap (GroupMeshes \cup ClusterMeshes \cup InCurrent) = {}
      /\ GroupMeshes \cap (ClusterMeshes \cup InCurrent) = {}
      /\ ClusterMeshes \cap InCurrent = {}
  BY DEF CoverInv, PlacesApart
<1>6. IsSequence(supermeshes) /\ Accounted
  BY DEF CoverInv, LimitsInv
<1>7. D \subseteq ToCome /\ ToCome' = ToCome \ D
  BY <1>1, <1>4, <1>5 DEF ToCome
<1>8. PlacesApart'
  BY <1>1, <1>4, <1>5 DEF PlacesApart
<1>9. Accounted'
  <2>1. CASE current = {}
    <3>1. D = {} /\ supermeshes' = supermeshes
      BY <1>1, <1>3, <2>1, MeshesInBoth
    <3> QED BY <1>1, <1>6, <1>7, <3>1, StillAccounted
  <2>2. CASE current # {}
    <3>1. PICK t : t = <<Supermesh(current)>>
      OBVIOUS
    <3>2. \A n \in Meshes : \A f \in MeshFaces[n] :
            IsSequence(t) /\ IF n \in D THEN Once(f, t) ELSE Never(f, t)
      BY <1>2, <1>3, <3>1, CurrentShows
    <3>3. IsSequence(t)
      <4>1. Supermesh(current) \in ToSet(t)
        BY <3>1 DEF ToSet
      <4> QED BY <3>1, <4>1 DEF IsSequence
    <3>4. supermeshes' = supermeshes \o t /\ present' = present
      BY <1>1, <1>6, <2>2, <3>1 DEF IsSequence
    <3> QED BY <1>6, <1>7, <3>2, <3>3, <3>4, AccountedWhenShown
  <2> QED BY <2>1, <2>2
<1>10. Deals(clusters, Dealt(clusters))'
  <2>1. Deals(clusters, Dealt(clusters))
    BY DEF CoverInv
  <2>2. Deals(clusters', Dealt(clusters) \ ToSet(Head(clusters)))
    BY <1>1, <1>2, <2>1, DealRest
  <2> QED BY <2>2 DEF Deals
<1>11. GroupsOK'
  BY <1>1 DEF CoverInv, GroupsOK
<1> QED BY <1>1, <1>8, <1>9, <1>10, <1>11 DEF CoverInv

LEMMA NothingMovedCovers ==
  ASSUME CoverInv, LimitsInv',
         UNCHANGED <<present, jobs, groups, clusters, streaming, current, supermeshes>>,
         \/ stage' = stage
         \/ stage = "clusters" /\ clusters = <<>> /\ stage' = "jobs"
         \/ stage = "jobs" /\ jobs = <<>> /\ groups = {} /\ stage' = "finalised"
  PROVE  CoverInv'
<1>1. /\ JobMeshes' = JobMeshes /\ GroupMeshes' = GroupMeshes
      /\ ClusterMeshes' = ClusterMeshes /\ InCurrent' = InCurrent
  BY DEF JobMeshes, GroupMeshes, ClusterMeshes, InCurrent, Wanted
<1>2. ToCome' = ToCome
  BY <1>1 DEF ToCome
<1>3. Accounted'
  BY <1>2, StillAccounted DEF CoverInv
<1>4. PlacesApart'
  BY <1>1 DEF CoverInv, PlacesApart
<1>5. GroupsOK' /\ Deals(clusters, Dealt(clusters))'
  BY DEF CoverInv, GroupsOK, Deals, Dealt
<1>6. /\ stage' \in {"read", "jobs", "finalised"} => clusters' = <<>>
      /\ stage' = "finalised" => jobs' = <<>> /\ groups' = {}
  BY DEF CoverInv
<1> QED BY <1>3, <1>4, <1>5, <1>6 DEF CoverInv

\* When no group has meshes for two big clusters, each mesh is in one place at every
\* step: a job, a group, a cluster, the supermesh in work or those of the exporter
\* (MultipartOptimizer::processScene, clusterMeshNodes, createSuperMeshes).
THEOREM CoverHolds ==
  ASSUME FewMeshes
  PROVE  Spec => []CoverInv
<1>1. Init => CoverInv
  <2> SUFFICES ASSUME Init, LimitsInv PROVE CoverInv
    BY LimitsFirst
  <2>1. OptimiserInit
    BY DEF Init
  <2>2. /\ stage = "read" /\ jobs = <<>> /\ groups = {} /\ clusters = <<>> /\ streaming = {}
        /\ supermeshes = <<>> /\ present \in Scenes
    BY <2>1 DEF OptimiserInit
  <2>3. JobMeshes = Wanted /\ GroupMeshes = {} /\ ClusterMeshes = {} /\ InCurrent = {}
    BY <2>2, DealNone DEF JobMeshes, GroupMeshes, ClusterMeshes, InCurrent, Deals
  <2>4. ToCome = Wanted
    BY <2>2, <2>3 DEF ToCome
  <2>5. Accounted
    BY <2>2, <2>4 DEF Accounted, Never
  <2>6. PlacesApart /\ GroupsOK
    BY <2>2, <2>3 DEF PlacesApart, GroupsOK
  <2>7. IsSequence(jobs) /\ NoRepeats(jobs) /\ Deals(clusters, Dealt(clusters))
    BY <2>2, NothingInEmpty, DealNone DEF IsSequence, Deals
  <2> QED BY <2>2, <2>5, <2>6, <2>7 DEF CoverInv
<1>2. CoverInv /\ [Next]_vars => CoverInv'
  <2> SUFFICES ASSUME CoverInv, [Next]_vars PROVE CoverInv'
    OBVIOUS
  <2>1. LimitsInv'
    BY LimitsNext DEF CoverInv
  <2>2. CASE OptimiserStep
    <3>1. CASE ReadScene
      BY <2>1, <3>1, ReadSceneCovers
    <3>2. CASE TakeJob
      BY <2>1, <3>2, TakeJobCovers
    <3>3. CASE TakeGroup
      BY <2>1, <3>3, TakeGroupCovers
    <3>4. CASE OpenCluster
      BY <2>1, <3>4, OpenClusterCovers
    <3>5. ASSUME NEW m \in Meshes, StreamMesh(m) PROVE CoverInv'
      BY <2>1, <3>5, StreamMeshCovers
    <3>6. CASE CloseCluster
      BY <2>1, <3>6, CloseClusterCovers
    <3>7. CASE CloseGroup \/ FinishScene
      BY <2>1, <3>7, NothingMovedCovers DEF CloseGroup, FinishScene
    <3> QED BY <2>2, <3>1, <3>2, <3>3, <3>4, <3>5, <3>6, <3>7 DEF OptimiserStep
  <2>3. CASE UNCHANGED optimiserVars
    BY <2>1, <2>3, NothingMovedCovers DEF optimiserVars
  <2> QED BY <2>2, <2>3 DEF Next, vars
<1> QED BY <1>1, <1>2, PTL DEF Spec

\* EachFaceOnce: when no group has meshes for two big clusters, each face of each mesh
\* that is wanted is in one supermesh when the exporter is finalised, whatever the
\* orders and hierarchies (MultipartOptimizer::clusterMeshNodes, createSuperMeshes,
\* splitMesh).
THEOREM EachFaceIsShownOnce ==
  ASSUME FewMeshes
  PROVE  Spec => []EachFaceOnce
<1>1. CoverInv => EachFaceOnce
  <2> SUFFICES ASSUME CoverInv, stage = "finalised", NEW f \in FacesOf(Wanted)
               PROVE  Cardinality({i \in DOMAIN supermeshes : f \in supermeshes[i].faces}) = 1
    BY DEF EachFaceOnce
  <2>1. jobs = <<>> /\ groups = {} /\ clusters = <<>> /\ streaming = {}
    BY DEF CoverInv, LimitsInv, StreamOK
  <2>2. ToCome = {}
    BY <2>1, DealNone, NothingInEmpty
       DEF ToCome, JobMeshes, GroupMeshes, ClusterMeshes, InCurrent, Deals
  <2>3. PICK m \in Wanted : f \in MeshFaces[m]
    BY FacesOfAre
  <2>4. m \in Meshes
    BY DEF CoverInv, LimitsInv, Wanted
  <2>5. Once(f, supermeshes)
    BY <2>2, <2>3, <2>4 DEF CoverInv, Accounted
  <2>6. PICK i \in DOMAIN supermeshes :
          \A j \in DOMAIN supermeshes : f \in supermeshes[j].faces <=> j = i
    BY <2>5 DEF Once
  <2>7. {j \in DOMAIN supermeshes : f \in supermeshes[j].faces} = {i}
    BY <2>6
  <2> QED BY <2>7, FS_Singleton
<1> QED BY <1>1, CoverHolds, PTL

-----------------------------------------------------------------------------
(* The floors: what a transformation takes over from the one above it is   *)
(* the floor named nearest above.                                          *)

Parents == {<<Above[t], t>> : t \in Transforms \ {RootTransform}}

LEMMA TreeWellFounded ==
  WellFoundedOn(Parents, Transforms)
<1> SUFFICES ASSUME NEW S \in SUBSET Transforms, S # {}
             PROVE  \E x \in S : \A y \in S : <<y, x>> \notin Parents
  BY DEF WellFoundedOn
<1>1. PICK t \in S : t = RootTransform \/ Above[t] \notin S
  BY TransformAssumption
<1>2. ASSUME NEW y \in S, <<y, t>> \in Parents PROVE FALSE
  <2>1. PICK u \in Transforms \ {RootTransform} : <<y, t>> = <<Above[u], u>>
    BY <1>2 DEF Parents
  <2>2. u = t /\ y = Above[t]
    BY <2>1
  <2> QED BY <1>1, <2>1, <2>2
<1> QED BY <1>2

LEMMA ParentAbove ==
  ASSUME NEW t \in Transforms, t # RootTransform
  PROVE  Above[t] \in Transforms /\ <<Above[t], t>> \in Parents
BY TransformAssumption DEF Parents

\* What takes over, for values of any kind.
TakesOver(f, own, S) ==
  \A t \in Transforms : f[t] = IF t \in S \/ t = RootTransform THEN own[t] ELSE f[Above[t]]

LEMMA TakeOverExists ==
  ASSUME NEW V, V # {}, NEW own \in [Transforms -> V], NEW S
  PROVE  \E f \in [Transforms -> V] : TakesOver(f, own, S)
<1> DEFINE D == Transforms
           value(f, t) == IF t \in S \/ t = RootTransform THEN own[t] ELSE f[Above[t]]
           step == [q \in [D -> V] \X D |-> value(q[1], q[2])]
<1>1. ASSUME NEW f \in [D -> V], NEW t \in D PROVE value(f, t) \in V
  <2>1. t # RootTransform => Above[t] \in D
    BY ParentAbove
  <2> QED BY <2>1
<1>2. step \in [[D -> V] \X D -> V] /\ \A f \in [D -> V], t \in D : step[<<f, t>>] = value(f, t)
  <2> HIDE DEF value
  <2> QED BY <1>1
<1>3. ASSUME NEW f \in [D -> V], NEW g \in [D -> V], NEW t \in D,
             \A y \in D : <<y, t>> \in Parents => f[y] = g[y]
      PROVE  value(f, t) = value(g, t)
  <2>1. t # RootTransform => f[Above[t]] = g[Above[t]]
    BY <1>3, ParentAbove
  <2> QED BY <2>1
<1> HIDE DEF step, value
<1>4. Local(step, Parents, D, V)
  <2> SUFFICES ASSUME NEW f \in [D -> V], NEW g \in [D -> V], NEW t \in D,
                      \A y \in D : <<y, t>> \in Parents => f[y] = g[y]
               PROVE  step[<<f, t>>] = step[<<g, t>>]
    BY DEF Local
  <2>1. value(f, t) = value(g, t)
    BY <1>3
  <2> QED BY <1>2, <2>1
<1>5. PICK f \in [D -> V] : Solves(f, step, D)
  BY <1>2, <1>4, TreeWellFounded, TransformAssumption, RecursionExists
<1>6. \A t \in D : f[t] = value(f, t)
  BY <1>2, <1>5 DEF Solves
<1> QED BY <1>6 DEF value, TakesOver

LEMMA InheritTakesOver ==
  ASSUME NEW T, NEW own \in [Transforms -> T]
  PROVE  TakesOver(Inherit(own), own, {t \in Transforms : own[t] # NoFloor})
<1> DEFINE S == {t \in Transforms : own[t] # NoFloor}
           V == {own[t] : t \in Transforms}
<1>1. own \in [Transforms -> V] /\ V # {}
  BY TransformAssumption
<1> HIDE DEF V
<1>2. PICK f \in [Transforms -> V] : TakesOver(f, own, S)
  BY <1>1, TakeOverExists
<1>3. f = [t \in Transforms |->
             IF own[t] # NoFloor \/ t = RootTransform THEN own[t] ELSE f[Above[t]]]
  BY <1>2 DEF TakesOver
<1>4. Inherit(own) = CHOOSE g : g = [t \in Transforms |->
             IF own[t] # NoFloor \/ t = RootTransform THEN own[t] ELSE g[Above[t]]]
  BY DEF Inherit
<1>5. Inherit(own) = [t \in Transforms |->
             IF own[t] # NoFloor \/ t = RootTransform THEN own[t] ELSE Inherit(own)[Above[t]]]
  BY <1>3, <1>4
<1> QED BY <1>5 DEF TakesOver

LEMMA BelowIs ==
  ASSUME NEW t \in Transforms, NEW u
  PROVE  IsBelow(t, u) <=> t = u \/ (t # RootTransform /\ IsBelow(Above[t], u))
<1> DEFINE own == [x \in Transforms |-> IF x = u THEN 1 ELSE 0]
<1>1. PICK f \in [Transforms -> {0, 1}] : TakesOver(f, own, {u})
  <2>1. own \in [Transforms -> {0, 1}] /\ {0, 1} # {}
    OBVIOUS
  <2> HIDE DEF own
  <2> QED BY <2>1, TakeOverExists
<1> DEFINE B == {x \in Transforms : f[x] = 1}
<1>2. \A x \in Transforms : x \in B <=> x = u \/ (x # RootTransform /\ Above[x] \in B)
  <2> SUFFICES ASSUME NEW x \in Transforms
               PROVE  f[x] = 1 <=> x = u \/ (x # RootTransform /\ Above[x] \in B)
    OBVIOUS
  <2>1. f[x] = IF x \in {u} \/ x = RootTransform THEN own[x] ELSE f[Above[x]]
    BY <1>1 DEF TakesOver
  <2>2. x # RootTransform => Above[x] \in Transforms
    BY ParentAbove
  <2> QED BY <2>1, <2>2
<1> HIDE DEF B
<1> DEFINE g == [x \in Transforms |-> x \in B]
<1>3. g = [x \in Transforms |-> x = u \/ (x # RootTransform /\ g[Above[x]])]
  <2>1. \A x \in Transforms : x # RootTransform => Above[x] \in Transforms
    BY ParentAbove
  <2>2. \A x \in Transforms : x # RootTransform => g[Above[x]] = (Above[x] \in B)
    BY <2>1
  <2> HIDE DEF g
  <2>3. \A x \in Transforms :
          (x \in B) = (x = u \/ (x # RootTransform /\ g[Above[x]]))
    <3> TAKE x \in Transforms
    <3>1. x \in B <=> x = u \/ (x # RootTransform /\ Above[x] \in B)
      BY <1>2
    <3>2. CASE x = RootTransform
      BY <3>1, <3>2
    <3>3. CASE x # RootTransform
      <4>1. g[Above[x]] = (Above[x] \in B)
        BY <2>2, <3>3
      <4>2. g[Above[x]] <=> Above[x] \in B
        BY <4>1
      <4>3. (x = u \/ (x # RootTransform /\ g[Above[x]])) <=> x \in B
        BY <3>1, <3>3, <4>2
      <4> QED BY <4>3
    <3> QED BY <3>2, <3>3
  <2> QED BY <2>3, Zenon DEF g
<1> HIDE DEF g
<1>4. PICK h : /\ h = [x \in Transforms |-> x = u \/ (x # RootTransform /\ h[Above[x]])]
               /\ \A x \in Transforms : IsBelow(x, u) = h[x]
  <2> DEFINE h == CHOOSE e : e = [x \in Transforms |-> x = u \/ (x # RootTransform /\ e[Above[x]])]
  <2>1. h = [x \in Transforms |-> x = u \/ (x # RootTransform /\ h[Above[x]])]
    BY <1>3, Zenon
  <2>2. \A x \in Transforms : IsBelow(x, u) = h[x]
    BY DEF IsBelow
  <2> HIDE DEF h
  <2> QED BY <2>1, <2>2
<1>5. h[t] = (t = u \/ (t # RootTransform /\ h[Above[t]]))
  BY <1>4, Zenon
<1>6. t # RootTransform => Above[t] \in Transforms
  BY ParentAbove
<1> QED BY <1>4, <1>5, <1>6, Zenon

\* The transformations with a floor, at or above t.
NamedAbove(t) ==
  {u \in Transforms : IsBelow(t, u) /\ \E g \in FloorTags : u \in g.parents}

LEMMA NearestFloorsAre ==
  ASSUME NEW t
  PROVE  NearestFloors(t) =
           IF NamedAbove(t) = {} THEN {NoFloor}
           ELSE {g.floor : g \in {h \in FloorTags :
                   \E u \in NamedAbove(t) : u \in h.parents /\ \A v \in NamedAbove(t) : IsBelow(u, v)}}
BY Zenon DEF NearestFloors, NamedAbove

LEMMA TaggedIs ==
  ASSUME SplitByFloor, NEW tags \in SetToSeqs(FloorTags)
  PROVE  /\ Tagged(tags) \in [Transforms -> {g.floor : g \in FloorTags} \cup {NoFloor}]
         /\ \A t \in Transforms :
              \/ Tagged(tags)[t] = NoFloor /\ \A g \in FloorTags : t \notin g.parents
              \/ /\ Tagged(tags)[t] # NoFloor
                 /\ \E g \in FloorTags : t \in g.parents /\ Tagged(tags)[t] = g.floor
<1> DEFINE named(t) == OnlyIn(tags, {g \in FloorTags : SplitByFloor /\ t \in g.parents})
           own == Tagged(tags)
<1>1. tags \in Seq(FloorTags) /\ ToSet(tags) = FloorTags
  BY TransformAssumption, OrderIs
<1>2. own = [t \in Transforms |-> IF named(t) = <<>> THEN NoFloor ELSE Last(named(t)).floor]
  BY DEF Tagged
<1>3. ASSUME NEW t \in Transforms
      PROVE  \/ own[t] = NoFloor /\ \A g \in FloorTags : t \notin g.parents
             \/ /\ own[t] # NoFloor
                /\ \E g \in FloorTags : t \in g.parents /\ own[t] = g.floor
  <2> DEFINE I == {g \in FloorTags : SplitByFloor /\ t \in g.parents}
  <2>1. own[t] = IF named(t) = <<>> THEN NoFloor ELSE Last(named(t)).floor
    BY <1>2
  <2>2. PICK s \in Seq(FloorTags) : s = named(t) /\ ToSet(s) = FloorTags \cap I
    <3> HIDE DEF I
    <3>1. OnlyIn(tags, I) \in Seq(FloorTags) /\ ToSet(OnlyIn(tags, I)) = ToSet(tags) \cap I
      BY <1>1, OnlyInIs
    <3>2. OnlyIn(tags, I) = named(t)
      BY DEF I
    <3> QED BY <1>1, <3>1, <3>2
  <2> HIDE DEF named, own
  <2>3. \A g : g \in ToSet(s) <=> g \in FloorTags /\ t \in g.parents
    BY <2>2
  <2>4. CASE s = <<>>
    <3>1. \A g \in FloorTags : t \notin g.parents
      BY <2>3, <2>4, NothingInEmpty
    <3> QED BY <2>1, <2>2, <2>4, <3>1
  <2>5. CASE s # <<>>
    <3>1. Len(s) \in DOMAIN s /\ Last(s) = s[Len(s)]
      BY <2>5 DEF Last
    <3>2. Last(s) \in ToSet(s)
      BY <3>1 DEF ToSet
    <3>3. Last(s) \in FloorTags /\ t \in Last(s).parents
      BY <2>3, <3>2
    <3>4. own[t] = Last(s).floor /\ Last(s).floor # NoFloor
      BY <2>1, <2>2, <2>5, <3>3, TransformAssumption
    <3> QED BY <3>3, <3>4
  <2> QED BY <2>4, <2>5
<1>4. own \in [Transforms -> {g.floor : g \in FloorTags} \cup {NoFloor}]
  <2>1. \A t \in Transforms : own[t] \in {g.floor : g \in FloorTags} \cup {NoFloor}
    BY <1>3
  <2>2. own = [t \in Transforms |-> own[t]]
    BY <1>2
  <2> HIDE DEF own
  <2> QED BY <2>1, <2>2
<1> QED BY <1>3, <1>4

LEMMA InheritedIsNearest ==
  ASSUME SplitByFloor, NEW tags \in SetToSeqs(FloorTags), NEW t \in Transforms
  PROVE  Inherit(Tagged(tags))[t] \in NearestFloors(t)
<1> DEFINE own == Tagged(tags)
           f == Inherit(own)
           S == {x \in Transforms : f[x] \in NearestFloors(x)}
           T == {g.floor : g \in FloorTags} \cup {NoFloor}
<1>1. /\ own \in [Transforms -> T]
      /\ \A x \in Transforms :
           \/ own[x] = NoFloor /\ \A g \in FloorTags : x \notin g.parents
           \/ /\ own[x] # NoFloor
              /\ \E g \in FloorTags : x \in g.parents /\ own[x] = g.floor
  BY TaggedIs
<1> HIDE DEF own, T
<1>2. TakesOver(f, own, {x \in Transforms : own[x] # NoFloor})
  BY <1>1, InheritTakesOver
<1>3. \A x \in Transforms :
        f[x] = IF own[x] # NoFloor \/ x = RootTransform THEN own[x] ELSE f[Above[x]]
  BY <1>2 DEF TakesOver
<1> HIDE DEF f
<1>4. ASSUME NEW x \in Transforms, \A y \in Transforms : <<y, x>> \in Parents => y \in S
      PROVE  f[x] \in NearestFloors(x)
  <2>1. CASE own[x] # NoFloor
    <3>1. PICK g \in FloorTags : x \in g.parents /\ own[x] = g.floor
      BY <1>1, <2>1
    <3>2. x \in NamedAbove(x)
      <4>1. IsBelow(x, x)
        BY BelowIs
      <4> QED BY <3>1, <4>1 DEF NamedAbove
    <3>3. \A v \in NamedAbove(x) : IsBelow(x, v)
      BY DEF NamedAbove
    <3>4. g.floor \in NearestFloors(x)
      <4>1. \E u \in NamedAbove(x) : u \in g.parents /\ \A v \in NamedAbove(x) : IsBelow(u, v)
        BY <3>1, <3>2, <3>3
      <4>2. NearestFloors(x) =
              {h.floor : h \in {k \in FloorTags :
                 \E u \in NamedAbove(x) : u \in k.parents /\ \A v \in NamedAbove(x) : IsBelow(u, v)}}
        BY <3>2, NearestFloorsAre
      <4> QED BY <4>1, <4>2
    <3> QED BY <1>3, <2>1, <3>1, <3>4
  <2>2. CASE own[x] = NoFloor
    <3>1. \A g \in FloorTags : x \notin g.parents
      BY <1>1, <2>2
    <3>2. CASE x = RootTransform
      <4>1. NamedAbove(x) = {}
        <5>1. ASSUME NEW u \in NamedAbove(x) PROVE FALSE
          <6>1. IsBelow(x, u) /\ \E g \in FloorTags : u \in g.parents
            BY DEF NamedAbove
          <6>2. u = x
            BY <3>2, <6>1, BelowIs
          <6> QED BY <3>1, <6>1, <6>2
        <5> QED BY <5>1
      <4>2. NearestFloors(x) = {NoFloor}
        BY <4>1, NearestFloorsAre
      <4> QED BY <1>3, <2>2, <3>2, <4>2
    <3>3. CASE x # RootTransform
      <4>1. Above[x] \in Transforms /\ Above[x] \in S
        BY <1>4, <3>3, ParentAbove
      <4>2. NamedAbove(x) = NamedAbove(Above[x])
        <5>1. ASSUME NEW u \in Transforms, \E g \in FloorTags : u \in g.parents
              PROVE  IsBelow(x, u) <=> IsBelow(Above[x], u)
          <6>1. u # x
            BY <3>1, <5>1
          <6> QED BY <3>3, <6>1, BelowIs
        <5> QED BY <5>1 DEF NamedAbove
      <4>3. NearestFloors(x) = NearestFloors(Above[x])
        BY <4>2, NearestFloorsAre
      <4>4. f[x] = f[Above[x]]
        BY <1>3, <2>2, <3>3
      <4> QED BY <4>1, <4>3, <4>4
    <3> QED BY <3>2, <3>3
  <2> QED BY <2>1, <2>2
<1>5. \A x \in Transforms : (\A y \in Transforms : <<y, x>> \in Parents => y \in S) => x \in S
  BY <1>4
<1> HIDE DEF S
<1>6. Transforms \subseteq S
  BY <1>5, TreeWellFounded, BelowFirst
<1>7. t \in S
  BY <1>6
<1> QED BY <1>7 DEF S, f, own

-----------------------------------------------------------------------------
(* One kind: the meshes of a group, of its clusters and so of each         *)
(* supermesh look the same, and are on the floor it is named after.        *)

\* Meshes that are drawn in the same way, on a floor of this name.
OneKind(ms, floors, name) ==
  /\ \A m, n \in ms : Look(m) = Look(n) /\ Attributes[m].grouping = Attributes[n].grouping
  /\ \A m \in ms : floors[Attributes[m].parent] = name

GroupFloor(g, floors) == floors[Attributes[CHOOSE m \in g : TRUE].parent]

FloorsNearest ==
  SplitByFloor => \A t \in Transforms : floorOf[t] \in NearestFloors(t)

KindInv ==
  /\ LimitsInv
  /\ IF stage = "read" THEN groups = {} /\ clusters = <<>> /\ supermeshes = <<>>
     ELSE FloorsNearest
  /\ \A g \in groups : OneKind(g, floorOf, GroupFloor(g, floorOf))
  /\ OneKind(Dealt(clusters), floorOf, tag)
  /\ \A s \in ToSet(supermeshes) : OneKind(MeshesIn(s.faces), floorOf, s.tag)

LEMMA OneKindPart ==
  ASSUME NEW ms, NEW floors, NEW name, OneKind(ms, floors, name), NEW part \in SUBSET ms
  PROVE  OneKind(part, floors, name)
BY DEF OneKind

LEMMA TakeJobKinds ==
  ASSUME KindInv, LimitsInv', TakeJob
  PROVE  KindInv'
<1> DEFINE selected == {m \in present : Selects(Head(jobs), m)}
<1>1. /\ stage = "jobs" /\ stage' = "jobs"
      /\ groups' = {{n \in selected : GroupKey(n) = GroupKey(m)} : m \in selected}
      /\ UNCHANGED <<floorOf, tag, clusters, supermeshes>>
  BY DEF TakeJob
<1>2. ASSUME NEW g \in groups' PROVE OneKind(g, floorOf, GroupFloor(g, floorOf))
  <2>1. PICK k \in selected : g = {n \in selected : GroupKey(n) = GroupKey(k)}
    BY <1>1
  <2>2. ASSUME NEW m \in g, NEW n \in g
        PROVE  /\ Look(m) = Look(n) /\ Attributes[m].grouping = Attributes[n].grouping
               /\ floorOf[Attributes[m].parent] = floorOf[Attributes[n].parent]
    <3>1. Selects(Head(jobs), m) /\ Selects(Head(jobs), n) /\ GroupKey(m) = GroupKey(n)
      BY <2>1
    <3>2. Look(m) = Look(n)
      <4> HIDE DEF Look
      <4>1. Head(jobs).look = Look(m) /\ Head(jobs).look = Look(n)
        BY <3>1 DEF Selects
      <4> QED BY <4>1
    <3> QED BY <3>1, <3>2 DEF GroupKey
  <2>3. k \in g
    BY <2>1
  <2>4. (CHOOSE m \in g : TRUE) \in g
    BY <2>3
  <2> HIDE DEF selected
  <2> QED BY <2>2, <2>4 DEF OneKind, GroupFloor
<1> HIDE DEF selected
<1> QED BY <1>1, <1>2 DEF KindInv, FloorsNearest

LEMMA TakeGroupKinds ==
  ASSUME KindInv, LimitsInv', TakeGroup
  PROVE  KindInv'
<1>1. PICK g \in groups :
        /\ \E order \in SetToSeqs(g) :
             \E branches \in BranchClusters(TakeLow(order).rest) :
               \E walk \in SetToSeqs(TakeLow(order).rest), cut \in SetToSeqs(branches) :
                 clusters' = Clusters(order, walk, cut)
        /\ groups' = groups \ {g} /\ tag' = GroupFloor(g, floorOf)
  BY DEF TakeGroup, GroupFloor
<1>2. PICK order \in SetToSeqs(g) :
        \E branches \in BranchClusters(TakeLow(order).rest) :
          \E walk \in SetToSeqs(TakeLow(order).rest), cut \in SetToSeqs(branches) :
            clusters' = Clusters(order, walk, cut)
  BY <1>1
<1>3. PICK branches \in BranchClusters(TakeLow(order).rest) :
        \E walk \in SetToSeqs(TakeLow(order).rest), cut \in SetToSeqs(branches) :
          clusters' = Clusters(order, walk, cut)
  BY <1>2
<1>4. PICK walk \in SetToSeqs(TakeLow(order).rest), cut \in SetToSeqs(branches) :
        clusters' = Clusters(order, walk, cut)
  BY <1>3
<1>5. g \in SUBSET Meshes /\ IsFiniteSet(g)
  BY MeshAssumption, FS_Subset DEF KindInv, LimitsInv
<1>6. clusters' \in Seq(Short(g))
  BY <1>4, <1>5, ClustersShort
<1>7. Dealt(clusters') \in SUBSET g
  <2>1. ASSUME NEW x \in Dealt(clusters') PROVE x \in g
    <3>1. PICK c \in ToSet(clusters') : x \in ToSet(c)
      BY DealtAre
    <3>2. ToSet(clusters') \subseteq Short(g)
      BY <1>6, NotEmpty
    <3>3. c \in Seq(g)
      BY <3>2 DEF Short
    <3> QED BY <3>1, <3>3, NotEmpty
  <2> QED BY <2>1
<1>8. OneKind(Dealt(clusters'), floorOf, tag')
  <2>1. OneKind(g, floorOf, tag')
    BY <1>1 DEF KindInv
  <2> QED BY <1>7, <2>1, OneKindPart
<1>9. stage = "jobs" /\ stage' = "clusters" /\ UNCHANGED <<floorOf, supermeshes>>
  BY DEF TakeGroup
<1> QED BY <1>1, <1>8, <1>9 DEF KindInv, FloorsNearest

\* The meshes of the cluster in work, and with them what it gives to the exporter.
LEMMA ClusterKinds ==
  ASSUME KindInv, stage = "streaming"
  PROVE  /\ clusters # <<>> /\ clusters \in Seq(Short(Meshes))
         /\ streaming \subseteq Dealt(clusters)
         /\ Dealt(Tail(clusters)) \subseteq Dealt(clusters)
         /\ OneKind(MeshesIn(current), floorOf, tag)
<1> DEFINE c == Head(clusters)
<1>1. /\ clusters # <<>> /\ streaming \subseteq ToSet(c) /\ MeshesIn(current) \subseteq ToSet(c)
      /\ clusters \in Seq(Short(Meshes))
  BY DEF KindInv, LimitsInv, StreamOK, CurrentIsOf
<1>2. ToSet(clusters) = {c} \cup ToSet(Tail(clusters))
  BY <1>1, HeadAndTail
<1> HIDE DEF c
<1>3. ToSet(c) \subseteq Dealt(clusters) /\ Dealt(Tail(clusters)) \subseteq Dealt(clusters)
  BY <1>2, DealtAre
<1>4. OneKind(MeshesIn(current), floorOf, tag)
  <2>1. MeshesIn(current) \in SUBSET Dealt(clusters)
    BY <1>1, <1>3
  <2> QED BY <2>1, OneKindPart DEF KindInv
<1> QED BY <1>1, <1>3, <1>4

LEMMA StreamMeshKinds ==
  ASSUME KindInv, LimitsInv', NEW m \in Meshes, StreamMesh(m)
  PROVE  KindInv'
<1>1. m \in streaming /\ UNCHANGED <<stage, floorOf, groups, tag, clusters>>
  BY DEF StreamMesh, AppendMesh, SplitMesh, StartAnother
<1>2. stage = "streaming"
  BY <1>1 DEF KindInv, LimitsInv, StreamOK
<1>3. m \in Dealt(clusters) /\ OneKind(MeshesIn(current), floorOf, tag)
  BY <1>1, <1>2, ClusterKinds
<1>4. /\ IsSequence(supermeshes)
      /\ \A s \in ToSet(supermeshes) : OneKind(MeshesIn(s.faces), floorOf, s.tag)
  BY DEF KindInv, LimitsInv
<1>5. \A s \in ToSet(supermeshes') : OneKind(MeshesIn(s.faces), floorOf, s.tag)
  <2>1. CASE AppendMesh(m)
    BY <1>4, <2>1 DEF AppendMesh
  <2>2. CASE SplitMesh(m)
    <3>1. PICK parts \in Splits(m) :
            supermeshes' = supermeshes \o
              [i \in DOMAIN SetToSeq(parts) |-> Supermesh(SetToSeq(parts)[i])]
      BY <2>2 DEF SplitMesh
    <3>2. PICK given : given = [i \in DOMAIN SetToSeq(parts) |-> Supermesh(SetToSeq(parts)[i])]
      OBVIOUS
    <3>3. Parted(parts, MeshFaces[m])
      BY SplitsAreGood
    <3>4. IsFiniteSet(parts)
      <4>1. parts \subseteq SUBSET MeshFaces[m] /\ IsFiniteSet(MeshFaces[m])
        BY <3>3, MeshAssumption DEF Parted
      <4> QED BY <4>1, FS_SUBSET, FS_Subset
    <3>5. IsSequence(given) /\ ToSet(given) = {Supermesh(p) : p \in parts}
      BY <3>2, <3>4, PartsGiven
    <3>6. ToSet(supermeshes') = ToSet(supermeshes) \cup ToSet(given)
      BY <1>4, <3>1, <3>2, <3>5, SomeMore
    <3>7. ASSUME NEW s \in ToSet(given) PROVE OneKind(MeshesIn(s.faces), floorOf, s.tag)
      <4>1. PICK p \in parts : s = Supermesh(p)
        BY <3>5
      <4>2. s.faces = p /\ s.tag = tag
        BY <4>1 DEF Supermesh
      <4>3. MeshesIn(p) \in SUBSET Dealt(clusters)
        <5>1. p \in SUBSET MeshFaces[m] /\ p # {}
          BY <3>3 DEF Parted
        <5>2. MeshesIn(p) = {m}
          BY <5>1, MeshesInPart
        <5> QED BY <1>3, <5>2
      <4>4. OneKind(Dealt(clusters), floorOf, tag)
        BY DEF KindInv
      <4> QED BY <4>2, <4>3, <4>4, OneKindPart
    <3> QED BY <1>4, <3>6, <3>7
  <2>3. CASE StartAnother(m)
    <3>1. supermeshes' = Append(supermeshes, Supermesh(current))
      BY <2>3 DEF StartAnother
    <3>2. ToSet(supermeshes') = ToSet(supermeshes) \cup {Supermesh(current)}
      BY <1>4, <3>1, OneMore
    <3>3. Supermesh(current).faces = current /\ Supermesh(current).tag = tag
      BY DEF Supermesh
    <3> QED BY <1>3, <1>4, <3>2, <3>3
  <2> QED BY <2>1, <2>2, <2>3 DEF StreamMesh
<1> QED BY <1>1, <1>2, <1>5 DEF KindInv, FloorsNearest

LEMMA CloseClusterKinds ==
  ASSUME KindInv, LimitsInv', CloseCluster
  PROVE  KindInv'
<1>1. /\ stage = "streaming" /\ stage' = "clusters" /\ clusters' = Tail(clusters)
      /\ UNCHANGED <<floorOf, groups, tag>>
      /\ supermeshes' = IF current = {} THEN supermeshes
                        ELSE Append(supermeshes, Supermesh(current))
  BY DEF CloseCluster
<1>2. /\ Dealt(clusters') \subseteq Dealt(clusters)
      /\ OneKind(MeshesIn(current), floorOf, tag)
  BY <1>1, ClusterKinds
<1>3. OneKind(Dealt(clusters'), floorOf, tag)
  BY <1>2, OneKindPart DEF KindInv
<1>4. \A s \in ToSet(supermeshes') : OneKind(MeshesIn(s.faces), floorOf, s.tag)
  <2>1. \A s \in ToSet(supermeshes) : OneKind(MeshesIn(s.faces), floorOf, s.tag)
    BY DEF KindInv
  <2>2. Supermesh(current).faces = current /\ Supermesh(current).tag = tag
    BY DEF Supermesh
  <2>3. ToSet(Append(supermeshes, Supermesh(current)))
          = ToSet(supermeshes) \cup {Supermesh(current)}
    BY OneMore DEF KindInv, LimitsInv
  <2> QED BY <1>1, <1>2, <2>1, <2>2, <2>3
<1> QED BY <1>1, <1>3, <1>4 DEF KindInv, FloorsNearest

\* Groups, clusters and supermeshes are of meshes that are drawn in the same way and
\* have one floor nearest above them, at every step
\* (MultipartOptimizer::traverseTransformTree, clusterAndSupermesh).
THEOREM KindsHold == Spec => []KindInv
<1>1. Init => KindInv
  <2> SUFFICES ASSUME Init, LimitsInv PROVE KindInv
    BY LimitsFirst
  <2>1. stage = "read" /\ groups = {} /\ clusters = <<>> /\ supermeshes = <<>>
    BY DEF Init, OptimiserInit
  <2>2. Dealt(clusters) = {} /\ ToSet(supermeshes) = {}
    BY <2>1, DealNone, NothingInEmpty DEF Deals
  <2> QED BY <2>1, <2>2 DEF KindInv, OneKind
<1>2. KindInv /\ [Next]_vars => KindInv'
  <2> SUFFICES ASSUME KindInv, [Next]_vars PROVE KindInv'
    OBVIOUS
  <2>1. LimitsInv'
    BY LimitsNext DEF KindInv
  <2>2. CASE OptimiserStep
    <3>1. CASE ReadScene
      <4>1. PICK tags \in SetToSeqs(FloorTags) : floorOf' = Inherit(Tagged(tags))
        BY <3>1 DEF ReadScene
      <4>2. stage = "read" /\ stage' = "jobs" /\ UNCHANGED <<groups, tag, clusters, supermeshes>>
        BY <3>1 DEF ReadScene
      <4>3. FloorsNearest'
        BY <4>1, InheritedIsNearest DEF FloorsNearest
      <4>4. groups = {} /\ Dealt(clusters) = {} /\ ToSet(supermeshes) = {}
        BY <4>2, DealNone, NothingInEmpty DEF KindInv, Deals
      <4>5. OneKind({}, floorOf', tag)
        BY DEF OneKind
      <4> QED BY <2>1, <4>2, <4>3, <4>4, <4>5 DEF KindInv
    <3>2. CASE TakeJob
      BY <2>1, <3>2, TakeJobKinds
    <3>3. CASE TakeGroup
      BY <2>1, <3>3, TakeGroupKinds
    <3>4. CASE OpenCluster \/ CloseGroup \/ FinishScene
      <4>1. /\ stage # "read" /\ stage' # "read"
            /\ UNCHANGED <<floorOf, groups, tag, clusters, supermeshes>>
        BY <3>4 DEF OpenCluster, CloseGroup, FinishScene
      <4> QED BY <2>1, <4>1 DEF KindInv, FloorsNearest
    <3>5. ASSUME NEW m \in Meshes, StreamMesh(m) PROVE KindInv'
      BY <2>1, <3>5, StreamMeshKinds
    <3>6. CASE CloseCluster
      BY <2>1, <3>6, CloseClusterKinds
    <3> QED BY <2>2, <3>1, <3>2, <3>3, <3>4, <3>5, <3>6 DEF OptimiserStep
  <2>3. CASE UNCHANGED optimiserVars
    BY <2>1, <2>3 DEF optimiserVars, KindInv, FloorsNearest
  <2> QED BY <2>2, <2>3 DEF Next, vars
<1> QED BY <1>1, <1>2, PTL DEF Spec

\* SupermeshesOfOneFloor: the meshes of a supermesh are drawn in the same way, and it
\* has the name of the floor nearest above each of them
\* (MultipartOptimizer::traverseTransformTree, clusterAndSupermesh).
THEOREM FloorsKept == Spec => []SupermeshesOfOneFloor
<1>1. KindInv => SupermeshesOfOneFloor
  <2> SUFFICES ASSUME KindInv, NEW i \in DOMAIN supermeshes,
                      NEW m \in MeshesIn(supermeshes[i].faces),
                      NEW n \in MeshesIn(supermeshes[i].faces)
               PROVE  /\ SplitByFloor => supermeshes[i].tag \in NearestFloors(Attributes[m].parent)
                      /\ Look(m) = Look(n) /\ Attributes[m].grouping = Attributes[n].grouping
    BY DEF SupermeshesOfOneFloor
  <2>1. supermeshes[i] \in ToSet(supermeshes)
    BY DEF ToSet
  <2>2. OneKind(MeshesIn(supermeshes[i].faces), floorOf, supermeshes[i].tag)
    BY <2>1 DEF KindInv
  <2>3. stage # "read"
    BY <2>1, NothingInEmpty DEF KindInv
  <2>4. m \in Meshes /\ Attributes[m].parent \in Transforms
    BY AttributesAssumption DEF MeshesIn
  <2>5. SplitByFloor => floorOf[Attributes[m].parent] \in NearestFloors(Attributes[m].parent)
    BY <2>3, <2>4 DEF KindInv, FloorsNearest
  <2> QED BY <2>2, <2>5 DEF OneKind
<1> QED BY <1>1, KindsHold, PTL
=============================================================================
