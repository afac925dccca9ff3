------------------------ MODULE VirtualWireTableProofs ------------------------
(***************************************************************************)
(* The two tables and what is counted in them: devices and connections     *)
(* keep identities of their own, unregister_device removes what the source *)
(* lets it remove, connect_all_to_all connects what fits, and the counters *)
(* agree.  The proofs go through the shapes that a step can give the       *)
(* tables: nothing but contents changes, an entry is appended under the id *)
(* counter, an entry is taken out, or the table is emptied.                *)
(***************************************************************************)
EXTENDS VirtualWireProofs, FiniteSetTheorems, WellFoundedInduction

-----------------------------------------------------------------------------
(***************************************************************************)
(* Sums.  MapThenSumSet adds up a column of a table in an order it does    *)
(* not choose; whatever the order, a sum is at most b when the running     *)
(* totals f over the slots, taken in order, end at or below b (AtMost).    *)
(* AtMost is what an invariant can carry through a change of the table.    *)
(***************************************************************************)
LEMMA Induction ==
  ASSUME NEW T \in SUBSET Nat, 0 \in T, \A n \in T : n + 1 \in T
  PROVE  T = Nat
  <1>. SUFFICES ASSUME Nat \ T # {} PROVE FALSE
    OBVIOUS
  <1>1. PICK n \in Nat \ T : \A m \in Nat \ T : ~(<<m, n>> \in OpToRel(<, Nat))
    BY NatLessThanWellFounded, WFMin
  <1>2. n # 0 /\ n - 1 \in Nat
    OBVIOUS
  <1>3. n - 1 \notin T
    BY <1>2
  <1>4. \A m \in Nat \ T : ~(m < n)
    BY <1>1 DEF OpToRel
  <1>5. n - 1 < n
    BY <1>2
  <1>. QED  BY <1>2, <1>3, <1>4, <1>5

Sums(h, w, S) ==
  h = [s \in SUBSET S |->
         IF s = {} THEN 0
         ELSE LET x == CHOOSE x \in s : TRUE IN w[x] + h[s \ {x}]]

LEMMA SumsExist ==
  ASSUME NEW w, NEW S, IsFiniteSet(S)
  PROVE  \E h : Sums(h, w, S)
  <1>. DEFINE D(c) == {s \in SUBSET S : Cardinality(s) <= c}
              Value(s, h) == IF s = {} THEN 0
                             ELSE LET x == CHOOSE x \in s : TRUE IN w[x] + h[s \ {x}]
              Solves(h, c) == h = [s \in D(c) |-> Value(s, h)]
              T == {c \in Nat : \E h : Solves(h, c)}
  <1>0. \A s \in SUBSET S : IsFiniteSet(s) /\ Cardinality(s) \in Nat
    BY FS_Subset, FS_CardinalityType
  <1>1. 0 \in T
    <2>. DEFINE h == [s \in D(0) |-> 0]
    <2>1. \A s \in D(0) : s = {}
      BY <1>0, FS_EmptySet
    <2>2. Solves(h, 0)
      BY <2>1
    <2>. QED  BY <2>2
  <1>2. ASSUME NEW c \in T PROVE c + 1 \in T
    <2>1. PICK h : Solves(h, c)
      OBVIOUS
    <2>. DEFINE g == [s \in D(c + 1) |-> Value(s, h)]
    <2>2. \A s \in D(c) : s \in D(c + 1)
      BY <1>0
    <2>3. \A s \in D(c) : g[s] = h[s]
      BY <2>1, <2>2
    <2>4. ASSUME NEW s \in D(c + 1), s # {}, NEW x \in s
          PROVE  s \ {x} \in D(c)
      BY <1>0, <2>4, FS_RemoveElement
    <2>5. ASSUME NEW s \in D(c + 1) PROVE Value(s, h) = Value(s, g)
      <3>1. CASE s = {}
        BY <3>1
      <3>2. CASE s # {}
        <4>. DEFINE x == CHOOSE x \in s : TRUE
        <4>1. x \in s
          BY <3>2
        <4>2. g[s \ {x}] = h[s \ {x}]
          BY <2>3, <2>4, <3>2, <4>1
        <4>. QED  BY <3>2, <4>2
      <3>. QED  BY <3>1, <3>2
    <2>6. Solves(g, c + 1)
      <3>. DEFINE E == D(c + 1)
                  V(s) == Value(s, g)
                  U(s) == Value(s, h)
      <3>1. g = [s \in E |-> U(s)]
        OBVIOUS
      <3>2. \A s \in E : U(s) = V(s)
        BY <2>5
      <3>3. [s \in E |-> U(s)] = [s \in E |-> V(s)]
        <4>. HIDE DEF E, U, V
        <4>. QED  BY <3>2
      <3>4. g = [s \in E |-> V(s)]
        <4>. HIDE DEF g, E, U, V
        <4>. QED  BY <3>1, <3>3
      <3>. HIDE DEF g
      <3>. QED  BY <3>4
    <2>. HIDE DEF g, Solves
    <2>7. c + 1 \in Nat
      OBVIOUS
    <2>. QED  BY <2>6, <2>7
  <1>3. T = Nat
    <2>. HIDE DEF T
    <2>1. T \in SUBSET Nat
      BY DEF T
    <2>. QED  BY <1>1, <1>2, <2>1, Induction
  <1>4. PICK h : Solves(h, Cardinality(S))
    <2>1. Cardinality(S) \in T
      BY <1>0, <1>3
    <2>. QED  BY <2>1
  <1>5. D(Cardinality(S)) = SUBSET S
    BY <1>0, FS_Subset
  <1>. QED  BY <1>4, <1>5 DEF Sums

Additive(h, w, S) ==
  /\ h[{}] = 0
  /\ \A s \in SUBSET S : h[s] \in Nat
  /\ \A s \in SUBSET S : \A y \in S \ s : h[s \cup {y}] = h[s] + w[y]

LEMMA SumsAdd ==
  ASSUME NEW h, NEW w, NEW S, IsFiniteSet(S), Sums(h, w, S),
         \A x \in S : w[x] \in Nat
  PROVE  Additive(h, w, S)
  <1>. DEFINE Adds(s) == /\ h[s] \in Nat
                         /\ \A y \in S \ s : h[s \cup {y}] = h[s] + w[y]
              T == {c \in Nat : \A s \in SUBSET S : Cardinality(s) <= c => Adds(s)}
  <1>0. \A s \in SUBSET S : IsFiniteSet(s) /\ Cardinality(s) \in Nat
    BY FS_Subset, FS_CardinalityType
  <1>a. h[{}] = 0
    BY DEF Sums
  <1>b. ASSUME NEW s \in SUBSET S, s # {}
        PROVE  \E x \in s : h[s] = w[x] + h[s \ {x}]
    <2>. DEFINE x == CHOOSE x \in s : TRUE
    <2>1. x \in s
      BY <1>b
    <2>2. h[s] = w[x] + h[s \ {x}]
      BY <1>b DEF Sums
    <2>. QED  BY <2>1, <2>2
  <1>c. Adds({})
    <2>1. ASSUME NEW y \in S PROVE h[{} \cup {y}] = h[{}] + w[y]
      <3>1. {y} \in SUBSET S /\ {y} # {} /\ {} \cup {y} = {y}
        OBVIOUS
      <3>2. PICK x \in {y} : h[{y}] = w[x] + h[{y} \ {x}]
        BY <1>b, <3>1
      <3>3. x = y /\ {y} \ {x} = {}
        OBVIOUS
      <3>4. h[{y}] = w[y] + 0
        BY <3>2, <3>3, <1>a
      <3>. QED  BY <3>1, <3>4, <1>a
    <2>. QED  BY <2>1, <1>a
  <1>1. 0 \in T
    <2>1. \A s \in SUBSET S : Cardinality(s) <= 0 => s = {}
      BY <1>0, FS_EmptySet
    <2>. HIDE DEF Adds
    <2>. QED  BY <2>1, <1>c
  <1>2. ASSUME NEW c \in T PROVE c + 1 \in T
    <2>1. ASSUME NEW s \in SUBSET S, Cardinality(s) <= c + 1, s # {}
          PROVE  Adds(s)
      <3>1. \A x \in s : s \ {x} \in SUBSET S /\ Cardinality(s \ {x}) <= c
        BY <1>0, <2>1, FS_RemoveElement
      <3>2. \A x \in s : Adds(s \ {x})
        BY <3>1
      <3>3. \A x \in s : h[s] = h[s \ {x}] + w[x] /\ h[s \ {x}] \in Nat /\ w[x] \in Nat
        <4>1. ASSUME NEW x \in s PROVE (s \ {x}) \cup {x} = s /\ x \in S \ (s \ {x})
          OBVIOUS
        <4>. QED  BY <3>2, <4>1
      <3>4. h[s] \in Nat
        <4>1. PICK x : x \in s
          BY <2>1
        <4>2. h[s] = h[s \ {x}] + w[x] /\ h[s \ {x}] \in Nat /\ w[x] \in Nat
          BY <3>3, <4>1
        <4>. QED  BY <4>2
      <3>5. ASSUME NEW y \in S \ s PROVE h[s \cup {y}] = h[s] + w[y]
        <4>1. s \cup {y} \in SUBSET S /\ s \cup {y} # {}
          OBVIOUS
        <4>2. PICK x \in s \cup {y} : h[s \cup {y}] = w[x] + h[(s \cup {y}) \ {x}]
          BY <4>1, <1>b
        <4>3. CASE x = y
          <5>1. (s \cup {y}) \ {x} = s
            BY <4>3
          <5>2. w[y] \in Nat
            OBVIOUS
          <5>3. h[s \cup {y}] = w[y] + h[s]
            BY <4>2, <4>3, <5>1
          <5>. QED  BY <5>2, <5>3, <3>4
        <4>4. CASE x \in s
          <5>1. (s \cup {y}) \ {x} = (s \ {x}) \cup {y} /\ y \in S \ (s \ {x})
            BY <4>4
          <5>2. h[(s \ {x}) \cup {y}] = h[s \ {x}] + w[y]
            BY <3>2, <4>4, <5>1
          <5>3. h[s] = h[s \ {x}] + w[x] /\ h[s \ {x}] \in Nat /\ w[x] \in Nat
            BY <3>3, <4>4
          <5>4. w[y] \in Nat
            OBVIOUS
          <5>5. h[s \cup {y}] = w[x] + (h[s \ {x}] + w[y])
            BY <4>2, <5>1, <5>2
          <5>. QED  BY <5>3, <5>4, <5>5
        <4>. QED  BY <4>3, <4>4
      <3>. QED  BY <3>4, <3>5
    <2>2. \A s \in SUBSET S : Cardinality(s) <= c + 1 => Adds(s)
      <3>. HIDE DEF Adds
      <3>. QED  BY <2>1, <1>c
    <2>. QED  BY <2>2
  <1>3. T = Nat
    <2>. HIDE DEF T
    <2>1. T \in SUBSET Nat
      BY DEF T
    <2>. QED  BY <1>1, <1>2, <2>1, Induction
  <1>4. ASSUME NEW s \in SUBSET S PROVE Adds(s)
    <2>1. Cardinality(s) \in T /\ Cardinality(s) <= Cardinality(s)
      BY <1>0, <1>3
    <2>. QED  BY <2>1
  <1>. QED  BY <1>a, <1>4 DEF Additive

AtMost(w, n, b) ==
  \E f \in [0 .. n -> Nat] :
    /\ \A k \in 1 .. n : f[k - 1] + w[k] <= f[k]
    /\ f[n] <= b

LEMMA CoverSum ==
  ASSUME NEW n \in Nat, NEW w \in [1 .. n -> Nat], NEW b \in Nat, AtMost(w, n, b),
         NEW S \in SUBSET (1 .. n), NEW h, Sums(h, w, S)
  PROVE  h[S] <= b
  <1>1. PICK f \in [0 .. n -> Nat] : /\ \A k \in 1 .. n : f[k - 1] + w[k] <= f[k]
                                     /\ f[n] <= b
    BY DEF AtMost
  <1>. DEFINE P(m) == S \cap 1 .. m
              T == {m \in Nat : m <= n => h[P(m)] <= f[m]}
  <1>0. IsFiniteSet(S)
    <2>1. IsFiniteSet(1 .. n)
      BY FS_Interval
    <2>. QED  BY <2>1, FS_Subset
  <1>9. \A x \in S : w[x] \in Nat
    OBVIOUS
  <1>a. /\ h[{}] = 0
        /\ \A s \in SUBSET S : h[s] \in Nat
        /\ \A s \in SUBSET S : \A y \in S \ s : h[s \cup {y}] = h[s] + w[y]
    <2>1. Additive(h, w, S)
      BY <1>0, <1>9, SumsAdd
    <2>. QED  BY <2>1 DEF Additive
  <1>2. 0 \in T
    <2>1. P(0) = {}
      OBVIOUS
    <2>2. f[0] \in Nat
      OBVIOUS
    <2>. QED  BY <2>1, <2>2, <1>a
  <1>3. ASSUME NEW m \in T PROVE m + 1 \in T
    <2>. SUFFICES ASSUME m + 1 <= n PROVE h[P(m + 1)] <= f[m + 1]
      OBVIOUS
    <2>1. m \in 0 .. n /\ m + 1 \in 1 .. n /\ m + 1 \in 0 .. n /\ (m + 1) - 1 = m
      OBVIOUS
    <2>2. f[m] \in Nat /\ f[m + 1] \in Nat /\ w[m + 1] \in Nat
      BY <2>1
    <2>3. f[m] + w[m + 1] <= f[m + 1]
      BY <1>1, <2>1
    <2>4. h[P(m)] <= f[m] /\ h[P(m)] \in Nat
      BY <2>1, <1>a
    <2>5. CASE m + 1 \in S
      <3>1. P(m + 1) = P(m) \cup {m + 1} /\ m + 1 \in S \ P(m) /\ P(m) \in SUBSET S
        BY <2>5
      <3>2. h[P(m + 1)] = h[P(m)] + w[m + 1]
        BY <3>1, <1>a
      <3>. HIDE DEF P
      <3>. QED  BY <3>2, <2>2, <2>3, <2>4
    <2>6. CASE m + 1 \notin S
      <3>1. P(m + 1) = P(m)
        BY <2>6
      <3>. HIDE DEF P
      <3>. QED  BY <3>1, <2>2, <2>3, <2>4
    <2>. QED  BY <2>5, <2>6
  <1>4. T = Nat
    <2>. HIDE DEF T
    <2>1. T \in SUBSET Nat
      BY DEF T
    <2>. QED  BY <1>2, <1>3, <2>1, Induction
  <1>5. h[S] <= f[n]
    <2>1. n \in T
      BY <1>4
    <2>2. h[P(n)] <= f[n]
      BY <2>1
    <2>3. P(n) = S
      OBVIOUS
    <2>. HIDE DEF P
    <2>. QED  BY <2>2, <2>3
  <1>6. f[n] \in Nat
    OBVIOUS
  <1>7. h[S] \in Nat
    BY <1>a
  <1>. QED  BY <1>1, <1>5, <1>6, <1>7

(* The weights of a table's entries after it lost, gained or raised one.     *)
LEMMA CoverZero ==
  ASSUME NEW n \in Nat, NEW w, \A k \in 1 .. n : w[k] = 0, NEW b \in Nat
  PROVE  AtMost(w, n, b)
  <1>. DEFINE f == [k \in 0 .. n |-> 0]
  <1>1. f \in [0 .. n -> Nat]
    OBVIOUS
  <1>2. \A k \in 1 .. n : k \in 0 .. n /\ k - 1 \in 0 .. n
    OBVIOUS
  <1>3. \A k \in 1 .. n : f[k - 1] + w[k] <= f[k]
    BY <1>2
  <1>4. f[n] <= b
    OBVIOUS
  <1>. QED  BY <1>1, <1>3, <1>4 DEF AtMost

LEMMA CoverSame ==
  ASSUME NEW n \in Nat, NEW v, NEW w, NEW a, NEW b \in Nat,
         AtMost(v, n, a), \A k \in 1 .. n : w[k] = v[k], a \in Nat, a <= b
  PROVE  AtMost(w, n, b)
  <1>1. PICK f \in [0 .. n -> Nat] : /\ \A k \in 1 .. n : f[k - 1] + v[k] <= f[k]
                                     /\ f[n] <= a
    BY DEF AtMost
  <1>2. f[n] \in Nat
    OBVIOUS
  <1>3. f[n] <= b
    BY <1>1, <1>2
  <1>. QED  BY <1>1, <1>3 DEF AtMost

LEMMA CoverAppend ==
  ASSUME NEW n \in Nat, NEW v, NEW w, NEW b \in Nat, AtMost(v, n, b),
         \A k \in 1 .. n : w[k] = v[k], w[n + 1] = 0
  PROVE  AtMost(w, n + 1, b)
  <1>1. PICK f \in [0 .. n -> Nat] : /\ \A k \in 1 .. n : f[k - 1] + v[k] <= f[k]
                                     /\ f[n] <= b
    BY DEF AtMost
  <1>. DEFINE g == [k \in 0 .. n + 1 |-> IF k <= n THEN f[k] ELSE f[n]]
  <1>2. g \in [0 .. n + 1 -> Nat]
    OBVIOUS
  <1>3. ASSUME NEW k \in 1 .. n + 1 PROVE g[k - 1] + w[k] <= g[k]
    <2>1. CASE k \in 1 .. n
      <3>1. g[k] = f[k] /\ g[k - 1] = f[k - 1]
        BY <2>1
      <3>. HIDE DEF g
      <3>. QED  BY <1>1, <2>1, <3>1
    <2>2. CASE k = n + 1
      <3>1. g[k] = f[n] /\ g[k - 1] = f[n] /\ f[n] \in Nat
        BY <2>2
      <3>. HIDE DEF g
      <3>. QED  BY <2>2, <3>1
    <2>. QED  BY <2>1, <2>2
  <1>4. g[n + 1] = f[n]
    OBVIOUS
  <1>. HIDE DEF g
  <1>. QED  BY <1>1, <1>2, <1>3, <1>4 DEF AtMost

LEMMA CoverWithout ==
  ASSUME NEW n \in Nat, NEW v \in [1 .. n -> Nat], NEW w, NEW b \in Nat,
         AtMost(v, n, b), NEW r \in 1 .. n,
         \A k \in 1 .. n - 1 : w[k] = IF k < r THEN v[k] ELSE v[k + 1]
  PROVE  AtMost(w, n - 1, b)
  <1>1. PICK f \in [0 .. n -> Nat] : /\ \A k \in 1 .. n : f[k - 1] + v[k] <= f[k]
                                     /\ f[n] <= b
    BY DEF AtMost
  <1>. DEFINE g == [k \in 0 .. n - 1 |-> IF k < r THEN f[k] ELSE f[k + 1]]
  <1>2. g \in [0 .. n - 1 -> Nat]
    OBVIOUS
  <1>3. ASSUME NEW k \in 1 .. n - 1 PROVE g[k - 1] + w[k] <= g[k]
    <2>0. k \in 1 .. n /\ k + 1 \in 1 .. n /\ (k + 1) - 1 = k
          /\ k \in 0 .. n - 1 /\ k - 1 \in 0 .. n - 1 /\ (k - 1) + 1 = k
          /\ k \in 0 .. n /\ k + 1 \in 0 .. n /\ k - 1 \in 0 .. n
      OBVIOUS
    <2>1. v[k] \in Nat /\ v[k + 1] \in Nat
          /\ f[k - 1] \in Nat /\ f[k] \in Nat /\ f[k + 1] \in Nat
      BY <2>0
    <2>2. f[k - 1] + v[k] <= f[k] /\ f[k] + v[k + 1] <= f[k + 1]
      BY <1>1, <2>0
    <2>3. CASE k < r
      <3>1. g[k] = f[k] /\ g[k - 1] = f[k - 1] /\ w[k] = v[k]
        BY <2>0, <2>3
      <3>. HIDE DEF g
      <3>. QED  BY <2>2, <3>1
    <2>4. CASE k = r
      <3>1. g[k] = f[k + 1] /\ g[k - 1] = f[k - 1] /\ w[k] = v[k + 1]
        BY <2>0, <2>4
      <3>. HIDE DEF g
      <3>. QED  BY <2>1, <2>2, <3>1
    <2>5. CASE k > r
      <3>1. g[k] = f[k + 1] /\ g[k - 1] = f[k] /\ w[k] = v[k + 1]
        BY <2>0, <2>5
      <3>. HIDE DEF g
      <3>. QED  BY <2>2, <3>1
    <2>. QED  BY <2>3, <2>4, <2>5
  <1>4. g[n - 1] <= f[n]
    <2>1. n - 1 \in 0 .. n - 1 /\ n - 1 \in 0 .. n /\ n \in 0 .. n /\ (n - 1) + 1 = n
      OBVIOUS
    <2>2. f[n - 1] + v[n] <= f[n] /\ f[n - 1] \in Nat /\ f[n] \in Nat /\ v[n] \in Nat
      BY <1>1, <2>1
    <2>3. g[n - 1] = f[n - 1] \/ g[n - 1] = f[n]
      BY <2>1
    <2>. HIDE DEF g
    <2>. QED  BY <2>2, <2>3
  <1>5. g[n - 1] <= b
    <2>1. g[n - 1] \in Nat /\ f[n] \in Nat
      BY <1>2
    <2>. HIDE DEF g
    <2>. QED  BY <1>1, <1>4, <2>1
  <1>. HIDE DEF g
  <1>. QED  BY <1>2, <1>3, <1>5 DEF AtMost

LEMMA CoverRaise ==
  ASSUME NEW n \in Nat, NEW v \in [1 .. n -> Nat], NEW w, NEW b \in Nat,
         AtMost(v, n, b), NEW r \in 1 .. n,
         \A k \in 1 .. n : w[k] = IF k = r THEN v[k] + 1 ELSE v[k]
  PROVE  AtMost(w, n, b + 1)
  <1>1. PICK f \in [0 .. n -> Nat] : /\ \A k \in 1 .. n : f[k - 1] + v[k] <= f[k]
                                     /\ f[n] <= b
    BY DEF AtMost
  <1>. DEFINE g == [k \in 0 .. n |-> IF k < r THEN f[k] ELSE f[k] + 1]
  <1>2. g \in [0 .. n -> Nat]
    OBVIOUS
  <1>3. ASSUME NEW k \in 1 .. n PROVE g[k - 1] + w[k] <= g[k]
    <2>0. k \in 0 .. n /\ k - 1 \in 0 .. n
      OBVIOUS
    <2>1. v[k] \in Nat /\ f[k - 1] \in Nat /\ f[k] \in Nat /\ f[k - 1] + v[k] <= f[k]
      BY <1>1, <2>0
    <2>2. CASE k < r
      <3>1. g[k] = f[k] /\ g[k - 1] = f[k - 1] /\ w[k] = v[k]
        BY <2>0, <2>2
      <3>. HIDE DEF g
      <3>. QED  BY <2>1, <3>1
    <2>3. CASE k = r
      <3>1. g[k] = f[k] + 1 /\ g[k - 1] = f[k - 1] /\ w[k] = v[k] + 1
        BY <2>0, <2>3
      <3>. HIDE DEF g
      <3>. QED  BY <2>1, <3>1
    <2>4. CASE k > r
      <3>1. g[k] = f[k] + 1 /\ g[k - 1] = f[k - 1] + 1 /\ w[k] = v[k]
        BY <2>0, <2>4
      <3>. HIDE DEF g
      <3>. QED  BY <2>1, <3>1
    <2>. QED  BY <2>2, <2>3, <2>4
  <1>4. g[n] = f[n] + 1 /\ f[n] \in Nat
    OBVIOUS
  <1>5. g[n] <= b + 1
    <2>. HIDE DEF g
    <2>. QED  BY <1>1, <1>4
  <1>. HIDE DEF g
  <1>. QED  BY <1>2, <1>3, <1>5 DEF AtMost

(***************************************************************************)
(* MapThenSumSet over a table's column is the sum of its weights.          *)
(***************************************************************************)
Filtered(t) == [k \in 1 .. Len(t) |-> t[k].filtered]
RoutedInto(t, id) ==
  [k \in 1 .. Len(t) |-> IF t[k].dst = id THEN t[k].routed ELSE 0]

LEMMA FilteredMeaning ==
  ASSUME NEW t \in Seq(Connection)
  PROVE  \E h : /\ Sums(h, Filtered(t), DOMAIN t)
                /\ MapThenSumSet(LAMBDA k : t[k].filtered, DOMAIN t) = h[DOMAIN t]
  <1>. DEFINE S == DOMAIN t
              U(s, h) == IF s = {} THEN 0
                         ELSE LET x == CHOOSE x \in s : TRUE IN t[x].filtered + h[s \ {x}]
              V(s, h) == IF s = {} THEN 0
                         ELSE LET x == CHOOSE x \in s : TRUE IN Filtered(t)[x] + h[s \ {x}]
              Solves(h) == h = [s \in SUBSET S |-> U(s, h)]
              iter == CHOOSE h : Solves(h)
  <1>0. S = 1 .. Len(t) /\ Len(t) \in Nat
    OBVIOUS
  <1>1. \A h : Sums(h, Filtered(t), S) <=> Solves(h)
    <2>. TAKE h
    <2>1. ASSUME NEW s \in SUBSET S PROVE U(s, h) = V(s, h)
      <3>1. CASE s = {}
        BY <3>1
      <3>2. CASE s # {}
        <4>. DEFINE x == CHOOSE x \in s : TRUE
        <4>1. x \in s
          BY <3>2
        <4>2. x \in 1 .. Len(t)
          BY <4>1, <1>0
        <4>3. Filtered(t)[x] = t[x].filtered
          BY <4>2 DEF Filtered
        <4>. QED  BY <3>2, <4>3
      <3>. QED  BY <3>1, <3>2
    <2>2. [s \in SUBSET S |-> U(s, h)] = [s \in SUBSET S |-> V(s, h)]
      <3>. HIDE DEF U, V, S
      <3>. QED  BY <2>1
    <2>3. Sums(h, Filtered(t), S) <=> h = [s \in SUBSET S |-> V(s, h)]
      BY DEF Sums
    <2>. HIDE DEF U, V, S
    <2>. QED  BY <2>2, <2>3
  <1>2. IsFiniteSet(S)
    BY <1>0, FS_Interval
  <1>3. \E h : Sums(h, Filtered(t), S)
    BY <1>2, SumsExist
  <1>4. Solves(iter)
    <2>. HIDE DEF Solves
    <2>. QED  BY <1>1, <1>3
  <1>5. MapThenSumSet(LAMBDA k : t[k].filtered, S) = iter[S]
    BY DEF MapThenSumSet, MapThenFoldSet
  <1>6. Sums(iter, Filtered(t), S)
    <2>. HIDE DEF Solves, iter
    <2>. QED  BY <1>1, <1>4
  <1>. HIDE DEF iter
  <1>. QED  BY <1>5, <1>6

LEMMA RoutedMeaning ==
  ASSUME NEW t \in Seq(Connection), NEW id
  PROVE  LET S == {k \in DOMAIN t : t[k].dst = id} IN
         \E h : /\ Sums(h, RoutedInto(t, id), S)
                /\ MapThenSumSet(LAMBDA k : t[k].routed, S) = h[S]
  <1>. DEFINE S == {k \in DOMAIN t : t[k].dst = id}
              U(s, h) == IF s = {} THEN 0
                         ELSE LET x == CHOOSE x \in s : TRUE IN t[x].routed + h[s \ {x}]
              V(s, h) == IF s = {} THEN 0
                         ELSE LET x == CHOOSE x \in s : TRUE IN RoutedInto(t, id)[x] + h[s \ {x}]
              Solves(h) == h = [s \in SUBSET S |-> U(s, h)]
              iter == CHOOSE h : Solves(h)
  <1>0. S \subseteq 1 .. Len(t) /\ Len(t) \in Nat
    OBVIOUS
  <1>1. \A h : Sums(h, RoutedInto(t, id), S) <=> Solves(h)
    <2>. TAKE h
    <2>1. ASSUME NEW s \in SUBSET S PROVE U(s, h) = V(s, h)
      <3>1. CASE s = {}
        BY <3>1
      <3>2. CASE s # {}
        <4>. DEFINE x == CHOOSE x \in s : TRUE
        <4>1. x \in s
          BY <3>2
        <4>2. x \in 1 .. Len(t) /\ t[x].dst = id
          BY <4>1
        <4>3. RoutedInto(t, id)[x] = t[x].routed
          BY <4>2 DEF RoutedInto
        <4>. QED  BY <3>2, <4>3
      <3>. QED  BY <3>1, <3>2
    <2>2. [s \in SUBSET S |-> U(s, h)] = [s \in SUBSET S |-> V(s, h)]
      <3>. HIDE DEF U, V, S
      <3>. QED  BY <2>1
    <2>3. Sums(h, RoutedInto(t, id), S) <=> h = [s \in SUBSET S |-> V(s, h)]
      BY DEF Sums
    <2>. HIDE DEF U, V, S
    <2>. QED  BY <2>2, <2>3
  <1>2. IsFiniteSet(S)
    <2>1. IsFiniteSet(1 .. Len(t))
      BY <1>0, FS_Interval
    <2>. QED  BY <1>0, <2>1, FS_Subset
  <1>3. \E h : Sums(h, RoutedInto(t, id), S)
    BY <1>2, SumsExist
  <1>4. Solves(iter)
    <2>. HIDE DEF Solves
    <2>. QED  BY <1>1, <1>3
  <1>5. MapThenSumSet(LAMBDA k : t[k].routed, S) = iter[S]
    BY DEF MapThenSumSet, MapThenFoldSet
  <1>6. Sums(iter, RoutedInto(t, id), S)
    <2>. HIDE DEF Solves, iter
    <2>. QED  BY <1>1, <1>4
  <1>. HIDE DEF iter
  <1>. QED  BY <1>5, <1>6

LEMMA WeightsOK ==
  ASSUME NEW t \in Seq(Connection)
  PROVE  /\ Len(t) \in Nat
         /\ Filtered(t) \in [1 .. Len(t) -> Nat]
         /\ \A id : RoutedInto(t, id) \in [1 .. Len(t) -> Nat]
  <1>1. \A k \in 1 .. Len(t) : t[k] \in Connection
    OBVIOUS
  <1>2. \A k \in 1 .. Len(t) : t[k].filtered \in Nat /\ t[k].routed \in Nat
    BY <1>1 DEF Connection
  <1>. QED  BY <1>2 DEF Filtered, RoutedInto

-----------------------------------------------------------------------------
(* The shapes of a step.                                                     *)

USE SizesAssumption, ArgumentsAssumption

SameDevices ==
  /\ DOMAIN ports' = DOMAIN ports
  /\ \A k \in DOMAIN ports : ports'[k].id = ports[k].id
  /\ nextDev' = nextDev /\ wrapped'.dev = wrapped.dev

AddedDevice ==
  /\ \E input, output \in BOOLEAN : ports' = Append(ports, NewDevice(input, output))
  /\ nextDev' = (nextDev + 1) % IdMod
  /\ wrapped'.dev = (wrapped.dev \/ nextDev' = 0)

RemovedDevice ==
  /\ \E k \in DOMAIN ports : ports' = Without(ports, k)
  /\ nextDev' = nextDev /\ wrapped'.dev = wrapped.dev

SameWires ==
  /\ DOMAIN conns' = DOMAIN conns
  /\ \A k \in DOMAIN conns :
       conns'[k].id = conns[k].id /\ Route(conns'[k]) = Route(conns[k])
  /\ nextConn' = nextConn /\ wrapped'.conn = wrapped.conn

AddedWire ==
  /\ \E src, dst \in Ids, sch, dch \in Byte, f \in SUBSET Classes :
       /\ CanCreate(src, dst, sch, dch)
       /\ conns' = Append(conns, NewConnection(src, dst, sch, dch, f))
  /\ nextConn' = (nextConn + 1) % IdMod
  /\ wrapped'.conn = (wrapped.conn \/ nextConn' = 0)

RemovedWire ==
  /\ \E k \in DOMAIN conns : conns' = Without(conns, k)
  /\ nextConn' = nextConn /\ wrapped'.conn = wrapped.conn

DeviceShape ==
  SameDevices \/ AddedDevice \/ RemovedDevice \/ (ports' = <<>> /\ conns' = <<>>)
WireShape == SameWires \/ AddedWire \/ RemovedWire \/ conns' = <<>>

(* Edits of one entry leave identities alone.                                *)
LEMMA SameAfterEdit ==
  ASSUME NEW k \in DOMAIN ports, NEW e, PortsOK,
         ports' = [ports EXCEPT ![k] = e], e.id = ports[k].id,
         nextDev' = nextDev, wrapped' = wrapped
  PROVE  SameDevices
  BY DEF SameDevices, PortsOK

LEMMA SameWiresAfterEdit ==
  ASSUME NEW k \in DOMAIN conns, NEW e, ConnsOK,
         conns' = [conns EXCEPT ![k] = e],
         e.id = conns[k].id, Route(e) = Route(conns[k]),
         nextConn' = nextConn, wrapped' = wrapped
  PROVE  SameWires
  BY DEF SameWires, ConnsOK

LEMMA DeviceEditIds ==
  ASSUME NEW p \in Device
  PROVE  /\ \A msg : Queued(p, msg).id = p.id
         /\ Fetched(p).id = p.id
         /\ Drained(p).id = p.id
         /\ [p EXCEPT !.sent = 0, !.received = 0].id = p.id
  BY DEF Device, Queued, Fetched, Drained

LEMMA ConnectionEditIds ==
  ASSUME NEW c \in Connection
  PROVE  /\ CountRouted(c).id = c.id /\ Route(CountRouted(c)) = Route(c)
         /\ CountFiltered(c).id = c.id /\ Route(CountFiltered(c)) = Route(c)
         /\ [c EXCEPT !.routed = 0, !.filtered = 0].id = c.id
         /\ Route([c EXCEPT !.routed = 0, !.filtered = 0]) = Route(c)
  BY DEF Connection, CountRouted, CountFiltered, Route

LEMMA Shapes ==
  ASSUME TypeOK, [Next]_vars
  PROVE  DeviceShape /\ WireShape /\ (SameDevices \/ conns' = conns \/ conns' = <<>>)
<1>. DEFINE Goal == /\ DeviceShape /\ WireShape
                    /\ SameDevices \/ conns' = conns \/ conns' = <<>>
<1>. USE DEF TypeOK
<1>d. ports' = ports /\ nextDev' = nextDev /\ wrapped'.dev = wrapped.dev => SameDevices
  BY DEF SameDevices
<1>w. conns' = conns /\ nextConn' = nextConn /\ wrapped'.conn = wrapped.conn => SameWires
  BY DEF SameWires, Route
<1>1. CASE VwInit
  BY <1>1 DEF VwInit, Clear, DeviceShape, WireShape
<1>2. CASE Deinit
  BY <1>2 DEF Deinit, Clear, DeviceShape, WireShape
<1>3. CASE Start \/ Stop
  BY <1>3, <1>d, <1>w DEF Start, Stop, DeviceShape, WireShape
<1>5. ASSUME NEW role \in Roles, Register(role[1], role[2]) PROVE Goal
  <2>1. role[1] \in BOOLEAN /\ role[2] \in BOOLEAN
    OBVIOUS
  <2>2. AddedDevice
    <3>1. wrapped'.dev = (wrapped.dev \/ nextDev' = 0)
      BY <1>5 DEF Register, FlagsOK
    <3>. QED  BY <1>5, <2>1, <3>1 DEF Register, AddedDevice
  <2>3. conns' = conns /\ nextConn' = nextConn /\ wrapped'.conn = wrapped.conn
    BY <1>5 DEF Register, FlagsOK
  <2>. QED  BY <2>2, <2>3, <1>w DEF DeviceShape, WireShape
<1>6. ASSUME NEW id \in Ids, UnregisterCall(id) PROVE Goal
  BY <1>6, <1>d, <1>w DEF UnregisterCall, DeviceShape, WireShape
<1>7. ASSUME NEW id \in Ids, NEW s \in DeviceStates, SetDeviceState(id, s) PROVE Goal
  <2>1. PICK k \in DOMAIN ports : ports' = [ports EXCEPT ![k] = [@ EXCEPT !.state = s]]
    BY <1>7 DEF SetDeviceState
  <2>2. \A p \in Device : [p EXCEPT !.state = s].id = p.id
    BY DEF Device
  <2>3. SameDevices
    BY <1>7, <2>1, <2>2 DEF SetDeviceState, SameDevices, PortsOK
  <2>. QED  BY <1>7, <2>3, <1>w DEF SetDeviceState, DeviceShape, WireShape
<1>8. ASSUME NEW src \in Ids, NEW dst \in Ids, NEW sch \in SourceChannels,
             NEW dch \in DestChannels, NEW f \in Filters,
             CreateConnection(src, dst, sch, dch, f)
      PROVE  Goal
  <2>1. sch \in Byte /\ dch \in Byte /\ f \in SUBSET Classes
    OBVIOUS
  <2>2. wrapped'.conn = (wrapped.conn \/ nextConn' = 0) /\ wrapped'.dev = wrapped.dev
    BY <1>8 DEF CreateConnection, Create, FlagsOK
  <2>3. AddedWire
    BY <1>8, <2>1, <2>2 DEF CreateConnection, Create, AddedWire
  <2>. QED
    BY <1>8, <2>2, <2>3, <1>d DEF CreateConnection, DeviceShape, WireShape
<1>9. ASSUME NEW id \in Ids, RemoveConnection(id) PROVE Goal
  <2>1. RemovedWire
    BY <1>9 DEF RemoveConnection, RemovedWire
  <2>. QED  BY <1>9, <2>1, <1>d DEF RemoveConnection, DeviceShape, WireShape
<1>10. ASSUME NEW id \in Ids, NEW b \in Switchings, EnableConnection(id, b) PROVE Goal
  <2>1. PICK k \in DOMAIN conns : conns' = [conns EXCEPT ![k] = [@ EXCEPT !.enabled = b]]
    BY <1>10 DEF EnableConnection
  <2>2. \A c \in Connection : /\ [c EXCEPT !.enabled = b].id = c.id
                              /\ Route([c EXCEPT !.enabled = b]) = Route(c)
    BY DEF Connection, Route
  <2>3. SameWires
    BY <1>10, <2>1, <2>2 DEF EnableConnection, SameWires, ConnsOK
  <2>. QED  BY <1>10, <2>3, <1>d DEF EnableConnection, DeviceShape, WireShape
<1>11. CASE DisconnectAll
  BY <1>11, <1>d DEF DisconnectAll, DeviceShape, WireShape
<1>12. CASE ConnectAllCall \/ ProcessCall
  BY <1>12, <1>d, <1>w DEF ConnectAllCall, ProcessCall, DeviceShape, WireShape
<1>13. ASSUME NEW id \in Ids, NEW msg \in Statuses, SendMessage(id, msg) PROVE Goal
  <2>1. PICK k \in DOMAIN ports : ports' = [ports EXCEPT ![k] = Queued(@, msg)]
    BY <1>13 DEF SendMessage, Queue
  <2>2. SameDevices
    <3>1. ports[k] \in Device
      BY DEF PortsOK
    <3>2. Queued(ports[k], msg).id = ports[k].id
      BY <3>1, DeviceEditIds
    <3>. QED  BY <1>13, <2>1, <3>2, SameAfterEdit DEF SendMessage
  <2>. QED  BY <1>13, <2>2, <1>w DEF SendMessage, DeviceShape, WireShape
<1>14. ASSUME NEW id \in Ids, ReceiveMessage(id) PROVE Goal
  <2>1. PICK k \in DOMAIN ports : ports' = [ports EXCEPT ![k] = Fetched(@)]
    BY <1>14 DEF ReceiveMessage
  <2>2. SameDevices
    <3>1. ports[k] \in Device
      BY DEF PortsOK
    <3>2. Fetched(ports[k]).id = ports[k].id
      BY <3>1, DeviceEditIds
    <3>. QED  BY <1>14, <2>1, <3>2, SameAfterEdit DEF ReceiveMessage
  <2>. QED  BY <1>14, <2>2, <1>w DEF ReceiveMessage, DeviceShape, WireShape
<1>15. ASSUME NEW src \in Ids, NEW msg \in Statuses, InjectMessage(src, msg) PROVE Goal
  BY <1>15, <1>d, <1>w DEF InjectMessage, DeviceShape, WireShape
<1>17. CASE ResetStatistics
  <2>1. SameDevices
    <3>1. \A k \in DOMAIN ports : ports[k] \in Device
      BY DEF PortsOK
    <3>2. \A k \in DOMAIN ports :
            [ports[k] EXCEPT !.sent = 0, !.received = 0].id = ports[k].id
      BY <3>1, DeviceEditIds
    <3>. QED  BY <1>17, <3>2 DEF ResetStatistics, SameDevices
  <2>2. SameWires
    <3>1. \A k \in DOMAIN conns : conns[k] \in Connection
      BY DEF ConnsOK
    <3>. DEFINE Z(c) == [c EXCEPT !.routed = 0, !.filtered = 0]
    <3>2. \A k \in DOMAIN conns :
            Z(conns[k]).id = conns[k].id /\ Route(Z(conns[k])) = Route(conns[k])
      BY <3>1, ConnectionEditIds
    <3>3. conns' = [k \in DOMAIN conns |-> Z(conns[k])]
      BY <1>17 DEF ResetStatistics
    <3>. HIDE DEF Z
    <3>. QED  BY <1>17, <3>2, <3>3 DEF ResetStatistics, SameWires
  <2>. QED  BY <2>1, <2>2 DEF DeviceShape, WireShape
<1>18. CASE UnregisterRemove
  <2>1. RemovedWire
    BY <1>18 DEF UnregisterRemove, RemovedWire
  <2>. QED  BY <1>18, <2>1, <1>d DEF UnregisterRemove, DeviceShape, WireShape
<1>20. CASE UnregisterReturn
  <2>1. call.slot \in DOMAIN ports
    BY <1>20 DEF UnregisterReturn, CallOK
  <2>2. RemovedDevice
    BY <1>20, <2>1 DEF UnregisterReturn, RemovedDevice
  <2>. QED  BY <1>20, <2>2, <1>w DEF UnregisterReturn, DeviceShape, WireShape
<1>21. CASE ConnectAllPair
  <2>. DEFINE src == ports[call.i].id
              dst == ports[call.j].id
  <2>1. CASE UNCHANGED <<conns, nextConn, wrapped>>
    BY <1>21, <2>1, <1>d, <1>w DEF ConnectAllPair, DeviceShape, WireShape
  <2>2. CASE CanCreate(src, dst, AnyChannel, AnyChannel)
             /\ Create(src, dst, AnyChannel, AnyChannel, {})
    <3>0. ASSUME NEW k \in DOMAIN ports PROVE ports[k].id \in Ids
      <4>1. ports[k] \in Device
        BY DEF PortsOK
      <4>. QED  BY <4>1 DEF Device
    <3>1. src \in Ids /\ dst \in Ids
      BY <2>2, <3>0 DEF CanCreate, Known
    <3>2. AnyChannel \in Byte /\ {} \in SUBSET Classes
      BY DEF AnyChannel, Byte
    <3>3. wrapped'.conn = (wrapped.conn \/ nextConn' = 0) /\ wrapped'.dev = wrapped.dev
      BY <2>2 DEF Create, FlagsOK
    <3>4. AddedWire
      <4>. HIDE DEF src, dst
      <4>. QED  BY <2>2, <3>1, <3>2, <3>3 DEF Create, AddedWire
    <3>. QED  BY <1>21, <3>3, <3>4, <1>d DEF ConnectAllPair, DeviceShape, WireShape
  <2>. QED  BY <1>21, <2>1, <2>2 DEF ConnectAllPair
<1>22. CASE \/ UnregisterKeep \/ ConnectAllReturn \/ RouteSkip \/ RouteReturn
            \/ RouteUndeliverable \/ ProcessReturn
  BY <1>22, <1>d, <1>w
     DEF UnregisterKeep, ConnectAllReturn, RouteSkip, RouteReturn,
         RouteUndeliverable, ProcessReturn, DeviceShape, WireShape
<1>24. CASE RouteFiltered
  <2>1. SameWires
    <3>1. call.i \in DOMAIN conns /\ conns[call.i] \in Connection
      BY <1>24 DEF ConnsOK, RouteFiltered, Routing
    <3>. DEFINE e == CountFiltered(conns[call.i])
    <3>2. e.id = conns[call.i].id /\ Route(e) = Route(conns[call.i])
      BY <3>1, ConnectionEditIds
    <3>3. conns' = [conns EXCEPT ![call.i] = e]
      BY <1>24 DEF RouteFiltered, Routing
    <3>. HIDE DEF e
    <3>. QED  BY <1>24, <3>1, <3>2, <3>3, SameWiresAfterEdit DEF RouteFiltered, Routing
  <2>. QED  BY <1>24, <2>1, <1>d DEF RouteFiltered, DeviceShape, WireShape
<1>26. CASE RouteDeliver
  <2>0. Routing
    BY <1>26 DEF RouteDeliver, Forwards
  <2>1. SameWires
    <3>1. call.i \in DOMAIN conns /\ conns[call.i] \in Connection
      BY <1>26, <2>0 DEF ConnsOK, RouteDeliver, Routing
    <3>. DEFINE e == CountRouted(conns[call.i])
    <3>2. e.id = conns[call.i].id /\ Route(e) = Route(conns[call.i])
      BY <3>1, ConnectionEditIds
    <3>3. conns' = [conns EXCEPT ![call.i] = e]
      BY <1>26, <2>0 DEF RouteDeliver, Routing
    <3>. HIDE DEF e
    <3>. QED  BY <1>26, <2>0, <3>1, <3>2, <3>3, SameWiresAfterEdit DEF RouteDeliver, Routing
  <2>2. PICK k \in DOMAIN ports, msg \in {Remap(call.msg, conns[call.i].dch)} :
          ports' = [ports EXCEPT ![k] = Queued(@, msg)]
    BY <1>26 DEF RouteDeliver, Queue
  <2>4. SameDevices
    <3>1. ports[k] \in Device
      BY DEF PortsOK
    <3>2. Queued(ports[k], msg).id = ports[k].id
      BY <3>1, DeviceEditIds
    <3>. QED  BY <1>26, <2>2, <3>2, SameAfterEdit DEF RouteDeliver
  <2>. QED  BY <2>1, <2>4 DEF DeviceShape, WireShape
<1>28. CASE ProcessPort
  <2>1. \/ ports' = ports
        \/ ports' = [ports EXCEPT ![call.i] = Drained(@)]
    BY <1>28 DEF ProcessPort
  <2>2. SameDevices
    <3>1. call.i \in DOMAIN ports /\ ports[call.i] \in Device
      BY <1>28 DEF ProcessPort, PortsOK
    <3>2. Drained(ports[call.i]).id = ports[call.i].id
      BY <3>1, DeviceEditIds
    <3>. QED  BY <1>28, <2>1, <3>1, <3>2, <1>d, SameAfterEdit DEF ProcessPort
  <2>. QED  BY <1>28, <2>2, <1>w DEF ProcessPort, DeviceShape, WireShape
<1>30. CASE UNCHANGED vars
  BY <1>30, <1>d, <1>w DEF vars, DeviceShape, WireShape
<1>. QED
  BY <1>1, <1>2, <1>3, <1>5, <1>6, <1>7, <1>8, <1>9, <1>10, <1>11, <1>12, <1>13,
     <1>14, <1>15, <1>17, <1>18, <1>20, <1>21, <1>22, <1>24, <1>26, <1>28, <1>30
     DEF Next, Continue

-----------------------------------------------------------------------------
LEMMA NextId ==
  ASSUME NEW n \in Ids, (n + 1) % IdMod # 0
  PROVE  (n + 1) % IdMod = n + 1
  <1>1. n + 1 < IdMod \/ n + 1 = IdMod
    BY DEF Ids
  <1>2. n + 1 = IdMod => (n + 1) % IdMod = 0
    OBVIOUS
  <1>3. n + 1 < IdMod => (n + 1) % IdMod = n + 1
    BY DEF Ids
  <1>. QED  BY <1>1, <1>2, <1>3

LEMMA DeviceIdsStep ==
  ASSUME TypeOK, DeviceIdsUnique, DeviceShape
  PROVE  DeviceIdsUnique'
<1>. SUFFICES ASSUME ~wrapped'.dev
              PROVE  \A k \in DOMAIN ports' :
                       /\ ports'[k].id < nextDev'
                       /\ \A l \in DOMAIN ports' :
                            ports'[k].id = ports'[l].id => k = l
  BY DEF DeviceIdsUnique
<1>0. ports \in Seq(Device) /\ nextDev \in Ids
  BY DEF TypeOK, PortsOK, CountersOK
<1>1. CASE SameDevices
  BY <1>1 DEF SameDevices, DeviceIdsUnique
<1>2. CASE AddedDevice
  <2>1. nextDev' = nextDev + 1 /\ ~wrapped.dev
    BY <1>0, <1>2, NextId DEF AddedDevice
  <2>2. PICK input \in BOOLEAN, output \in BOOLEAN :
          ports' = Append(ports, NewDevice(input, output))
    BY <1>2 DEF AddedDevice
  <2>3. NewDevice(input, output).id = nextDev
    BY DEF NewDevice
  <2>4. NewDevice(input, output) \in Device
    BY NewDeviceType DEF TypeOK
  <2>5. \A k \in DOMAIN ports : ports[k].id < nextDev /\ ports[k].id \in Nat
    <3>1. ASSUME NEW k \in DOMAIN ports PROVE ports[k].id \in Nat
      <4>1. ports[k] \in Device
        BY <1>0
      <4>. QED  BY <4>1 DEF Device, Ids
    <3>. QED  BY <2>1, <3>1 DEF DeviceIdsUnique
  <2>6. /\ DOMAIN ports' = 1 .. Len(ports) + 1
        /\ \A k \in DOMAIN ports : ports'[k] = ports[k]
        /\ ports'[Len(ports) + 1].id = nextDev
    BY <1>0, <2>2, <2>3, <2>4, AppendEntry
  <2>7. \A k \in DOMAIN ports' : k \in DOMAIN ports \/ k = Len(ports) + 1
    BY <1>0, <2>6
  <2>8. \A k, l \in DOMAIN ports : ports[k].id = ports[l].id => k = l
    BY <2>1 DEF DeviceIdsUnique
  <2>9. nextDev \in Nat
    BY <1>0 DEF Ids
  <2>. QED  BY <2>1, <2>5, <2>6, <2>7, <2>8, <2>9
<1>3. CASE RemovedDevice
  <2>1. PICK r \in DOMAIN ports : ports' = Without(ports, r)
    BY <1>3 DEF RemovedDevice
  <2>2. ~wrapped.dev /\ nextDev' = nextDev
    BY <1>3 DEF RemovedDevice
  <2>3. /\ DOMAIN ports' = 1 .. Len(ports) - 1
        /\ \A k \in DOMAIN ports' :
             ports'[k] = IF k < r THEN ports[k] ELSE ports[k + 1]
    BY <1>0, <2>1, WithoutEntry
  <2>4. \A k \in DOMAIN ports' : k \in DOMAIN ports /\ k + 1 \in DOMAIN ports
    BY <1>0, <2>3
  <2>. QED  BY <1>0, <2>2, <2>3, <2>4 DEF DeviceIdsUnique
<1>4. CASE ports' = <<>>
  BY <1>4
<1>. QED  BY <1>1, <1>2, <1>3, <1>4 DEF DeviceShape

LEMMA WireEndsStep ==
  ASSUME TypeOK, DeviceIdsUnique, WireEndsIssued, DeviceShape, WireShape,
         SameDevices \/ conns' = conns \/ conns' = <<>>
  PROVE  WireEndsIssued'
<1>. SUFFICES ASSUME ~wrapped'.dev, NEW k \in DOMAIN conns'
              PROVE  conns'[k].src < nextDev' /\ conns'[k].dst < nextDev'
  BY DEF WireEndsIssued
<1>0. /\ ports \in Seq(Device) /\ conns \in Seq(Connection)
      /\ nextDev \in Ids
  BY DEF TypeOK, PortsOK, ConnsOK, CountersOK
<1>1. CASE SameDevices
  <2>1. ~wrapped.dev /\ nextDev' = nextDev
    BY <1>1 DEF SameDevices
  <2>2. \A l \in DOMAIN conns : conns[l].src < nextDev /\ conns[l].dst < nextDev
    BY <2>1 DEF WireEndsIssued
  <2>3. CASE SameWires
    BY <2>1, <2>2, <2>3 DEF SameWires, Route
  <2>4. CASE AddedWire
    <3>1. PICK src \in Ids, dst \in Ids, sch \in Byte, dch \in Byte,
               f \in SUBSET Classes :
            /\ CanCreate(src, dst, sch, dch)
            /\ conns' = Append(conns, NewConnection(src, dst, sch, dch, f))
      BY <2>4 DEF AddedWire
    <3>. DEFINE c == NewConnection(src, dst, sch, dch, f)
    <3>2. c \in Connection /\ c.src = src /\ c.dst = dst
      <4>1. c \in Connection
        BY NewConnectionType DEF TypeOK
      <4>. QED  BY <4>1 DEF NewConnection
    <3>3. src < nextDev /\ dst < nextDev
      BY <2>1, <3>1 DEF CanCreate, Known, DeviceIdsUnique
    <3>. HIDE DEF c
    <3>4. conns'[k] = c \/ (k \in DOMAIN conns /\ conns'[k] = conns[k])
      <4>1. conns' = Append(conns, c)
        BY <3>1 DEF c
      <4>2. /\ DOMAIN conns' = 1 .. Len(conns) + 1
            /\ conns'[k] = IF k <= Len(conns) THEN conns[k] ELSE c
        BY <1>0, <3>2, <4>1, AppendEntry
      <4>. QED  BY <1>0, <4>2
    <3>. QED  BY <2>1, <2>2, <3>2, <3>3, <3>4
  <2>5. CASE RemovedWire
    <3>1. PICK r \in DOMAIN conns : conns' = Without(conns, r)
      BY <2>5 DEF RemovedWire
    <3>2. \E l \in DOMAIN conns : conns'[k] = conns[l]
      <4>1. /\ DOMAIN conns' = 1 .. Len(conns) - 1
            /\ conns'[k] = IF k < r THEN conns[k] ELSE conns[k + 1]
        BY <1>0, <3>1, WithoutEntry
      <4>2. k \in DOMAIN conns /\ k + 1 \in DOMAIN conns
        BY <1>0, <4>1
      <4>. QED  BY <4>1, <4>2
    <3>. QED  BY <2>1, <2>2, <3>2
  <2>6. CASE conns' = <<>>
    BY <2>6
  <2>. QED  BY <2>3, <2>4, <2>5, <2>6 DEF WireShape
<1>2. CASE conns' = conns /\ (AddedDevice \/ RemovedDevice)
  <2>1. ~wrapped.dev /\ nextDev' \in {nextDev, nextDev + 1}
    BY <1>0, <1>2, NextId DEF AddedDevice, RemovedDevice
  <2>2. conns[k].src < nextDev /\ conns[k].dst < nextDev
    BY <1>2, <2>1 DEF WireEndsIssued
  <2>3. conns[k].src \in Nat /\ conns[k].dst \in Nat /\ nextDev \in Nat
    <3>1. conns[k] \in Connection
      BY <1>0, <1>2
    <3>2. conns[k].src \in Ids /\ conns[k].dst \in Ids
      BY <3>1 DEF Connection
    <3>. QED  BY <1>0, <3>2 DEF Ids
  <2>4. conns[k].src < nextDev' /\ conns[k].dst < nextDev'
    BY <2>1, <2>2, <2>3
  <2>. QED  BY <1>2, <2>4
<1>3. CASE conns' = <<>>
  BY <1>3
<1>. QED  BY <1>1, <1>2, <1>3 DEF DeviceShape

LEMMA WiresStep ==
  ASSUME TypeOK, ConnectionIdsUnique, RoutesUnique, WireShape
  PROVE  ConnectionIdsUnique' /\ RoutesUnique'
<1>0. conns \in Seq(Connection) /\ nextConn \in Ids
  BY DEF TypeOK, ConnsOK, CountersOK
<1>1. CASE SameWires
  BY <1>1 DEF SameWires, ConnectionIdsUnique, RoutesUnique
<1>2. CASE AddedWire
  <2>1. PICK src \in Ids, dst \in Ids, sch \in Byte, dch \in Byte,
             f \in SUBSET Classes :
          /\ CanCreate(src, dst, sch, dch)
          /\ conns' = Append(conns, NewConnection(src, dst, sch, dch, f))
    BY <1>2 DEF AddedWire
  <2>. DEFINE c == NewConnection(src, dst, sch, dch, f)
  <2>2. c.id = nextConn /\ Route(c) = <<src, dst, sch, dch>>
    BY DEF NewConnection, Route
  <2>3. c \in Connection
    BY NewConnectionType DEF TypeOK
  <2>. HIDE DEF c
  <2>4. /\ DOMAIN conns' = 1 .. Len(conns) + 1
        /\ \A k \in DOMAIN conns : conns'[k] = conns[k]
        /\ conns'[Len(conns) + 1] = c
    BY <1>0, <2>1, <2>3, AppendEntry DEF c
  <2>5. \A k \in DOMAIN conns' : k \in DOMAIN conns \/ k = Len(conns) + 1
    BY <1>0, <2>4
  <2>6. RoutesUnique'
    <3>1. \A k \in DOMAIN conns : Route(conns[k]) # Route(c)
      BY <2>1, <2>2 DEF CanCreate, SameRoute, Route
    <3>2. \A k, l \in DOMAIN conns : Route(conns[k]) = Route(conns[l]) => k = l
      BY DEF RoutesUnique
    <3>3. ASSUME NEW k \in DOMAIN conns', NEW l \in DOMAIN conns',
                 Route(conns'[k]) = Route(conns'[l])
          PROVE  k = l
      BY <2>4, <2>5, <3>1, <3>2, <3>3
    <3>. QED  BY <3>3 DEF RoutesUnique, Route
  <2>7. ConnectionIdsUnique'
    <3>. SUFFICES ASSUME ~wrapped'.conn
                  PROVE  \A k \in DOMAIN conns' :
                           /\ conns'[k].id < nextConn'
                           /\ \A l \in DOMAIN conns' :
                                conns'[k].id = conns'[l].id => k = l
      BY DEF ConnectionIdsUnique
    <3>1. nextConn' = nextConn + 1 /\ ~wrapped.conn
      BY <1>0, <1>2, NextId DEF AddedWire
    <3>2. \A k \in DOMAIN conns : conns[k].id < nextConn /\ conns[k].id \in Nat
      <4>1. ASSUME NEW k \in DOMAIN conns PROVE conns[k].id \in Nat
        <5>1. conns[k] \in Connection
          BY <1>0
        <5>. QED  BY <5>1 DEF Connection, Ids
      <4>. QED  BY <3>1, <4>1 DEF ConnectionIdsUnique
    <3>3. \A k, l \in DOMAIN conns : conns[k].id = conns[l].id => k = l
      BY <3>1 DEF ConnectionIdsUnique
    <3>4. nextConn \in Nat
      BY <1>0 DEF Ids
    <3>. QED  BY <2>2, <2>4, <2>5, <3>1, <3>2, <3>3, <3>4
  <2>. QED  BY <2>6, <2>7
<1>3. CASE RemovedWire
  <2>1. PICK r \in DOMAIN conns : conns' = Without(conns, r)
    BY <1>3 DEF RemovedWire
  <2>2. /\ DOMAIN conns' = 1 .. Len(conns) - 1
        /\ \A k \in DOMAIN conns' :
             conns'[k] = IF k < r THEN conns[k] ELSE conns[k + 1]
    BY <1>0, <2>1, WithoutEntry
  <2>3. \A k \in DOMAIN conns' : k \in DOMAIN conns /\ k + 1 \in DOMAIN conns
    BY <1>0, <2>2
  <2>4. nextConn' = nextConn /\ wrapped'.conn = wrapped.conn
    BY <1>3 DEF RemovedWire
  <2>5. ConnectionIdsUnique'
    BY <1>0, <2>2, <2>3, <2>4 DEF ConnectionIdsUnique
  <2>6. RoutesUnique'
    BY <1>0, <2>2, <2>3 DEF RoutesUnique, Route
  <2>. QED  BY <2>5, <2>6
<1>4. CASE conns' = <<>>
  BY <1>4 DEF ConnectionIdsUnique, RoutesUnique
<1>. QED  BY <1>1, <1>2, <1>3, <1>4 DEF WireShape

IdentityInv ==
  TypeOK /\ DeviceIdsUnique /\ WireEndsIssued /\ ConnectionIdsUnique /\ RoutesUnique

(***************************************************************************)
(* Until a counter wraps every device and every connection has an id of    *)
(* its own and connections name only issued device ids; no two connections *)
(* ever have the same route.                                               *)
(***************************************************************************)
THEOREM Identities ==
  Spec => [](DeviceIdsUnique /\ WireEndsIssued /\ ConnectionIdsUnique /\ RoutesUnique)
<1>1. Init => DeviceIdsUnique /\ WireEndsIssued /\ ConnectionIdsUnique /\ RoutesUnique
  BY DEF Init, DeviceIdsUnique, WireEndsIssued, ConnectionIdsUnique, RoutesUnique
<1>2. IdentityInv /\ [Next]_vars
        => (DeviceIdsUnique /\ WireEndsIssued /\ ConnectionIdsUnique /\ RoutesUnique)'
  BY Shapes, DeviceIdsStep, WireEndsStep, WiresStep DEF IdentityInv
<1>. QED  BY <1>1, <1>2, TypeCorrect, PTL DEF Spec, IdentityInv

(***************************************************************************)
(* Of these, that find_device and remove_connection find what is meant.    *)
(***************************************************************************)
THEOREM IdsStayUnique == Spec => []IdsUnique
<1>1. DeviceIdsUnique /\ ConnectionIdsUnique => IdsUnique
  BY DEF IdsUnique
<1>. QED  BY <1>1, Identities, PTL

(***************************************************************************)
(* And that no pair of devices is ever connected twice over one route.     *)
(***************************************************************************)
THEOREM RoutesStayUnique == Spec => []RoutesUnique
  BY Identities, PTL

(***************************************************************************)
(* Until next_device_id wraps, a device registers without connections,     *)
(* although unregister_device leaves connections behind.                   *)
(***************************************************************************)
THEOREM FreshDevices == Spec => NoInheritedWires
<1>. DEFINE A == Len(ports') > Len(ports) /\ ~wrapped'.dev =>
                   \A k \in DOMAIN conns : ~Touches(conns[k], ports'[Len(ports')].id)
<1>1. IdentityInv /\ [Next]_vars => A
  <2>. SUFFICES ASSUME IdentityInv, [Next]_vars, Len(ports') > Len(ports),
                       ~wrapped'.dev, NEW k \in DOMAIN conns
                PROVE  ~Touches(conns[k], ports'[Len(ports')].id)
    OBVIOUS
  <2>0. TypeOK /\ ports \in Seq(Device) /\ conns \in Seq(Connection) /\ nextDev \in Ids
    BY DEF IdentityInv, TypeOK, PortsOK, ConnsOK, CountersOK
  <2>1. DeviceShape
    BY <2>0, Shapes
  <2>2. ~SameDevices /\ ~RemovedDevice /\ ports' # <<>>
    <3>1. SameDevices => Len(ports') = Len(ports)
      <4>1. TypeOK'
        BY <2>0, TypeStep
      <4>. QED  BY <2>0, <4>1 DEF SameDevices, TypeOK, PortsOK
    <3>2. RemovedDevice => Len(ports') = Len(ports) - 1
      BY <2>0, WithoutEntry DEF RemovedDevice
    <3>3. Len(ports) \in Nat
      BY <2>0
    <3>. QED  BY <3>1, <3>2, <3>3
  <2>3. PICK input \in BOOLEAN, output \in BOOLEAN :
          ports' = Append(ports, NewDevice(input, output))
    BY <2>1, <2>2 DEF DeviceShape, AddedDevice
  <2>4. NewDevice(input, output) \in Device /\ NewDevice(input, output).id = nextDev
    BY <2>0, NewDeviceType DEF TypeOK, NewDevice
  <2>5. ports'[Len(ports')].id = nextDev
    BY <2>0, <2>3, <2>4, AppendEntry
  <2>6. ~wrapped.dev
    BY <2>1, <2>2 DEF DeviceShape, AddedDevice
  <2>7. conns[k].src < nextDev /\ conns[k].dst < nextDev
    BY <2>6 DEF IdentityInv, WireEndsIssued
  <2>8. nextDev \in Nat
    BY <2>0 DEF Ids
  <2>. QED  BY <2>5, <2>7, <2>8 DEF Touches
<1>2. IdentityInv /\ [Next]_vars => [A]_vars
  BY <1>1
<1>. QED
  BY <1>2, TypeCorrect, Identities, PTL DEF Spec, IdentityInv, NoInheritedWires

-----------------------------------------------------------------------------
(* The calls that loop.                                                      *)

(* The next turn of a loop.                                                  *)
LEMMA Advance ==
  ASSUME NEW c \in Call, c.op \in {"unregister", "route"},
         NEW d, d = [c EXCEPT !.i = @ + 1]
  PROVE  /\ d.op = c.op /\ d.i = c.i + 1 /\ c.i \in Nat
         /\ c.op = "unregister" => d.id = c.id /\ d.slot = c.slot /\ d.before = c.before
         /\ c.op = "route" => d.src = c.src /\ d.msg = c.msg /\ d.from = c.from
  BY DEF Call, Idle

(* A call that loops is begun by its first step and continued by its turns.  *)
LEMMA LoopSteps ==
  ASSUME TypeOK, [Next]_vars
  PROVE  \/ \E id \in Ids : UnregisterCall(id)
         \/ UnregisterRemove \/ UnregisterKeep
         \/ ConnectAllCall \/ ConnectAllPair
         \/ UNCHANGED vars
         \/ call'.op \notin {"unregister", "connectall"}
<1>i. Idle.op = "idle"
  BY DEF Idle
<1>0. CASE VwInit \/ Deinit \/ Start \/ Stop \/ DisconnectAll
  BY <1>0, <1>i DEF VwInit, Deinit, Clear, Start, Stop, DisconnectAll
<1>1. CASE ProcessCall \/ ResetStatistics
  <2>1. ProcessCall => call'.op = "process"
    BY DEF ProcessCall
  <2>2. ResetStatistics => call'.op = "idle"
    BY <1>i DEF ResetStatistics
  <2>. QED  BY <1>1, <2>1, <2>2
<1>2. ASSUME NEW role \in Roles, Register(role[1], role[2])
      PROVE  call'.op = "idle"
  BY <1>2, <1>i DEF Register
<1>3. ASSUME NEW src \in Ids, NEW dst \in Ids, NEW sch \in SourceChannels,
             NEW dch \in DestChannels, NEW f \in Filters,
             CreateConnection(src, dst, sch, dch, f)
      PROVE  call'.op = "idle"
  BY <1>3, <1>i DEF CreateConnection
<1>4. ASSUME NEW id \in Ids,
             \/ RemoveConnection(id) \/ ReceiveMessage(id)
             \/ \E s : SetDeviceState(id, s)
             \/ \E b : EnableConnection(id, b)
             \/ \E msg : SendMessage(id, msg)
             \/ \E msg : InjectMessage(id, msg)
      PROVE  call'.op \in {"idle", "route"}
  BY <1>4, <1>i
     DEF RemoveConnection, ReceiveMessage, SetDeviceState, EnableConnection,
         SendMessage, InjectMessage, RouteCall
<1>5. CASE UnregisterReturn \/ ConnectAllReturn \/ RouteReturn \/ ProcessReturn
  BY <1>5, <1>i DEF UnregisterReturn, ConnectAllReturn, RouteReturn, ProcessReturn
<1>6. CASE RouteSkip \/ RouteFiltered \/ RouteUndeliverable \/ RouteDeliver
  <2>1. call.op = "route" /\ call' = [call EXCEPT !.i = @ + 1]
    BY <1>6 DEF RouteSkip, RouteFiltered, RouteUndeliverable, RouteDeliver, Forwards, Routing
  <2>2. call \in Call
    BY DEF TypeOK, CallOK
  <2>. QED  BY <2>1, <2>2, Advance
<1>7. CASE ProcessPort
  <2>1. CASE call'.op = "route"
    BY <2>1
  <2>2. CASE call' = [call EXCEPT !.i = @ + 1]
    <3>1. call \in Call /\ call.op = "process"
      BY <1>7 DEF ProcessPort, TypeOK, CallOK
    <3>2. call'.op = "process"
      BY <2>2, <3>1 DEF Call, Idle
    <3>. QED  BY <3>2
  <2>. QED  BY <1>7, <2>1, <2>2 DEF ProcessPort, RouteCall
<1>. QED
  BY <1>0, <1>1, <1>2, <1>3, <1>4, <1>5, <1>6, <1>7 DEF Next, Continue

LEMMA UnregisterSteps ==
  ASSUME TypeOK, [Next]_vars, call'.op = "unregister"
  PROVE  \/ \E id \in Ids : UnregisterCall(id)
         \/ UnregisterRemove \/ UnregisterKeep \/ UNCHANGED vars
<1>1. ConnectAllCall => call'.op = "connectall"
  BY DEF ConnectAllCall
<1>2. ConnectAllPair => call'.op = "connectall"
  BY DEF ConnectAllPair, NextPair, TypeOK, CallOK, Call, Idle
<1>. QED  BY <1>1, <1>2, LoopSteps

LEMMA ConnectAllSteps ==
  ASSUME TypeOK, [Next]_vars, call'.op = "connectall"
  PROVE  ConnectAllCall \/ ConnectAllPair \/ UNCHANGED vars
<1>1. \A id \in Ids : UnregisterCall(id) => call'.op = "unregister"
  BY DEF UnregisterCall
<1>2. UnregisterRemove \/ UnregisterKeep => call'.op = "unregister"
  <2>1. call \in Call
    BY DEF TypeOK, CallOK
  <2>. QED  BY <2>1, Advance DEF UnregisterRemove, UnregisterKeep
<1>. QED  BY <1>1, <1>2, LoopSteps

-----------------------------------------------------------------------------
(***************************************************************************)
(* unregister_device.  Behind the loop's index the table has not changed   *)
(* but moved down by as many slots as connections were removed.  Before    *)
(* it, a connection of the departing device stands only where the one      *)
(* before it was removed when the index was there.                         *)
(***************************************************************************)
Thinned(at, table, c) ==
  /\ \A k, l \in DOMAIN table : k < l => at[k] < at[l]
  /\ \A k \in DOMAIN table : table[k] = c.before[at[k]]
  /\ \A p \in DOMAIN c.before :
       EndsAt(c.before[p], c.id) \/ \E k \in DOMAIN table : at[k] = p
  /\ \A k \in DOMAIN table :
       k >= c.i => at[k] = k + (Len(c.before) - Len(table))
  /\ \A k \in DOMAIN table :
       k < c.i /\ EndsAt(table[k], c.id) =>
         /\ at[k] - 1 \in DOMAIN c.before
         /\ EndsAt(c.before[at[k] - 1], c.id)
         /\ \A l \in DOMAIN table : at[l] # at[k] - 1

UnregisterInv ==
  call.op = "unregister" /\ ~wrapped.conn =>
    /\ \A p, q \in DOMAIN call.before :
         call.before[p].id = call.before[q].id => p = q
    /\ \E at \in [DOMAIN conns -> DOMAIN call.before] : Thinned(at, conns, call)

LEMMA UnregisterBegins ==
  ASSUME IdentityInv, NEW id \in Ids, UnregisterCall(id)
  PROVE  UnregisterInv'
<1>. SUFFICES ASSUME ~wrapped'.conn
              PROVE  /\ \A p, q \in DOMAIN call'.before :
                          call'.before[p].id = call'.before[q].id => p = q
                     /\ \E at \in [DOMAIN conns' -> DOMAIN call'.before] : Thinned(at, conns', call')
  BY DEF UnregisterInv
<1>0. /\ call'.before = conns /\ call'.id = id /\ call'.i = 1 /\ conns' = conns
      /\ ~wrapped.conn /\ conns \in Seq(Connection)
  BY DEF UnregisterCall, IdentityInv, TypeOK, ConnsOK
<1>1. \A p, q \in DOMAIN conns : conns[p].id = conns[q].id => p = q
  BY <1>0 DEF IdentityInv, ConnectionIdsUnique
<1>. DEFINE at == [k \in DOMAIN conns |-> k]
<1>2. at \in [DOMAIN conns -> DOMAIN conns]
  OBVIOUS
<1>3. Thinned(at, conns', call')
  BY <1>0 DEF Thinned, EndsAt
<1>. HIDE DEF at
<1>. QED  BY <1>0, <1>1, <1>2, <1>3

(* The loop removes the connection it looks at.                              *)
LEMMA RemovedAtIndex ==
  ASSUME IdentityInv, ~wrapped.conn, UnregisterRemove
  PROVE  call.i \in DOMAIN conns /\ conns' = Without(conns, call.i)
  BY DEF UnregisterRemove, IsFirst, IdentityInv, ConnectionIdsUnique

LEMMA UnregisterTurn ==
  ASSUME IdentityInv, UnregisterInv, UnregisterRemove \/ UnregisterKeep
  PROVE  UnregisterInv'
<1>. SUFFICES ASSUME ~wrapped'.conn
              PROVE  /\ \A p, q \in DOMAIN call'.before :
                          call'.before[p].id = call'.before[q].id => p = q
                     /\ \E at \in [DOMAIN conns' -> DOMAIN call'.before] : Thinned(at, conns', call')
  BY DEF UnregisterInv
<1>0. /\ call \in Call /\ call.op = "unregister" /\ ~wrapped.conn
      /\ conns \in Seq(Connection) /\ call.i \in DOMAIN conns
      /\ call' = [call EXCEPT !.i = @ + 1]
  BY DEF UnregisterRemove, UnregisterKeep, IdentityInv, TypeOK, ConnsOK, CallOK
<1>1. /\ call'.before = call.before /\ call'.id = call.id /\ call'.i = call.i + 1
      /\ call.before \in Seq(Connection)
  <2>1. call.before \in Seq(Connection)
    BY <1>0 DEF Call, Idle
  <2>. QED  BY <1>0, <2>1, Advance
<1>2. PICK at \in [DOMAIN conns -> DOMAIN call.before] : Thinned(at, conns, call)
  BY <1>0 DEF UnregisterInv
<1>3. \A p, q \in DOMAIN call.before :
        call.before[p].id = call.before[q].id => p = q
  BY <1>0 DEF UnregisterInv
<1>4. CASE UnregisterKeep
  <2>1. conns' = conns /\ ~EndsAt(conns[call.i], call.id)
    BY <1>4 DEF UnregisterKeep, Touches, EndsAt
  <2>2. Thinned(at, conns', call')
    <3>1. \A k \in DOMAIN conns : k >= call.i + 1 => k >= call.i
      BY <1>0
    <3>2. \A k \in DOMAIN conns : k < call.i + 1 => k < call.i \/ k = call.i
      BY <1>0
    <3>. QED  BY <1>1, <1>2, <2>1, <3>1, <3>2 DEF Thinned, EndsAt
  <2>. QED  BY <1>1, <1>2, <1>3, <2>1, <2>2
<1>5. CASE UnregisterRemove
  <2>. DEFINE r == call.i
              to == [k \in DOMAIN conns' |-> at[Origin(r, k)]]
  <2>1. conns' = Without(conns, r) /\ EndsAt(conns[r], call.id)
    BY <1>0, <1>5, RemovedAtIndex DEF UnregisterRemove, Touches, EndsAt
  <2>2. /\ DOMAIN conns' = 1 .. Len(conns) - 1 /\ Len(conns') = Len(conns) - 1
        /\ \A k \in DOMAIN conns' :
             Origin(r, k) \in DOMAIN conns \ {r} /\ conns'[k] = conns[Origin(r, k)]
        /\ \A l \in DOMAIN conns \ {r} : \E k \in DOMAIN conns' : Origin(r, k) = l
        /\ \A k, l \in DOMAIN conns' : k < l => Origin(r, k) < Origin(r, l)
    <3>1. DOMAIN conns' = 1 .. Len(conns) - 1 /\ Len(conns') = Len(conns) - 1
      BY <1>0, <2>1, WithoutEntry
    <3>2. conns \in Seq(Connection) /\ r \in DOMAIN conns /\ conns' = Without(conns, r)
      BY <1>0, <2>1
    <3>. HIDE DEF r
    <3>3. /\ \A k \in DOMAIN Without(conns, r) :
               /\ Origin(r, k) \in DOMAIN conns \ {r}
               /\ Without(conns, r)[k] = conns[Origin(r, k)]
          /\ \A l \in DOMAIN conns \ {r} :
               \E k \in DOMAIN Without(conns, r) : Origin(r, k) = l
          /\ \A k, l \in DOMAIN Without(conns, r) : k < l => Origin(r, k) < Origin(r, l)
      BY <3>2, WithoutSlots
    <3>. QED  BY <3>1, <3>2, <3>3
  <2>3. to \in [DOMAIN conns' -> DOMAIN call.before]
    BY <2>2
  <2>4. /\ \A k, l \in DOMAIN conns : k < l => at[k] < at[l]
        /\ \A k \in DOMAIN conns : conns[k] = call.before[at[k]]
        /\ \A p \in DOMAIN call.before :
             EndsAt(call.before[p], call.id) \/ \E k \in DOMAIN conns : at[k] = p
        /\ \A k \in DOMAIN conns :
             k >= r => at[k] = k + (Len(call.before) - Len(conns))
        /\ \A k \in DOMAIN conns :
             k < r /\ EndsAt(conns[k], call.id) =>
               /\ at[k] - 1 \in DOMAIN call.before
               /\ EndsAt(call.before[at[k] - 1], call.id)
               /\ \A l \in DOMAIN conns : at[l] # at[k] - 1
    BY <1>2 DEF Thinned
  <2>5. \A k, l \in DOMAIN conns' : k < l => to[k] < to[l]
    BY <2>2, <2>4
  <2>6. \A k \in DOMAIN conns' : conns'[k] = call.before[to[k]]
    BY <2>2, <2>4
  <2>7. ASSUME NEW p \in DOMAIN call.before, ~EndsAt(call.before[p], call.id)
        PROVE  \E k \in DOMAIN conns' : to[k] = p
    <3>1. PICK l \in DOMAIN conns : at[l] = p
      BY <2>4, <2>7
    <3>2. l # r
      BY <2>1, <2>4, <2>7, <3>1
    <3>3. PICK k \in DOMAIN conns' : Origin(r, k) = l
      BY <2>2, <3>2
    <3>. QED  BY <3>1, <3>3
  <2>8. ASSUME NEW k \in DOMAIN conns', k >= r + 1
        PROVE  to[k] = k + (Len(call.before) - Len(conns'))
    <3>1. Origin(r, k) = k + 1 /\ k + 1 \in DOMAIN conns /\ k + 1 >= r
      BY <1>0, <2>2, <2>8 DEF Origin
    <3>2. at[k + 1] = k + 1 + (Len(call.before) - Len(conns))
      BY <2>4, <3>1
    <3>3. Len(call.before) \in Nat /\ Len(conns) \in Nat /\ k \in Nat
      BY <1>0, <1>1, <2>2
    <3>4. to[k] = at[k + 1] /\ Len(conns') = Len(conns) - 1
      BY <2>2, <3>1
    <3>5. to[k] = k + 1 + (Len(call.before) - Len(conns))
      BY <3>2, <3>4
    <3>6. \A b, n, j \in Nat : j + 1 + (b - n) = j + (b - (n - 1))
      OBVIOUS
    <3>. HIDE DEF to
    <3>. QED  BY <3>3, <3>4, <3>5, <3>6
  <2>9. ASSUME NEW k \in DOMAIN conns', k < r + 1, EndsAt(conns'[k], call.id)
        PROVE  /\ to[k] - 1 \in DOMAIN call.before
               /\ EndsAt(call.before[to[k] - 1], call.id)
               /\ \A l \in DOMAIN conns' : to[l] # to[k] - 1
    <3>1. CASE k < r
      <4>1. Origin(r, k) = k /\ k \in DOMAIN conns /\ to[k] = at[k]
        BY <2>2, <3>1 DEF Origin
      <4>2. EndsAt(conns[k], call.id)
        BY <2>2, <2>9, <4>1
      <4>. QED  BY <2>2, <2>4, <3>1, <4>1, <4>2
    <3>2. CASE k = r
      <4>1. Origin(r, k) = r + 1 /\ r + 1 \in DOMAIN conns /\ to[k] = at[r + 1]
        BY <1>0, <2>2, <3>2 DEF Origin
      <4>2. at[r] = r + (Len(call.before) - Len(conns))
            /\ at[r + 1] = r + 1 + (Len(call.before) - Len(conns))
        BY <1>0, <2>4, <4>1
      <4>3. Len(call.before) \in Nat /\ Len(conns) \in Nat /\ r \in Nat
        BY <1>0, <1>1
      <4>4. to[k] - 1 = at[r]
        BY <4>1, <4>2, <4>3
      <4>5. EndsAt(call.before[at[r]], call.id) /\ at[r] \in DOMAIN call.before
        BY <1>0, <2>1, <2>4
      <4>6. \A l \in DOMAIN conns : at[l] = at[r] => l = r
        <5>1. \A l \in DOMAIN conns : l \in Int /\ at[l] \in Int
          BY <1>0, <1>1
        <5>. QED  BY <1>0, <2>4, <5>1
      <4>. QED  BY <2>2, <4>4, <4>5, <4>6
    <3>3. k \in Nat /\ r \in Nat
      BY <1>0, <2>2
    <3>. QED  BY <2>9, <3>1, <3>2, <3>3
  <2>. HIDE DEF to
  <2>10. Thinned(to, conns', call')
    BY <1>1, <2>5, <2>6, <2>7, <2>8, <2>9 DEF Thinned, EndsAt
  <2>. QED  BY <1>1, <1>3, <2>3, <2>10
<1>. QED  BY <1>4, <1>5

LEMMA UnregisterInvStep ==
  ASSUME IdentityInv, UnregisterInv, [Next]_vars
  PROVE  UnregisterInv'
<1>1. CASE UNCHANGED vars
  BY <1>1 DEF vars, UnregisterInv, Thinned, EndsAt
<1>2. CASE call'.op # "unregister"
  BY <1>2 DEF UnregisterInv
<1>. QED
  BY <1>1, <1>2, UnregisterBegins, UnregisterTurn, UnregisterSteps DEF IdentityInv

(***************************************************************************)
(* unregister_device takes nothing but connections of its device out of    *)
(* the table, and misses one of them only behind another one that it       *)
(* removed.                                                                *)
(***************************************************************************)
THEOREM Departures ==
  Spec => [](UnregisterKeepsOthers /\ UnregisterMissesOnlyNeighbours)
<1>1. Init => UnregisterInv
  BY DEF Init, Idle, UnregisterInv
<1>2. IdentityInv /\ UnregisterInv /\ [Next]_vars => UnregisterInv'
  BY UnregisterInvStep
<1>3. IdentityInv /\ UnregisterInv => UnregisterKeepsOthers
  BY DEF UnregisterInv, Thinned, UnregisterKeepsOthers
<1>4. IdentityInv /\ UnregisterInv => UnregisterMissesOnlyNeighbours
  <2>. SUFFICES ASSUME IdentityInv, UnregisterInv, call.op = "unregister",
                       call.i > Len(conns), ~wrapped.conn,
                       NEW l \in DOMAIN conns, EndsAt(conns[l], call.id)
                PROVE  \E p \in DOMAIN call.before \ {1} :
                         /\ call.before[p] = conns[l]
                         /\ EndsAt(call.before[p - 1], call.id)
                         /\ ~Contains(conns, call.before[p - 1])
    BY DEF UnregisterMissesOnlyNeighbours
  <2>0. call \in Call /\ conns \in Seq(Connection)
    BY DEF IdentityInv, TypeOK, CallOK, ConnsOK
  <2>1. call.before \in Seq(Connection) /\ call.i \in Nat
    BY <2>0 DEF Call, Idle
  <2>2. PICK at \in [DOMAIN conns -> DOMAIN call.before] : Thinned(at, conns, call)
    BY DEF UnregisterInv
  <2>. DEFINE p == at[l]
  <2>3. l < call.i
    BY <2>0, <2>1
  <2>4. /\ p - 1 \in DOMAIN call.before
        /\ EndsAt(call.before[p - 1], call.id)
        /\ \A k \in DOMAIN conns : at[k] # p - 1
        /\ \A k \in DOMAIN conns : conns[k] = call.before[at[k]]
    BY <2>2, <2>3 DEF Thinned
  <2>5. p \in DOMAIN call.before \ {1}
    BY <2>1, <2>2, <2>4
  <2>6. ~Contains(conns, call.before[p - 1])
    <3>1. ASSUME NEW k \in DOMAIN conns, conns[k] = call.before[p - 1]
          PROVE  FALSE
      <4>1. call.before[at[k]].id = call.before[p - 1].id
        BY <2>4, <3>1
      <4>2. at[k] = p - 1
        BY <2>2, <2>4, <4>1 DEF UnregisterInv
      <4>. QED  BY <2>4, <4>2
    <3>. QED  BY <2>0, <3>1 DEF Contains
  <2>. QED  BY <2>4, <2>5, <2>6
<1>. QED  BY <1>1, <1>2, <1>3, <1>4, TypeCorrect, Identities, PTL DEF Spec, IdentityInv

-----------------------------------------------------------------------------
(***************************************************************************)
(* connect_all_to_all.  The pairs that the nested loops have passed are    *)
(* connected, or the table is full: it only grows during the call.         *)
(***************************************************************************)
Passed(i, j, c) == i < c.i \/ (i = c.i /\ j < c.j)

ConnectAllInv ==
  call.op = "connectall" =>
    \/ Len(conns) = MaxConnections
    \/ \A i, j \in DOMAIN ports :
         Passed(i, j, call) /\ PairWanted(i, j) => PairConnected(i, j)

LEMMA ConnectAllTurn ==
  ASSUME TypeOK, ConnectAllInv, ConnectAllPair
  PROVE  ConnectAllInv'
<1>0. /\ call.op = "connectall" /\ call.i \in DOMAIN ports /\ ports' = ports
      /\ ports \in Seq(Device) /\ conns \in Seq(Connection)
      /\ call \in [op : {"connectall"}, i : Nat \ {0}, j : Nat \ {0}]
      /\ Len(conns) <= MaxConnections /\ call.j \in DOMAIN ports
  <2>1. call.op = "connectall" /\ call.i \in DOMAIN ports /\ ports' = ports
        /\ ports \in Seq(Device) /\ conns \in Seq(Connection)
        /\ Len(conns) <= MaxConnections
    BY DEF ConnectAllPair, TypeOK, PortsOK, ConnsOK
  <2>2. call \in [op : {"connectall"}, i : Nat \ {0}, j : Nat \ {0}]
    BY <2>1 DEF TypeOK, CallOK, Call, Idle
  <2>3. call.j \in DOMAIN ports
    BY <2>1 DEF TypeOK, CallOK
  <2>. QED  BY <2>1, <2>2, <2>3
<1>1. /\ call'.op = "connectall"
      /\ \A i, j \in DOMAIN ports :
           Passed(i, j, call') => Passed(i, j, call) \/ (i = call.i /\ j = call.j)
  <2>1. CASE call.j < Len(ports)
    <3>1. call'.op = "connectall" /\ call'.i = call.i /\ call'.j = call.j + 1
      BY <1>0, <2>1 DEF ConnectAllPair, NextPair
    <3>. QED  BY <1>0, <3>1 DEF Passed
  <2>2. CASE ~(call.j < Len(ports))
    <3>1. call'.op = "connectall" /\ call'.i = call.i + 1 /\ call'.j = 1
      BY <1>0, <2>2 DEF ConnectAllPair, NextPair
    <3>. QED  BY <1>0, <2>2, <3>1 DEF Passed
  <2>. QED  BY <2>1, <2>2
<1>. DEFINE src == ports[call.i].id
            dst == ports[call.j].id
            Can == /\ PairWanted(call.i, call.j)
                   /\ CanCreate(src, dst, AnyChannel, AnyChannel)
<1>2. CASE ~Can
  <2>1. conns' = conns
    BY <1>2 DEF ConnectAllPair
  <2>2. PairWanted(call.i, call.j) =>
          PairConnected(call.i, call.j) \/ Len(conns) = MaxConnections
    BY <1>0, <1>2 DEF CanCreate, Known, PairConnected, SizesAssumption
  <2>. QED
    BY <1>0, <1>1, <2>1, <2>2 DEF ConnectAllInv, PairWanted, PairConnected, SameRoute
<1>3. CASE Can
  <2>. DEFINE c == NewConnection(src, dst, AnyChannel, AnyChannel, {})
  <2>1. conns' = Append(conns, c)
    BY <1>3 DEF ConnectAllPair, Create
  <2>2. c.src = src /\ c.dst = dst /\ c.sch = AnyChannel /\ c.dch = AnyChannel
    BY DEF NewConnection
  <2>3. c \in Connection
    <3>1. ports[call.i] \in Device /\ ports[call.j] \in Device
      BY <1>0
    <3>2. src \in Ids /\ dst \in Ids
      BY <3>1 DEF Device
    <3>3. AnyChannel \in Byte /\ {} \in SUBSET Classes
      BY DEF AnyChannel, Byte
    <3>. QED  BY <3>2, <3>3, NewConnectionType DEF TypeOK
  <2>. HIDE DEF c
  <2>4. /\ Len(conns) + 1 \in DOMAIN conns' /\ conns'[Len(conns) + 1] = c
        /\ \A k \in DOMAIN conns : k \in DOMAIN conns' /\ conns'[k] = conns[k]
    BY <1>0, <2>1, <2>3
  <2>5. Len(conns) # MaxConnections
    BY <1>0, <1>3 DEF CanCreate, SizesAssumption
  <2>6. ASSUME NEW i \in DOMAIN ports, NEW j \in DOMAIN ports,
               Passed(i, j, call'), PairWanted(i, j)
        PROVE  \E k \in DOMAIN conns' :
                 SameRoute(conns'[k], ports[i].id, ports[j].id, AnyChannel, AnyChannel)
    <3>1. CASE i = call.i /\ j = call.j
      BY <2>2, <2>4, <3>1 DEF SameRoute
    <3>2. CASE Passed(i, j, call)
      <4>1. PairConnected(i, j)
        BY <1>0, <2>5, <2>6, <3>2 DEF ConnectAllInv
      <4>. QED  BY <2>4, <4>1 DEF PairConnected
    <3>. QED  BY <1>1, <2>6, <3>1, <3>2
  <2>. QED
    BY <1>0, <1>1, <2>6 DEF ConnectAllInv, PairWanted, PairConnected, SameRoute
<1>. QED  BY <1>2, <1>3

LEMMA ConnectAllInvStep ==
  ASSUME TypeOK, ConnectAllInv, [Next]_vars
  PROVE  ConnectAllInv'
<1>1. CASE UNCHANGED vars
  BY <1>1 DEF vars, ConnectAllInv, PairWanted, PairConnected, SameRoute
<1>2. CASE call'.op # "connectall"
  BY <1>2 DEF ConnectAllInv
<1>3. ASSUME ConnectAllCall PROVE ConnectAllInv'
  <2>1. call'.i = 1 /\ call'.j = 1 /\ ports' = ports /\ ports \in Seq(Device)
    BY <1>3 DEF ConnectAllCall, TypeOK, PortsOK
  <2>2. \A i, j \in DOMAIN ports' : ~Passed(i, j, call')
    BY <2>1 DEF Passed
  <2>. QED  BY <2>2 DEF ConnectAllInv
<1>. QED  BY <1>1, <1>2, <1>3, ConnectAllTurn, ConnectAllSteps

(***************************************************************************)
(* connect_all_to_all returns with every input wired to every other        *)
(* output, unless it filled the table, although it ignores what            *)
(* create_connection returns.                                              *)
(***************************************************************************)
THEOREM ConnectsAll == Spec => []AllToAllUnlessFull
<1>1. Init => ConnectAllInv
  BY DEF Init, Idle, ConnectAllInv
<1>2. TypeOK /\ ConnectAllInv /\ [Next]_vars => ConnectAllInv'
  BY ConnectAllInvStep
<1>3. TypeOK /\ ConnectAllInv => AllToAllUnlessFull
  <2>. SUFFICES ASSUME TypeOK, ConnectAllInv, call.op = "connectall",
                       call.i > Len(ports), Len(conns) # MaxConnections,
                       NEW i \in DOMAIN ports, NEW j \in DOMAIN ports,
                       PairWanted(i, j)
                PROVE  PairConnected(i, j)
    BY DEF AllToAllUnlessFull, ConnectAllReturns, AllPairsConnected
  <2>1. call.i \in Nat
    BY DEF TypeOK, CallOK, Call, Idle
  <2>2. Passed(i, j, call)
    BY <2>1 DEF Passed, TypeOK, PortsOK
  <2>. QED  BY <2>2 DEF ConnectAllInv
<1>. QED  BY <1>1, <1>2, <1>3, TypeCorrect, PTL DEF Spec

-----------------------------------------------------------------------------
(***************************************************************************)
(* Statistics.  The invariant states StatisticsAgree with running totals:  *)
(* they survive the removal of a slot, which shifts the later ones, and    *)
(* grow with the counter they stay below.                                  *)
(***************************************************************************)
FilteredCovered == AtMost(Filtered(conns), Len(conns), stats.filtered)

RoutedCovered ==
  ~wrapped.dev =>
    \A k \in DOMAIN ports :
      AtMost(RoutedInto(conns, ports[k].id), Len(conns), ports[k].sent)

LEMMA CoveredAgrees ==
  ASSUME TypeOK, FilteredCovered, RoutedCovered
  PROVE  StatisticsAgree
  <1>0. conns \in Seq(Connection) /\ DOMAIN conns = 1 .. Len(conns)
        /\ stats.filtered \in Nat
    BY DEF TypeOK, ConnsOK, CountersOK
  <1>1. MapThenSumSet(LAMBDA k : conns[k].filtered, DOMAIN conns) <= stats.filtered
    <2>1. PICK h : /\ Sums(h, Filtered(conns), DOMAIN conns)
                   /\ MapThenSumSet(LAMBDA k : conns[k].filtered, DOMAIN conns)
                        = h[DOMAIN conns]
      BY <1>0, FilteredMeaning
    <2>2. h[DOMAIN conns] <= stats.filtered
      BY <1>0, <2>1, WeightsOK, CoverSum DEF FilteredCovered
    <2>. QED  BY <2>1, <2>2
  <1>2. ASSUME ~wrapped.dev, NEW k \in DOMAIN ports
        PROVE  RoutedTo(ports[k].id) <= ports[k].sent
    <2>. DEFINE id == ports[k].id
                S == {j \in DOMAIN conns : conns[j].dst = id}
    <2>1. PICK h : /\ Sums(h, RoutedInto(conns, id), S)
                   /\ MapThenSumSet(LAMBDA j : conns[j].routed, S) = h[S]
      BY <1>0, RoutedMeaning
    <2>2. S \in SUBSET (1 .. Len(conns))
      BY <1>0
    <2>3. ports[k].sent \in Nat
      <3>1. ports[k] \in Device
        BY DEF TypeOK, PortsOK
      <3>. QED  BY <3>1 DEF Device
    <2>4. AtMost(RoutedInto(conns, id), Len(conns), ports[k].sent)
      BY <1>2 DEF RoutedCovered
    <2>5. h[S] <= ports[k].sent
      <3>1. RoutedInto(conns, id) \in [1 .. Len(conns) -> Nat] /\ Len(conns) \in Nat
        BY <1>0, WeightsOK
      <3>. HIDE DEF S, id
      <3>. QED  BY <2>1, <2>2, <2>3, <2>4, <3>1, CoverSum
    <2>. QED  BY <2>1, <2>5 DEF RoutedTo
  <1>. QED  BY <1>1, <1>2 DEF StatisticsAgree

(***************************************************************************)
(* What a step can do to the counters: a device keeps or raises its count, *)
(* a connection keeps its counts or leaves the table, except where one     *)
(* count of a connection moves together with the one that covers it.       *)
(***************************************************************************)
SentKept ==
  /\ \A k \in DOMAIN ports' :
       \E l \in DOMAIN ports :
         ports'[k].id = ports[l].id /\ ports[l].sent <= ports'[k].sent
  /\ wrapped'.dev = wrapped.dev

Counts(c) == <<c.dst, c.routed, c.filtered>>

CountsKept ==
  /\ \/ /\ Len(conns') = Len(conns)
        /\ \A k \in DOMAIN conns : Counts(conns'[k]) = Counts(conns[k])
     \/ \E c \in Connection :
          conns' = Append(conns, c) /\ c.routed = 0 /\ c.filtered = 0
     \/ \E k \in DOMAIN conns : conns' = Without(conns, k)
     \/ conns' = <<>>
  /\ stats'.filtered = stats.filtered

Emptied == ports' = <<>> /\ conns' = <<>>

Zeroed ==
  /\ DOMAIN ports' = DOMAIN ports /\ DOMAIN conns' = DOMAIN conns
  /\ \A k \in DOMAIN conns : conns'[k].routed = 0 /\ conns'[k].filtered = 0

TallyShape ==
  \/ Emptied \/ Zeroed
  \/ SentKept /\ CountsKept
  \/ AddedDevice /\ conns' = conns /\ stats' = stats
  \/ RouteFiltered \/ RouteDeliver

LEMMA SentAfterEdit ==
  ASSUME NEW k \in DOMAIN ports, NEW e, PortsOK,
         ports' = [ports EXCEPT ![k] = e], e.id = ports[k].id,
         ports[k].sent <= e.sent, wrapped' = wrapped
  PROVE  SentKept
<1>1. \A j \in DOMAIN ports : ports[j].sent <= ports[j].sent
  <2>1. \A j \in DOMAIN ports : ports[j] \in Device
    BY DEF PortsOK
  <2>2. \A j \in DOMAIN ports : ports[j].sent \in Nat
    BY <2>1 DEF Device
  <2>. QED  BY <2>2
<1>2. DOMAIN ports' = DOMAIN ports
  OBVIOUS
<1>3. ASSUME NEW j \in DOMAIN ports'
      PROVE  ports'[j].id = ports[j].id /\ ports[j].sent <= ports'[j].sent
  <2>1. CASE j = k
    BY <1>2, <2>1
  <2>2. CASE j # k
    <3>1. ports'[j] = ports[j]
      BY <1>2, <2>2
    <3>. QED  BY <1>1, <1>2, <3>1
  <2>. QED  BY <2>1, <2>2
<1>. QED  BY <1>2, <1>3 DEF SentKept

LEMMA SentEdits ==
  ASSUME NEW p \in Device
  PROVE  /\ p.sent <= p.sent
         /\ \A s : /\ [p EXCEPT !.state = s].id = p.id
                   /\ p.sent <= [p EXCEPT !.state = s].sent
         /\ \A msg : p.sent <= Queued(p, msg).sent
         /\ p.sent <= Fetched(p).sent
         /\ p.sent <= Drained(p).sent
<1>1. p.sent \in Nat
  BY DEF Device
<1>2. \A msg : Queued(p, msg).sent = p.sent + 1
  BY DEF Queued, Device
<1>3. Fetched(p).sent = p.sent /\ Drained(p).sent = p.sent
  BY DEF Fetched, Drained, Device
<1>4. \A s : [p EXCEPT !.state = s].id = p.id /\ [p EXCEPT !.state = s].sent = p.sent
  BY DEF Device
<1>. QED  BY <1>1, <1>2, <1>3, <1>4

LEMMA Tallies ==
  ASSUME TypeOK, [Next]_vars
  PROVE  TallyShape
<1>. USE DEF TypeOK
<1>e. \A k \in DOMAIN ports : ports[k] \in Device
  BY DEF PortsOK
<1>d. ports' = ports /\ wrapped'.dev = wrapped.dev => SentKept
  BY <1>e, SentEdits DEF SentKept
<1>w. conns' = conns /\ stats'.filtered = stats.filtered => CountsKept
  BY DEF CountsKept
<1>1. CASE VwInit \/ Deinit
  BY <1>1 DEF VwInit, Deinit, Clear, Emptied, TallyShape
<1>3. CASE Start \/ Stop \/ ConnectAllCall \/ ProcessCall
  BY <1>3, <1>d, <1>w DEF Start, Stop, ConnectAllCall, ProcessCall, TallyShape
<1>5. ASSUME NEW role \in Roles, Register(role[1], role[2]) PROVE TallyShape
  <2>1. role[1] \in BOOLEAN /\ role[2] \in BOOLEAN
    OBVIOUS
  <2>2. wrapped'.dev = (wrapped.dev \/ nextDev' = 0)
    BY <1>5 DEF Register, FlagsOK
  <2>3. AddedDevice
    BY <1>5, <2>1, <2>2 DEF Register, AddedDevice
  <2>. QED  BY <1>5, <2>3 DEF Register, TallyShape
<1>6. ASSUME NEW id \in Ids, UnregisterCall(id) PROVE TallyShape
  BY <1>6, <1>d, <1>w DEF UnregisterCall, TallyShape
<1>7. ASSUME NEW id \in Ids, NEW s \in DeviceStates, SetDeviceState(id, s)
      PROVE  TallyShape
  <2>1. PICK k \in DOMAIN ports : ports' = [ports EXCEPT ![k] = [@ EXCEPT !.state = s]]
    BY <1>7 DEF SetDeviceState
  <2>. DEFINE e == [ports[k] EXCEPT !.state = s]
  <2>2. e.id = ports[k].id /\ ports[k].sent <= e.sent
    BY <1>e, SentEdits
  <2>3. ports' = [ports EXCEPT ![k] = e]
    BY <2>1
  <2>. HIDE DEF e
  <2>4. SentKept
    BY <1>7, <2>2, <2>3, SentAfterEdit DEF SetDeviceState
  <2>. QED  BY <1>7, <2>4, <1>w DEF SetDeviceState, TallyShape
<1>8. ASSUME NEW src \in Ids, NEW dst \in Ids, NEW sch \in Byte, NEW dch \in Byte,
             NEW f \in SUBSET Classes, Create(src, dst, sch, dch, f), stats' = stats
      PROVE  CountsKept /\ wrapped'.dev = wrapped.dev
  <2>. DEFINE c == NewConnection(src, dst, sch, dch, f)
  <2>1. c \in Connection /\ c.routed = 0 /\ c.filtered = 0
    <3>1. c \in Connection
      BY NewConnectionType
    <3>. QED  BY <3>1 DEF NewConnection
  <2>2. conns' = Append(conns, c)
    BY <1>8 DEF Create
  <2>3. wrapped'.dev = wrapped.dev
    BY <1>8 DEF Create, FlagsOK
  <2>. HIDE DEF c
  <2>. QED  BY <1>8, <2>1, <2>2, <2>3 DEF CountsKept
<1>9. ASSUME NEW src \in Ids, NEW dst \in Ids, NEW sch \in SourceChannels,
             NEW dch \in DestChannels, NEW f \in Filters,
             CreateConnection(src, dst, sch, dch, f)
      PROVE  TallyShape
  <2>1. sch \in Byte /\ dch \in Byte /\ f \in SUBSET Classes
    OBVIOUS
  <2>2. CountsKept /\ wrapped'.dev = wrapped.dev
    BY <1>8, <1>9, <2>1 DEF CreateConnection
  <2>. QED  BY <1>9, <2>2, <1>d DEF CreateConnection, TallyShape
<1>10. ASSUME NEW k \in DOMAIN conns, conns' = Without(conns, k),
              UNCHANGED <<ports, wrapped, stats>>
       PROVE  TallyShape
  BY <1>10, <1>d DEF CountsKept, TallyShape
<1>11. ASSUME NEW id \in Ids, RemoveConnection(id) PROVE TallyShape
  BY <1>10, <1>11 DEF RemoveConnection
<1>12. CASE UnregisterRemove
  BY <1>10, <1>12 DEF UnregisterRemove
<1>13. ASSUME NEW id \in Ids, NEW b \in Switchings, EnableConnection(id, b)
       PROVE  TallyShape
  <2>1. PICK k \in DOMAIN conns : conns' = [conns EXCEPT ![k] = [@ EXCEPT !.enabled = b]]
    BY <1>13 DEF EnableConnection
  <2>2. \A c \in Connection : Counts([c EXCEPT !.enabled = b]) = Counts(c)
    BY DEF Connection, Counts
  <2>3. CountsKept
    <3>1. conns \in Seq(Connection) /\ conns[k] \in Connection
      BY DEF ConnsOK
    <3>2. Len(conns') = Len(conns)
      BY <2>1, <3>1
    <3>3. \A j \in DOMAIN conns : Counts(conns'[j]) = Counts(conns[j])
      BY <2>1, <2>2, <3>1
    <3>. QED  BY <1>13, <3>2, <3>3 DEF EnableConnection, CountsKept
  <2>. QED  BY <1>13, <2>3, <1>d DEF EnableConnection, TallyShape
<1>14. CASE DisconnectAll
  BY <1>14, <1>d DEF DisconnectAll, CountsKept, TallyShape
<1>15. ASSUME NEW id \in Ids, NEW msg \in Statuses, SendMessage(id, msg)
       PROVE  TallyShape
  <2>1. PICK k \in DOMAIN ports : ports' = [ports EXCEPT ![k] = Queued(@, msg)]
    BY <1>15 DEF SendMessage, Queue
  <2>. DEFINE e == Queued(ports[k], msg)
  <2>2. e.id = ports[k].id /\ ports[k].sent <= e.sent
    BY <1>e, SentEdits, DeviceEditIds
  <2>3. ports' = [ports EXCEPT ![k] = e]
    BY <2>1
  <2>. HIDE DEF e
  <2>4. SentKept
    BY <1>15, <2>2, <2>3, SentAfterEdit DEF SendMessage
  <2>. QED  BY <1>15, <2>4, <1>w DEF SendMessage, TallyShape
<1>16. ASSUME NEW id \in Ids, ReceiveMessage(id) PROVE TallyShape
  <2>1. PICK k \in DOMAIN ports : ports' = [ports EXCEPT ![k] = Fetched(@)]
    BY <1>16 DEF ReceiveMessage
  <2>. DEFINE e == Fetched(ports[k])
  <2>2. e.id = ports[k].id /\ ports[k].sent <= e.sent
    BY <1>e, SentEdits, DeviceEditIds
  <2>3. ports' = [ports EXCEPT ![k] = e]
    BY <2>1
  <2>. HIDE DEF e
  <2>4. SentKept
    BY <1>16, <2>2, <2>3, SentAfterEdit DEF ReceiveMessage
  <2>. QED  BY <1>16, <2>4, <1>w DEF ReceiveMessage, TallyShape
<1>17. ASSUME NEW src \in Ids, NEW msg \in Statuses, InjectMessage(src, msg)
       PROVE  TallyShape
  <2>1. stats'.filtered = stats.filtered
    BY <1>17 DEF InjectMessage, RouteCall, CountersOK
  <2>. QED  BY <1>17, <2>1, <1>d, <1>w DEF InjectMessage, TallyShape
<1>18. CASE ResetStatistics
  <2>1. \A c \in Connection : /\ [c EXCEPT !.routed = 0, !.filtered = 0].routed = 0
                              /\ [c EXCEPT !.routed = 0, !.filtered = 0].filtered = 0
    BY DEF Connection
  <2>2. \A k \in DOMAIN conns : conns[k] \in Connection
    BY DEF ConnsOK
  <2>3. \A k \in DOMAIN conns : conns'[k].routed = 0 /\ conns'[k].filtered = 0
    BY <1>18, <2>1, <2>2 DEF ResetStatistics
  <2>4. DOMAIN ports' = DOMAIN ports /\ DOMAIN conns' = DOMAIN conns
    BY <1>18 DEF ResetStatistics
  <2>. QED  BY <2>3, <2>4 DEF Zeroed, TallyShape
<1>20. CASE UnregisterReturn
  <2>1. call.slot \in DOMAIN ports /\ ports \in Seq(Device)
    BY <1>20 DEF UnregisterReturn, CallOK, PortsOK
  <2>2. SentKept
    <3>1. ports' = Without(ports, call.slot) /\ wrapped'.dev = wrapped.dev
      BY <1>20 DEF UnregisterReturn
    <3>2. \A k \in DOMAIN ports' : \E l \in DOMAIN ports : ports'[k] = ports[l]
      BY <2>1, <3>1, WithoutSlots
    <3>. QED  BY <1>e, <3>1, <3>2, SentEdits DEF SentKept
  <2>. QED  BY <1>20, <2>2, <1>w DEF UnregisterReturn, TallyShape
<1>21. CASE ConnectAllPair
  <2>. DEFINE src == ports[call.i].id
              dst == ports[call.j].id
  <2>1. CASE UNCHANGED <<conns, nextConn, wrapped>>
    BY <1>21, <2>1, <1>d, <1>w DEF ConnectAllPair, TallyShape
  <2>2. CASE CanCreate(src, dst, AnyChannel, AnyChannel)
             /\ Create(src, dst, AnyChannel, AnyChannel, {})
    <3>0. \A k \in DOMAIN ports : ports[k].id \in Ids
      BY <1>e DEF Device
    <3>1. src \in Ids /\ dst \in Ids
      BY <2>2, <3>0 DEF CanCreate, Known
    <3>2. AnyChannel \in Byte /\ {} \in SUBSET Classes
      BY DEF AnyChannel, Byte
    <3>3. CountsKept /\ wrapped'.dev = wrapped.dev
      <4>. HIDE DEF src, dst
      <4>. QED  BY <1>8, <1>21, <2>2, <3>1, <3>2 DEF ConnectAllPair
    <3>. QED  BY <1>21, <3>3, <1>d DEF ConnectAllPair, TallyShape
  <2>. QED  BY <1>21, <2>1, <2>2 DEF ConnectAllPair
<1>22. CASE UnregisterKeep \/ ConnectAllReturn \/ RouteSkip \/ RouteReturn \/ ProcessReturn
  BY <1>22, <1>d, <1>w
     DEF UnregisterKeep, ConnectAllReturn, RouteSkip, RouteReturn, ProcessReturn,
         TallyShape
<1>23. CASE RouteUndeliverable
  <2>1. stats'.filtered = stats.filtered
    BY <1>23 DEF RouteUndeliverable, CountersOK
  <2>. QED  BY <1>23, <2>1, <1>d, <1>w DEF RouteUndeliverable, TallyShape
<1>24. CASE RouteFiltered \/ RouteDeliver
  BY <1>24 DEF TallyShape
<1>28. CASE ProcessPort
  <2>1. CASE ports' = ports /\ stats' = stats
    BY <1>28, <2>1, <1>d, <1>w DEF ProcessPort, TallyShape
  <2>2. CASE ports' = [ports EXCEPT ![call.i] = Drained(@)]
             /\ stats' = [stats EXCEPT !.messages = @ + 1]
    <3>. DEFINE e == Drained(ports[call.i])
    <3>1. call.i \in DOMAIN ports
      BY <1>28 DEF ProcessPort
    <3>2. e.id = ports[call.i].id /\ ports[call.i].sent <= e.sent
      BY <1>e, <3>1, SentEdits, DeviceEditIds
    <3>3. ports' = [ports EXCEPT ![call.i] = e]
      BY <2>2
    <3>. HIDE DEF e
    <3>4. SentKept
      BY <1>28, <3>1, <3>2, <3>3, SentAfterEdit DEF ProcessPort
    <3>5. stats'.filtered = stats.filtered
      BY <2>2 DEF CountersOK
    <3>. QED  BY <1>28, <3>4, <3>5, <1>w DEF ProcessPort, TallyShape
  <2>. QED  BY <1>28, <2>1, <2>2 DEF ProcessPort, RouteCall
<1>30. CASE UNCHANGED vars
  BY <1>30, <1>d, <1>w DEF vars, TallyShape
<1>. QED
  BY <1>1, <1>3, <1>5, <1>6, <1>7, <1>9, <1>11, <1>12, <1>13, <1>14, <1>15, <1>16,
     <1>17, <1>18, <1>20, <1>21, <1>22, <1>23, <1>24, <1>28, <1>30
     DEF Next, Continue

LEMMA CoversSurvive ==
  ASSUME TypeOK, TypeOK', CountsKept, NEW b \in Nat
  PROVE  /\ AtMost(Filtered(conns), Len(conns), b)
              => AtMost(Filtered(conns'), Len(conns'), b)
         /\ \A id : AtMost(RoutedInto(conns, id), Len(conns), b)
                      => AtMost(RoutedInto(conns', id), Len(conns'), b)
<1>. DEFINE F == Filtered(conns)
            G == Filtered(conns')
            R(id) == RoutedInto(conns, id)
            Q(id) == RoutedInto(conns', id)
            n == Len(conns)
<1>b. b <= b
  OBVIOUS
<1>0. /\ conns \in Seq(Connection) /\ conns' \in Seq(Connection) /\ n \in Nat
      /\ DOMAIN conns = 1 .. n /\ DOMAIN conns' = 1 .. Len(conns')
      /\ F \in [1 .. n -> Nat] /\ \A id : R(id) \in [1 .. n -> Nat]
  <2>1. conns \in Seq(Connection) /\ conns' \in Seq(Connection)
    BY DEF TypeOK, ConnsOK
  <2>. QED  BY <2>1, WeightsOK
<1>1. \A k \in DOMAIN conns : /\ F[k] = conns[k].filtered
                              /\ \A id : R(id)[k] = IF conns[k].dst = id
                                                    THEN conns[k].routed ELSE 0
  BY <1>0 DEF Filtered, RoutedInto
<1>2. \A k \in DOMAIN conns' : /\ G[k] = conns'[k].filtered
                               /\ \A id : Q(id)[k] = IF conns'[k].dst = id
                                                     THEN conns'[k].routed ELSE 0
  BY <1>0 DEF Filtered, RoutedInto
<1>. HIDE DEF F, G, R, Q
<1>3. CASE /\ Len(conns') = n
           /\ \A k \in DOMAIN conns : Counts(conns'[k]) = Counts(conns[k])
  <2>1. \A k \in 1 .. n : G[k] = F[k] /\ \A id : Q(id)[k] = R(id)[k]
    BY <1>0, <1>1, <1>2, <1>3 DEF Counts
  <2>2. AtMost(F, n, b) => AtMost(G, n, b)
    BY <1>0, <1>b, <2>1, CoverSame
  <2>3. \A id : AtMost(R(id), n, b) => AtMost(Q(id), n, b)
    BY <1>0, <1>b, <2>1, CoverSame
  <2>. QED  BY <1>3, <2>2, <2>3 DEF F, G, R, Q
<1>4. ASSUME NEW c \in Connection, conns' = Append(conns, c),
             c.routed = 0, c.filtered = 0
      PROVE  /\ AtMost(F, n, b) => AtMost(G, Len(conns'), b)
             /\ \A id : AtMost(R(id), n, b) => AtMost(Q(id), Len(conns'), b)
  <2>1. Len(conns') = n + 1 /\ conns'[n + 1] = c
        /\ \A k \in 1 .. n : conns'[k] = conns[k]
    BY <1>0, <1>4
  <2>2. \A k \in 1 .. n : k \in DOMAIN conns /\ k \in DOMAIN conns'
    BY <1>0, <2>1
  <2>3. \A k \in 1 .. n : G[k] = F[k] /\ \A id : Q(id)[k] = R(id)[k]
    BY <1>1, <1>2, <2>1, <2>2
  <2>4. G[n + 1] = 0 /\ \A id : Q(id)[n + 1] = 0
    <3>1. n + 1 \in DOMAIN conns'
      BY <1>0, <2>1
    <3>. QED  BY <1>2, <1>4, <2>1, <3>1
  <2>5. AtMost(F, n, b) => AtMost(G, n + 1, b)
    BY <1>0, <2>3, <2>4, CoverAppend
  <2>6. \A id : AtMost(R(id), n, b) => AtMost(Q(id), n + 1, b)
    BY <1>0, <2>3, <2>4, CoverAppend
  <2>. QED  BY <2>1, <2>5, <2>6
<1>5. ASSUME NEW r \in DOMAIN conns, conns' = Without(conns, r)
      PROVE  /\ AtMost(F, n, b) => AtMost(G, Len(conns'), b)
             /\ \A id : AtMost(R(id), n, b) => AtMost(Q(id), Len(conns'), b)
  <2>1. /\ Len(conns') = n - 1
        /\ \A k \in DOMAIN conns' :
             conns'[k] = IF k < r THEN conns[k] ELSE conns[k + 1]
    BY <1>0, <1>5, WithoutEntry
  <2>2. \A k \in 1 .. n - 1 : k \in DOMAIN conns' /\ k \in DOMAIN conns
                              /\ k + 1 \in DOMAIN conns
    BY <1>0, <2>1
  <2>3. \A k \in 1 .. n - 1 :
          /\ G[k] = IF k < r THEN F[k] ELSE F[k + 1]
          /\ \A id : Q(id)[k] = IF k < r THEN R(id)[k] ELSE R(id)[k + 1]
    <3>. TAKE k \in 1 .. n - 1
    <3>1. CASE k < r
      BY <1>1, <1>2, <2>1, <2>2, <3>1
    <3>2. CASE ~(k < r)
      <4>1. k \in DOMAIN conns' /\ k + 1 \in DOMAIN conns /\ conns'[k] = conns[k + 1]
        BY <2>1, <2>2, <3>2
      <4>2. G[k] = F[k + 1]
        BY <1>1, <1>2, <4>1
      <4>3. \A id : Q(id)[k] = R(id)[k + 1]
        BY <1>1, <1>2, <4>1
      <4>. QED  BY <3>2, <4>2, <4>3
    <3>. QED  BY <3>1, <3>2
  <2>4. r \in 1 .. n
    BY <1>0
  <2>5. AtMost(F, n, b) => AtMost(G, n - 1, b)
    <3>1. \A k \in 1 .. n - 1 : G[k] = IF k < r THEN F[k] ELSE F[k + 1]
      BY <2>3
    <3>. QED  BY <1>0, <2>4, <3>1, CoverWithout
  <2>6. \A id : AtMost(R(id), n, b) => AtMost(Q(id), n - 1, b)
    <3>. TAKE id
    <3>1. \A k \in 1 .. n - 1 :
            Q(id)[k] = IF k < r THEN R(id)[k] ELSE R(id)[k + 1]
      BY <2>3
    <3>2. R(id) \in [1 .. n -> Nat]
      BY <1>0
    <3>. QED  BY <1>0, <2>4, <3>1, <3>2, CoverWithout
  <2>. QED  BY <2>1, <2>5, <2>6
<1>6. CASE conns' = <<>>
  <2>1. Len(conns') = 0
    BY <1>6
  <2>2. AtMost(G, 0, b) /\ \A id : AtMost(Q(id), 0, b)
    <3>1. \A k \in 1 .. 0 : FALSE
      OBVIOUS
    <3>2. \A w : AtMost(w, 0, b)
      BY <3>1, CoverZero
    <3>. QED  BY <3>2
  <2>. QED  BY <2>1, <2>2 DEF G, Q
<1>. QED  BY <1>3, <1>4, <1>5, <1>6 DEF CountsKept, F, G, R, Q

(***************************************************************************)
(* One connection counts one more message: CountFiltered or CountRouted.   *)
(***************************************************************************)
LEMMA CoversRise ==
  ASSUME TypeOK, TypeOK', NEW r \in DOMAIN conns, NEW b \in Nat
  PROVE  /\ conns' = [conns EXCEPT ![r] = CountFiltered(@)] =>
              /\ AtMost(Filtered(conns), Len(conns), b)
                   => AtMost(Filtered(conns'), Len(conns'), b + 1)
              /\ \A id : AtMost(RoutedInto(conns, id), Len(conns), b)
                           => AtMost(RoutedInto(conns', id), Len(conns'), b)
         /\ conns' = [conns EXCEPT ![r] = CountRouted(@)] =>
              /\ AtMost(Filtered(conns), Len(conns), b)
                   => AtMost(Filtered(conns'), Len(conns'), b)
              /\ \A id : AtMost(RoutedInto(conns, id), Len(conns), b)
                           => AtMost(RoutedInto(conns', id), Len(conns'),
                                     IF id = conns[r].dst THEN b + 1 ELSE b)
<1>. DEFINE F == Filtered(conns)
            G == Filtered(conns')
            R(id) == RoutedInto(conns, id)
            Q(id) == RoutedInto(conns', id)
            n == Len(conns)
<1>b. b <= b
  OBVIOUS
<1>0. /\ conns \in Seq(Connection) /\ conns' \in Seq(Connection) /\ n \in Nat
      /\ DOMAIN conns = 1 .. n
      /\ F \in [1 .. n -> Nat] /\ \A id : R(id) \in [1 .. n -> Nat]
  <2>1. conns \in Seq(Connection) /\ conns' \in Seq(Connection)
    BY DEF TypeOK, ConnsOK
  <2>. QED  BY <2>1, WeightsOK
<1>1. \A k \in 1 .. n : /\ F[k] = conns[k].filtered
                        /\ \A id : R(id)[k] = IF conns[k].dst = id
                                              THEN conns[k].routed ELSE 0
  BY <1>0 DEF Filtered, RoutedInto
<1>2. ASSUME Len(conns') = n
      PROVE  \A k \in 1 .. n : /\ G[k] = conns'[k].filtered
                               /\ \A id : Q(id)[k] = IF conns'[k].dst = id
                                                     THEN conns'[k].routed ELSE 0
  BY <1>2 DEF Filtered, RoutedInto
<1>3. r \in 1 .. n /\ conns[r] \in Connection
  BY <1>0
<1>4. \A c \in Connection :
        /\ CountFiltered(c).dst = c.dst /\ CountFiltered(c).routed = c.routed
        /\ CountFiltered(c).filtered = c.filtered + 1
        /\ CountRouted(c).dst = c.dst /\ CountRouted(c).routed = c.routed + 1
        /\ CountRouted(c).filtered = c.filtered
  BY DEF Connection, CountFiltered, CountRouted
<1>. HIDE DEF F, G, R, Q
<1>5. ASSUME conns' = [conns EXCEPT ![r] = CountFiltered(@)]
      PROVE  /\ AtMost(F, n, b) => AtMost(G, Len(conns'), b + 1)
             /\ \A id : AtMost(R(id), n, b) => AtMost(Q(id), Len(conns'), b)
  <2>1. Len(conns') = n /\ conns'[r] = CountFiltered(conns[r])
        /\ \A k \in 1 .. n : k # r => conns'[k] = conns[k]
    BY <1>0, <1>5
  <2>2. \A k \in 1 .. n : /\ G[k] = IF k = r THEN F[k] + 1 ELSE F[k]
                          /\ \A id : Q(id)[k] = R(id)[k]
    BY <1>1, <1>2, <1>3, <1>4, <2>1
  <2>3. AtMost(F, n, b) => AtMost(G, n, b + 1)
    BY <1>0, <1>3, <2>2, CoverRaise
  <2>4. \A id : AtMost(R(id), n, b) => AtMost(Q(id), n, b)
    BY <1>0, <1>b, <2>2, CoverSame
  <2>. QED  BY <2>1, <2>3, <2>4
<1>6. ASSUME conns' = [conns EXCEPT ![r] = CountRouted(@)]
      PROVE  /\ AtMost(F, n, b) => AtMost(G, Len(conns'), b)
             /\ \A id : AtMost(R(id), n, b)
                          => AtMost(Q(id), Len(conns'),
                                    IF id = conns[r].dst THEN b + 1 ELSE b)
  <2>1. Len(conns') = n /\ conns'[r] = CountRouted(conns[r])
        /\ \A k \in 1 .. n : k # r => conns'[k] = conns[k]
    BY <1>0, <1>6
  <2>2. \A k \in 1 .. n : G[k] = F[k]
    BY <1>1, <1>2, <1>3, <1>4, <2>1
  <2>3. AtMost(F, n, b) => AtMost(G, n, b)
    BY <1>0, <1>b, <2>2, CoverSame
  <2>4. ASSUME NEW id, AtMost(R(id), n, b), id = conns[r].dst
        PROVE  AtMost(Q(id), n, b + 1)
    <3>1. \A k \in 1 .. n : Q(id)[k] = IF k = r THEN R(id)[k] + 1 ELSE R(id)[k]
      BY <1>1, <1>2, <1>3, <1>4, <2>1, <2>4
    <3>. QED  BY <1>0, <1>3, <2>4, <3>1, CoverRaise
  <2>5. ASSUME NEW id, AtMost(R(id), n, b), id # conns[r].dst
        PROVE  AtMost(Q(id), n, b)
    <3>1. \A k \in 1 .. n : Q(id)[k] = R(id)[k]
      BY <1>1, <1>2, <1>3, <1>4, <2>1, <2>5
    <3>. QED  BY <1>0, <1>b, <2>5, <3>1, CoverSame
  <2>. QED  BY <2>1, <2>3, <2>4, <2>5
<1>. QED  BY <1>5, <1>6 DEF F, G, R, Q

LEMMA CoveredStep ==
  ASSUME IdentityInv, TypeOK', FilteredCovered, RoutedCovered, [Next]_vars
  PROVE  FilteredCovered' /\ RoutedCovered'
<1>. DEFINE n == Len(conns)
<1>0. /\ TypeOK /\ TypeOK' /\ DeviceIdsUnique /\ WireEndsIssued
      /\ conns \in Seq(Connection) /\ conns' \in Seq(Connection)
      /\ ports \in Seq(Device) /\ ports' \in Seq(Device)
      /\ stats.filtered \in Nat /\ stats'.filtered \in Nat
      /\ DOMAIN conns = 1 .. n /\ DOMAIN conns' = 1 .. Len(conns')
      /\ n \in Nat /\ Len(conns') \in Nat
  BY DEF IdentityInv, TypeOK, ConnsOK, PortsOK, CountersOK
<1>1. /\ \A k \in DOMAIN ports : ports[k].sent \in Nat
      /\ \A k \in DOMAIN ports' : ports'[k].sent \in Nat
  <2>1. /\ \A k \in DOMAIN ports : ports[k] \in Device
        /\ \A k \in DOMAIN ports' : ports'[k] \in Device
    BY <1>0
  <2>. QED  BY <2>1 DEF Device
<1>2. CASE Emptied
  <2>1. Len(conns') = 0 /\ DOMAIN ports' = {} /\ \A k \in 1 .. 0 : FALSE
    BY <1>2 DEF Emptied
  <2>2. FilteredCovered'
    BY <1>0, <2>1, CoverZero DEF FilteredCovered
  <2>. QED  BY <2>1, <2>2 DEF RoutedCovered
<1>3. CASE Zeroed
  <2>1. \A k \in 1 .. Len(conns') :
          Filtered(conns')[k] = 0 /\ \A id : RoutedInto(conns', id)[k] = 0
    BY <1>0, <1>3 DEF Zeroed, Filtered, RoutedInto
  <2>2. FilteredCovered'
    BY <1>0, <2>1, CoverZero DEF FilteredCovered
  <2>3. RoutedCovered'
    BY <1>0, <1>1, <2>1, CoverZero DEF RoutedCovered
  <2>. QED  BY <2>2, <2>3
<1>4. CASE SentKept /\ CountsKept
  <2>1. FilteredCovered'
    BY <1>0, <1>4, CoversSurvive DEF FilteredCovered, CountsKept
  <2>2. ASSUME ~wrapped'.dev, NEW k \in DOMAIN ports'
        PROVE  AtMost(RoutedInto(conns', ports'[k].id), Len(conns'), ports'[k].sent)
    <3>1. PICK l \in DOMAIN ports : /\ ports'[k].id = ports[l].id
                                    /\ ports[l].sent <= ports'[k].sent
      BY <1>4 DEF SentKept
    <3>2. AtMost(RoutedInto(conns, ports[l].id), n, ports[l].sent)
      BY <1>4, <2>2 DEF RoutedCovered, SentKept
    <3>3. AtMost(RoutedInto(conns', ports[l].id), Len(conns'), ports[l].sent)
      BY <1>0, <1>1, <1>4, <3>2, CoversSurvive
    <3>4. AtMost(RoutedInto(conns', ports[l].id), Len(conns'), ports'[k].sent)
      BY <1>0, <1>1, <3>1, <3>3, CoverSame
    <3>. QED  BY <3>1, <3>4
  <2>. QED  BY <2>1, <2>2 DEF RoutedCovered
<1>5. CASE AddedDevice /\ conns' = conns /\ stats' = stats
  <2>1. FilteredCovered'
    BY <1>5 DEF FilteredCovered
  <2>2. PICK input \in BOOLEAN, output \in BOOLEAN :
          ports' = Append(ports, NewDevice(input, output))
    BY <1>5 DEF AddedDevice
  <2>. DEFINE d == NewDevice(input, output)
  <2>3. d \in Device /\ d.id = nextDev
    BY NewDeviceType DEF NewDevice, TypeOK, IdentityInv
  <2>. HIDE DEF d
  <2>4. ASSUME ~wrapped'.dev, NEW k \in DOMAIN ports'
        PROVE  AtMost(RoutedInto(conns, ports'[k].id), n, ports'[k].sent)
    <3>0. ~wrapped.dev
      BY <1>5, <2>4 DEF AddedDevice
    <3>1. \/ k \in DOMAIN ports /\ ports'[k] = ports[k]
          \/ ports'[k] = d
      BY <1>0, <2>2, <2>3 DEF d
    <3>2. CASE k \in DOMAIN ports /\ ports'[k] = ports[k]
      BY <3>0, <3>2 DEF RoutedCovered
    <3>3. CASE ports'[k] = d
      <4>1. \A j \in 1 .. n : conns[j].dst # nextDev
        <5>1. nextDev \in Nat /\ \A j \in 1 .. n : conns[j].dst < nextDev
          BY <1>0, <3>0 DEF WireEndsIssued, TypeOK, CountersOK, Ids
        <5>. QED  BY <5>1
      <4>2. \A j \in 1 .. n : RoutedInto(conns, nextDev)[j] = 0
        BY <4>1 DEF RoutedInto
      <4>3. ports'[k].id = nextDev
        BY <2>3, <3>3
      <4>. QED  BY <1>0, <1>1, <4>2, <4>3, CoverZero
    <3>. QED  BY <3>1, <3>2, <3>3
  <2>. QED  BY <1>5, <2>1, <2>4 DEF RoutedCovered
<1>6. CASE RouteFiltered
  <2>1. /\ call.i \in DOMAIN conns
        /\ conns' = [conns EXCEPT ![call.i] = CountFiltered(@)]
        /\ ports' = ports /\ wrapped' = wrapped
        /\ stats'.filtered = stats.filtered + 1
    BY <1>0, <1>6 DEF RouteFiltered, Routing, TypeOK, CountersOK
  <2>2. FilteredCovered'
    BY <1>0, <2>1, CoversRise DEF FilteredCovered
  <2>3. RoutedCovered'
    BY <1>0, <1>1, <2>1, CoversRise DEF RoutedCovered
  <2>. QED  BY <2>2, <2>3
<1>7. CASE RouteDeliver
  <2>. DEFINE dst == conns[call.i].dst
              msg == Remap(call.msg, conns[call.i].dch)
  <2>1. /\ call.i \in DOMAIN conns
        /\ conns' = [conns EXCEPT ![call.i] = CountRouted(@)]
        /\ wrapped' = wrapped /\ stats' = stats
    BY <1>7 DEF RouteDeliver, Forwards, Routing
  <2>2. PICK k \in DOMAIN ports : /\ ports[k].id = dst
                                  /\ ports' = [ports EXCEPT ![k] = Queued(@, msg)]
    BY <1>7 DEF RouteDeliver, IsFirst, Queue
  <2>3. Queued(ports[k], msg).id = ports[k].id
        /\ Queued(ports[k], msg).sent = ports[k].sent + 1
    <3>1. ports[k] \in Device
      BY <1>0
    <3>. QED  BY <3>1 DEF Queued, Device
  <2>. HIDE DEF msg
  <2>4. FilteredCovered'
    BY <1>0, <2>1, CoversRise DEF FilteredCovered
  <2>5. ASSUME ~wrapped.dev, NEW l \in DOMAIN ports
        PROVE  AtMost(RoutedInto(conns', ports'[l].id), Len(conns'), ports'[l].sent)
    <3>1. AtMost(RoutedInto(conns, ports[l].id), n, ports[l].sent)
      BY <2>5 DEF RoutedCovered
    <3>2. AtMost(RoutedInto(conns', ports[l].id), Len(conns'),
                 IF ports[l].id = dst THEN ports[l].sent + 1 ELSE ports[l].sent)
      BY <1>0, <1>1, <2>1, <3>1, CoversRise
    <3>3. ports[l].id = dst => l = k
      BY <1>0, <2>2, <2>5 DEF DeviceIdsUnique
    <3>4. CASE l = k
      <4>1. ports'[l].id = ports[l].id /\ ports'[l].sent = ports[l].sent + 1
        BY <2>2, <2>3, <3>4
      <4>. QED  BY <2>2, <3>2, <3>4, <4>1
    <3>5. CASE l # k
      <4>1. ports'[l] = ports[l]
        BY <2>2, <3>5
      <4>. QED  BY <3>2, <3>3, <3>5, <4>1
    <3>. QED  BY <3>4, <3>5
  <2>6. DOMAIN ports' = DOMAIN ports
    BY <2>2
  <2>. QED  BY <2>1, <2>4, <2>5, <2>6 DEF RoutedCovered
<1>. QED  BY <1>0, <1>2, <1>3, <1>4, <1>5, <1>6, <1>7, Tallies DEF TallyShape

(***************************************************************************)
(* The statistics agree: what the connections count as filtered is covered *)
(* by the total, and what they count as routed into a device by what it    *)
(* counts as sent, whatever has been removed, reset or registered since.   *)
(***************************************************************************)
THEOREM StatisticsCovered == Spec => []StatisticsAgree
<1>1. Init => FilteredCovered /\ RoutedCovered
  <2>. SUFFICES ASSUME Init PROVE FilteredCovered /\ RoutedCovered
    OBVIOUS
  <2>1. Len(conns) = 0 /\ DOMAIN ports = {} /\ stats.filtered = 0
    BY DEF Init
  <2>2. \A k \in 1 .. 0 : FALSE
    OBVIOUS
  <2>3. FilteredCovered
    BY <2>1, <2>2, CoverZero DEF FilteredCovered
  <2>. QED  BY <2>1, <2>3 DEF RoutedCovered
<1>2. IdentityInv /\ TypeOK' /\ FilteredCovered /\ RoutedCovered /\ [Next]_vars
        => (FilteredCovered /\ RoutedCovered)'
  BY CoveredStep
<1>3. TypeOK /\ FilteredCovered /\ RoutedCovered => StatisticsAgree
  BY CoveredAgrees
<1>. QED  BY <1>1, <1>2, <1>3, TypeCorrect, Identities, PTL DEF Spec, IdentityInv
=============================================================================
