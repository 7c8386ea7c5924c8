------------------------------ MODULE FabricProofs ------------------------------
(***************************************************************************)
(* The fabric for any peers, models, options, requests, ladder and times.  *)
(* The first part is about the data: the order of the candidates is a      *)
(* strict total order, so a sorted list of them exists, and the loop over  *)
(* that list takes what the strategy is for.                               *)
(***************************************************************************)
EXTENDS Fabric, FiniteSetTheorems, NaturalsInduction, WellFoundedInduction, TLAPS

-------------------------------------------------------------------------------
(* A set of naturals that is not empty has a smallest element. *)
LEMMA LeastNatural ==
    ASSUME NEW T \in SUBSET Nat, T # {}
    PROVE  \E x \in T : \A y \in T : x <= y
<1> DEFINE before == {ss \in Nat \X Nat : ss[1] < ss[2]}
<1>1. IsWellFoundedOn(before, Nat)
    BY Zenon, NatLessThanWellFounded DEF OpToRel
<1> HIDE DEF before
<1>2. PICK x \in T : \A y \in T : ~(<<y, x>> \in before)
    BY <1>1, WFMin, Zenon
<1>3. ASSUME NEW y \in T PROVE x <= y
    <2>1. x \in Nat /\ y \in Nat /\ ~(<<y, x>> \in before)
        BY <1>2
    <2>2. ~(y < x)
        BY <2>1 DEF before
    <2> QED
        BY <2>1, <2>2
<1> QED
    BY <1>3

(* So a set that holds 0 and, with each k below n, k + 1, holds 0..n.        *)
LEMMA UpTo ==
    ASSUME NEW n \in Nat, NEW T, 0 \in T, \A k \in 0..(n - 1) : k \in T => k + 1 \in T
    PROVE  0..n \subseteq T
<1> SUFFICES ASSUME (0..n) \ T # {} PROVE FALSE
    OBVIOUS
<1>1. PICK x \in (0..n) \ T : \A y \in (0..n) \ T : x <= y
    <2>1. (0..n) \ T \in SUBSET Nat
        OBVIOUS
    <2> QED
        BY <2>1, LeastNatural
<1>2. x # 0 /\ x - 1 \in 0..(n - 1) /\ x - 1 \in 0..n
    BY <1>1
<1>3. x - 1 \in T
    BY <1>1, <1>2
<1>4. (x - 1) + 1 \in T
    BY <1>2, <1>3
<1> QED
    BY <1>1, <1>4

(* A recursive function on 0..n exists.                                      *)
Iterates(n, base, step, f) == f[0] = base /\ \A i \in 1..n : f[i] = step[<<i, f[i - 1]>>]

LEMMA Iterate ==
    ASSUME NEW n \in Nat, NEW S, NEW base \in S, NEW step \in [Nat \X S -> S]
    PROVE  \E f \in [0..n -> S] : Iterates(n, base, step, f)
<1> DEFINE T == {k \in 0..n : \E f \in [0..k -> S] : Iterates(k, base, step, f)}
<1>1. 0 \in T
    <2> DEFINE f == [i \in 0..0 |-> base]
    <2>1. f \in [0..0 -> S] /\ f[0] = base
        OBVIOUS
    <2> HIDE DEF f
    <2>2. Iterates(0, base, step, f) /\ 0 \in 0..n
        BY <2>1 DEF Iterates
    <2> QED
        BY <2>1, <2>2, Zenon
<1>2. ASSUME NEW k \in 0..(n - 1), k \in T PROVE k + 1 \in T
    <2>1. PICK f \in [0..k -> S] : Iterates(k, base, step, f)
        BY <1>2
    <2> DEFINE g == [i \in 0..(k + 1) |-> IF i = k + 1 THEN step[<<k + 1, f[k]>>] ELSE f[i]]
    <2>2. f[k] \in S /\ <<k + 1, f[k]>> \in Nat \X S
        OBVIOUS
    <2>3. step[<<k + 1, f[k]>>] \in S
        BY <2>2
    <2>4. g \in [0..(k + 1) -> S]
        BY <2>3
    <2>5. g[0] = base
        BY <2>1 DEF Iterates
    <2>6. ASSUME NEW i \in 1..(k + 1) PROVE g[i] = step[<<i, g[i - 1]>>]
        <3>1. CASE i = k + 1
            <4>1. g[i - 1] = f[k] /\ g[i] = step[<<k + 1, f[k]>>]
                BY <3>1
            <4> QED
                BY <3>1, <4>1
        <3>2. CASE i # k + 1
            <4>1. i \in 1..k
                BY <3>2
            <4>2. g[i - 1] = f[i - 1] /\ g[i] = f[i]
                BY <4>1
            <4> QED
                BY <2>1, <4>1, <4>2 DEF Iterates
        <3> QED
            BY <3>1, <3>2
    <2> HIDE DEF g
    <2>7. Iterates(k + 1, base, step, g) /\ k + 1 \in 0..n
        BY <2>5, <2>6 DEF Iterates
    <2> QED
        BY <2>4, <2>7, Zenon
<1> HIDE DEF T
<1>3. n \in T
    BY <1>1, <1>2, UpTo
<1> QED
    BY <1>3 DEF T

-------------------------------------------------------------------------------
LEMMA ModelFields ==
    ASSUME NEW m \in Models
    PROVE  /\ Manifests[m] \in Manifest
           /\ Manifests[m].priority \in Nat /\ Manifests[m].sizeBytes \in Nat
           /\ Manifests[m].estimatedMemoryMb \in Nat
           /\ m \in Nat /\ Manifests[m].modelId \in ModelIds
<1>1. m \in 1..Len(Manifests) /\ Manifests[m] \in Manifest
    BY ManifestsAssumption DEF Models
<1> QED
    BY <1>1 DEF Manifest

LEMMA ConfigFields ==
    ASSUME NEW cfg \in Configs
    PROVE  /\ cfg.count \in Nat /\ cfg.mode \in {"exact", "up-to"} /\ cfg.strategy \in Strategies
           /\ cfg.memoryBudgetMb \in Nat
BY ConfigsAssumption DEF Config

LEMMA CandidatesFinite ==
    ASSUME NEW cfg
    PROVE  IsFiniteSet(candidates(cfg)) /\ candidates(cfg) \subseteq Models
<1>1. Models = 1..Len(Manifests) /\ Len(Manifests) \in Nat
    BY ManifestsAssumption DEF Models
<1>2. IsFiniteSet(Models)
    BY <1>1, FS_Interval
<1>3. candidates(cfg) \subseteq Models
    BY DEF candidates
<1> QED
    BY <1>2, <1>3, FS_Subset

(* What is worth no less per unit of memory than what is worth no less ...   *)
LEMMA RatiosChain ==
    ASSUME NEW p \in Nat, NEW q \in Nat, NEW r \in Nat,
           NEW k \in Nat, NEW m \in Nat, NEW n \in Nat, k > 0, m > 0, n > 0,
           p * m >= q * k, q * n >= r * m
    PROVE  p * n >= r * k
<1>1. (p * m) * n >= (q * k) * n
    OBVIOUS
<1>2. (q * n) * k >= (r * m) * k
    OBVIOUS
<1>3. m * (p * n) >= m * (r * k)
    BY <1>1, <1>2
<1> QED
    BY <1>3

(* "Not preceded by" is a total preorder, whatever the strategy.             *)
LEMMA NotPrecededChain ==
    ASSUME NEW s \in Strategies, NEW a \in Manifest, NEW b \in Manifest, NEW c \in Manifest,
           ~precedes(s, b, a), ~precedes(s, c, b)
    PROVE  ~precedes(s, c, a)
<1>1. CASE s = "fit-memory"
    <2> DEFINE memory(x) == atLeast1(x.estimatedMemoryMb)
    <2>1. /\ a.priority \in Nat /\ b.priority \in Nat /\ c.priority \in Nat
          /\ a.estimatedMemoryMb \in Nat /\ b.estimatedMemoryMb \in Nat /\ c.estimatedMemoryMb \in Nat
        BY DEF Manifest
    <2>2. /\ memory(a) \in Nat /\ memory(b) \in Nat /\ memory(c) \in Nat
          /\ memory(a) > 0 /\ memory(b) > 0 /\ memory(c) > 0
        BY <2>1 DEF atLeast1
    <2>3. \A x, y : precedes(s, x, y) <=> x.priority * memory(y) > y.priority * memory(x)
        BY <1>1 DEF precedes
    <2> HIDE DEF memory
    <2>4. a.priority * memory(b) >= b.priority * memory(a)
        BY <2>1, <2>2, <2>3
    <2>5. b.priority * memory(c) >= c.priority * memory(b)
        BY <2>1, <2>2, <2>3
    <2>6. a.priority * memory(c) >= c.priority * memory(a)
        BY <2>1, <2>2, <2>4, <2>5, RatiosChain
    <2> QED
        BY <2>1, <2>2, <2>3, <2>6
<1>2. CASE s # "fit-memory"
    BY <1>2 DEF precedes, Manifest, Strategies
<1> QED
    BY <1>1, <1>2

LEMMA OneOrTheOther ==
    ASSUME NEW s \in Strategies, NEW a \in Manifest, NEW b \in Manifest, precedes(s, a, b)
    PROVE  ~precedes(s, b, a)
<1>1. CASE s = "fit-memory"
    <2> DEFINE there == a.priority * atLeast1(b.estimatedMemoryMb)
               back == b.priority * atLeast1(a.estimatedMemoryMb)
    <2>1. there \in Nat /\ back \in Nat
        BY DEF atLeast1, Manifest
    <2>2. there > back
        BY <1>1 DEF precedes
    <2>3. precedes(s, b, a) => back > there
        BY <1>1 DEF precedes
    <2> HIDE DEF there, back
    <2> QED
        BY <2>1, <2>2, <2>3
<1>2. CASE s # "fit-memory"
    BY <1>2 DEF precedes, Manifest, Strategies
<1> QED
    BY <1>1, <1>2

(* With the place in the list to decide, the order is total and strict.      *)
LEMMA StrictOrder ==
    ASSUME NEW cfg \in Configs, NEW i \in Models, NEW j \in Models
    PROVE  /\ i # j => comesBefore(cfg, i, j) \/ comesBefore(cfg, j, i)
           /\ ~(comesBefore(cfg, i, j) /\ comesBefore(cfg, j, i))
           /\ \A k \in Models :
                comesBefore(cfg, i, j) /\ comesBefore(cfg, j, k) => comesBefore(cfg, i, k)
<1> DEFINE before(x, y) == precedes(cfg.strategy, Manifests[x], Manifests[y])
<1>1. cfg.strategy \in Strategies
    BY ConfigFields
<1>2. \A x \in Models : x \in Nat /\ Manifests[x] \in Manifest
    BY ModelFields
<1>3. \A x, y, z \in Models : ~before(y, x) /\ ~before(z, y) => ~before(z, x)
    BY <1>1, <1>2, NotPrecededChain, Zenon
<1>4. \A x, y \in Models : before(x, y) => ~before(y, x)
    BY <1>1, <1>2, OneOrTheOther, Zenon
<1>5. \A x, y : comesBefore(cfg, x, y) <=> before(x, y) \/ (~before(y, x) /\ x < y)
    BY Zenon DEF comesBefore
<1> HIDE DEF before
<1>6. i # j => comesBefore(cfg, i, j) \/ comesBefore(cfg, j, i)
    BY <1>2, <1>5
<1>7. ~(comesBefore(cfg, i, j) /\ comesBefore(cfg, j, i))
    BY <1>2, <1>4, <1>5
<1>8. ASSUME NEW k \in Models, comesBefore(cfg, i, j), comesBefore(cfg, j, k)
      PROVE  comesBefore(cfg, i, k)
    BY <1>2, <1>3, <1>4, <1>5, <1>8
<1> QED
    BY <1>6, <1>7, <1>8

-------------------------------------------------------------------------------
(* ranked: its place is how many come before a candidate.                    *)
LEMMA SortedListExists ==
    ASSUME NEW cfg \in Configs
    PROVE  \E order \in [1..Cardinality(candidates(cfg)) -> candidates(cfg)] :
               \A m, n \in DOMAIN order : m < n => comesBefore(cfg, order[m], order[n])
<1> DEFINE S == candidates(cfg)
           N == Cardinality(S)
           earlier(x) == {y \in S : comesBefore(cfg, y, x)}
           place == [x \in S |-> Cardinality(earlier(x)) + 1]
<1>1. IsFiniteSet(S) /\ S \subseteq Models /\ N \in Nat
    BY CandidatesFinite, FS_CardinalityType
<1>2. /\ \A x, y \in S : x # y => comesBefore(cfg, x, y) \/ comesBefore(cfg, y, x)
      /\ \A x, y \in S : ~(comesBefore(cfg, x, y) /\ comesBefore(cfg, y, x))
      /\ \A x, y, z \in S : comesBefore(cfg, x, y) /\ comesBefore(cfg, y, z) => comesBefore(cfg, x, z)
    BY <1>1, StrictOrder
<1> HIDE DEF S
<1>3. ASSUME NEW x \in S
      PROVE  IsFiniteSet(earlier(x)) /\ Cardinality(earlier(x)) \in Nat /\ Cardinality(earlier(x)) < N
    <2>1. earlier(x) \subseteq S /\ x \notin earlier(x)
        BY <1>2
    <2>2. earlier(x) # S
        BY <2>1
    <2>3. IsFiniteSet(earlier(x)) /\ Cardinality(earlier(x)) <= N /\ Cardinality(earlier(x)) # N
        BY <1>1, <2>1, <2>2, FS_Subset
    <2>4. Cardinality(earlier(x)) \in Nat
        BY <2>3, FS_CardinalityType
    <2> QED
        BY <1>1, <2>3, <2>4
<1>4. ASSUME NEW x \in S, NEW y \in S, comesBefore(cfg, x, y)
      PROVE  Cardinality(earlier(x)) < Cardinality(earlier(y))
    <2>1. earlier(x) \subseteq earlier(y)
        BY <1>2, <1>4
    <2>2. x \in earlier(y) /\ x \notin earlier(x)
        BY <1>2, <1>4
    <2>3. earlier(x) # earlier(y)
        BY <2>2
    <2>4. Cardinality(earlier(x)) <= Cardinality(earlier(y)) /\ Cardinality(earlier(x)) # Cardinality(earlier(y))
        BY <1>3, <2>1, <2>3, FS_Subset
    <2> QED
        BY <1>3, <2>4
<1> HIDE DEF N, earlier
<1>5. place \in Injection(S, 1..N)
    <2>1. place \in [S -> 1..N]
        BY <1>1, <1>3
    <2>2. ASSUME NEW x \in S, NEW y \in S, x # y
          PROVE  place[x] # place[y]
        <3>1. CASE comesBefore(cfg, x, y)
            BY <1>3, <1>4, <3>1
        <3>2. CASE comesBefore(cfg, y, x)
            BY <1>3, <1>4, <3>2
        <3> QED
            BY <1>2, <2>2, <3>1, <3>2
    <2> QED
        BY <2>1, <2>2 DEF Injection, IsInjective
<1>6. place \in Surjection(S, 1..N)
    <2>1. IsFiniteSet(1..N) /\ Cardinality(1..N) = N
        BY <1>1, FS_Interval
    <2> QED
        BY <1>1, <1>5, <2>1, FS_Injection DEF N
<1> DEFINE order == [n \in 1..N |-> CHOOSE x \in S : place[x] = n]
<1>7. ASSUME NEW n \in 1..N PROVE order[n] \in S /\ place[order[n]] = n
    BY <1>6 DEF Surjection
<1>8. ASSUME NEW m \in 1..N, NEW n \in 1..N, m < n
      PROVE  comesBefore(cfg, order[m], order[n])
    <2>1. /\ order[m] \in S /\ order[n] \in S
          /\ Cardinality(earlier(order[m])) + 1 = m /\ Cardinality(earlier(order[n])) + 1 = n
        BY <1>7
    <2> HIDE DEF order
    <2>2. ~comesBefore(cfg, order[n], order[m]) /\ order[m] # order[n]
        BY <1>3, <1>4, <1>8, <2>1
    <2> QED
        BY <1>2, <2>1, <2>2
<1>9. order \in [1..N -> S] /\ DOMAIN order = 1..N
    BY <1>7
<1> QED
    BY <1>8, <1>9 DEF S, N

LEMMA Ranked ==
    ASSUME NEW cfg \in Configs
    PROVE  LET order == ranked(cfg)
           IN  /\ order \in Seq(Models) /\ Len(order) \in Nat /\ DOMAIN order = 1..Len(order)
               /\ \A n \in 1..Len(order) : order[n] \in candidates(cfg)
               /\ \A m, n \in 1..Len(order) : m < n => comesBefore(cfg, order[m], order[n])
               /\ \A k \in candidates(cfg) : \E n \in 1..Len(order) : order[n] = k
<1> DEFINE S == candidates(cfg)
           N == Cardinality(S)
           order == ranked(cfg)
<1>1. IsFiniteSet(S) /\ S \subseteq Models /\ N \in Nat
    BY CandidatesFinite, FS_CardinalityType
<1>2. /\ order \in [1..N -> S]
      /\ \A m, n \in DOMAIN order : m < n => comesBefore(cfg, order[m], order[n])
    BY SortedListExists DEF ranked
<1>3. \A x \in S : ~comesBefore(cfg, x, x)
    BY <1>1, StrictOrder
<1> HIDE DEF S, N, order
<1>4. order \in Seq(Models) /\ Len(order) = N /\ DOMAIN order = 1..N
    BY <1>1, <1>2
<1>5. order \in Injection(1..N, S)
    <2>1. ASSUME NEW m \in 1..N, NEW n \in 1..N, m # n PROVE order[m] # order[n]
        <3>1. order[m] \in S /\ order[n] \in S
            BY <1>2
        <3>2. CASE m < n
            BY <1>2, <1>3, <1>4, <3>1, <3>2
        <3>3. CASE n < m
            BY <1>2, <1>3, <1>4, <3>1, <3>3
        <3> QED
            BY <2>1, <3>2, <3>3
    <2> QED
        BY <1>2, <2>1 DEF Injection, IsInjective
<1>6. order \in Surjection(1..N, S)
    <2>1. IsFiniteSet(1..N) /\ Cardinality(1..N) = N
        BY <1>1, FS_Interval
    <2> QED
        BY <1>1, <1>5, <2>1, FS_Injection DEF N
<1> QED
    BY <1>1, <1>2, <1>4, <1>6 DEF Surjection, S, order

-------------------------------------------------------------------------------
(* The loop of the selection, as a function of how many turns it has taken.  *)
Loop(cfg, loop) ==
    LET order == ranked(cfg)
    IN  /\ loop \in [0..Len(order) -> Selection]
        /\ loop[0] = nothingSelected
        /\ \A n \in 1..Len(order) : loop[n] = turn(cfg, loop[n - 1], order[n])

LEMMA WithModel ==
    ASSUME NEW taken \in Selection, NEW m \in Models
    PROVE  /\ withModel(taken, m) \in Selection
           /\ withModel(taken, m).selected = Append(taken.selected, m)
           /\ withModel(taken, m).usedMemory = taken.usedMemory + Manifests[m].estimatedMemoryMb
BY ModelFields DEF withModel, Selection

LEMMA LoopExists ==
    ASSUME NEW cfg \in Configs
    PROVE  \E loop : Loop(cfg, loop) /\ select(cfg) = loop[Len(ranked(cfg))].selected
<1> DEFINE order == ranked(cfg)
           N == Len(order)
           body(f) == [n \in 0..N |-> IF n = 0 THEN nothingSelected ELSE turn(cfg, f[n - 1], order[n])]
           step == [p \in Nat \X Selection |->
                       IF p[1] \in 1..N THEN turn(cfg, p[2], order[p[1]]) ELSE p[2]]
           loop == CHOOSE f : f = body(f)
<1>1. N \in Nat /\ \A n \in 1..N : order[n] \in Models
    BY Ranked
<1>2. nothingSelected \in Selection
    BY DEF Selection, nothingSelected
<1>3. ASSUME NEW taken \in Selection, NEW m \in Models PROVE turn(cfg, taken, m) \in Selection
    BY WithModel DEF turn
<1>4. select(cfg) = loop[N].selected
    BY DEF select
<1> HIDE DEF N, order
<1>5. step \in [Nat \X Selection -> Selection]
    BY <1>1, <1>3
<1> HIDE DEF step
<1>6. PICK f \in [0..N -> Selection] :
          f[0] = nothingSelected /\ \A n \in 1..N : f[n] = step[<<n, f[n - 1]>>]
    <2>1. N \in Nat
        BY <1>1
    <2>2. PICK f \in [0..N -> Selection] : Iterates(N, nothingSelected, step, f)
        BY <2>1, <1>2, <1>5, Iterate, Zenon
    <2> QED
        BY <2>2 DEF Iterates
<1>7. ASSUME NEW n \in 1..N PROVE f[n] = turn(cfg, f[n - 1], order[n])
    <2>1. n \in Nat /\ f[n - 1] \in Selection
        BY <1>1, <1>6
    <2>2. step[<<n, f[n - 1]>>] = turn(cfg, f[n - 1], order[n])
        BY <2>1 DEF step
    <2> QED
        BY <1>6, <2>2
<1>8. f = body(f)
    BY <1>1, <1>6, <1>7
<1>9. loop = body(loop)
    BY <1>8
<1> HIDE DEF loop
<1>10. loop = f
    <2> DEFINE T == {n \in 0..N : loop[n] = f[n]}
    <2>1. 0 \in T
        BY <1>1, <1>6, <1>9
    <2>2. ASSUME NEW n \in 0..(N - 1), n \in T PROVE n + 1 \in T
        BY <1>1, <1>7, <1>9, <2>2
    <2> HIDE DEF T
    <2>3. 0..N \subseteq T
        BY <1>1, <2>1, <2>2, UpTo
    <2> QED
        BY <1>6, <1>9, <2>3 DEF T
<1>11. Loop(cfg, loop)
    BY <1>6, <1>7, <1>10 DEF Loop, N, order
<1> QED
    BY <1>4, <1>11 DEF N, order

-------------------------------------------------------------------------------
(* The memory of a sequence of models, as the running sum of memoryOf.       *)
Sums(models, f) ==
    /\ f[0] = 0
    /\ \A n \in 1..Len(models) : f[n] = f[n - 1] + Manifests[models[n]].estimatedMemoryMb

LEMMA SumsAgree ==
    ASSUME NEW s \in Seq(Models), NEW t \in Seq(Models), Len(s) <= Len(t),
           \A i \in 1..Len(s) : s[i] = t[i],
           NEW f, NEW g, Sums(s, f), Sums(t, g)
    PROVE  g[Len(s)] = f[Len(s)]
<1> DEFINE T == {n \in 0..Len(s) : g[n] = f[n]}
<1>1. 0 \in T /\ Len(s) \in Nat
    BY DEF Sums
<1>2. ASSUME NEW n \in 0..(Len(s) - 1), n \in T PROVE n + 1 \in T
    <2>1. n + 1 \in 1..Len(s) /\ n + 1 \in 1..Len(t) /\ (n + 1) - 1 = n
        OBVIOUS
    <2>2. f[n + 1] = f[n] + Manifests[s[n + 1]].estimatedMemoryMb
        BY <2>1 DEF Sums
    <2>3. g[n + 1] = g[n] + Manifests[t[n + 1]].estimatedMemoryMb
        BY <2>1 DEF Sums
    <2>4. s[n + 1] = t[n + 1]
        BY <2>1
    <2> QED
        BY <1>2, <2>1, <2>2, <2>3, <2>4
<1> HIDE DEF T
<1>3. 0..Len(s) \subseteq T
    BY <1>1, <1>2, UpTo
<1> QED
    BY <1>3 DEF T

LEMMA MemoryIsSum ==
    ASSUME NEW s \in Seq(Models)
    PROVE  \E f \in [0..Len(s) -> Nat] : Sums(s, f) /\ memoryOf(s) = f[Len(s)]
<1> DEFINE N == Len(s)
           need(n) == Manifests[s[n]].estimatedMemoryMb
           body(f) == [n \in 0..N |-> IF n = 0 THEN 0 ELSE f[n - 1] + need(n)]
           step == [p \in Nat \X Nat |-> IF p[1] \in 1..N THEN p[2] + need(p[1]) ELSE p[2]]
           sum == CHOOSE f : f = body(f)
<1>1. N \in Nat /\ \A n \in 1..N : need(n) \in Nat
    BY ModelFields
<1>2. memoryOf(s) = sum[N]
    BY DEF memoryOf
<1> HIDE DEF N, need
<1>3. step \in [Nat \X Nat -> Nat]
    BY <1>1
<1> HIDE DEF step
<1>4. PICK f \in [0..N -> Nat] : Iterates(N, 0, step, f)
    BY <1>1, <1>3, Iterate, Zenon
<1>5. f[0] = 0
    BY <1>4 DEF Iterates
<1>6. ASSUME NEW n \in 1..N PROVE f[n] = f[n - 1] + need(n)
    <2>1. n \in Nat /\ f[n - 1] \in Nat
        BY <1>1, <1>4
    <2>2. step[<<n, f[n - 1]>>] = f[n - 1] + need(n)
        BY <2>1 DEF step
    <2> QED
        BY <1>4, <2>2 DEF Iterates
<1>7. f = body(f)
    BY <1>1, <1>4, <1>5, <1>6
<1>8. sum = body(sum)
    BY <1>7
<1> HIDE DEF sum
<1>9. Sums(s, f)
    BY <1>5, <1>6 DEF Sums, N, need
<1>10. Sums(s, sum)
    <2>1. \A n \in 0..N : sum[n] = IF n = 0 THEN 0 ELSE sum[n - 1] + need(n)
        BY <1>8
    <2>2. sum[0] = 0 /\ \A n \in 1..N : sum[n] = sum[n - 1] + need(n)
        BY <1>1, <2>1
    <2> QED
        BY <2>2 DEF Sums, N, need
<1>11. sum[N] = f[N]
    <2>1. N <= N /\ \A i \in 1..N : s[i] = s[i]
        BY <1>1
    <2> QED
        BY <1>9, <1>10, <2>1, SumsAgree, Zenon DEF N
<1> QED
    BY <1>1, <1>2, <1>4, <1>9, <1>11 DEF N

LEMMA MemoryOfAppend ==
    ASSUME NEW s \in Seq(Models), NEW m \in Models
    PROVE  /\ memoryOf(s) \in Nat
           /\ memoryOf(Append(s, m)) = memoryOf(s) + Manifests[m].estimatedMemoryMb
<1> DEFINE t == Append(s, m)
<1>1. /\ t \in Seq(Models) /\ Len(t) = Len(s) + 1 /\ t[Len(t)] = m
      /\ \A i \in 1..Len(s) : s[i] = t[i]
      /\ Len(s) \in Nat
    OBVIOUS
<1> HIDE DEF t
<1>2. PICK f \in [0..Len(s) -> Nat] : Sums(s, f) /\ memoryOf(s) = f[Len(s)]
    BY MemoryIsSum
<1>3. PICK g \in [0..Len(t) -> Nat] : Sums(t, g) /\ memoryOf(t) = g[Len(t)]
    BY <1>1, MemoryIsSum
<1>4. g[Len(s)] = f[Len(s)]
    <2>1. Len(s) <= Len(t)
        BY <1>1
    <2> QED
        BY <1>1, <1>2, <1>3, <2>1, SumsAgree, Zenon
<1>5. g[Len(t)] = g[Len(s)] + Manifests[m].estimatedMemoryMb
    BY <1>1, <1>3 DEF Sums
<1> QED
    BY <1>1, <1>2, <1>3, <1>4, <1>5 DEF t

LEMMA MemoryOfEmpty ==
    memoryOf(<<>>) = 0
<1>1. <<>> \in Seq(Models) /\ Len(<<>>) = 0
    OBVIOUS
<1>2. PICK f \in [0..Len(<<>>) -> Nat] : Sums(<<>>, f) /\ memoryOf(<<>>) = f[Len(<<>>)]
    BY <1>1, MemoryIsSum
<1> QED
    BY <1>1, <1>2 DEF Sums

-------------------------------------------------------------------------------
(* Why a candidate may be left out beside what has been selected; what is    *)
(* true of the selection after n turns.                                      *)
Tight(cfg) == cfg.strategy = "fit-memory"

LeftOut(cfg, selected, k) ==
    \E n \in 0..Len(selected) :
        /\ \A i \in DOMAIN selected : i <= n <=> comesBefore(cfg, selected[i], k)
        /\ \/ n = cfg.count
           \/ Tight(cfg) /\ ~fits(cfg, memoryOf(SubSeq(selected, 1, n)), k)

SelectedSoFar(cfg, n, taken) ==
    LET selected == taken.selected
        order == ranked(cfg)
    IN  /\ taken \in Selection
        /\ Len(selected) <= cfg.count
        /\ taken.usedMemory = memoryOf(selected)
        /\ Tight(cfg) => taken.usedMemory <= cfg.memoryBudgetMb
        /\ \A i \in DOMAIN selected : \E x \in 1..n : selected[i] = order[x]
        /\ \A i, j \in DOMAIN selected : i < j => comesBefore(cfg, selected[i], selected[j])
        /\ \A x \in 1..n : order[x] \in ToSet(selected) \/ LeftOut(cfg, selected, order[x])

LEMMA FirstTurn ==
    ASSUME NEW cfg \in Configs
    PROVE  SelectedSoFar(cfg, 0, nothingSelected)
<1>1. /\ nothingSelected.selected = <<>> /\ nothingSelected.usedMemory = 0
      /\ nothingSelected \in Selection
    BY DEF nothingSelected, Selection
<1>2. cfg.count \in Nat /\ cfg.memoryBudgetMb \in Nat
    BY ConfigFields
<1> QED
    BY <1>1, <1>2, MemoryOfEmpty DEF SelectedSoFar

(* A model is appended: what was left out still is, and it comes last.       *)
LEMMA TurnTakes ==
    ASSUME NEW cfg \in Configs, NEW n \in Nat, n + 1 \in 1..Len(ranked(cfg)),
           NEW taken, SelectedSoFar(cfg, n, taken),
           Len(taken.selected) < cfg.count,
           Tight(cfg) => fits(cfg, taken.usedMemory, ranked(cfg)[n + 1])
    PROVE  SelectedSoFar(cfg, n + 1, withModel(taken, ranked(cfg)[n + 1]))
<1> DEFINE order == ranked(cfg)
           m == order[n + 1]
           old == taken.selected
           new == Append(old, m)
<1>1. /\ \A x \in 1..(n + 1) : order[x] \in Models
      /\ \A x \in 1..n : comesBefore(cfg, order[x], m)
      /\ m \in Models
    BY Ranked
<1>2. /\ taken \in Selection /\ old \in Seq(Models) /\ Len(old) \in Nat
      /\ withModel(taken, m) \in Selection /\ withModel(taken, m).selected = new
      /\ withModel(taken, m).usedMemory = taken.usedMemory + Manifests[m].estimatedMemoryMb
    <2>1. taken \in Selection /\ m \in Models
        BY <1>1 DEF SelectedSoFar
    <2> HIDE DEF m
    <2>2. old \in Seq(Models) /\ Len(old) \in Nat
        BY <2>1 DEF Selection
    <2>3. /\ withModel(taken, m) \in Selection
          /\ withModel(taken, m).selected = Append(taken.selected, m)
          /\ withModel(taken, m).usedMemory = taken.usedMemory + Manifests[m].estimatedMemoryMb
        BY <2>1, WithModel, Zenon
    <2> QED
        BY <2>1, <2>2, <2>3
<1>3. /\ taken.usedMemory = memoryOf(old)
      /\ \A i \in DOMAIN old : \E x \in 1..n : old[i] = order[x]
      /\ \A i, j \in DOMAIN old : i < j => comesBefore(cfg, old[i], old[j])
      /\ \A x \in 1..n : order[x] \in ToSet(old) \/ LeftOut(cfg, old, order[x])
    BY DEF SelectedSoFar
<1>4. cfg.count \in Nat /\ cfg.memoryBudgetMb \in Nat
    BY ConfigFields
<1>5. Tight(cfg) => taken.usedMemory + Manifests[m].estimatedMemoryMb <= cfg.memoryBudgetMb
    BY DEF fits
<1>6. Len(old) < cfg.count
    OBVIOUS
<1> HIDE DEF m, old, order
<1>7. /\ Len(new) = Len(old) + 1 /\ DOMAIN new = 1..(Len(old) + 1) /\ DOMAIN old = 1..Len(old)
      /\ new[Len(old) + 1] = m /\ \A i \in 1..Len(old) : new[i] = old[i]
      /\ new \in Seq(Models)
    BY <1>1, <1>2
<1>8. Len(new) <= cfg.count
    BY <1>2, <1>4, <1>6, <1>7
<1>9. memoryOf(new) = memoryOf(old) + Manifests[m].estimatedMemoryMb
    BY <1>1, <1>2, MemoryOfAppend
<1>10. \A n_1 \in 0..Len(old) : SubSeq(new, 1, n_1) = SubSeq(old, 1, n_1)
    BY <1>1, <1>2, <1>7
<1> HIDE DEF new
<1>11. ASSUME NEW i \in DOMAIN new PROVE \E x \in 1..(n + 1) : new[i] = order[x]
    <2>1. CASE i \in 1..Len(old)
        BY <1>3, <1>7, <2>1
    <2>2. CASE i = Len(old) + 1
        BY <1>7, <2>2 DEF m
    <2> QED
        BY <1>2, <1>7, <2>1, <2>2
<1>12. \A i \in 1..Len(old) : comesBefore(cfg, old[i], m)
    BY <1>1, <1>3, <1>7
<1>13. ASSUME NEW i \in DOMAIN new, NEW j \in DOMAIN new, i < j
       PROVE  comesBefore(cfg, new[i], new[j])
    <2>1. i \in 1..Len(old)
        BY <1>2, <1>7, <1>13
    <2>2. CASE j = Len(old) + 1
        BY <1>7, <1>12, <2>1, <2>2
    <2>3. CASE j \in 1..Len(old)
        BY <1>3, <1>7, <1>13, <2>1, <2>3
    <2> QED
        BY <1>2, <1>7, <2>2, <2>3
<1>14. ASSUME NEW x \in 1..(n + 1)
       PROVE  order[x] \in ToSet(new) \/ LeftOut(cfg, new, order[x])
    <2>1. CASE x = n + 1
        BY <1>2, <1>7, <2>1 DEF m, ToSet
    <2>2. CASE x \in 1..n /\ order[x] \in ToSet(old)
        <3>1. PICK i \in 1..Len(old) : old[i] = order[x]
            BY <1>7, <2>2 DEF ToSet
        <3>2. i \in DOMAIN new /\ new[i] = order[x]
            BY <1>2, <1>7, <3>1
        <3> QED
            BY <3>2 DEF ToSet
    <2>3. CASE x \in 1..n /\ LeftOut(cfg, old, order[x])
        <3> DEFINE k == order[x]
        <3>1. PICK p \in 0..Len(old) :
                /\ \A i \in DOMAIN old : i <= p <=> comesBefore(cfg, old[i], k)
                /\ \/ p = cfg.count
                   \/ Tight(cfg) /\ ~fits(cfg, memoryOf(SubSeq(old, 1, p)), k)
            BY <2>3 DEF LeftOut
        <3>2. k \in Models /\ comesBefore(cfg, k, m) /\ ~comesBefore(cfg, m, k)
            BY <1>1, <2>3, StrictOrder
        <3> HIDE DEF k
        <3>3. ASSUME NEW i \in DOMAIN new PROVE i <= p <=> comesBefore(cfg, new[i], k)
            <4>1. CASE i \in 1..Len(old)
                BY <1>7, <3>1, <4>1
            <4>2. CASE i = Len(old) + 1
                BY <1>2, <1>7, <3>2, <4>2
            <4> QED
                BY <1>2, <1>7, <4>1, <4>2
        <3>4. p \in 0..Len(new) /\ SubSeq(new, 1, p) = SubSeq(old, 1, p)
            BY <1>2, <1>7, <1>10
        <3> QED
            BY <3>1, <3>3, <3>4 DEF LeftOut, k
    <2> QED
        BY <1>3, <2>1, <2>2, <2>3
<1> QED
    BY <1>2, <1>3, <1>5, <1>8, <1>9, <1>11, <1>13, <1>14 DEF SelectedSoFar, order, m

(* A model is passed over: there is no room for it after all the others.     *)
LEMMA TurnPasses ==
    ASSUME NEW cfg \in Configs, NEW n \in Nat, n + 1 \in 1..Len(ranked(cfg)),
           NEW taken, SelectedSoFar(cfg, n, taken),
           \/ ~(Len(taken.selected) < cfg.count)
           \/ Tight(cfg) /\ ~fits(cfg, taken.usedMemory, ranked(cfg)[n + 1])
    PROVE  SelectedSoFar(cfg, n + 1, taken)
<1> DEFINE order == ranked(cfg)
           m == order[n + 1]
           old == taken.selected
<1>1. \A x \in 1..n : comesBefore(cfg, order[x], m)
    BY Ranked
<1>2. taken \in Selection /\ old \in Seq(Models) /\ Len(old) \in Nat /\ DOMAIN old = 1..Len(old)
    BY DEF SelectedSoFar, Selection
<1>3. cfg.count \in Nat
    BY ConfigFields
<1>4. /\ taken.usedMemory = memoryOf(old) /\ Len(old) <= cfg.count
      /\ \A i \in DOMAIN old : \E x \in 1..n : old[i] = order[x]
      /\ \A x \in 1..n : order[x] \in ToSet(old) \/ LeftOut(cfg, old, order[x])
    BY DEF SelectedSoFar
<1>5. SubSeq(old, 1, Len(old)) = old
    BY <1>2
<1>6. LeftOut(cfg, old, m)
    <2>1. ASSUME NEW i \in DOMAIN old PROVE i <= Len(old) <=> comesBefore(cfg, old[i], m)
        <3>1. i <= Len(old)
            BY <1>2
        <3>2. PICK x \in 1..n : old[i] = order[x]
            BY <1>4
        <3> QED
            BY <1>1, <3>1, <3>2
    <2>2. \/ Len(old) = cfg.count
          \/ Tight(cfg) /\ ~fits(cfg, memoryOf(SubSeq(old, 1, Len(old))), m)
        <3>1. CASE ~(Len(old) < cfg.count)
            BY <1>2, <1>3, <1>4, <3>1
        <3>2. CASE Tight(cfg) /\ ~fits(cfg, taken.usedMemory, m)
            <4> HIDE DEF m, old
            <4> QED
                BY <1>4, <1>5, <3>2
        <3> QED
            BY <3>1, <3>2
    <2>3. Len(old) \in 0..Len(old)
        BY <1>2
    <2> HIDE DEF m, old
    <2> QED
        BY <2>1, <2>2, <2>3 DEF LeftOut
<1>7. \A x \in 1..(n + 1) : x \in 1..n \/ x = n + 1
    OBVIOUS
<1>8. \A x \in 1..n : x \in 1..(n + 1)
    OBVIOUS
<1> QED
    BY <1>2, <1>4, <1>6, <1>7, <1>8 DEF SelectedSoFar

(* What select returns: candidates, each once, in their order, within the    *)
(* count and the budget, and none left out without a reason.                 *)
Best(cfg, selected) ==
    /\ selected \in Seq(Models)
    /\ ToSet(selected) \subseteq candidates(cfg)
    /\ Len(selected) <= cfg.count
    /\ \A i, j \in DOMAIN selected : i < j => comesBefore(cfg, selected[i], selected[j])
    /\ Tight(cfg) => memoryOf(selected) <= cfg.memoryBudgetMb
    /\ \A k \in candidates(cfg) \ ToSet(selected) : LeftOut(cfg, selected, k)

LEMMA SelectIsBest ==
    ASSUME NEW cfg \in Configs
    PROVE  Best(cfg, select(cfg))
<1> DEFINE order == ranked(cfg)
           N == Len(order)
<1>1. PICK loop : Loop(cfg, loop) /\ select(cfg) = loop[N].selected
    BY LoopExists
<1>2. /\ N \in Nat /\ loop[0] = nothingSelected
      /\ \A n \in 1..N : loop[n] = turn(cfg, loop[n - 1], order[n])
    BY <1>1, Ranked DEF Loop
<1> DEFINE T == {n \in 0..N : SelectedSoFar(cfg, n, loop[n])}
<1>3. 0 \in T
    BY <1>2, FirstTurn
<1>4. ASSUME NEW n \in 0..(N - 1), n \in T PROVE n + 1 \in T
    <2>1. n \in Nat /\ n + 1 \in 1..N /\ n + 1 \in 0..N /\ (n + 1) - 1 = n
        BY <1>2
    <2>2. SelectedSoFar(cfg, n, loop[n])
        BY <1>4
    <2>3. loop[n + 1] = turn(cfg, loop[n], order[n + 1])
        BY <1>2, <2>1
    <2>4. CASE /\ Len(loop[n].selected) < cfg.count
               /\ Tight(cfg) => fits(cfg, loop[n].usedMemory, order[n + 1])
        <3>1. loop[n + 1] = withModel(loop[n], order[n + 1])
            BY <2>3, <2>4 DEF turn, Tight
        <3>2. SelectedSoFar(cfg, n + 1, withModel(loop[n], order[n + 1]))
            BY <2>1, <2>2, <2>4, TurnTakes
        <3> QED
            BY <2>1, <3>1, <3>2
    <2>5. CASE \/ ~(Len(loop[n].selected) < cfg.count)
               \/ Tight(cfg) /\ ~fits(cfg, loop[n].usedMemory, order[n + 1])
        <3>1. loop[n + 1] = loop[n]
            BY <2>3, <2>5 DEF turn, Tight
        <3>2. SelectedSoFar(cfg, n + 1, loop[n])
            BY <2>1, <2>2, <2>5, TurnPasses
        <3> QED
            BY <2>1, <3>1, <3>2
    <2> QED
        BY <2>4, <2>5
<1> HIDE DEF T
<1>5. N \in T
    <2> HIDE DEF N
    <2>1. N \in Nat
        BY <1>2
    <2>2. 0..N \subseteq T
        BY <1>3, <1>4, <2>1, UpTo
    <2> QED
        BY <2>1, <2>2
<1>6. SelectedSoFar(cfg, N, loop[N])
    BY <1>5 DEF T
<1>7. /\ \A n \in 1..N : order[n] \in candidates(cfg)
      /\ \A k \in candidates(cfg) : \E n \in 1..N : order[n] = k
    BY Ranked
<1> DEFINE selected == select(cfg)
<1>8. /\ loop[N] \in Selection /\ selected = loop[N].selected
      /\ Len(selected) <= cfg.count
      /\ Tight(cfg) => memoryOf(selected) <= cfg.memoryBudgetMb
      /\ \A i \in DOMAIN selected : \E x \in 1..N : selected[i] = order[x]
      /\ \A i, j \in DOMAIN selected : i < j => comesBefore(cfg, selected[i], selected[j])
      /\ \A x \in 1..N : order[x] \in ToSet(selected) \/ LeftOut(cfg, selected, order[x])
    BY <1>1, <1>6 DEF SelectedSoFar
<1> HIDE DEF selected, order, N
<1>9. selected \in Seq(Models)
    BY <1>8 DEF Selection
<1>10. ToSet(selected) \subseteq candidates(cfg)
    BY <1>7, <1>8 DEF ToSet
<1>11. \A k \in candidates(cfg) \ ToSet(selected) : LeftOut(cfg, selected, k)
    BY <1>7, <1>8
<1> QED
    BY <1>8, <1>9, <1>10, <1>11 DEF Best, selected

LEMMA SelectedOnce ==
    ASSUME NEW cfg \in Configs, NEW selected, Best(cfg, selected)
    PROVE  \A i, j \in DOMAIN selected : selected[i] = selected[j] => i = j
<1>1. \A i \in DOMAIN selected : selected[i] \in Models /\ i \in Nat
    BY DEF Best
<1>2. \A i, j \in DOMAIN selected : i < j => comesBefore(cfg, selected[i], selected[j])
    BY DEF Best
<1>3. \A i, j \in DOMAIN selected : i < j => selected[i] # selected[j]
    BY <1>1, <1>2, StrictOrder
<1> QED
    BY <1>1, <1>3

-------------------------------------------------------------------------------
(* The loader: the models it is through with are the first of the selected   *)
(* ones, and each of them has one verdict, in its state and in the ledger.   *)
MeshRecord == [at: {"new", "loading", "ready", "rejected"}, config: Configs,
               selected: Seq(Models), warm: Seq(Models), failed: Seq(Models),
               events: SUBSET (ModelIds \X {"started", "failed", "warm"}), sessions: Seq(Sessions)]

Done(m) == Len(m.warm) + Len(m.failed)

SelectedByConfig(m) == m.selected = <<>> \/ m.selected = select(m.config)

Progress(m) ==
    /\ m.at = "loading" => Done(m) < Len(m.selected)
    /\ m.at = "ready" => Done(m) = Len(m.selected)
    /\ Done(m) <= Len(m.selected)
    /\ ToSet(m.warm) \cup ToSet(m.failed) = {m.selected[i] : i \in 1..Done(m)}
    /\ ToSet(m.warm) \cap ToSet(m.failed) = {}

Told(m) ==
    \A id \in ModelIds :
        /\ <<id, "warm">> \in m.events <=> \E k \in ToSet(m.warm) : Manifests[k].modelId = id
        /\ <<id, "failed">> \in m.events <=> \E k \in ToSet(m.failed) : Manifests[k].modelId = id

(* What a warm model and the session it came to have been through.           *)
Passed(m, k, session) ==
    k \in ToSet(m.warm) =>
        /\ session # "none"
        /\ Manifests[k].hasTestVectors => session # "wrong"
        /\ m.config.requireTestVector => Manifests[k].hasTestVectors

Tested(m) ==
    /\ Len(m.sessions) = Done(m)
    /\ \A i \in 1..Done(m) : Passed(m, m.selected[i], m.sessions[i])

ExactSoFar(m) ==
    m.config.mode = "exact" /\ m.at \in {"loading", "ready"} =>
        m.failed = <<>> /\ Len(m.selected) = m.config.count

LoaderInv(m) == SelectedByConfig(m) /\ Progress(m) /\ Told(m) /\ Tested(m) /\ ExactSoFar(m)

StartupInv ==
    /\ joins \in [Workers -> 0..MaxJoins]
    /\ mesh \in [Workers -> MeshRecord]
    /\ \A w \in Workers : LoaderInv(mesh[w])

LEMMA EmptySequence ==
    /\ <<>> \in Seq(Models) /\ <<>> \in Seq(Sessions) /\ Len(<<>>) = 0 /\ ToSet(<<>>) = {}
BY DEF ToSet

(* A mesh before its loader has begun.                                       *)
LEMMA NewMesh ==
    ASSUME NEW cfg \in Configs, NEW at \in {"new", "loading", "ready", "rejected"},
           NEW selected \in {<<>>, select(cfg)},
           at = "loading" => selected # <<>>,
           at = "ready" => selected = <<>>,
           at \in {"loading", "ready"} /\ cfg.mode = "exact" => Len(selected) = cfg.count
    PROVE  newMesh(at, cfg, selected) \in MeshRecord /\ LoaderInv(newMesh(at, cfg, selected))
<1> DEFINE m == newMesh(at, cfg, selected)
<1>1. /\ m.at = at /\ m.config = cfg /\ m.selected = selected
      /\ m.warm = <<>> /\ m.failed = <<>> /\ m.events = {} /\ m.sessions = <<>>
    BY DEF newMesh
<1>2. selected \in Seq(Models)
    BY SelectIsBest, EmptySequence DEF Best
<1>3. m \in MeshRecord
    BY <1>2, EmptySequence DEF newMesh, MeshRecord
<1> HIDE DEF m
<1>4. Len(selected) \in Nat /\ (selected # <<>> => Len(selected) > 0)
    BY <1>2
<1>5. Done(m) = 0
    BY <1>1, EmptySequence DEF Done
<1>6. Progress(m)
    BY <1>1, <1>4, <1>5, EmptySequence DEF Progress
<1>7. SelectedByConfig(m) /\ Told(m) /\ Tested(m) /\ ExactSoFar(m)
    BY <1>1, <1>5, EmptySequence DEF SelectedByConfig, Told, Tested, Passed, ExactSoFar
<1> QED
    BY <1>3, <1>6, <1>7 DEF LoaderInv, m

LEMMA StartupInitial ==
    ASSUME StartupInit
    PROVE  StartupInv
<1> DEFINE cfg == CHOOSE c \in Configs : TRUE
           first == newMesh("new", cfg, <<>>)
<1>1. cfg \in Configs
    BY ConfigsAssumption
<1>2. mesh = [w \in Workers |-> first] /\ joins = [w \in Workers |-> 0]
    BY DEF StartupInit
<1> HIDE DEF cfg
<1>3. first \in MeshRecord /\ LoaderInv(first)
    BY <1>1, NewMesh
<1> HIDE DEF first
<1> QED
    BY <1>2, <1>3, ConfigsAssumption DEF StartupInv

LEMMA JoinStep ==
    ASSUME StartupInv, NEW w \in Workers, NEW cfg \in Configs, join(w, cfg)
    PROVE  StartupInv'
<1> DEFINE new == CASE startupThrows(cfg) -> newMesh("rejected", cfg, <<>>)
                    [] ~startupThrows(cfg) /\ select(cfg) = <<>> -> newMesh("ready", cfg, <<>>)
                    [] OTHER -> newMesh("loading", cfg, select(cfg))
<1>1. new \in MeshRecord /\ LoaderInv(new)
    <2>1. CASE startupThrows(cfg)
        <3>1. new = newMesh("rejected", cfg, <<>>)
            BY <2>1
        <3> QED
            BY <3>1, NewMesh
    <2>2. CASE ~startupThrows(cfg) /\ select(cfg) = <<>>
        <3>1. new = newMesh("ready", cfg, <<>>)
            BY <2>2
        <3>2. cfg.mode = "exact" => Len(<<>>) = cfg.count
            BY <2>2 DEF startupThrows
        <3> QED
            BY <3>1, <3>2, NewMesh
    <2>3. CASE ~startupThrows(cfg) /\ select(cfg) # <<>>
        <3>1. new = newMesh("loading", cfg, select(cfg))
            BY <2>3
        <3>2. cfg.mode = "exact" => Len(select(cfg)) = cfg.count
            BY <2>3 DEF startupThrows
        <3> QED
            BY <2>3, <3>1, <3>2, NewMesh
    <2> QED
        BY <2>1, <2>2, <2>3
<1>2. /\ mesh' = [mesh EXCEPT ![w] = new]
      /\ joins' = [joins EXCEPT ![w] = joins[w] + 1] /\ joins[w] < MaxJoins
    BY DEF join
<1> HIDE DEF new
<1> QED
    BY <1>1, <1>2, ConfigsAssumption DEF StartupInv

LEMMA ToSetAppend ==
    ASSUME NEW s \in Seq(Models), NEW k \in Models
    PROVE  /\ ToSet(Append(s, k)) = ToSet(s) \cup {k}
           /\ Append(s, k) \in Seq(Models) /\ Len(Append(s, k)) = Len(s) + 1
<1> DEFINE t == Append(s, k)
<1>1. /\ t \in Seq(Models) /\ Len(t) = Len(s) + 1 /\ Len(s) \in Nat
      /\ DOMAIN t = 1..(Len(s) + 1) /\ DOMAIN s = 1..Len(s)
      /\ t[Len(s) + 1] = k /\ \A i \in 1..Len(s) : t[i] = s[i]
    OBVIOUS
<1> HIDE DEF t
<1>2. \A i \in DOMAIN t : t[i] \in ToSet(s) \cup {k}
    BY <1>1 DEF ToSet
<1>3. \A x \in ToSet(s) \cup {k} : \E i \in DOMAIN t : t[i] = x
    BY <1>1 DEF ToSet
<1>4. ToSet(t) = ToSet(s) \cup {k}
    BY <1>2, <1>3 DEF ToSet
<1> QED
    BY <1>1, <1>4 DEF t

(* The next model is one the loader has not had.                             *)
LEMMA NextModel ==
    ASSUME NEW m \in MeshRecord, LoaderInv(m), m.at = "loading"
    PROVE  /\ Done(m) \in Nat /\ Len(m.selected) \in Nat /\ Done(m) + 1 \in 1..Len(m.selected)
           /\ m.selected[Done(m) + 1] \in Models
           /\ m.selected[Done(m) + 1] \notin ToSet(m.warm) \cup ToSet(m.failed)
           /\ \A i \in 1..(Done(m) + 1) : i \in 1..Done(m) \/ i = Done(m) + 1
<1>1. /\ m.selected \in Seq(Models) /\ m.warm \in Seq(Models) /\ m.failed \in Seq(Models)
      /\ m.config \in Configs
    BY DEF MeshRecord
<1>2. /\ Done(m) \in Nat /\ Len(m.selected) \in Nat /\ Done(m) < Len(m.selected)
      /\ DOMAIN m.selected = 1..Len(m.selected)
    <2>1. Done(m) < Len(m.selected)
        BY DEF LoaderInv, Progress
    <2>3. Done(m) \in Nat
        <3>1. Len(m.warm) \in Nat /\ Len(m.failed) \in Nat
            BY <1>1
        <3>2. \A i, j \in Nat : i + j \in Nat
            OBVIOUS
        <3> QED
            BY <3>1, <3>2, Zenon DEF Done
    <2> QED
        BY <1>1, <2>1, <2>3
<1>3. Done(m) + 1 \in 1..Len(m.selected)
    BY <1>2
<1>4. m.selected # <<>>
    BY <1>1, <1>2
<1>5. Best(m.config, m.selected)
    BY <1>1, <1>4, SelectIsBest DEF LoaderInv, SelectedByConfig
<1>6. \A i \in 1..Done(m) : m.selected[i] # m.selected[Done(m) + 1]
    <2>1. \A i, j \in DOMAIN m.selected : m.selected[i] = m.selected[j] => i = j
        BY <1>1, <1>5, SelectedOnce
    <2>2. \A i \in 1..Done(m) : i \in DOMAIN m.selected /\ i # Done(m) + 1
        BY <1>2
    <2> QED
        BY <1>2, <1>3, <2>1, <2>2
<1>7. ToSet(m.warm) \cup ToSet(m.failed) = {m.selected[i] : i \in 1..Done(m)}
    BY DEF LoaderInv, Progress
<1> QED
    BY <1>1, <1>2, <1>3, <1>6, <1>7

(* One more model has its verdict; where the loader goes from there.         *)
LEMMA ProgressStep ==
    ASSUME NEW m \in MeshRecord, LoaderInv(m), m.at = "loading", NEW n \in MeshRecord,
           n.config = m.config, n.selected = m.selected,
           LET k == m.selected[Done(m) + 1]
           IN  \/ n.warm = Append(m.warm, k) /\ n.failed = m.failed
               \/ n.warm = m.warm /\ n.failed = Append(m.failed, k),
           n.at = "ready" => Done(m) + 1 = Len(m.selected),
           n.at = "loading" => Done(m) + 1 # Len(m.selected)
    PROVE  SelectedByConfig(n) /\ Progress(n) /\ Done(n) = Done(m) + 1
<1> DEFINE d == Done(m)
           k == m.selected[d + 1]
<1>1. m.warm \in Seq(Models) /\ m.failed \in Seq(Models)
    BY DEF MeshRecord
<1>2. /\ d \in Nat /\ Len(m.selected) \in Nat /\ d + 1 \in 1..Len(m.selected)
      /\ k \in Models /\ k \notin ToSet(m.warm) \cup ToSet(m.failed)
      /\ \A i \in 1..(d + 1) : i \in 1..d \/ i = d + 1
    BY NextModel
<1>3. /\ ToSet(m.warm) \cup ToSet(m.failed) = {m.selected[i] : i \in 1..d}
      /\ ToSet(m.warm) \cap ToSet(m.failed) = {}
    BY DEF LoaderInv, Progress
<1>4. Len(m.warm) \in Nat /\ Len(m.failed) \in Nat /\ d = Len(m.warm) + Len(m.failed)
    BY <1>1 DEF Done
<1>5. \/ n.warm = Append(m.warm, k) /\ n.failed = m.failed
      \/ n.warm = m.warm /\ n.failed = Append(m.failed, k)
    OBVIOUS
<1> HIDE DEF d, k
<1>6. /\ Done(n) = d + 1
      /\ ToSet(n.warm) \cup ToSet(n.failed) = (ToSet(m.warm) \cup ToSet(m.failed)) \cup {k}
      /\ ToSet(n.warm) \cap ToSet(n.failed) = {}
    <2>1. CASE n.warm = Append(m.warm, k) /\ n.failed = m.failed
        <3>1. ToSet(n.warm) = ToSet(m.warm) \cup {k} /\ Len(n.warm) = Len(m.warm) + 1
            BY <1>1, <1>2, <2>1, ToSetAppend
        <3>2. Done(n) = Len(n.warm) + Len(n.failed)
            BY DEF Done
        <3>3. Done(n) = d + 1
            <4>1. \A i, j \in Nat : (i + 1) + j = (i + j) + 1 /\ i + (j + 1) = (i + j) + 1
                OBVIOUS
            <4> QED
                BY <1>4, <2>1, <3>1, <3>2, <4>1, Zenon
        <3> QED
            BY <1>2, <1>3, <2>1, <3>1, <3>3
    <2>2. CASE n.warm = m.warm /\ n.failed = Append(m.failed, k)
        <3>1. ToSet(n.failed) = ToSet(m.failed) \cup {k} /\ Len(n.failed) = Len(m.failed) + 1
            BY <1>1, <1>2, <2>2, ToSetAppend
        <3>2. Done(n) = Len(n.warm) + Len(n.failed)
            BY DEF Done
        <3>3. Done(n) = d + 1
            <4>1. \A i, j \in Nat : (i + 1) + j = (i + j) + 1 /\ i + (j + 1) = (i + j) + 1
                OBVIOUS
            <4> QED
                BY <1>4, <2>2, <3>1, <3>2, <4>1, Zenon
        <3> QED
            BY <1>2, <1>3, <2>2, <3>1, <3>3
    <2> QED
        BY <1>5, <2>1, <2>2
<1>7. {m.selected[i] : i \in 1..(d + 1)} = {m.selected[i] : i \in 1..d} \cup {k}
    BY <1>2 DEF k
<1>8. ToSet(n.warm) \cup ToSet(n.failed) = {n.selected[i] : i \in 1..(d + 1)}
    BY <1>3, <1>6, <1>7
<1>9. /\ n.at = "loading" => d + 1 < Len(n.selected)
      /\ n.at = "ready" => d + 1 = Len(n.selected)
      /\ d + 1 <= Len(n.selected)
    BY <1>2 DEF d
<1> QED
    BY <1>6, <1>8, <1>9 DEF Progress, LoaderInv, SelectedByConfig, d

(* What it went through is kept with it.                                     *)
LEMMA TestedStep ==
    ASSUME NEW m \in MeshRecord, LoaderInv(m), m.at = "loading", NEW n \in MeshRecord,
           NEW session \in Sessions, n.sessions = Append(m.sessions, session),
           n.config = m.config, n.selected = m.selected, Done(n) = Done(m) + 1,
           \A j \in Models : j # m.selected[Done(m) + 1] => (j \in ToSet(n.warm) <=> j \in ToSet(m.warm)),
           Passed(n, m.selected[Done(m) + 1], session)
    PROVE  Tested(n)
<1> DEFINE d == Done(m)
<1>1. /\ d \in Nat /\ Len(m.selected) \in Nat /\ d + 1 \in 1..Len(m.selected)
      /\ m.selected[d + 1] \notin ToSet(m.warm) \cup ToSet(m.failed)
    BY NextModel
<1>2. /\ ToSet(m.warm) \cup ToSet(m.failed) = {m.selected[i] : i \in 1..d}
      /\ Len(m.sessions) = d /\ \A i \in 1..d : Passed(m, m.selected[i], m.sessions[i])
    BY DEF LoaderInv, Progress, Tested
<1>3. m.sessions \in Seq(Sessions) /\ m.selected \in Seq(Models)
    BY DEF MeshRecord
<1> HIDE DEF d
<1>4. /\ Len(n.sessions) = d + 1 /\ n.sessions[d + 1] = session
      /\ \A i \in 1..d : n.sessions[i] = m.sessions[i]
    BY <1>1, <1>2, <1>3
<1>5. ASSUME NEW i \in 1..d
      PROVE  Passed(n, n.selected[i], n.sessions[i])
    <2>1. m.selected[i] \in Models /\ m.selected[i] # m.selected[d + 1]
        BY <1>1, <1>2, <1>3
    <2>2. m.selected[i] \in ToSet(n.warm) <=> m.selected[i] \in ToSet(m.warm)
        BY <2>1 DEF d
    <2>3. Passed(m, m.selected[i], m.sessions[i])
        BY <1>2
    <2> QED
        BY <1>4, <2>2, <2>3 DEF Passed
<1>6. Passed(n, n.selected[d + 1], n.sessions[d + 1])
    BY <1>4 DEF d
<1>7. \A i \in 1..(d + 1) : i \in 1..d \/ i = d + 1
    BY <1>1
<1>8. \A i \in 1..(d + 1) : Passed(n, n.selected[i], n.sessions[i])
    BY <1>5, <1>6, <1>7
<1> QED
    BY <1>4, <1>8 DEF Tested, d

LEMMA LoadSucceedsStep ==
    ASSUME StartupInv, NEW w \in Workers, mesh[w].at = "loading", UNCHANGED joins,
           NEW session \in Sessions, loadSucceeds(w, nextModel(w), session)
    PROVE  StartupInv'
<1> DEFINE m == mesh[w]
           k == m.selected[Done(m) + 1]
           n == mesh'[w]
<1>1. m \in MeshRecord /\ LoaderInv(m) /\ m.at = "loading" /\ mesh \in [Workers -> MeshRecord]
    BY DEF StartupInv
<1>2. nextModel(w) = k /\ (isLast(w) <=> Done(m) + 1 = Len(m.selected))
    BY DEF nextModel, isLast, Done
<1>3. /\ mesh' = [mesh EXCEPT ![w].warm = Append(@, k),
                              ![w].sessions = Append(@, session),
                              ![w].events = @ \cup told(k, {"started", "warm"}),
                              ![w].at = IF isLast(w) THEN "ready" ELSE "loading"]
      /\ session # "none" /\ (Manifests[k].hasTestVectors => session # "wrong")
      /\ m.config.requireTestVector => Manifests[k].hasTestVectors
    BY <1>2 DEF loadSucceeds, runTestVectors
<1>4. /\ k \in Models /\ k \notin ToSet(m.warm) \cup ToSet(m.failed)
      /\ Manifests[k].modelId \in ModelIds
    BY <1>1, NextModel, ModelFields
<1>5. /\ m.config \in Configs /\ m.selected \in Seq(Models)
      /\ m.warm \in Seq(Models) /\ m.failed \in Seq(Models)
      /\ m.events \subseteq ModelIds \X {"started", "failed", "warm"}
      /\ m.sessions \in Seq(Sessions)
    BY <1>1 DEF MeshRecord
<1> HIDE DEF k
<1>6. /\ n.config = m.config /\ n.selected = m.selected /\ n.failed = m.failed
      /\ n.warm = Append(m.warm, k)
      /\ n.events = m.events \cup told(k, {"started", "warm"})
      /\ n.sessions = Append(m.sessions, session)
      /\ n.at = IF isLast(w) THEN "ready" ELSE "loading"
      /\ mesh' = [mesh EXCEPT ![w] = n]
      /\ n = [at |-> n.at, config |-> n.config, selected |-> n.selected, warm |-> n.warm,
              failed |-> n.failed, events |-> n.events, sessions |-> n.sessions]
    BY <1>1, <1>3 DEF MeshRecord
<1> HIDE DEF n
<1>7. n.warm \in Seq(Models) /\ ToSet(n.warm) = ToSet(m.warm) \cup {k}
    BY <1>4, <1>5, <1>6, ToSetAppend
<1>8. n \in MeshRecord
    <2>1. n.events \subseteq ModelIds \X {"started", "failed", "warm"}
        BY <1>4, <1>5, <1>6 DEF told
    <2>2. n.at \in {"new", "loading", "ready", "rejected"}
        BY <1>6
    <2>3. n.sessions \in Seq(Sessions)
        BY <1>5, <1>6
    <2> QED
        BY <1>5, <1>6, <1>7, <2>1, <2>2, <2>3 DEF MeshRecord
<1>9. SelectedByConfig(n) /\ Progress(n) /\ Done(n) = Done(m) + 1
    BY <1>1, <1>2, <1>6, <1>8, ProgressStep DEF k
<1>10. Told(n)
    <2>1. Told(m)
        BY <1>1 DEF LoaderInv
    <2>2. \A id : <<id, "warm">> \in n.events <=> <<id, "warm">> \in m.events \/ id = Manifests[k].modelId
        BY <1>6 DEF told
    <2>3. \A id : <<id, "failed">> \in n.events <=> <<id, "failed">> \in m.events
        BY <1>6 DEF told
    <2> QED
        BY <1>6, <1>7, <2>1, <2>2, <2>3 DEF Told
<1>11. ExactSoFar(n)
    BY <1>1, <1>6 DEF LoaderInv, ExactSoFar
<1>12. Tested(n)
    <2>1. Passed(n, k, session)
        BY <1>3, <1>6 DEF Passed
    <2>2. \A j \in Models : j # k => (j \in ToSet(n.warm) <=> j \in ToSet(m.warm))
        BY <1>7
    <2> QED
        BY <1>1, <1>6, <1>8, <1>9, <2>1, <2>2, TestedStep DEF k
<1> QED
    BY <1>1, <1>6, <1>8, <1>9, <1>10, <1>11, <1>12 DEF StartupInv, LoaderInv

LEMMA LoadFailsStep ==
    ASSUME StartupInv, NEW w \in Workers, mesh[w].at = "loading", UNCHANGED joins,
           NEW session \in Sessions, loadFails(w, nextModel(w), session)
    PROVE  StartupInv'
<1> DEFINE m == mesh[w]
           k == m.selected[Done(m) + 1]
           n == mesh'[w]
           phases == IF chooseProvider(k) = NoProvider THEN {"failed"} ELSE {"started", "failed"}
           place == CASE m.config.mode = "exact" -> "rejected"
                      [] m.config.mode = "up-to" /\ isLast(w) -> "ready"
                      [] OTHER -> "loading"
<1>1. m \in MeshRecord /\ LoaderInv(m) /\ m.at = "loading" /\ mesh \in [Workers -> MeshRecord]
    BY DEF StartupInv
<1>2. nextModel(w) = k /\ (isLast(w) <=> Done(m) + 1 = Len(m.selected))
    BY DEF nextModel, isLast, Done
<1>3. mesh' = [mesh EXCEPT ![w].failed = Append(@, k),
                           ![w].sessions = Append(@, session),
                           ![w].events = @ \cup told(k, phases),
                           ![w].at = place]
    BY <1>2 DEF loadFails
<1>4. /\ k \in Models /\ k \notin ToSet(m.warm) \cup ToSet(m.failed)
      /\ Manifests[k].modelId \in ModelIds
    BY <1>1, NextModel, ModelFields
<1>5. /\ m.config \in Configs /\ m.selected \in Seq(Models)
      /\ m.warm \in Seq(Models) /\ m.failed \in Seq(Models)
      /\ m.events \subseteq ModelIds \X {"started", "failed", "warm"}
      /\ m.sessions \in Seq(Sessions)
    BY <1>1 DEF MeshRecord
<1>6. /\ m.config.mode = "exact" => place = "rejected"
      /\ place = "ready" => isLast(w)
      /\ place = "loading" => ~isLast(w)
      /\ place \in {"rejected", "ready", "loading"}
    BY <1>5, ConfigFields
<1>7. "failed" \in phases /\ phases \subseteq {"started", "failed"}
    OBVIOUS
<1> HIDE DEF k, place, phases
<1>8. /\ n.config = m.config /\ n.selected = m.selected /\ n.warm = m.warm
      /\ n.failed = Append(m.failed, k)
      /\ n.events = m.events \cup told(k, phases)
      /\ n.sessions = Append(m.sessions, session)
      /\ n.at = place
      /\ mesh' = [mesh EXCEPT ![w] = n]
      /\ n = [at |-> n.at, config |-> n.config, selected |-> n.selected, warm |-> n.warm,
              failed |-> n.failed, events |-> n.events, sessions |-> n.sessions]
    BY <1>1, <1>3 DEF MeshRecord
<1> HIDE DEF n
<1>9. n.failed \in Seq(Models) /\ ToSet(n.failed) = ToSet(m.failed) \cup {k}
    BY <1>4, <1>5, <1>8, ToSetAppend
<1>10. n \in MeshRecord
    <2>1. n.events \subseteq ModelIds \X {"started", "failed", "warm"}
        BY <1>4, <1>5, <1>7, <1>8 DEF told
    <2>2. n.sessions \in Seq(Sessions)
        BY <1>5, <1>8
    <2> QED
        BY <1>5, <1>6, <1>8, <1>9, <2>1, <2>2 DEF MeshRecord
<1>11. SelectedByConfig(n) /\ Progress(n) /\ Done(n) = Done(m) + 1
    BY <1>1, <1>2, <1>6, <1>8, <1>10, ProgressStep DEF k
<1>12. Told(n)
    <2>1. Told(m)
        BY <1>1 DEF LoaderInv
    <2>2. \A id : <<id, "failed">> \in n.events <=> <<id, "failed">> \in m.events \/ id = Manifests[k].modelId
        BY <1>7, <1>8 DEF told
    <2>3. \A id : <<id, "warm">> \in n.events <=> <<id, "warm">> \in m.events
        BY <1>7, <1>8 DEF told
    <2> QED
        BY <1>8, <1>9, <2>1, <2>2, <2>3 DEF Told
<1>13. ExactSoFar(n)
    BY <1>6, <1>8 DEF ExactSoFar
<1>14. Tested(n)
    <2>1. Passed(n, k, session)
        BY <1>4, <1>8 DEF Passed
    <2> QED
        BY <1>1, <1>8, <1>10, <1>11, <2>1, TestedStep DEF k
<1> QED
    BY <1>1, <1>8, <1>10, <1>11, <1>12, <1>13, <1>14 DEF StartupInv, LoaderInv

LEMMA StartupPreserved ==
    ASSUME StartupInv, NEW w \in Workers, StartupStep(w)
    PROVE  StartupInv'
<1>1. CASE \E cfg \in Configs : join(w, cfg)
    BY <1>1, JoinStep
<1>2. CASE loadOneModelWithFallback(w)
    BY <1>2, LoadSucceedsStep, LoadFailsStep DEF loadOneModelWithFallback
<1> QED
    BY <1>1, <1>2 DEF StartupStep

LEMMA StartupInvVerdict ==
    ASSUME StartupInv
    PROVE  StartupTypeOK /\ StartupVerdict
<1>1. StartupTypeOK
    <2>1. ASSUME NEW w \in Workers
          PROVE  /\ mesh[w].at \in {"new", "loading", "ready", "rejected"}
                 /\ mesh[w].config \in Configs
                 /\ mesh[w].selected \in Seq(Models) /\ mesh[w].warm \in Seq(Models)
                 /\ mesh[w].failed \in Seq(Models)
                 /\ mesh[w].events \subseteq ModelIds \X {"started", "failed", "warm"}
                 /\ mesh[w].sessions \in Seq(Sessions)
        <3>1. mesh[w] \in MeshRecord
            BY DEF StartupInv
        <3> QED
            BY <3>1 DEF MeshRecord
    <2> QED
        BY <2>1 DEF StartupInv, StartupTypeOK
<1>2. ASSUME NEW w \in Workers
      PROVE  LET m == mesh[w]
                 onRecord(phase) == {id \in ModelIds : <<id, phase>> \in m.events}
                 idsOf(models) == {Manifests[k].modelId : k \in ToSet(models)}
             IN /\ m.at = "ready" =>
                     /\ ToSet(m.selected) = ToSet(m.warm) \cup ToSet(m.failed)
                     /\ Len(m.selected) = Len(m.warm) + Len(m.failed)
                     /\ m.config.mode = "exact" => Len(m.warm) = m.config.count
                /\ ToSet(m.warm) \cap ToSet(m.failed) = {}
                /\ onRecord("warm") = idsOf(m.warm) /\ onRecord("failed") = idsOf(m.failed)
                /\ \A n \in DOMAIN m.sessions :
                      LET k == m.selected[n]
                      IN k \in ToSet(m.warm) =>
                            /\ m.sessions[n] # "none"
                            /\ Manifests[k].hasTestVectors => m.sessions[n] # "wrong"
                            /\ m.config.requireTestVector => Manifests[k].hasTestVectors
    <2> DEFINE m == mesh[w]
    <2>1. /\ m.selected \in Seq(Models) /\ m.warm \in Seq(Models) /\ m.failed \in Seq(Models)
          /\ m.sessions \in Seq(Sessions)
          /\ Progress(m) /\ Told(m) /\ Tested(m) /\ ExactSoFar(m)
        <3>1. m \in MeshRecord /\ LoaderInv(m)
            BY DEF StartupInv
        <3> HIDE DEF m
        <3> QED
            BY <3>1 DEF MeshRecord, LoaderInv
    <2> HIDE DEF m
    <2>2. \A s \in Seq(Models) : ToSet(s) = {s[i] : i \in 1..Len(s)} /\ ToSet(s) \subseteq Models
        BY DEF ToSet
    <2>3. ASSUME m.at = "ready"
          PROVE  /\ ToSet(m.selected) = ToSet(m.warm) \cup ToSet(m.failed)
                 /\ Len(m.selected) = Len(m.warm) + Len(m.failed)
                 /\ m.config.mode = "exact" => Len(m.warm) = m.config.count
        <3>1. Done(m) = Len(m.selected)
            BY <2>1, <2>3 DEF Progress
        <3>2. ToSet(m.selected) = ToSet(m.warm) \cup ToSet(m.failed)
            BY <2>1, <2>2, <3>1 DEF Progress
        <3>3. ASSUME m.config.mode = "exact" PROVE Len(m.warm) = m.config.count
            <4>1. m.failed = <<>> /\ Len(m.selected) = m.config.count
                BY <2>1, <2>3, <3>3 DEF ExactSoFar
            <4>2. Len(m.failed) = 0 /\ Len(m.warm) \in Nat
                BY <2>1, <4>1
            <4>3. \A i \in Nat : i + 0 = i
                OBVIOUS
            <4> QED
                BY <3>1, <4>1, <4>2, <4>3, Zenon DEF Done
        <3> QED
            BY <3>1, <3>2, <3>3 DEF Done
    <2>4. /\ {id \in ModelIds : <<id, "warm">> \in m.events} = {Manifests[k].modelId : k \in ToSet(m.warm)}
          /\ {id \in ModelIds : <<id, "failed">> \in m.events} = {Manifests[k].modelId : k \in ToSet(m.failed)}
        <3>1. \A k \in ToSet(m.warm) \cup ToSet(m.failed) : Manifests[k].modelId \in ModelIds
            BY <2>1, <2>2, ModelFields
        <3>2. \A id \in ModelIds :
                /\ <<id, "warm">> \in m.events <=> id \in {Manifests[k].modelId : k \in ToSet(m.warm)}
                /\ <<id, "failed">> \in m.events <=> id \in {Manifests[k].modelId : k \in ToSet(m.failed)}
            BY <2>1, Zenon DEF Told
        <3>3. /\ {Manifests[k].modelId : k \in ToSet(m.warm)} \subseteq ModelIds
              /\ {Manifests[k].modelId : k \in ToSet(m.failed)} \subseteq ModelIds
            BY <3>1, Zenon
        <3> QED
            BY <3>2, <3>3, Zenon
    <2>5. ToSet(m.warm) \cap ToSet(m.failed) = {}
        BY <2>1 DEF Progress
    <2>6. DOMAIN m.sessions = 1..Done(m) /\ \A i \in 1..Done(m) : Passed(m, m.selected[i], m.sessions[i])
        BY <2>1 DEF Tested
    <2> QED
        BY <2>3, <2>4, <2>5, <2>6 DEF m, Passed
<1> QED
    BY <1>1, <1>2 DEF StartupVerdict

LEMMA StartupInvBest ==
    ASSUME StartupInv
    PROVE  SelectionIsBest
<1>1. ASSUME NEW w \in Workers, mesh[w].selected # <<>>
      PROVE  Best(mesh[w].config, mesh[w].selected)
    <2>1. mesh[w].config \in Configs /\ SelectedByConfig(mesh[w])
        BY DEF StartupInv, MeshRecord, LoaderInv
    <2>2. mesh[w].selected = select(mesh[w].config)
        BY <1>1, <2>1 DEF SelectedByConfig
    <2> QED
        BY <2>1, <2>2, SelectIsBest
<1> QED
    BY <1>1 DEF SelectionIsBest, Best, LeftOut, Tight

-------------------------------------------------------------------------------
(* What the two entries of the ledger hold while a caller is where it is.    *)
FailedAbove(failed, mode) ==
    /\ failed # None <=> mode > 1
    /\ failed # None => failed.mode \in 1..(mode - 1)

Outcome(call, opened, failed) ==
    /\ call = Idle => opened = None /\ failed = None
    /\ call # Idle =>
         /\ call.at \in {"selected", "routed"} => opened = None /\ failed = None
         /\ call.at \in {"trying", "opened", "modeFailed"} =>
                call.mode >= 1 /\ opened = None /\ FailedAbove(failed, call.mode)
         /\ call.at = "unreachable" => opened = None /\ failed # None
         /\ call.at = "linked" =>
                /\ opened # None /\ opened.mode = call.mode
                /\ FailedAbove(failed, call.mode)
         /\ call.at = "closed" => opened = None /\ failed # None

(* The summary is what one announcement of the room says, and no other of    *)
(* the room has been made since.                                             *)
SummaryAnnounced(r) ==
    rooms[r] # None =>
        \E a \in Announcements :
            /\ a.room = r /\ isMade(a)
            /\ rooms[r].trust = a.trust /\ rooms[r].warmModels = a.warmModels
            /\ rooms[r].expiresAt <= announced[a] + a.ttlMs
            /\ \A b \in Announcements : b.room = r /\ isMade(b) => announced[b] <= announced[a]

(* A caller has its route from an announcement, and it lasts no longer than  *)
(* a route after any that was made since.                                    *)
RouteFrom(call, a) ==
    /\ a.room = call.room /\ isMade(a)
    /\ a.trust >= call.request.trust
    /\ call.request.modelId \in a.warmModels \cup {AnyModel}
    /\ call.expiresAt <= announced[a] + a.ttlMs + routeTtl
    /\ \A b \in Announcements :
         b.room = a.room /\ isMade(b) /\ announced[b] > announced[a] =>
             call.expiresAt <= announced[b] + routeTtl

RouteAnnounced(call) ==
    call # Idle /\ call.at \in {"selected", "routed"} =>
        /\ call.room # parentRoom
        /\ call.expiresAt <= clock + routeTtl
        /\ \E a \in Announcements : RouteFrom(call, a)

HostInv ==
    /\ Host!HostTypeOK
    /\ announced \in [Announcements -> Nat \cup {None}]
    /\ \A a \in Announcements : isMade(a) => announced[a] <= clock
    /\ \A c \in Callers : Outcome(calls[c], ledger[<<c, "opened">>], ledger[<<c, "failed">>])
    /\ \A r \in Rooms : SummaryAnnounced(r)
    /\ \A c \in Callers : RouteAnnounced(calls[c])

FabricInv == StartupInv /\ HostInv

LEMMA HostTypes ==
    ASSUME HostInv
    PROVE  /\ clock \in 0..MaxClock /\ clock \in Nat /\ MaxClock \in Nat
           /\ rooms \in [Rooms -> Host!Summary \cup {None}]
           /\ calls \in [Callers -> Host!Call \cup {Idle}]
           /\ ledger \in [Callers \X Host!Phases -> Host!Event \cup {None}]
           /\ None \notin Host!Event /\ None \notin Host!Summary /\ None \notin Nat /\ Idle \notin Host!Call
           /\ routeTtl \in Nat
BY FabricAssumption, NoneAssumption, ClockAssumption DEF HostInv, Host!HostTypeOK

LEMMA AnnouncementFields ==
    ASSUME NEW a \in Announcements
    PROVE  /\ a.room \in Rooms /\ a.warmModels \subseteq ModelIds /\ a.trust \in Trusts
           /\ a.cost \in Costs /\ a.ttlMs \in Nat
BY FabricAssumption DEF Announcement

LEMMA FabricInitial ==
    ASSUME Init
    PROVE  FabricInv
<1>1. StartupInv
    BY StartupInitial DEF Init
<1>2. /\ clock = 0 /\ rooms = [r \in Rooms |-> None] /\ calls = [c \in Callers |-> Idle]
      /\ ledger = [k \in Callers \X Host!Phases |-> None]
      /\ announced = [a \in Announcements |-> None]
    BY DEF Init, Host!HostInit, Host!Phases
<1>3. Host!HostTypeOK
    BY <1>2, ClockAssumption DEF Host!HostTypeOK
<1>4. \A c \in Callers : ledger[<<c, "opened">>] = None /\ ledger[<<c, "failed">>] = None
    BY <1>2 DEF Host!Phases
<1>5. \A c \in Callers : Outcome(calls[c], ledger[<<c, "opened">>], ledger[<<c, "failed">>])
    BY <1>2, <1>4 DEF Outcome
<1>6. \A r \in Rooms : SummaryAnnounced(r)
    BY <1>2 DEF SummaryAnnounced
<1>7. \A c \in Callers : RouteAnnounced(calls[c])
    BY <1>2 DEF RouteAnnounced
<1>8. \A a \in Announcements : ~isMade(a)
    BY <1>2 DEF isMade
<1> QED
    BY <1>1, <1>2, <1>3, <1>5, <1>6, <1>7, <1>8 DEF FabricInv, HostInv

-------------------------------------------------------------------------------
(* While the announcements stand, so does what a caller's route rests on.    *)
LEMMA RouteStands ==
    ASSUME HostInv, UNCHANGED announced, clock' \in {clock, clock + 1}, NEW call,
           call # Idle => call \in Host!Call, RouteAnnounced(call)
    PROVE  RouteAnnounced(call)'
<1>1. clock \in Nat /\ routeTtl \in Nat
    BY HostTypes
<1>2. call # Idle => call.expiresAt \in Nat
    BY DEF Host!Call
<1>3. \A a \in Announcements : RouteFrom(call, a) => RouteFrom(call, a)'
    BY DEF RouteFrom, isMade
<1>4. call.expiresAt \in Nat /\ call.expiresAt <= clock + routeTtl => call.expiresAt <= clock' + routeTtl
    BY <1>1
<1> QED
    BY <1>2, <1>3, <1>4 DEF RouteAnnounced

LEMMA SummaryStands ==
    ASSUME NEW r \in Rooms, SummaryAnnounced(r), UNCHANGED announced,
           rooms'[r] = rooms[r] \/ rooms'[r] = None
    PROVE  SummaryAnnounced(r)'
BY DEF SummaryAnnounced, isMade

LEMMA TickStep ==
    ASSUME FabricInv, Tick
    PROVE  FabricInv'
<1>1. /\ clock < MaxClock /\ clock' = clock + 1
      /\ UNCHANGED <<rooms, calls, ledger, joins, mesh, announced>>
    BY DEF Tick, Host!HostTick, Host!hostVars, startupVars
<1>2. HostInv /\ StartupInv
    BY DEF FabricInv
<1>3. StartupInv'
    BY <1>1, <1>2 DEF StartupInv
<1>4. Host!HostTypeOK'
    BY <1>1, <1>2, HostTypes DEF Host!HostTypeOK
<1>5. clock \in Nat /\ routeTtl \in Nat
    BY <1>2, HostTypes
<1>6. ASSUME NEW r \in Rooms PROVE SummaryAnnounced(r)'
    <2>1. SummaryAnnounced(r)
        BY <1>2 DEF HostInv
    <2> QED
        BY <1>1, <2>1, SummaryStands
<1>7. ASSUME NEW c \in Callers PROVE RouteAnnounced(calls[c])'
    <2>1. PICK call : call = calls[c] /\ call = calls'[c]
        BY <1>1
    <2>2. RouteAnnounced(call) /\ (call # Idle => call \in Host!Call)
        BY <1>2, <2>1, HostTypes DEF HostInv
    <2>3. RouteAnnounced(call)'
        BY <1>1, <1>2, <2>2, RouteStands
    <2> QED
        BY <2>1, <2>3 DEF RouteAnnounced, RouteFrom, isMade
<1>8. ASSUME NEW a \in Announcements, isMade(a)' PROVE announced'[a] <= clock'
    <2>1. announced[a] \in Nat /\ announced[a] <= clock
        BY <1>1, <1>2, <1>8 DEF HostInv, isMade
    <2> QED
        BY <1>1, <1>5, <2>1
<1> QED
    BY <1>1, <1>2, <1>3, <1>4, <1>6, <1>7, <1>8 DEF FabricInv, HostInv, isMade

LEMMA StartupStepInv ==
    ASSUME FabricInv, NEW w \in Workers, startup(w)
    PROVE  FabricInv'
<1>1. StartupInv /\ HostInv /\ StartupInv'
    BY StartupPreserved DEF FabricInv, startup
<1>2. UNCHANGED <<clock, rooms, calls, ledger, announced>>
    BY DEF startup
<1>3. HostInv'
    BY <1>1, <1>2 DEF HostInv, Host!HostTypeOK, SummaryAnnounced, RouteAnnounced, RouteFrom, isMade
<1> QED
    BY <1>1, <1>3 DEF FabricInv

(* The table gets a summary of a room, and nothing else changes.             *)
LEMMA AnnounceStep ==
    ASSUME FabricInv, NEW a \in Announcements, announce(a)
    PROVE  FabricInv'
<1> DEFINE new == [warmModels |-> a.warmModels, trust |-> a.trust, cost |-> a.cost,
                   expiresAt |-> clock + a.ttlMs]
<1>1. StartupInv /\ HostInv
    BY DEF FabricInv
<1>2. /\ rooms' = [rooms EXCEPT ![a.room] = new] /\ announced' = [announced EXCEPT ![a] = clock]
      /\ UNCHANGED <<clock, joins, mesh, calls, ledger>>
    BY DEF announce, Host!upsertSummary, startupVars
<1>3. clock \in Nat /\ routeTtl \in Nat /\ None \notin Nat
    BY <1>1, HostTypes
<1>4. new \in Host!Summary
    <2>1. clock + a.ttlMs \in Nat
        BY <1>3, AnnouncementFields
    <2> QED
        BY <2>1, AnnouncementFields DEF Host!Summary
<1>5. /\ new.trust = a.trust /\ new.warmModels = a.warmModels /\ new.expiresAt = clock + a.ttlMs
    OBVIOUS
<1> HIDE DEF new
<1>6. StartupInv'
    BY <1>1, <1>2 DEF StartupInv
<1>7. Host!HostTypeOK'
    BY <1>1, <1>2, <1>4 DEF HostInv, Host!HostTypeOK
<1>8. /\ announced' \in [Announcements -> Nat \cup {None}]
      /\ announced'[a] = clock /\ isMade(a)'
      /\ \A b \in Announcements : b # a => announced'[b] = announced[b] /\ (isMade(b)' <=> isMade(b))
    BY <1>1, <1>2, <1>3 DEF HostInv, isMade
<1>9. \A b \in Announcements : isMade(b) => announced[b] \in Nat /\ announced[b] <= clock
    BY <1>1 DEF HostInv, isMade
<1>10. ASSUME NEW b \in Announcements, isMade(b)'
       PROVE  announced'[b] <= clock'
    <2>1. clock <= clock
        BY <1>3
    <2> QED
        BY <1>2, <1>8, <1>9, <1>10, <2>1
<1>11. ASSUME NEW r \in Rooms PROVE SummaryAnnounced(r)'
    <2>1. CASE r = a.room
        <3>1. rooms'[r] = new
            BY <1>1, <1>2, <2>1, HostTypes
        <3>2. clock + a.ttlMs <= clock + a.ttlMs
            BY <1>3, AnnouncementFields
        <3>3. \A b \in Announcements : b.room = r /\ isMade(b)' => announced'[b] <= announced'[a]
            BY <1>2, <1>8, <1>10
        <3> QED
            BY <1>5, <1>8, <2>1, <3>1, <3>2, <3>3 DEF SummaryAnnounced, isMade
    <2>2. CASE r # a.room
        <3>1. rooms'[r] = rooms[r] /\ SummaryAnnounced(r)
            BY <1>1, <1>2, <2>2, HostTypes DEF HostInv
        <3>2. \A b \in Announcements : b.room = r => announced'[b] = announced[b]
            BY <1>8, <2>2
        <3> QED
            BY <3>1, <3>2 DEF SummaryAnnounced, isMade
    <2> QED
        BY <2>1, <2>2
<1>12. ASSUME NEW c \in Callers PROVE RouteAnnounced(calls[c])'
    <2>1. PICK call : call = calls[c] /\ call = calls'[c]
        BY <1>2
    <2>2. RouteAnnounced(call) /\ (call # Idle => call \in Host!Call)
        BY <1>1, <2>1, HostTypes DEF HostInv
    <2>3. ASSUME call # Idle, call.at \in {"selected", "routed"}, NEW x \in Announcements, RouteFrom(call, x)
          PROVE  RouteFrom(call, x)'
        <3>1. call.expiresAt \in Nat /\ call.expiresAt <= clock + routeTtl
            BY <2>2, <2>3 DEF RouteAnnounced, Host!Call
        <3>2. /\ announced[x] \in Nat /\ announced[x] <= clock /\ x.ttlMs \in Nat
              /\ call.expiresAt <= announced[x] + x.ttlMs + routeTtl
            BY <1>9, <2>3, AnnouncementFields DEF RouteFrom
        <3>3. announced'[x] \in Nat /\ announced[x] <= announced'[x] /\ isMade(x)'
            BY <1>3, <1>8, <2>3, <3>2 DEF RouteFrom
        <3>4. call.expiresAt <= announced'[x] + x.ttlMs + routeTtl
            BY <1>3, <3>1, <3>2, <3>3
        <3>5. ASSUME NEW b \in Announcements, b.room = x.room, isMade(b)', announced'[b] > announced'[x]
              PROVE  call.expiresAt <= announced'[b] + routeTtl
            <4>1. CASE b = a
                BY <1>8, <3>1, <4>1
            <4>2. CASE b # a
                <5>1. announced'[b] = announced[b] /\ isMade(b) /\ announced[b] \in Nat
                    BY <1>8, <1>9, <3>5, <4>2
                <5>2. announced[b] > announced[x]
                    BY <3>2, <3>3, <3>5, <5>1
                <5> QED
                    BY <2>3, <3>5, <5>1, <5>2 DEF RouteFrom
            <4> QED
                BY <4>1, <4>2
        <3> QED
            BY <2>3, <3>3, <3>4, <3>5 DEF RouteFrom
    <2>4. RouteAnnounced(call)'
        BY <1>2, <2>2, <2>3 DEF RouteAnnounced
    <2> QED
        BY <2>1, <2>4 DEF RouteAnnounced, RouteFrom, isMade
<1> QED
    BY <1>1, <1>2, <1>6, <1>7, <1>8, <1>10, <1>11, <1>12 DEF FabricInv, HostInv, isMade

-------------------------------------------------------------------------------
(* A caller moves on: it keeps its request, its route and what the route     *)
(* promises, and the ledger may get an event of its trace.                   *)
Moved(call, place, mode, signedAt) ==
    [at |-> place, request |-> call.request, room |-> call.room,
     expiresAt |-> call.expiresAt, mode |-> mode, signedAt |-> signedAt]

Places == {"selected", "routed", "trying", "opened", "modeFailed", "unreachable", "linked", "closed"}

LEMMA CallMoves ==
    ASSUME FabricInv, UNCHANGED <<clock, rooms, startupVars, announced>>,
           NEW c \in Callers, calls[c] # Idle,
           NEW place \in Places, NEW mode \in 0..Len(Ladder), NEW signedAt \in Nat,
           calls' = [calls EXCEPT ![c] = Moved(calls[c], place, mode, signedAt)],
           place \in {"selected", "routed"} => calls[c].at \in {"selected", "routed"},
           ledger' \in [Callers \X Host!Phases -> Host!Event \cup {None}],
           \A d \in Callers, phase \in Host!Phases :
               d # c => ledger'[<<d, phase>>] = ledger[<<d, phase>>],
           Outcome(Moved(calls[c], place, mode, signedAt),
                   ledger'[<<c, "opened">>], ledger'[<<c, "failed">>])
    PROVE  FabricInv'
<1> DEFINE new == Moved(calls[c], place, mode, signedAt)
<1>1. StartupInv /\ HostInv /\ UNCHANGED <<clock, rooms, joins, mesh, announced>>
    BY DEF FabricInv, startupVars
<1>2. calls[c] \in Host!Call /\ calls \in [Callers -> Host!Call \cup {Idle}]
    BY <1>1, HostTypes
<1>3. new \in Host!Call /\ new # Idle
    <2>1. new \in Host!Call
        BY <1>2 DEF Moved, Host!Call, Places
    <2> QED
        BY <2>1, NoneAssumption
<1>4. /\ new.at = place /\ new.request = calls[c].request /\ new.room = calls[c].room
      /\ new.expiresAt = calls[c].expiresAt
    BY DEF Moved
<1> HIDE DEF new
<1>5. /\ calls' \in [Callers -> Host!Call \cup {Idle}] /\ calls'[c] = new
      /\ \A d \in Callers : d # c => calls'[d] = calls[d]
    BY <1>2, <1>3 DEF new
<1>6. StartupInv'
    BY <1>1 DEF StartupInv
<1>7. Host!HostTypeOK'
    BY <1>1, <1>5 DEF HostInv, Host!HostTypeOK
<1>8. ASSUME NEW d \in Callers
      PROVE  Outcome(calls'[d], ledger'[<<d, "opened">>], ledger'[<<d, "failed">>])
    <2>1. CASE d = c
        BY <1>5, <2>1 DEF new
    <2>2. CASE d # c
        BY <1>1, <1>5, <2>2 DEF HostInv, Host!Phases
    <2> QED
        BY <2>1, <2>2
<1>9. ASSUME NEW r \in Rooms PROVE SummaryAnnounced(r)'
    <2>1. SummaryAnnounced(r)
        BY <1>1 DEF HostInv
    <2> QED
        BY <1>1, <2>1, SummaryStands
<1>10. ASSUME NEW d \in Callers PROVE RouteAnnounced(calls[d])'
    <2>1. RouteAnnounced(calls[d])
        BY <1>1 DEF HostInv
    <2>2. CASE d = c
        BY <1>1, <1>2, <1>3, <1>4, <1>5, <2>1, <2>2 DEF RouteAnnounced, RouteFrom, isMade
    <2>3. CASE d # c
        BY <1>1, <1>5, <2>1, <2>3 DEF RouteAnnounced, RouteFrom, isMade
    <2> QED
        BY <2>2, <2>3
<1> QED
    BY <1>1, <1>6, <1>7, <1>8, <1>9, <1>10 DEF FabricInv, HostInv, isMade

(* A caller takes up a call or gives it up with its trace empty.             *)
LEMMA FindRouteStep ==
    ASSUME FabricInv, NEW c \in Callers, NEW request \in Requests, Host!findRoute(c, request),
           UNCHANGED <<startupVars, announced>>
    PROVE  FabricInv'
<1>1. /\ StartupInv /\ HostInv /\ UNCHANGED <<clock, ledger, joins, mesh, announced>>
      /\ calls[c] = Idle /\ rooms' = Host!listFresh
    BY DEF FabricInv, Host!findRoute, startupVars
<1>2. StartupInv'
    BY <1>1 DEF StartupInv
<1>3. /\ \A r \in Rooms : rooms'[r] = None \/ (rooms'[r] = rooms[r] /\ ~(rooms[r].expiresAt < clock))
      /\ rooms' \in [Rooms -> Host!Summary \cup {None}]
    BY <1>1, HostTypes DEF Host!listFresh
<1>4. ASSUME NEW r \in Rooms PROVE SummaryAnnounced(r)'
    <2>1. SummaryAnnounced(r)
        BY <1>1 DEF HostInv
    <2> QED
        BY <1>1, <1>3, <2>1, SummaryStands
<1>5. request \in Host!Request
    BY FabricAssumption
<1>6. CASE UNCHANGED calls
    <2>1. Host!HostTypeOK'
        BY <1>1, <1>3, <1>6 DEF HostInv, Host!HostTypeOK
    <2>2. ASSUME NEW d \in Callers PROVE RouteAnnounced(calls[d])'
        <3>1. RouteAnnounced(calls[d])
            BY <1>1 DEF HostInv
        <3> QED
            BY <1>1, <1>6, <3>1 DEF RouteAnnounced, RouteFrom, isMade
    <2> QED
        BY <1>1, <1>2, <1>4, <1>6, <2>1, <2>2 DEF FabricInv, HostInv, isMade
<1>7. ASSUME NEW r \in Host!selectBestRouteSummary(request), Host!validateRoutePath(r),
             calls' = [calls EXCEPT ![c] =
               [at |-> "selected", request |-> request, room |-> r,
                expiresAt |-> clock + routeTtl, mode |-> 0, signedAt |-> 0]]
      PROVE  FabricInv'
    <2> DEFINE new == [at |-> "selected", request |-> request, room |-> r,
                       expiresAt |-> clock + routeTtl, mode |-> 0, signedAt |-> 0]
               held == rooms[r]
               m == request.modelId
    <2>1. /\ r \in Rooms /\ r # parentRoom
          /\ Host!listFresh[r] # None
          /\ m = AnyModel \/ m \in Host!listFresh[r].warmModels
          /\ Host!listFresh[r].trust >= request.trust
        BY <1>7 DEF Host!selectBestRouteSummary, Host!findCandidates, Host!validateRoutePath
    <2>2. /\ held # None /\ held \in Host!Summary /\ ~(held.expiresAt < clock)
          /\ m = AnyModel \/ m \in held.warmModels
          /\ held.trust >= request.trust
        BY <1>1, <1>3, <2>1, HostTypes
    <2>3. held.expiresAt \in Nat
        BY <2>2 DEF Host!Summary
    <2>4. new \in Host!Call /\ new # Idle
        <3>1. /\ clock + routeTtl \in Nat /\ 0 \in 0..Len(Ladder)
            BY <1>1, HostTypes, FabricAssumption
        <3>2. new \in Host!Call
            BY <1>5, <2>1, <3>1 DEF Host!Call
        <3> QED
            BY <3>2, NoneAssumption
    <2>5. /\ new.at = "selected" /\ new.room = r /\ new.request = request
          /\ new.expiresAt = clock + routeTtl
        OBVIOUS
    <2>6. PICK a \in Announcements :
            /\ a.room = r /\ isMade(a)
            /\ held.trust = a.trust /\ held.warmModels = a.warmModels
            /\ held.expiresAt <= announced[a] + a.ttlMs
            /\ \A b \in Announcements : b.room = r /\ isMade(b) => announced[b] <= announced[a]
        BY <1>1, <2>1, <2>2 DEF HostInv, SummaryAnnounced
    <2> HIDE DEF new
    <2>7. calls' \in [Callers -> Host!Call \cup {Idle}] /\ calls'[c] = new
          /\ \A d \in Callers : d # c => calls'[d] = calls[d]
        BY <1>1, <1>7, <2>4, HostTypes DEF new
    <2>8. Host!HostTypeOK'
        BY <1>1, <1>3, <2>7 DEF HostInv, Host!HostTypeOK
    <2>9. ASSUME NEW d \in Callers
          PROVE  Outcome(calls'[d], ledger'[<<d, "opened">>], ledger'[<<d, "failed">>])
        <3>1. Outcome(calls[d], ledger[<<d, "opened">>], ledger[<<d, "failed">>])
            BY <1>1 DEF HostInv
        <3>2. CASE d = c
            BY <1>1, <2>4, <2>5, <2>7, <3>1, <3>2 DEF Outcome
        <3>3. CASE d # c
            BY <1>1, <2>7, <3>1, <3>3
        <3> QED
            BY <3>2, <3>3
    <2>10. RouteFrom(new, a)
        <3>1. clock \in Nat /\ routeTtl \in Nat /\ held.expiresAt >= clock
            BY <1>1, <2>2, <2>3, HostTypes
        <3>2. /\ \A b \in Announcements : isMade(b) => announced[b] \in Nat
              /\ a.ttlMs \in Nat
            BY <1>1, AnnouncementFields DEF HostInv, isMade
        <3>3. clock + routeTtl <= announced[a] + a.ttlMs + routeTtl
            BY <2>3, <2>6, <3>1, <3>2
        <3>4. ~\E b \in Announcements : b.room = r /\ isMade(b) /\ announced[b] > announced[a]
            BY <2>6, <3>2
        <3> QED
            BY <2>2, <2>5, <2>6, <3>3, <3>4 DEF RouteFrom
    <2>11. ASSUME NEW d \in Callers PROVE RouteAnnounced(calls[d])'
        <3>1. RouteAnnounced(calls[d])
            BY <1>1 DEF HostInv
        <3>2. CASE d = c
            <4>1. PICK call : call = new
                OBVIOUS
            <4>2. clock + routeTtl <= clock + routeTtl
                BY <1>1, HostTypes
            <4>3. RouteAnnounced(call)
                BY <2>1, <2>5, <2>10, <4>1, <4>2 DEF RouteAnnounced
            <4>4. RouteAnnounced(call)'
                BY <1>1, <4>3 DEF RouteAnnounced, RouteFrom, isMade
            <4> QED
                BY <2>7, <3>2, <4>1, <4>4 DEF RouteAnnounced, RouteFrom, isMade
        <3>3. CASE d # c
            BY <1>1, <2>7, <3>1, <3>3 DEF RouteAnnounced, RouteFrom, isMade
        <3> QED
            BY <3>2, <3>3
    <2> QED
        BY <1>1, <1>2, <1>4, <2>8, <2>9, <2>11 DEF FabricInv, HostInv, isMade
<1> QED
    BY <1>6, <1>7 DEF Host!findRoute

LEMMA MovedCall ==
    ASSUME NEW call \in Host!Call, NEW place \in Places, NEW mode \in 0..Len(Ladder), NEW signedAt \in Nat
    PROVE  Moved(call, place, mode, signedAt) # Idle
<1>1. Moved(call, place, mode, signedAt) \in Host!Call
    BY DEF Moved, Host!Call, Places
<1> QED
    BY <1>1, NoneAssumption

(* The four ways in which the host layer writes a caller's record.           *)
SetAt(c, place) == [calls EXCEPT ![c].at = place]
SetMode(c, place, mode) == [calls EXCEPT ![c].at = place, ![c].mode = mode]
SetSigned(c, place, signedAt) == [calls EXCEPT ![c].at = place, ![c].signedAt = signedAt]
SetAll(c, place, mode, signedAt) ==
    [calls EXCEPT ![c].at = place, ![c].mode = mode, ![c].signedAt = signedAt]

LEMMA CallerMoved ==
    ASSUME HostInv, NEW c \in Callers, calls[c] # Idle, NEW place, NEW mode, NEW signedAt
    PROVE  /\ SetAt(c, place) =
                [calls EXCEPT ![c] = Moved(calls[c], place, calls[c].mode, calls[c].signedAt)]
           /\ SetMode(c, place, mode) =
                [calls EXCEPT ![c] = Moved(calls[c], place, mode, calls[c].signedAt)]
           /\ SetSigned(c, place, signedAt) =
                [calls EXCEPT ![c] = Moved(calls[c], place, calls[c].mode, signedAt)]
           /\ SetAll(c, place, mode, signedAt) =
                [calls EXCEPT ![c] = Moved(calls[c], place, mode, signedAt)]
<1>1. calls[c] \in Host!Call /\ calls \in [Callers -> Host!Call \cup {Idle}]
    BY HostTypes
<1> DEFINE call == calls[c]
           one == [call EXCEPT !.at = place]
           two == [one EXCEPT !.mode = mode]
           three == [one EXCEPT !.signedAt = signedAt]
           four == [two EXCEPT !.signedAt = signedAt]
<1>2. /\ SetAt(c, place) = [calls EXCEPT ![c] = one]
      /\ SetMode(c, place, mode) = [calls EXCEPT ![c] = two]
      /\ SetSigned(c, place, signedAt) = [calls EXCEPT ![c] = three]
      /\ SetAll(c, place, mode, signedAt) = [calls EXCEPT ![c] = four]
    BY <1>1 DEF SetAt, SetMode, SetSigned, SetAll
<1>3. call = [at |-> call.at, request |-> call.request, room |-> call.room,
              expiresAt |-> call.expiresAt, mode |-> call.mode, signedAt |-> call.signedAt]
    BY <1>1 DEF Host!Call
<1> HIDE DEF call
<1>4. one = Moved(call, place, call.mode, call.signedAt)
    BY <1>3 DEF Moved
<1> HIDE DEF one
<1>5. two = Moved(call, place, mode, call.signedAt) /\ three = Moved(call, place, call.mode, signedAt)
    BY <1>4 DEF Moved
<1> HIDE DEF two, three
<1>6. four = Moved(call, place, mode, signedAt)
    BY <1>5 DEF Moved
<1> HIDE DEF four
<1> QED
    BY <1>2, <1>4, <1>5, <1>6 DEF call

LEMMA CallerFields ==
    ASSUME HostInv, NEW c \in Callers, calls[c] # Idle
    PROVE  /\ calls[c] \in Host!Call /\ calls[c].at \in Places
           /\ calls[c].mode \in 0..Len(Ladder) /\ calls[c].signedAt \in Nat
           /\ calls[c] = Moved(calls[c], calls[c].at, calls[c].mode, calls[c].signedAt)
           /\ ledger[<<c, "opened">>] \in Host!Event \cup {None}
           /\ ledger[<<c, "failed">>] \in Host!Event \cup {None}
           /\ Outcome(calls[c], ledger[<<c, "opened">>], ledger[<<c, "failed">>])
           /\ Host!event(c) \in Host!Event /\ Host!event(c).mode = calls[c].mode
<1>1. calls[c] \in Host!Call
    BY HostTypes
<1>2. /\ calls[c].at \in Places /\ calls[c].mode \in 0..Len(Ladder) /\ calls[c].signedAt \in Nat
      /\ calls[c] = Moved(calls[c], calls[c].at, calls[c].mode, calls[c].signedAt)
    BY <1>1 DEF Host!Call, Places, Moved
<1>3. /\ ledger[<<c, "opened">>] \in Host!Event \cup {None}
      /\ ledger[<<c, "failed">>] \in Host!Event \cup {None}
    BY HostTypes DEF Host!Phases
<1>4. Outcome(calls[c], ledger[<<c, "opened">>], ledger[<<c, "failed">>])
    BY DEF HostInv
<1>5. Host!event(c) \in Host!Event /\ Host!event(c).mode = calls[c].mode
    BY <1>2 DEF Host!event, Host!Event
<1> QED
    BY <1>1, <1>2, <1>3, <1>4, <1>5

(* What an append leaves in the ledger: the event that was held or the new. *)
LEMMA Recorded ==
    ASSUME HostInv, NEW c \in Callers, NEW phase \in Host!Phases, NEW e \in Host!Event,
           Host!record(c, phase, e)
    PROVE  /\ ledger' \in [Callers \X Host!Phases -> Host!Event \cup {None}]
           /\ ledger'[<<c, phase>>] \in Host!Event
           /\ ledger'[<<c, phase>>] = e \/ (ledger[<<c, phase>>] # None /\ ledger'[<<c, phase>>] = ledger[<<c, phase>>])
           /\ \A d \in Callers, q \in Host!Phases :
                <<d, q>> # <<c, phase>> => ledger'[<<d, q>>] = ledger[<<d, q>>]
<1> DEFINE k == <<c, phase>>
           held == ledger[k]
<1>1. PICK x \in Host!survivors(held, e) : ledger' = [ledger EXCEPT ![k] = x]
    BY DEF Host!record
<1>2. ledger \in [Callers \X Host!Phases -> Host!Event \cup {None}] /\ k \in Callers \X Host!Phases
    BY HostTypes
<1>3. x = e \/ (held # None /\ x = held)
    BY <1>1 DEF Host!survivors
<1>4. x \in Host!Event
    BY <1>2, <1>3
<1> HIDE DEF k
<1>5. /\ ledger' \in [Callers \X Host!Phases -> Host!Event \cup {None}] /\ ledger'[k] = x
      /\ \A j \in Callers \X Host!Phases : j # k => ledger'[j] = ledger[j]
    BY <1>1, <1>2, <1>4
<1> QED
    BY <1>3, <1>4, <1>5 DEF k

LEMMA LedgerKept ==
    ASSUME HostInv, UNCHANGED ledger, NEW c \in Callers
    PROVE  /\ ledger' \in [Callers \X Host!Phases -> Host!Event \cup {None}]
           /\ \A d \in Callers, phase \in Host!Phases :
                d # c => ledger'[<<d, phase>>] = ledger[<<d, phase>>]
BY HostTypes

LEMMA RouteRecordedStep ==
    ASSUME FabricInv, NEW c \in Callers, Host!routeRecorded(c), UNCHANGED <<startupVars, announced>>
    PROVE  FabricInv'
<1>1. /\ HostInv /\ calls[c] # Idle /\ calls[c].at = "selected"
      /\ UNCHANGED <<clock, rooms, ledger, startupVars, announced>>
    BY DEF FabricInv, Host!routeRecorded, Host!at
<1> DEFINE call == calls[c]
           new == Moved(call, "routed", call.mode, call.signedAt)
<1>2. calls' = [calls EXCEPT ![c] = new]
    <2>1. calls' = SetAt(c, "routed")
        BY DEF Host!routeRecorded, Host!move, SetAt
    <2> QED
        BY <1>1, <2>1, CallerMoved
<1>3. Outcome(new, ledger'[<<c, "opened">>], ledger'[<<c, "failed">>])
    BY <1>1, CallerFields, NoneAssumption DEF Outcome, Moved
<1> QED
    BY <1>1, <1>2, <1>3, CallerFields, LedgerKept, CallMoves DEF Places

LEMMA OpenDirectLinkStep ==
    ASSUME FabricInv, NEW c \in Callers, Host!openDirectLink(c), UNCHANGED <<startupVars, announced>>
    PROVE  FabricInv'
<1>1. /\ HostInv /\ calls[c] # Idle /\ calls[c].at = "routed"
      /\ UNCHANGED <<clock, rooms, ledger, startupVars, announced>>
    BY DEF FabricInv, Host!openDirectLink, Host!at
<1> DEFINE call == calls[c]
           new == Moved(call, "trying", 1, call.signedAt)
<1>2. CASE calls' = [calls EXCEPT ![c].at = "trying", ![c].mode = 1]
    <2>1. calls' = [calls EXCEPT ![c] = new]
        <3>1. calls' = SetMode(c, "trying", 1)
            BY <1>2 DEF SetMode
        <3> QED
            BY <1>1, <3>1, CallerMoved
    <2>2. Outcome(new, ledger'[<<c, "opened">>], ledger'[<<c, "failed">>])
        <3>1. ledger[<<c, "opened">>] = None /\ ledger[<<c, "failed">>] = None
            BY <1>1, CallerFields DEF Outcome
        <3>2. new.at = "trying" /\ new.mode = 1
            BY DEF Moved
        <3> HIDE DEF new
        <3> QED
            BY <1>1, <3>1, <3>2 DEF Outcome, FailedAbove
    <2>3. 1 \in 0..Len(Ladder)
        BY FabricAssumption
    <2> QED
        BY <1>1, <2>1, <2>2, <2>3, CallerFields, LedgerKept, CallMoves DEF Places
<1>3. CASE calls' = [calls EXCEPT ![c] = Idle]
    <2>1. /\ calls' \in [Callers -> Host!Call \cup {Idle}] /\ calls'[c] = Idle
          /\ \A d \in Callers : d # c => calls'[d] = calls[d]
        BY <1>1, <1>3, HostTypes
    <2>2. Host!HostTypeOK'
        BY <1>1, <2>1 DEF HostInv, Host!HostTypeOK
    <2>3. ASSUME NEW d \in Callers
          PROVE  Outcome(calls'[d], ledger[<<d, "opened">>], ledger[<<d, "failed">>])
        <3>1. Outcome(calls[d], ledger[<<d, "opened">>], ledger[<<d, "failed">>])
            BY <1>1 DEF HostInv
        <3> QED
            BY <1>1, <2>1, <3>1 DEF Outcome
    <2>4. ASSUME NEW r \in Rooms PROVE SummaryAnnounced(r)'
        <3>1. SummaryAnnounced(r)
            BY <1>1 DEF HostInv
        <3> QED
            BY <1>1, <3>1, SummaryStands
    <2>5. ASSUME NEW d \in Callers PROVE RouteAnnounced(calls[d])'
        <3>1. RouteAnnounced(calls[d])
            BY <1>1 DEF HostInv
        <3> QED
            BY <1>1, <2>1, <3>1 DEF RouteAnnounced, RouteFrom, isMade
    <2>6. StartupInv'
        BY <1>1 DEF FabricInv, StartupInv, startupVars
    <2> QED
        BY <1>1, <2>2, <2>3, <2>4, <2>5, <2>6 DEF FabricInv, HostInv, isMade
<1> QED
    BY <1>2, <1>3 DEF Host!openDirectLink

LEMMA TryModeStep ==
    ASSUME FabricInv, NEW c \in Callers, Host!tryMode(c), UNCHANGED <<startupVars, announced>>
    PROVE  FabricInv'
<1>1. /\ HostInv /\ calls[c] # Idle /\ calls[c].at = "trying"
      /\ UNCHANGED <<clock, rooms, ledger, startupVars, announced>>
    BY DEF FabricInv, Host!tryMode, Host!at
<1>2. PICK place \in {"opened", "modeFailed"} :
          calls' = [calls EXCEPT ![c].at = place, ![c].signedAt = clock]
    BY DEF Host!tryMode, Host!append
<1> DEFINE call == calls[c]
           new == Moved(call, place, call.mode, clock)
<1>3. calls' = [calls EXCEPT ![c] = new]
    <2>1. calls' = SetSigned(c, place, clock)
        BY <1>2 DEF SetSigned
    <2> QED
        BY <1>1, <2>1, CallerMoved
<1>4. Outcome(new, ledger'[<<c, "opened">>], ledger'[<<c, "failed">>])
    <2>1. Outcome(call, ledger[<<c, "opened">>], ledger[<<c, "failed">>])
        BY <1>1, CallerFields
    <2>2. new.at = place /\ new.mode = call.mode /\ new # Idle
        <3>1. place \in Places /\ clock \in Nat /\ call \in Host!Call /\ call.mode \in 0..Len(Ladder)
            BY <1>1, CallerFields, HostTypes DEF Places
        <3>2. new # Idle
            BY <3>1, MovedCall
        <3> QED
            BY <3>2 DEF Moved
    <2> HIDE DEF new
    <2> QED
        BY <1>1, <2>1, <2>2 DEF Outcome
<1>5. place \in Places /\ place \notin {"selected", "routed"} /\ clock \in Nat
    BY <1>1, HostTypes DEF Places
<1> QED
    BY <1>1, <1>3, <1>4, <1>5, CallerFields, LedgerKept, CallMoves

LEMMA OpenedRecordedStep ==
    ASSUME FabricInv, NEW c \in Callers, Host!openedRecorded(c), UNCHANGED <<startupVars, announced>>
    PROVE  FabricInv'
<1> DEFINE call == calls[c]
           new == Moved(call, "linked", call.mode, call.signedAt)
           e == Host!event(c)
<1>1. /\ HostInv /\ call # Idle /\ call.at = "opened" /\ Host!record(c, "opened", e)
      /\ UNCHANGED <<clock, rooms, startupVars, announced>>
    BY DEF FabricInv, Host!openedRecorded, Host!at
<1>2. calls' = [calls EXCEPT ![c] = new]
    <2>1. calls' = SetAt(c, "linked")
        BY DEF Host!openedRecorded, Host!move, SetAt
    <2> QED
        BY <1>1, <2>1, CallerMoved
<1>3. e \in Host!Event /\ e.mode = call.mode /\ "opened" \in Host!Phases /\ "failed" \in Host!Phases
    BY <1>1, CallerFields DEF Host!Phases
<1> HIDE DEF e
<1>4. /\ ledger' \in [Callers \X Host!Phases -> Host!Event \cup {None}]
      /\ ledger'[<<c, "opened">>] \in Host!Event
      /\ ledger'[<<c, "opened">>] = e \/ ledger[<<c, "opened">>] # None
      /\ \A d \in Callers, q \in Host!Phases :
            <<d, q>> # <<c, "opened">> => ledger'[<<d, q>>] = ledger[<<d, q>>]
    BY <1>1, <1>3, Recorded
<1>5. Outcome(call, ledger[<<c, "opened">>], ledger[<<c, "failed">>])
    BY <1>1, CallerFields
<1>6. ledger[<<c, "opened">>] = None /\ FailedAbove(ledger[<<c, "failed">>], call.mode)
    BY <1>1, <1>5 DEF Outcome
<1>7. ledger'[<<c, "failed">>] = ledger[<<c, "failed">>]
    BY <1>3, <1>4
<1>8. Outcome(new, ledger'[<<c, "opened">>], ledger'[<<c, "failed">>])
    <2>1. new.at = "linked" /\ new.mode = call.mode /\ new # Idle
        <3>1. "linked" \in Places /\ call \in Host!Call /\ call.mode \in 0..Len(Ladder) /\ call.signedAt \in Nat
            BY <1>1, CallerFields DEF Places
        <3>2. new # Idle
            BY <3>1, MovedCall
        <3> QED
            BY <3>2 DEF Moved
    <2>2. ledger'[<<c, "opened">>] # None /\ ledger'[<<c, "opened">>].mode = call.mode
        BY <1>1, <1>3, <1>4, <1>6, HostTypes
    <2> HIDE DEF new
    <2> QED
        BY <1>6, <1>7, <2>1, <2>2 DEF Outcome
<1>9. \A d \in Callers, q \in Host!Phases : d # c => ledger'[<<d, q>>] = ledger[<<d, q>>]
    BY <1>4
<1> QED
    BY <1>1, <1>2, <1>4, <1>8, <1>9, CallerFields, CallMoves DEF Places

LEMMA FailureRecordedStep ==
    ASSUME FabricInv, NEW c \in Callers, Host!failureRecorded(c), UNCHANGED <<startupVars, announced>>
    PROVE  FabricInv'
<1> DEFINE call == calls[c]
           next == Moved(call, "trying", call.mode + 1, call.signedAt)
           last == Moved(call, "unreachable", 0, clock)
           e == Host!event(c)
<1>1. /\ HostInv /\ call # Idle /\ call.at = "modeFailed" /\ Host!record(c, "failed", e)
      /\ UNCHANGED <<clock, rooms, startupVars, announced>>
    BY DEF FabricInv, Host!failureRecorded, Host!at
<1>2. e \in Host!Event /\ e.mode = call.mode /\ "opened" \in Host!Phases /\ "failed" \in Host!Phases
    BY <1>1, CallerFields DEF Host!Phases
<1>3. \/ call.mode < Len(Ladder) /\ calls' = SetMode(c, "trying", call.mode + 1)
      \/ calls' = SetAll(c, "unreachable", 0, clock)
    BY DEF Host!failureRecorded, SetMode, SetAll
<1> HIDE DEF e
<1>4. /\ ledger' \in [Callers \X Host!Phases -> Host!Event \cup {None}]
      /\ ledger'[<<c, "failed">>] \in Host!Event
      /\ \/ ledger'[<<c, "failed">>] = e
         \/ ledger[<<c, "failed">>] # None /\ ledger'[<<c, "failed">>] = ledger[<<c, "failed">>]
      /\ \A d \in Callers, q \in Host!Phases :
            <<d, q>> # <<c, "failed">> => ledger'[<<d, q>>] = ledger[<<d, q>>]
    BY <1>1, <1>2, Recorded
<1>5. /\ call \in Host!Call /\ call.mode \in 0..Len(Ladder) /\ call.signedAt \in Nat
      /\ clock \in Nat /\ Len(Ladder) \in Nat
      /\ Outcome(call, ledger[<<c, "opened">>], ledger[<<c, "failed">>])
    BY <1>1, CallerFields, HostTypes, FabricAssumption
<1>6. /\ ledger[<<c, "opened">>] = None /\ FailedAbove(ledger[<<c, "failed">>], call.mode)
      /\ call.mode >= 1
    BY <1>1, <1>5 DEF Outcome
<1>7. ledger'[<<c, "opened">>] = None
    BY <1>2, <1>4, <1>6
<1>8. ledger'[<<c, "failed">>] # None /\ ledger'[<<c, "failed">>].mode \in 1..call.mode
    BY <1>1, <1>2, <1>4, <1>5, <1>6, HostTypes DEF FailedAbove
<1>9. \A d \in Callers, q \in Host!Phases : d # c => ledger'[<<d, q>>] = ledger[<<d, q>>]
    BY <1>4
<1>10. CASE call.mode < Len(Ladder) /\ calls' = SetMode(c, "trying", call.mode + 1)
    <2>1. calls' = [calls EXCEPT ![c] = next]
        BY <1>1, <1>10, CallerMoved
    <2>2. "trying" \in Places /\ call.mode + 1 \in 0..Len(Ladder)
        BY <1>5, <1>10 DEF Places
    <2>3. next.at = "trying" /\ next.mode = call.mode + 1 /\ next # Idle
        <3>1. next # Idle
            BY <1>5, <2>2, MovedCall
        <3> QED
            BY <3>1 DEF Moved
    <2>4. FailedAbove(ledger'[<<c, "failed">>], call.mode + 1)
        <3> HIDE DEF call
        <3> QED
            BY <1>5, <1>6, <1>8 DEF FailedAbove
    <2>5. Outcome(next, ledger'[<<c, "opened">>], ledger'[<<c, "failed">>])
        <3> HIDE DEF next, call
        <3> QED
            BY <1>5, <1>6, <1>7, <2>3, <2>4 DEF Outcome
    <2> QED
        BY <1>1, <1>4, <1>5, <1>9, <2>1, <2>2, <2>5, CallMoves
<1>11. CASE calls' = SetAll(c, "unreachable", 0, clock)
    <2>1. calls' = [calls EXCEPT ![c] = last]
        BY <1>1, <1>11, CallerMoved
    <2>2. "unreachable" \in Places /\ 0 \in 0..Len(Ladder)
        BY <1>5 DEF Places
    <2>3. last.at = "unreachable" /\ last.mode = 0 /\ last # Idle
        <3>1. last # Idle
            BY <1>5, <2>2, MovedCall
        <3> QED
            BY <3>1 DEF Moved
    <2>4. Outcome(last, ledger'[<<c, "opened">>], ledger'[<<c, "failed">>])
        <3> HIDE DEF last, call
        <3> QED
            BY <1>7, <1>8, <2>3 DEF Outcome
    <2> QED
        BY <1>1, <1>4, <1>5, <1>9, <2>1, <2>2, <2>4, CallMoves
<1> QED
    BY <1>3, <1>10, <1>11

LEMMA UnreachableRecordedStep ==
    ASSUME FabricInv, NEW c \in Callers, Host!unreachableRecorded(c), UNCHANGED <<startupVars, announced>>
    PROVE  FabricInv'
<1> DEFINE call == calls[c]
           new == Moved(call, "closed", call.mode, call.signedAt)
           e == Host!event(c)
<1>1. /\ HostInv /\ call # Idle /\ call.at = "unreachable" /\ Host!record(c, "failed", e)
      /\ UNCHANGED <<clock, rooms, startupVars, announced>>
    BY DEF FabricInv, Host!unreachableRecorded, Host!at
<1>2. e \in Host!Event /\ "opened" \in Host!Phases /\ "failed" \in Host!Phases
    BY <1>1, CallerFields DEF Host!Phases
<1>3. calls' = SetAt(c, "closed")
    BY DEF Host!unreachableRecorded, Host!move, SetAt
<1> HIDE DEF e
<1>4. /\ ledger' \in [Callers \X Host!Phases -> Host!Event \cup {None}]
      /\ ledger'[<<c, "failed">>] \in Host!Event
      /\ \A d \in Callers, q \in Host!Phases :
            <<d, q>> # <<c, "failed">> => ledger'[<<d, q>>] = ledger[<<d, q>>]
    BY <1>1, <1>2, Recorded
<1>5. /\ call \in Host!Call /\ call.mode \in 0..Len(Ladder) /\ call.signedAt \in Nat
      /\ Outcome(call, ledger[<<c, "opened">>], ledger[<<c, "failed">>])
    BY <1>1, CallerFields
<1>6. ledger'[<<c, "opened">>] = None
    BY <1>1, <1>2, <1>4, <1>5 DEF Outcome
<1>7. ledger'[<<c, "failed">>] # None
    BY <1>1, <1>4, HostTypes
<1>8. \A d \in Callers, q \in Host!Phases : d # c => ledger'[<<d, q>>] = ledger[<<d, q>>]
    BY <1>4
<1>9. calls' = [calls EXCEPT ![c] = new] /\ "closed" \in Places
    BY <1>1, <1>3, CallerMoved DEF Places
<1>10. new.at = "closed" /\ new # Idle
    <2>1. new # Idle
        BY <1>5, <1>9, MovedCall
    <2> QED
        BY <2>1 DEF Moved
<1>11. Outcome(new, ledger'[<<c, "opened">>], ledger'[<<c, "failed">>])
    <2> HIDE DEF new, call
    <2> QED
        BY <1>6, <1>7, <1>10 DEF Outcome
<1> QED
    BY <1>1, <1>4, <1>5, <1>8, <1>9, <1>11, CallMoves

LEMMA HostStepInv ==
    ASSUME FabricInv, NEW c \in Callers, host(c)
    PROVE  FabricInv'
<1>1. Host!HostStep(c) /\ UNCHANGED <<startupVars, announced>>
    BY DEF host
<1> QED
    BY <1>1, FindRouteStep, RouteRecordedStep, OpenDirectLinkStep, TryModeStep, OpenedRecordedStep,
       FailureRecordedStep, UnreachableRecordedStep DEF Host!HostStep

LEMMA FabricStep ==
    ASSUME FabricInv, [Next]_vars
    PROVE  FabricInv'
<1>1. CASE Tick
    BY <1>1, TickStep
<1>2. CASE \E w \in Workers : startup(w)
    BY <1>2, StartupStepInv
<1>3. CASE \E a \in Announcements : announce(a)
    BY <1>3, AnnounceStep
<1>4. CASE \E c \in Callers : host(c)
    BY <1>4, HostStepInv
<1>5. CASE UNCHANGED vars
    <2>1. UNCHANGED <<clock, joins, mesh, rooms, calls, ledger, announced>>
        BY <1>5 DEF vars, startupVars
    <2>2. StartupInv'
        BY <2>1 DEF FabricInv, StartupInv
    <2>3. Host!HostTypeOK'
        BY <2>1 DEF FabricInv, HostInv, Host!HostTypeOK
    <2>4. (\A r \in Rooms : SummaryAnnounced(r))' /\ (\A c \in Callers : RouteAnnounced(calls[c]))'
        BY <2>1 DEF FabricInv, HostInv, SummaryAnnounced, RouteAnnounced, RouteFrom, isMade
    <2> QED
        BY <2>1, <2>2, <2>3, <2>4 DEF FabricInv, HostInv, isMade
<1> QED
    BY <1>1, <1>2, <1>3, <1>4, <1>5 DEF Next

-------------------------------------------------------------------------------
LEMMA FabricInvariant ==
    Spec => []FabricInv
<1>1. Init => FabricInv
    BY FabricInitial
<1>2. FabricInv /\ [Next]_vars => FabricInv'
    BY FabricStep
<1> QED
    BY <1>1, <1>2, PTL DEF Spec

(* The meshes, the table of rooms, the callers and the ledger keep their     *)
(* shapes, whatever is joined, announced and routed.                         *)
THEOREM FabricTyped ==
    Spec => []TypeOK
<1>1. FabricInv => TypeOK
    BY StartupInvVerdict DEF FabricInv, HostInv, TypeOK
<1> QED
    BY <1>1, FabricInvariant, PTL

(* Startup fails closed or degrades: a ready mesh has one verdict for every  *)
(* model it selected, and exactly `count` warm ones in exact mode; its       *)
(* ledger tells of warm and failed models as its state does, by modelId, and *)
(* a warm model has a session, that failed no test vector, and has vectors   *)
(* where they were required (startup/startup-model-loader.js).               *)
THEOREM FabricVerdicts ==
    Spec => []StartupVerdict
<1>1. FabricInv => StartupVerdict
    BY StartupInvVerdict DEF FabricInv
<1> QED
    BY <1>1, FabricInvariant, PTL

(* selectStartupModels takes the best of the candidates for its strategy,    *)
(* and leaves one out only for the count or the memory budget.               *)
THEOREM FabricSelection ==
    Spec => []SelectionIsBest
<1>1. FabricInv => SelectionIsBest
    BY StartupInvBest DEF FabricInv
<1> QED
    BY <1>1, FabricInvariant, PTL

(* What open() of the direct-link negotiator came to is in the ledger: the   *)
(* mode of a link, a failure above it exactly if there was one, a failure    *)
(* and no link where nothing could be reached.                               *)
THEOREM FabricOutcomes ==
    Spec => []OutcomeOnRecord
<1>1. FabricInv => OutcomeOnRecord
    <2>1. ASSUME FabricInv, NEW c \in Callers
          PROVE  LET opened == ledger[<<c, "opened">>]
                     failed == ledger[<<c, "failed">>]
                 IN /\ Host!at(c, "linked") =>
                         /\ opened # None /\ opened.mode = calls[c].mode
                         /\ failed # None <=> calls[c].mode > 1
                         /\ failed # None => failed.mode \in 1..(opened.mode - 1)
                    /\ Host!at(c, "closed") => opened = None /\ failed # None
                    /\ opened # None => Host!at(c, "linked")
        <3>1. HostInv
            BY <2>1 DEF FabricInv
        <3>2. Outcome(calls[c], ledger[<<c, "opened">>], ledger[<<c, "failed">>])
            BY <3>1 DEF HostInv
        <3>3. calls[c] # Idle => calls[c].at \in Places
            BY <3>1, CallerFields
        <3> QED
            BY <3>2, <3>3 DEF Outcome, FailedAbove, Host!at, Places
    <2> QED
        BY <2>1 DEF OutcomeOnRecord, Host!OutcomeOnRecord
<1> QED
    BY <1>1, FabricInvariant, PTL

(* Whoever opens a link along a route (openDirectLink, after                 *)
(* validateRouteOffer) goes to the room by what was announced of it: the     *)
(* model and the trust asked for, no longer ago than the announcement and a  *)
(* route may last, and not contradicted longer than a route lasts.           *)
THEOREM FabricLinks ==
    Spec => LinkAsAnnounced
<1> DEFINE Linking(c) ==
        Host!at(c, "routed") /\ Host!at(c, "trying")' =>
            LET call == calls[c]
            IN /\ call.room # parentRoom
               /\ \E a \in Announcements :
                    /\ a.room = call.room /\ isMade(a)
                    /\ a.trust >= call.request.trust
                    /\ call.request.modelId \in a.warmModels \cup {AnyModel}
                    /\ clock <= announced[a] + a.ttlMs + routeTtl
                    /\ \A b \in Announcements :
                         b.room = a.room /\ isMade(b) /\ announced[b] > announced[a] =>
                             clock <= announced[b] + routeTtl
<1>1. ASSUME FabricInv, Next, NEW c \in Callers, Host!at(c, "routed"), Host!at(c, "trying")'
      PROVE  Linking(c)
    <2> DEFINE call == calls[c]
    <2>1. HostInv /\ call # Idle /\ call.at = "routed" /\ calls'[c] # calls[c]
        BY <1>1 DEF FabricInv, Host!at
    <2>2. Host!at(c, "trying")' => calls'[c] # Idle /\ calls'[c].at = "trying"
        BY DEF Host!at
    <2>3. Host!openDirectLink(c) /\ Host!validateRouteOffer(calls[c])
        <3>1. PICK d \in Callers : host(d)
            BY <1>1, <2>1 DEF Next, Tick, Host!HostTick, Host!hostVars, startup, announce, Host!upsertSummary
        <3>2. CASE d # c
            <4>1. calls'[c] = calls[c]
                BY <2>1, <3>1, <3>2, HostTypes DEF host, Host!HostStep, Host!findRoute, Host!routeRecorded,
                   Host!openDirectLink, Host!tryMode, Host!openedRecorded, Host!failureRecorded,
                   Host!unreachableRecorded, Host!move, Host!append
            <4> QED
                BY <2>1, <4>1
        <3>3. CASE d = c
            <4>1. Host!routeRecorded(c) => FALSE
                BY <2>1 DEF Host!routeRecorded, Host!at
            <4>2. Host!openDirectLink(c)
                BY <2>1, <3>1, <3>3 DEF host, Host!HostStep, Host!findRoute, Host!routeRecorded, Host!tryMode,
                   Host!openedRecorded, Host!failureRecorded, Host!unreachableRecorded, Host!at
            <4>3. calls' # [calls EXCEPT ![c] = Idle]
                BY <1>1, <2>1, <2>2, HostTypes
            <4> QED
                BY <4>2, <4>3 DEF Host!openDirectLink
        <3> QED
            BY <3>2, <3>3
    <2>4. call.expiresAt >= clock /\ call.expiresAt \in Nat /\ clock \in Nat /\ routeTtl \in Nat
        BY <2>1, <2>3, HostTypes DEF Host!validateRouteOffer, Host!Call
    <2>5. call.room # parentRoom /\ \E a \in Announcements : RouteFrom(call, a)
        BY <2>1 DEF HostInv, RouteAnnounced
    <2> HIDE DEF call
    <2>6. PICK a \in Announcements : RouteFrom(call, a)
        BY <2>5
    <2>7. \A b \in Announcements : isMade(b) => announced[b] \in Nat
        BY <2>1 DEF HostInv, isMade
    <2>8. clock <= announced[a] + a.ttlMs + routeTtl
        BY <2>4, <2>6, <2>7, AnnouncementFields DEF RouteFrom
    <2>9. ASSUME NEW b \in Announcements, b.room = a.room, isMade(b), announced[b] > announced[a]
          PROVE  clock <= announced[b] + routeTtl
        <3>1. call.expiresAt <= announced[b] + routeTtl /\ announced[b] \in Nat
            BY <2>6, <2>7, <2>9 DEF RouteFrom
        <3> QED
            BY <2>4, <3>1
    <2> QED
        BY <2>5, <2>6, <2>8, <2>9 DEF RouteFrom, call
<1>2. ASSUME FabricInv, [Next]_vars
      PROVE  [\A c \in Callers : Linking(c)]_vars
    BY <1>1, <1>2
<1> QED
    BY <1>2, FabricInvariant, PTL DEF Spec, LinkAsAnnounced
=================================================================================
