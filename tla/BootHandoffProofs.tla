-------------------------- MODULE BootHandoffProofs --------------------------
(***************************************************************************)
(* Theorems about BootHandoff, for any machine, framebuffer and sizes, and *)
(* any order in which the firmware lists its memory.                       *)
(*                                                                         *)
(* What converting the map yields is said once (MapIsFaithful): the        *)
(* regions ascend, do not overlap, hold pages of their kind and, unless    *)
(* they did not fit, every free page.  The inductive invariant carries     *)
(* that from the loader to the kernel, and with it that the loader's       *)
(* pages are typed as such, that installed RAM is in the window and that   *)
(* the pool holds free memory only.                                        *)
(***************************************************************************)
EXTENDS BootHandoff, FiniteSetTheorems, FunctionTheorems, WellFoundedInduction, TLAPS

-----------------------------------------------------------------------------
(* Numbers and orders. *)

\* Some well-founded relation contains the order of the natural numbers.
LEMMA LessIsWellFounded ==
  \E R : IsWellFoundedOn(R, Nat) /\ \A x, y \in Nat : x < y => <<x, y>> \in R
<1>1. IsWellFoundedOn(OpToRel(<, Nat), Nat) BY NatLessThanWellFounded, Zenon
<1>2. \A x, y \in Nat : x < y => <<x, y>> \in OpToRel(<, Nat) BY DEF OpToRel
<1> QED BY <1>1, <1>2, Zenon

\* So a set of natural numbers that is not empty has a least element.
LEMMA LeastExists ==
  ASSUME NEW T, T \subseteq Nat, T # {}
  PROVE  \E x \in T : \A y \in T : x <= y
<1>1. PICK R : IsWellFoundedOn(R, Nat) /\ \A x, y \in Nat : x < y => <<x, y>> \in R
  BY LessIsWellFounded, Zenon
<1>2. \E x \in T : \A y \in T : ~(<<y, x>> \in R)
  <2>1. IsWellFoundedOn(R, Nat) BY <1>1
  <2> HIDE <1>1
  <2>2. \A RR, SS : IsWellFoundedOn(RR, SS) =>
          \A TT : TT \subseteq SS /\ TT # {} => \E x \in TT : \A y \in TT : ~(<<y, x>> \in RR)
    BY WFMin, Zenon
  <2> QED BY <2>1, <2>2, Zenon
<1>3. PICK x \in T : \A y \in T : ~(<<y, x>> \in R) BY <1>2, Zenon
<1>4. \A y \in T : ~(y < x) BY <1>1, <1>3, Zenon
<1> QED BY <1>4

\* And one that is bounded has a greatest element.
LEMMA GreatestExists ==
  ASSUME NEW T, T \subseteq Nat, T # {}, NEW bound \in Nat, \A x \in T : x < bound
  PROVE  \E x \in T : \A y \in T : x >= y
<1> DEFINE D == {bound - x : x \in T}
<1>1. D \subseteq Nat /\ D # {}
  <2>1. \A x \in T : bound - x \in Nat OBVIOUS
  <2>2. PICK x \in T : TRUE OBVIOUS
  <2>3. bound - x \in D BY <2>2
  <2>4. D \subseteq Nat BY <2>1
  <2> QED BY <2>3, <2>4
<1> HIDE DEF D
<1>2. PICK d \in D : \A e \in D : d <= e BY <1>1, LeastExists
<1>3. PICK x \in T : d = bound - x BY DEF D
<1>4. \A y \in T : bound - y \in D BY DEF D
<1>5. \A y \in T : bound - x <= bound - y BY <1>2, <1>3, <1>4
<1>6. \A y \in T : x \in Nat /\ y \in Nat OBVIOUS
<1>7. \A y \in T : x >= y BY <1>5, <1>6
<1> QED BY <1>7

\* A set in the order of keys that differ is all of it, each element once, by
\* ascending keys.
LEMMA AscendingOrders ==
  ASSUME NEW S, IsFiniteSet(S), NEW key, \A x \in S : key[x] \in Int,
         \A x, y \in S : key[x] = key[y] => x = y
  PROVE  /\ Cardinality(S) \in Nat
         /\ Ascending(S, key) \in [1 .. Cardinality(S) -> S]
         /\ \A i, j \in 1 .. Cardinality(S) :
              i < j => key[Ascending(S, key)[i]] < key[Ascending(S, key)[j]]
         /\ \A x \in S : \E i \in 1 .. Cardinality(S) : Ascending(S, key)[i] = x
<1> DEFINE n == Cardinality(S)
           upTo(x) == {y \in S : key[y] <= key[x]}
           rank == [x \in S |-> Cardinality(upTo(x))]
           a == Ascending(S, key)
<1>1. n \in Nat BY FS_CardinalityType
<1>2. \A x \in S : IsFiniteSet(upTo(x)) /\ Cardinality(upTo(x)) \in Nat /\ Cardinality(upTo(x)) <= n
  <2> SUFFICES ASSUME NEW x \in S
               PROVE  /\ IsFiniteSet(upTo(x)) /\ Cardinality(upTo(x)) \in Nat
                      /\ Cardinality(upTo(x)) <= n
    OBVIOUS
  <2>1. upTo(x) \in SUBSET S OBVIOUS
  <2> HIDE DEF upTo
  <2>2. IsFiniteSet(upTo(x)) /\ Cardinality(upTo(x)) <= n BY <2>1, FS_Subset
  <2> QED BY <2>2, FS_CardinalityType
<1>3. ASSUME NEW x \in S, NEW y \in S, key[x] < key[y] PROVE rank[x] < rank[y]
  <2>1. upTo(x) \subseteq upTo(y) BY <1>3
  <2>2. y \in upTo(y) /\ y \notin upTo(x) BY <1>3
  <2>3. rank[x] = Cardinality(upTo(x)) /\ rank[y] = Cardinality(upTo(y)) OBVIOUS
  <2> DEFINE X == upTo(x)
             Y == upTo(y)
  <2>4. X \in SUBSET Y /\ X # Y /\ IsFiniteSet(Y) BY <1>2, <2>1, <2>2
  <2>5. Cardinality(X) \in Nat /\ Cardinality(Y) \in Nat BY <1>2
  <2> HIDE DEF X, Y
  <2>6. Cardinality(X) <= Cardinality(Y) /\ Cardinality(X) # Cardinality(Y) BY <2>4, FS_Subset
  <2>7. Cardinality(X) < Cardinality(Y) BY <2>5, <2>6
  <2> QED BY <2>3, <2>7 DEF X, Y
<1>4. \A x \in S : rank[x] \in 1 .. n
  <2> SUFFICES ASSUME NEW x \in S PROVE rank[x] \in 1 .. n OBVIOUS
  <2> DEFINE X == upTo(x)
  <2>1. x \in X OBVIOUS
  <2>2. IsFiniteSet(X) /\ Cardinality(X) \in Nat /\ Cardinality(X) <= n BY <1>2
  <2>3. rank[x] = Cardinality(X) OBVIOUS
  <2> HIDE DEF X
  <2>4. Cardinality(X) # 0 BY <2>1, <2>2, FS_EmptySet
  <2> QED BY <1>1, <2>2, <2>3, <2>4
<1>5. rank \in [S -> 1 .. n]
  <2>1. rank = [x \in S |-> rank[x]] OBVIOUS
  <2> HIDE DEF rank
  <2> QED BY <1>4, <2>1
<1>6. \A x, y \in S : rank[x] = rank[y] => x = y
  <2> SUFFICES ASSUME NEW x \in S, NEW y \in S, rank[x] = rank[y], x # y PROVE FALSE OBVIOUS
  <2>1. key[x] \in Int /\ key[y] \in Int /\ key[x] # key[y] OBVIOUS
  <2>2. rank[x] \in Int /\ rank[y] \in Int BY <1>4
  <2> HIDE DEF rank
  <2>3. key[x] < key[y] \/ key[y] < key[x] BY <2>1
  <2> QED BY <1>3, <2>2, <2>3
<1> HIDE DEF rank
<1>7. \A k \in 1 .. n : \E x \in S : rank[x] = k
  <2>1. rank \in Injection(S, 1 .. n) BY <1>5, <1>6 DEF Injection, IsInjective
  <2>2. IsFiniteSet(1 .. n) /\ Cardinality(1 .. n) = n BY <1>1, FS_Interval
  <2>3. rank \in Surjection(S, 1 .. n) BY <2>1, <2>2, FS_Injection
  <2> QED BY <2>3 DEF Surjection
<1>8. a = [k \in 1 .. n |-> CHOOSE x \in S : rank[x] = k]
  <2>1. a = [k \in 1 .. n |-> CHOOSE x \in S : Cardinality(upTo(x)) = k] BY DEF Ascending
  <2>2. \A k \in 1 .. n : (CHOOSE x \in S : Cardinality(upTo(x)) = k) = (CHOOSE x \in S : rank[x] = k)
    BY DEF rank
  <2> QED BY <2>1, <2>2
<1>9. \A k \in 1 .. n : a[k] \in S /\ rank[a[k]] = k
  <2> SUFFICES ASSUME NEW k \in 1 .. n PROVE a[k] \in S /\ rank[a[k]] = k OBVIOUS
  <2>1. a[k] = CHOOSE x \in S : rank[x] = k BY <1>8
  <2> QED BY <1>7, <2>1
<1>10. a \in [1 .. n -> S] BY <1>8, <1>9
<1> HIDE DEF a
<1>11. ASSUME NEW i \in 1 .. n, NEW j \in 1 .. n, i < j PROVE key[a[i]] < key[a[j]]
  <2>1. a[i] \in S /\ a[j] \in S /\ rank[a[i]] = i /\ rank[a[j]] = j BY <1>9
  <2>2. key[a[i]] \in Int /\ key[a[j]] \in Int BY <2>1
  <2>3. a[i] # a[j] BY <1>11, <2>1
  <2>4. key[a[i]] # key[a[j]] BY <2>1, <2>3
  <2>5. ~(key[a[j]] < key[a[i]])
    <3> SUFFICES ASSUME key[a[j]] < key[a[i]] PROVE FALSE OBVIOUS
    <3>1. rank[a[j]] < rank[a[i]] BY <1>3, <2>1
    <3> QED BY <1>11, <2>1, <3>1
  <2> QED BY <2>2, <2>4, <2>5
<1>12. ASSUME NEW x \in S PROVE \E i \in 1 .. n : a[i] = x
  <2>1. rank[x] \in 1 .. n BY <1>4
  <2>2. a[rank[x]] \in S /\ rank[a[rank[x]]] = rank[x] BY <1>9, <2>1
  <2> QED BY <1>6, <2>1, <2>2
<1> QED BY <1>1, <1>10, <1>11, <1>12 DEF a

-----------------------------------------------------------------------------
(* Descriptors. *)

\* Memory is pages from zero on.
Paged == \E n \in Nat : memory \in [0 .. (n - 1) -> Types]

\* A run has a last page.
LEMMA RunsEnd ==
  ASSUME Paged, NEW p \in DOMAIN memory
  PROVE  /\ p \in Nat /\ LastOfRun(p) \in DOMAIN memory /\ LastOfRun(p) \in Nat
         /\ LastOfRun(p) >= p
         /\ \A k \in p .. LastOfRun(p) : k \in DOMAIN memory /\ memory[k] = memory[p]
         /\ LastOfRun(p) + 1 \in DOMAIN memory => memory[LastOfRun(p) + 1] # memory[p]
<1>1. PICK n \in Nat : memory \in [0 .. (n - 1) -> Types] BY DEF Paged
<1>2. DOMAIN memory = 0 .. (n - 1) BY <1>1
<1> DEFINE T == {q \in 0 .. (n - 1) : q >= p /\ \A k \in p .. q : memory[k] = memory[p]}
           P(q) == /\ q >= p
                   /\ \A k \in p .. q : memory[k] = memory[p]
                   /\ q + 1 \in DOMAIN memory => memory[q + 1] # memory[p]
<1>3. p \in Nat /\ p \in 0 .. (n - 1) BY <1>2
<1>4. \E q \in DOMAIN memory : P(q)
  <2>1. T \subseteq Nat /\ \A x \in T : x < n OBVIOUS
  <2>2. p \in T
    <3>1. \A k \in p .. p : k = p BY <1>3
    <3> QED BY <1>3, <3>1
  <2>3. PICK q \in T : \A y \in T : q >= y
    <3> HIDE DEF T
    <3> QED BY <2>1, <2>2, GreatestExists
  <2>4. ASSUME q + 1 \in DOMAIN memory, memory[q + 1] = memory[p] PROVE FALSE
    <3>1. q \in Nat /\ q >= p BY <2>1, <2>3
    <3>2. \A k \in p .. (q + 1) : k \in p .. q \/ k = q + 1 BY <1>3, <3>1
    <3>3. \A k \in p .. (q + 1) : memory[k] = memory[p] BY <2>3, <2>4, <3>2
    <3>4. q + 1 \in T BY <1>2, <1>3, <2>4, <3>1, <3>3
    <3>5. q >= q + 1 BY <2>3, <3>4
    <3> QED BY <3>1, <3>5
  <2> QED BY <1>2, <2>3, <2>4
<1>5. LastOfRun(p) \in DOMAIN memory /\ P(LastOfRun(p))
  <2>1. LastOfRun(p) = CHOOSE q \in DOMAIN memory : P(q) BY DEF LastOfRun
  <2> HIDE DEF P
  <2> QED BY <1>4, <2>1
<1> DEFINE l == LastOfRun(p)
<1> HIDE DEF l
<1>6. l \in 0 .. (n - 1) /\ l \in Nat /\ P(l) BY <1>2, <1>5 DEF l
<1>7. \A k \in p .. l : k \in 0 .. (n - 1) BY <1>3, <1>6
<1> QED BY <1>2, <1>3, <1>6, <1>7 DEF l

\* Runs do not overlap.
LEMMA RunsAreDisjoint ==
  ASSUME Paged, NEW p \in Starts, NEW q \in Starts, p < q
  PROVE  LastOfRun(p) < q
<1>1. p \in DOMAIN memory /\ q \in DOMAIN memory BY DEF Starts
<1> DEFINE l == LastOfRun(p)
<1>2. /\ p \in Nat /\ q \in Nat /\ l \in Nat
      /\ \A k \in p .. l : k \in DOMAIN memory /\ memory[k] = memory[p]
  BY <1>1, RunsEnd
<1>3. q - 1 \in DOMAIN memory => memory[q - 1] # memory[q] BY DEF Starts
<1> HIDE DEF l
<1> SUFFICES ASSUME l >= q PROVE FALSE BY <1>2 DEF l
<1>4. q \in p .. l /\ q - 1 \in p .. l BY <1>2
<1>5. q - 1 \in DOMAIN memory /\ memory[q - 1] = memory[p] /\ memory[q] = memory[p] BY <1>2, <1>4
<1> QED BY <1>3, <1>5

\* Every page that is described lies in a run.
LEMMA RunsCover ==
  ASSUME Paged, NEW k \in DOMAIN memory, memory[k] # "HOLE"
  PROVE  \E p \in Starts : k \in p .. LastOfRun(p)
<1>1. PICK n \in Nat : memory \in [0 .. (n - 1) -> Types] BY DEF Paged
<1>2. DOMAIN memory = 0 .. (n - 1) /\ k \in Nat BY <1>1
<1> DEFINE T == {q \in 0 .. k : \A j \in q .. k : memory[j] = memory[k]}
<1>3. T \subseteq Nat /\ k \in T
  <2>1. \A j \in k .. k : j = k BY <1>2
  <2> QED BY <1>2, <2>1
<1>4. PICK p \in T : \A y \in T : p <= y
  <2> HIDE DEF T
  <2> QED BY <1>3, LeastExists
<1>5. p \in Nat /\ p <= k /\ p \in 0 .. (n - 1) /\ memory[p] = memory[k]
  <2>1. p \in Nat /\ p <= k BY <1>2, <1>4
  <2>2. p \in p .. k BY <1>2, <2>1
  <2> QED BY <1>2, <1>4, <2>1, <2>2
<1>6. p \in Starts
  <2> SUFFICES ASSUME p - 1 \in DOMAIN memory, memory[p - 1] = memory[p] PROVE FALSE
    BY <1>2, <1>5 DEF Starts
  <2>1. \A j \in (p - 1) .. k : j \in p .. k \/ j = p - 1 BY <1>2, <1>5
  <2>2. \A j \in (p - 1) .. k : memory[j] = memory[k] BY <1>4, <1>5, <2>1
  <2>3. p - 1 \in T BY <1>2, <1>5, <2>2
  <2>4. p <= p - 1 BY <1>4, <2>3
  <2> QED BY <1>5, <2>4
<1>7. LastOfRun(p) >= k
  <2> DEFINE l == LastOfRun(p)
  <2>1. /\ l \in Nat /\ l >= p /\ l \in 0 .. (n - 1)
        /\ l + 1 \in DOMAIN memory => memory[l + 1] # memory[p]
    BY <1>2, <1>5, RunsEnd
  <2> HIDE DEF l
  <2> SUFFICES ASSUME l < k PROVE FALSE BY <1>2, <2>1 DEF l
  <2>2. l + 1 \in p .. k /\ l + 1 \in 0 .. (n - 1) BY <1>2, <1>5, <2>1
  <2>3. memory[l + 1] = memory[k] BY <1>4, <2>2
  <2> QED BY <1>2, <1>5, <2>1, <2>2, <2>3
<1>8. LastOfRun(p) \in Nat BY <1>2, <1>5, RunsEnd
<1> QED BY <1>2, <1>5, <1>6, <1>7, <1>8

\* What a descriptor describes: pages of its type, and nothing of another's.
LEMMA DescriptorFacts ==
  ASSUME Paged
  PROVE  /\ IsFiniteSet(Descriptors)
         /\ \A d \in Descriptors :
              /\ d.start \in Nat /\ d.len \in Nat /\ d.len # 0
              /\ \A k \in d.start .. (d.start + d.len - 1) :
                   k \in DOMAIN memory /\ memory[k] = d.type
         /\ \A d, e \in Descriptors : d.start < e.start => d.start + d.len <= e.start
         /\ \A d, e \in Descriptors : d.start = e.start => d = e
         /\ \A k \in DOMAIN memory : memory[k] # "HOLE" =>
              \E d \in Descriptors : k \in d.start .. (d.start + d.len - 1) /\ d.type = memory[k]
<1> DEFINE desc == [p \in Starts |-> [start |-> p, len |-> LastOfRun(p) - p + 1, type |-> memory[p]]]
<1>1. \A p \in Starts : p \in DOMAIN memory BY DEF Starts
<1>2. /\ \A p \in Starts : desc[p] \in Descriptors
      /\ \A d \in Descriptors : \E p \in Starts : d = desc[p]
  BY DEF Descriptors
<1>3. \A p \in Starts : /\ desc[p].start = p /\ desc[p].type = memory[p]
                        /\ desc[p].len = LastOfRun(p) - p + 1
  OBVIOUS
<1>4. desc \in [Starts -> Descriptors]
  <2>1. desc = [p \in Starts |-> desc[p]] OBVIOUS
  <2> HIDE DEF desc
  <2> QED BY <1>2, <2>1
<1> HIDE DEF desc
<1>5. \A p \in Starts : /\ p \in Nat /\ LastOfRun(p) \in Nat /\ LastOfRun(p) >= p
                        /\ \A k \in p .. LastOfRun(p) : k \in DOMAIN memory /\ memory[k] = memory[p]
  BY <1>1, RunsEnd
<1>6. \A p \in Starts : /\ desc[p].len \in Nat /\ desc[p].len # 0
                        /\ p + desc[p].len - 1 = LastOfRun(p)
                        /\ p + desc[p].len = LastOfRun(p) + 1
  <2> SUFFICES ASSUME NEW p \in Starts
               PROVE  /\ desc[p].len \in Nat /\ desc[p].len # 0
                      /\ p + desc[p].len - 1 = LastOfRun(p)
                      /\ p + desc[p].len = LastOfRun(p) + 1
    OBVIOUS
  <2> DEFINE l == LastOfRun(p)
  <2>1. p \in Nat /\ l \in Nat /\ l >= p /\ desc[p].len = l - p + 1 BY <1>3, <1>5
  <2> HIDE DEF l
  <2>2. (l - p + 1) \in Nat /\ l - p + 1 # 0 /\ p + (l - p + 1) - 1 = l /\ p + (l - p + 1) = l + 1
    BY <2>1
  <2> QED BY <2>1, <2>2 DEF l
<1>7. IsFiniteSet(Descriptors)
  <2>1. PICK n \in Nat : memory \in [0 .. (n - 1) -> Types] BY DEF Paged
  <2>2. Starts \in SUBSET (0 .. (n - 1)) BY <2>1 DEF Starts
  <2>3. IsFiniteSet(0 .. (n - 1)) BY <2>1, FS_Interval
  <2>4. IsFiniteSet(Starts) BY <2>2, <2>3, FS_Subset
  <2>5. desc \in Surjection(Starts, Descriptors)
    <3>1. \A d \in Descriptors : \E p \in Starts : desc[p] = d BY <1>2
    <3> QED BY <1>4, <3>1 DEF Surjection
  <2> QED BY <2>4, <2>5, FS_Surjection
<1>8. ASSUME NEW d \in Descriptors
      PROVE  /\ d.start \in Nat /\ d.len \in Nat /\ d.len # 0
             /\ \A k \in d.start .. (d.start + d.len - 1) :
                  k \in DOMAIN memory /\ memory[k] = d.type
  <2>1. PICK p \in Starts : d = desc[p] BY <1>2
  <2>2. d.start = p /\ d.type = memory[p] /\ d.start + d.len - 1 = LastOfRun(p)
    BY <1>3, <1>6, <2>1
  <2> QED BY <1>5, <1>6, <2>1, <2>2
<1>9. ASSUME NEW d \in Descriptors, NEW e \in Descriptors, d.start < e.start
      PROVE  d.start + d.len <= e.start
  <2>1. PICK p \in Starts : d = desc[p] BY <1>2
  <2>2. PICK q \in Starts : e = desc[q] BY <1>2
  <2>3. d.start = p /\ e.start = q /\ d.start + d.len = LastOfRun(p) + 1
    BY <1>3, <1>6, <2>1, <2>2
  <2>4. LastOfRun(p) < q BY <1>9, <2>3, RunsAreDisjoint
  <2> DEFINE l == LastOfRun(p)
  <2>5. l \in Nat /\ q \in Nat /\ l < q BY <1>5, <2>4
  <2> HIDE DEF l
  <2>6. l + 1 <= q BY <2>5
  <2> QED BY <2>3, <2>6 DEF l
<1>10. ASSUME NEW d \in Descriptors, NEW e \in Descriptors, d.start = e.start PROVE d = e
  BY <1>2, <1>3, <1>10
<1>11. ASSUME NEW k \in DOMAIN memory, memory[k] # "HOLE"
       PROVE  \E d \in Descriptors : k \in d.start .. (d.start + d.len - 1) /\ d.type = memory[k]
  <2>1. PICK p \in Starts : k \in p .. LastOfRun(p) BY <1>11, RunsCover
  <2>2. desc[p] \in Descriptors /\ desc[p].start = p /\ desc[p].type = memory[p] BY <1>2, <1>3
  <2>3. memory[k] = memory[p] /\ p + desc[p].len - 1 = LastOfRun(p) BY <1>5, <1>6, <2>1
  <2> QED BY <2>1, <2>2, <2>3
<1> QED BY <1>7, <1>8, <1>9, <1>10, <1>11

-----------------------------------------------------------------------------
(* The converted map. *)

\* What the firmware lists and is not empty are its descriptors, all of them.
LEMMA ListingFacts ==
  ASSUME Paged, NEW listing \in Listings
  PROVE  /\ IsFiniteSet(NonEmpty(listing)) /\ NonEmpty(listing) \subseteq Nat
         /\ \A i \in NonEmpty(listing) : listing[i] \in Descriptors
         /\ \A d \in Descriptors : \E i \in NonEmpty(listing) : listing[i] = d
<1> DEFINE D == Descriptors
           N == NonEmpty(listing)
<1>1. PICK S \in {D, D \cup {EmptyDescriptor}} : Lists(listing, S) BY DEF Listings
<1>2. IsFiniteSet(D) /\ \A d \in D : d.len # 0 BY DescriptorFacts
<1>3. EmptyDescriptor.len = 0 BY DEF EmptyDescriptor
<1> HIDE DEF D
<1>4. IsFiniteSet(S)
  <2>1. IsFiniteSet(D \cup {EmptyDescriptor}) BY <1>2, FS_AddElement
  <2> QED BY <1>1, <1>2, <2>1
<1>5. Cardinality(S) \in Nat BY <1>4, FS_CardinalityType
<1> DEFINE n == Cardinality(S)
<1>6. listing \in [1 .. n -> S] /\ S \subseteq Range(listing) BY <1>1 DEF Lists
<1> HIDE DEF n
<1>7. n \in Nat /\ DOMAIN listing = 1 .. n BY <1>5, <1>6 DEF n
<1>8. N = {i \in 1 .. n : listing[i].len # 0} BY <1>7 DEF NonEmpty
<1> HIDE DEF N
<1>9. IsFiniteSet(N) /\ N \subseteq Nat
  <2>1. IsFiniteSet(1 .. n) BY <1>7, FS_Interval
  <2>2. N \in SUBSET (1 .. n) BY <1>8
  <2>3. IsFiniteSet(N) BY <2>1, <2>2, FS_Subset
  <2> QED BY <1>7, <2>2, <2>3
<1>10. \A i \in N : listing[i] \in D
  <2> SUFFICES ASSUME NEW i \in N PROVE listing[i] \in D OBVIOUS
  <2>1. i \in 1 .. n /\ listing[i].len # 0 BY <1>8
  <2>2. listing[i] \in S BY <1>6, <2>1
  <2> QED BY <1>1, <1>3, <2>1, <2>2
<1>11. \A d \in D : \E i \in N : listing[i] = d
  <2> SUFFICES ASSUME NEW d \in D PROVE \E i \in N : listing[i] = d OBVIOUS
  <2>1. d \in Range(listing) BY <1>1, <1>6
  <2>2. PICK i \in DOMAIN listing : listing[i] = d BY <2>1 DEF Range
  <2> QED BY <1>2, <1>7, <1>8, <2>2
<1> QED BY <1>9, <1>10, <1>11 DEF D, N

\* The region array has room for the first of them at least.
LEMMA SomethingIsKept ==
  ASSUME NEW listing, NonEmpty(listing) \subseteq Nat, NonEmpty(listing) # {}
  PROVE  Kept(listing) # {}
<1> DEFINE N == NonEmpty(listing)
<1> HIDE DEF N
<1>1. PICK i \in N : \A j \in N : i <= j BY LeastExists DEF N
<1>2. {j \in N : j < i} = {} BY <1>1 DEF N
<1>3. Cardinality({j \in N : j < i}) = 0 BY <1>2, FS_EmptySet
<1>4. 0 < Capacity BY BootHandoffAssumption
<1>5. i \in Kept(listing) BY <1>1, <1>3, <1>4 DEF Kept, N
<1> QED BY <1>5

\* A converted map of the memory that is: regions in ascending order that do
\* not overlap, each of pages of its kind, and every free page in one of them
\* unless the map did not fit.
MapIsFaithful ==
  /\ Len(regions) \in Nat \ {0} /\ DOMAIN regions = 1 .. Len(regions)
  /\ \A i \in 1 .. Len(regions) :
       /\ regions[i].start \in Nat /\ regions[i].len \in Nat \ {0}
       /\ \A p \in FramesOf(regions[i]) : p \in DOMAIN memory /\ KindOf(memory[p]) = regions[i].kind
  /\ \A i \in 2 .. Len(regions) : RegionEnd(regions[i - 1]) <= regions[i].start
  /\ ~truncated =>
       \A p \in Of("CONVENTIONAL") : \E i \in 1 .. Len(regions) : p \in FramesOf(regions[i])

\* The frames of a region are those from its start up to its end.
LEMMA FramesAre ==
  ASSUME NEW r, NEW start \in Int, NEW len \in Int, r.start = start, r.len = len
  PROVE  FramesOf(r) = start .. (start + len - 1) /\ RegionEnd(r) = start + len
BY DEF FramesOf, RegionEnd

\* Sorting what is kept of a listing gives such regions.
LEMMA SortedIsFaithful ==
  ASSUME Paged, NEW listing \in Listings, Descriptors # {},
         NEW a, a = Sorted({Converted(listing[i]) : i \in Kept(listing)})
  PROVE  /\ Len(a) \in Nat \ {0} /\ DOMAIN a = 1 .. Len(a)
         /\ \A i \in 1 .. Len(a) :
              /\ a[i].start \in Nat /\ a[i].len \in Nat \ {0}
              /\ \A p \in FramesOf(a[i]) : p \in DOMAIN memory /\ KindOf(memory[p]) = a[i].kind
         /\ \A i \in 2 .. Len(a) : RegionEnd(a[i - 1]) <= a[i].start
         /\ Kept(listing) = NonEmpty(listing) =>
              \A p \in Of("CONVENTIONAL") : \E i \in 1 .. Len(a) : p \in FramesOf(a[i])
<1> DEFINE N == NonEmpty(listing)
           K == Kept(listing)
           conv == [i \in K |-> Converted(listing[i])]
           R == {conv[i] : i \in K}
           key == [r \in R |-> r.start]
           n == Cardinality(R)
<1>1. /\ IsFiniteSet(N) /\ N \subseteq Nat
      /\ \A i \in N : listing[i] \in Descriptors
      /\ \A d \in Descriptors : \E i \in N : listing[i] = d
  BY ListingFacts
<1>2. K \subseteq N BY DEF Kept
<1>3. K # {}
  <2>1. N # {} BY <1>1
  <2> QED BY <1>1, <2>1, SomethingIsKept
<1>4. a = Ascending(R, key)
  <2>1. {Converted(listing[i]) : i \in K} = R OBVIOUS
  <2>2. a = Sorted(R) BY <2>1
  <2> QED BY <2>2 DEF Sorted
<1>5. \A i \in K : conv[i] = Converted(listing[i]) OBVIOUS
<1>6. /\ \A i \in K : conv[i] \in R
      /\ \A r \in R : \E i \in K : r = conv[i]
      /\ conv \in [K -> R]
  OBVIOUS
<1> HIDE DEF conv, R, K, N
<1>7. ASSUME NEW r \in R
      PROVE  \E d \in Descriptors : r.start = d.start /\ r.len = d.len /\ r.kind = KindOf(d.type) /\ r = Converted(d)
  <2>1. PICK i \in K : r = conv[i] BY <1>6
  <2>2. listing[i] \in Descriptors /\ r = Converted(listing[i]) BY <1>1, <1>2, <1>5, <2>1
  <2> QED BY <2>2 DEF Converted
<1>8. IsFiniteSet(R)
  <2>1. IsFiniteSet(K) BY <1>1, <1>2, FS_Subset
  <2>2. conv \in Surjection(K, R) BY <1>6 DEF Surjection
  <2> QED BY <2>1, <2>2, FS_Surjection
<1>9. \A r \in R : key[r] = r.start OBVIOUS
<1> HIDE DEF key
<1>10. \A r \in R : key[r] \in Int
  <2>1. \A d \in Descriptors : d.start \in Nat BY DescriptorFacts
  <2> QED BY <1>7, <1>9, <2>1
<1>11. \A r, q \in R : key[r] = key[q] => r = q
  <2> SUFFICES ASSUME NEW r \in R, NEW q \in R, key[r] = key[q] PROVE r = q OBVIOUS
  <2>1. PICK d \in Descriptors : r.start = d.start /\ r = Converted(d) BY <1>7
  <2>2. PICK e \in Descriptors : q.start = e.start /\ q = Converted(e) BY <1>7
  <2>3. d.start = e.start BY <1>9, <2>1, <2>2
  <2>4. d = e BY <2>3, DescriptorFacts
  <2> QED BY <2>1, <2>2, <2>4
<1>12. /\ n \in Nat /\ a \in [1 .. n -> R]
       /\ \A i, j \in 1 .. n : i < j => key[a[i]] < key[a[j]]
       /\ \A x \in R : \E i \in 1 .. n : a[i] = x
  <2> DEFINE b == Ascending(R, key)
  <2>1. /\ Cardinality(R) \in Nat /\ b \in [1 .. Cardinality(R) -> R]
        /\ \A i, j \in 1 .. Cardinality(R) : i < j => key[b[i]] < key[b[j]]
        /\ \A x \in R : \E i \in 1 .. Cardinality(R) : b[i] = x
    BY <1>8, <1>10, <1>11, AscendingOrders
  <2>2. a = b BY <1>4
  <2> HIDE DEF b
  <2> QED BY <2>1, <2>2
<1> HIDE DEF n
<1>13. n \in Nat \ {0} /\ Len(a) = n /\ DOMAIN a = 1 .. n
  <2>1. PICK i \in K : TRUE BY <1>3
  <2>2. \E x : x \in R BY <1>6, <2>1
  <2>3. n # 0 BY <1>12, <2>2
  <2> QED BY <1>12, <2>3
<1>14. \A i \in 1 .. n : a[i] \in R BY <1>12
<1>15. ASSUME NEW i \in 1 .. n
       PROVE  /\ a[i].start \in Nat /\ a[i].len \in Nat \ {0}
              /\ \A p \in FramesOf(a[i]) : p \in DOMAIN memory /\ KindOf(memory[p]) = a[i].kind
  <2>1. PICK d \in Descriptors : a[i].start = d.start /\ a[i].len = d.len /\ a[i].kind = KindOf(d.type)
    BY <1>7, <1>14
  <2>2. /\ d.start \in Nat /\ d.len \in Nat /\ d.len # 0
        /\ \A k \in d.start .. (d.start + d.len - 1) : k \in DOMAIN memory /\ memory[k] = d.type
    BY DescriptorFacts
  <2>3. FramesOf(a[i]) = d.start .. (d.start + d.len - 1)
    <3>1. d.start \in Int /\ d.len \in Int BY <2>2
    <3>2. a[i].start = d.start /\ a[i].len = d.len BY <2>1
    <3> QED BY <3>1, <3>2, FramesAre
  <2>4. \A p \in FramesOf(a[i]) : p \in DOMAIN memory /\ KindOf(memory[p]) = a[i].kind
    BY <2>1, <2>2, <2>3
  <2> QED BY <2>1, <2>2, <2>4
<1>16. ASSUME NEW i \in 2 .. n PROVE RegionEnd(a[i - 1]) <= a[i].start
  <2>1. i - 1 \in 1 .. n /\ i \in 1 .. n /\ i - 1 < i BY <1>12
  <2>2. a[i - 1] \in R /\ a[i] \in R /\ a[i - 1].start < a[i].start BY <1>9, <1>12, <1>14, <2>1
  <2>3. PICK d \in Descriptors : a[i - 1].start = d.start /\ a[i - 1].len = d.len BY <1>7, <2>2
  <2>4. PICK e \in Descriptors : a[i].start = e.start BY <1>7, <2>2
  <2>5. d.start < e.start BY <2>2, <2>3, <2>4
  <2>6. d.start + d.len <= e.start BY <2>5, DescriptorFacts
  <2> QED BY <2>3, <2>4, <2>6 DEF RegionEnd
<1>17. ASSUME K = N, NEW p \in Of("CONVENTIONAL")
       PROVE  \E i \in 1 .. n : p \in FramesOf(a[i])
  <2>2. p \in DOMAIN memory /\ memory[p] # "HOLE" BY DEF Of
  <2>3. PICK d \in Descriptors : p \in d.start .. (d.start + d.len - 1) BY <2>2, DescriptorFacts
  <2>4. PICK i \in K : listing[i] = d BY <1>1, <1>17
  <2>5. PICK j \in 1 .. n : a[j] = conv[i] BY <1>6, <1>12
  <2>6. Converted(d).start = d.start /\ Converted(d).len = d.len BY DEF Converted
  <2>7. a[j] = Converted(d) BY <1>5, <2>4, <2>5
  <2>8. a[j].start = d.start /\ a[j].len = d.len BY <2>6, <2>7, Zenon
  <2>9. FramesOf(a[j]) = d.start .. (d.start + d.len - 1) 
    <3>1. d.start \in Int /\ d.len \in Int BY DescriptorFacts
    <3> QED BY <2>8, <3>1, FramesAre
  <2> QED BY <2>3, <2>9
<1> QED BY <1>13, <1>15, <1>16, <1>17 DEF K, N

\* convert_memory_map leaves a faithful map.
LEMMA ConversionIsFaithful ==
  ASSUME Paged, NEW listing \in Listings, Descriptors # {},
         memory' = memory,
         regions' = Sorted({Converted(listing[i]) : i \in Kept(listing)}),
         truncated' = (Kept(listing) # NonEmpty(listing))
  PROVE  MapIsFaithful'
<1>1. PICK a : a = Sorted({Converted(listing[i]) : i \in Kept(listing)}) OBVIOUS
<1>2. /\ Len(a) \in Nat \ {0} /\ DOMAIN a = 1 .. Len(a)
      /\ \A i \in 1 .. Len(a) :
           /\ a[i].start \in Nat /\ a[i].len \in Nat \ {0}
           /\ \A p \in FramesOf(a[i]) : p \in DOMAIN memory /\ KindOf(memory[p]) = a[i].kind
      /\ \A i \in 2 .. Len(a) : RegionEnd(a[i - 1]) <= a[i].start
      /\ Kept(listing) = NonEmpty(listing) =>
           \A p \in Of("CONVENTIONAL") : \E i \in 1 .. Len(a) : p \in FramesOf(a[i])
  BY <1>1, SortedIsFaithful
<1>3. Of("CONVENTIONAL")' = Of("CONVENTIONAL") BY DEF Of
<1>4. regions' = a BY <1>1
<1> HIDE DEF Sorted, Kept, NonEmpty
<1> QED BY <1>2, <1>3, <1>4 DEF MapIsFaithful

-----------------------------------------------------------------------------
(* What the loader maps. *)

\* The end of a set of pages lies above each of them.
LEMMA EndIsAbove ==
  ASSUME NEW s, s \subseteq Nat, NEW bound \in Nat, \A p \in s : p < bound
  PROVE  End(s) \in Nat /\ \A p \in s : p < End(s)
<1>1. CASE s = {} BY <1>1 DEF End
<1>2. CASE s # {}
  <2> DEFINE m == Max(s)
  <2>1. \E x \in s : \A y \in s : x >= y BY <1>2, GreatestExists
  <2>2. m \in s /\ \A y \in s : m >= y BY <2>1 DEF Max
  <2>3. End(s) = m + 1 BY <1>2 DEF End
  <2> HIDE DEF m
  <2>4. m \in Nat BY <2>2
  <2> QED BY <2>2, <2>3, <2>4
<1> QED BY <1>1, <1>2

\* The smaller of two numbers.
LEMMA MinOfTwo ==
  ASSUME NEW x \in Nat, NEW y \in Nat
  PROVE  Min({x, y}) = IF x <= y THEN x ELSE y
<1> DEFINE m == Min({x, y})
<1>1. \E z \in {x, y} : \A w \in {x, y} : z <= w OBVIOUS
<1>2. m \in {x, y} /\ \A w \in {x, y} : m <= w BY <1>1 DEF Min
<1> HIDE DEF m
<1>3. m = IF x <= y THEN x ELSE y BY <1>2
<1> QED BY <1>3 DEF m

\* RAM below the limit lies below what highest_ram_address returns.
LEMMA RamIsBelowHighest ==
  ASSUME Paged
  PROVE  /\ HighestRam \in Nat
         /\ \A p \in DOMAIN memory :
              IsInstalledRam(memory[p]) /\ p < MAX_MAPPED => p \in Nat /\ p < HighestRam
<1>1. PICK n \in Nat : memory \in [0 .. (n - 1) -> Types] BY DEF Paged
<1> DEFINE ram == {p \in DOMAIN memory : IsInstalledRam(memory[p])}
           e == End(ram)
<1>2. DOMAIN memory = 0 .. (n - 1) BY <1>1
<1>3. ram \subseteq Nat /\ \A p \in ram : p < n BY <1>2
<1>4. e \in Nat /\ \A p \in ram : p < e
  <2> HIDE DEF ram
  <2> QED BY <1>3, EndIsAbove
<1>5. HighestRam = Min({e, MAX_MAPPED}) BY DEF HighestRam
<1>6. MAX_MAPPED \in Nat BY BootHandoffAssumption
<1> HIDE DEF e
<1>7. HighestRam = IF e <= MAX_MAPPED THEN e ELSE MAX_MAPPED BY <1>4, <1>5, <1>6, MinOfTwo
<1>8. ASSUME NEW p \in ram, p < MAX_MAPPED PROVE p \in Nat /\ p < HighestRam
  <2>1. p \in Nat /\ p < e BY <1>3, <1>4
  <2> QED BY <1>4, <1>6, <1>7, <1>8, <2>1
<1> QED BY <1>4, <1>6, <1>7, <1>8

\* What is mapped with huge pages includes what was to be mapped.
LEMMA HugeRangeCovers ==
  ASSUME NEW h \in Nat, NEW p \in Nat, p < h
  PROVE  p \in HugeRange(0 .. (h - 1))
<1> DEFINE s == 0 .. (h - 1)
<1>1. p \in s OBVIOUS
<1>2. s \subseteq Nat /\ \A q \in s : q < h OBVIOUS
<1> HIDE DEF s
<1>3. End(s) \in Nat /\ p < End(s) BY <1>1, <1>2, EndIsAbove
<1> DEFINE e == End(s)
<1> HIDE DEF e
<1>4. HUGE_PAGES \in Nat BY BootHandoffAssumption
<1>5. p \in 0 .. (e + HUGE_PAGES) BY <1>3, <1>4 DEF e
<1> QED BY <1>1, <1>5 DEF HugeRange, e, s

-----------------------------------------------------------------------------
(* The inductive invariant. *)

\* What the loader allocated is its own to the firmware.
AllocationsAreTyped == kernel \cup handed \cup kept \subseteq Of("LOADER_DATA")

\* Installed RAM, up to the limit, is below what was measured and, later, in
\* the window: an allocation in between turns RAM into RAM.
RamIsMapped ==
  \A p \in DOMAIN memory : IsInstalledRam(memory[p]) /\ p < MAX_MAPPED =>
    /\ pc = "map" => highestRam \in Nat /\ p \in Nat /\ p < highestRam
    /\ pc \in {"exit", "convert", "jump", "entered", "memory", "heap"} => p \in window

\* When the map is converted there is something in it.
SomethingIsAllocated == pc = "convert" => Of("LOADER_DATA") # {}

\* The map is faithful from its conversion until the kernel has read it.
MapIsFaithfulOnceMade == pc \in {"jump", "entered", "memory"} => MapIsFaithful

\* The map is only refused for want of usable memory.
RefusalIsForWant ==
  \/ rejected \in {"none", "Ok"}
  \/ pc = "stopped" /\ rejected = "NoUsableMemory" /\ (truncated \/ Of("CONVENTIONAL") = {})

\* What is free when the heap is set up was free when the firmware was left.
PoolIsFree ==
  pc = "heap" =>
    /\ free \subseteq Of("CONVENTIONAL") \ (framebuffer \cup {0})
    /\ \A p \in free : p < MAX_MAPPED
    /\ ~truncated => \A p \in Of("CONVENTIONAL") :
         p \in free \cup framebuffer \cup {0} \/ (p \notin managed /\ warned)

IInv ==
  /\ Paged /\ AllocationsAreTyped /\ RamIsMapped /\ SomethingIsAllocated
  /\ MapIsFaithfulOnceMade /\ RefusalIsForWant /\ PoolIsFree
  /\ HeapIsNobodyElses /\ UsableMemoryIsAccountedFor

\* The firmware gives the loader a page.
LEMMA AllocationKeeps ==
  ASSUME Paged, NEW p \in Of("CONVENTIONAL"), Allocated(p)
  PROVE  /\ Paged' /\ DOMAIN memory' = DOMAIN memory
         /\ Of("LOADER_DATA")' = Of("LOADER_DATA") \cup {p}
         /\ Of("CONVENTIONAL")' = Of("CONVENTIONAL") \ {p}
         /\ Of("LOADER_CODE")' = Of("LOADER_CODE")
         /\ \A q \in DOMAIN memory : IsInstalledRam(memory'[q]) => IsInstalledRam(memory[q])
<1>1. PICK n \in Nat : memory \in [0 .. (n - 1) -> Types] BY DEF Paged
<1>2. p \in DOMAIN memory /\ memory[p] = "CONVENTIONAL" BY DEF Of
<1>3. memory' = [memory EXCEPT ![p] = "LOADER_DATA"] BY DEF Allocated
<1>4. "LOADER_DATA" \in Types BY DEF Types
<1>5. memory' \in [0 .. (n - 1) -> Types] BY <1>1, <1>3, <1>4
<1>6. DOMAIN memory' = DOMAIN memory BY <1>1, <1>5
<1>7. memory'[p] = "LOADER_DATA" /\ \A q \in DOMAIN memory : q # p => memory'[q] = memory[q]
  BY <1>1, <1>2, <1>3
<1>8. Paged' BY <1>5 DEF Paged
<1> QED BY <1>2, <1>6, <1>7, <1>8 DEF Of, IsInstalledRam

\* Validation finds nothing wrong with a faithful map but want of usable memory.
LEMMA FaithfulIsValid ==
  ASSUME MapIsFaithful
  PROVE  \/ Validation = "Ok"
         \/ Validation = "NoUsableMemory" /\ (truncated \/ Of("CONVENTIONAL") = {})
<1> DEFINE n == Len(regions)
<1>1. n \in Nat \ {0} BY DEF MapIsFaithful
<1>2. regions # << >>
  <2>1. Len(regions) # Len(<< >>) BY <1>1
  <2> QED BY <2>1, Zenon
<1>3. ~\E i \in 1 .. n : regions[i].len = 0 BY DEF MapIsFaithful
<1>4. ~\E i \in 2 .. n : regions[i].start < RegionEnd(regions[i - 1])
  <2> SUFFICES ASSUME NEW i \in 2 .. n, regions[i].start < RegionEnd(regions[i - 1]) PROVE FALSE
    OBVIOUS
  <2>1. i \in 1 .. n /\ i - 1 \in 1 .. n BY <1>1
  <2>2. /\ regions[i].start \in Nat /\ regions[i - 1].start \in Nat /\ regions[i - 1].len \in Nat
        /\ RegionEnd(regions[i - 1]) <= regions[i].start
    BY <2>1 DEF MapIsFaithful
  <2>3. RegionEnd(regions[i - 1]) \in Nat BY <2>2 DEF RegionEnd
  <2> QED BY <2>2, <2>3
<1>5. ASSUME \A i \in 1 .. n : regions[i].kind # "Usable", ~truncated, NEW p \in Of("CONVENTIONAL")
      PROVE  FALSE
  <2>1. PICK i \in 1 .. n : p \in FramesOf(regions[i]) BY <1>5 DEF MapIsFaithful
  <2>2. KindOf(memory[p]) = regions[i].kind BY <2>1 DEF MapIsFaithful
  <2>3. memory[p] = "CONVENTIONAL" BY DEF Of
  <2>4. KindOf("CONVENTIONAL") = "Usable" BY DEF KindOf
  <2> QED BY <1>5, <2>1, <2>2, <2>3, <2>4
<1>6. Validation = IF \A i \in 1 .. n : regions[i].kind # "Usable" THEN "NoUsableMemory" ELSE "Ok"
  BY <1>2, <1>3, <1>4 DEF Validation
<1> HIDE DEF n
<1> QED BY <1>5, <1>6

\* The frames of a kind in a faithful map are pages of that kind.
LEMMA FramesAreOfKind ==
  ASSUME MapIsFaithful, NEW kind, NEW p \in FramesOfKind(kind)
  PROVE  p \in DOMAIN memory /\ KindOf(memory[p]) = kind
<1>1. PICK r \in RegionSet : r.kind = kind /\ p \in FramesOf(r) BY DEF FramesOfKind
<1>2. PICK i \in DOMAIN regions : r = regions[i] BY <1>1 DEF RegionSet, Range
<1>3. DOMAIN regions = 1 .. Len(regions) BY DEF MapIsFaithful
<1> QED BY <1>1, <1>2, <1>3 DEF MapIsFaithful

\* And where the map fitted, every free page is among the usable frames.
LEMMA UsableIsComplete ==
  ASSUME MapIsFaithful, ~truncated, NEW p \in Of("CONVENTIONAL")
  PROVE  p \in FramesOfKind("Usable")
<1>1. PICK i \in 1 .. Len(regions) : p \in FramesOf(regions[i]) BY DEF MapIsFaithful
<1>2. KindOf(memory[p]) = regions[i].kind BY <1>1 DEF MapIsFaithful
<1>3. memory[p] = "CONVENTIONAL" BY DEF Of
<1>4. regions[i].kind = "Usable" BY <1>2, <1>3 DEF KindOf
<1>5. regions[i] \in RegionSet BY <1>1 DEF RegionSet, Range, MapIsFaithful
<1> QED BY <1>1, <1>4, <1>5 DEF FramesOfKind

\* A page of a usable kind was conventional memory.
LEMMA UsableIsConventional ==
  ASSUME NEW type
  PROVE  KindOf(type) = "Usable" <=> type = "CONVENTIONAL"
BY DEF KindOf

\* The number of frames the allocator manages.
LEMMA ManagedIsBounded ==
  ASSUME Paged, MapIsFaithful
  PROVE  LET n == Min({Max({RegionEnd(r) : r \in RegionSet}), MAX_MANAGED})
         IN  n \in Nat /\ n <= MAX_MAPPED
<1> DEFINE T == {RegionEnd(r) : r \in RegionSet}
           m == Max(T)
<1>1. PICK b \in Nat : memory \in [0 .. (b - 1) -> Types] BY DEF Paged
<1>2. ASSUME NEW r \in RegionSet PROVE RegionEnd(r) \in Nat /\ RegionEnd(r) < b + 1
  <2>1. PICK i \in 1 .. Len(regions) : r = regions[i] BY DEF RegionSet, Range, MapIsFaithful
  <2>2. r.start \in Int /\ r.len \in Int /\ r.start \in Nat /\ r.len \in Nat \ {0}
        /\ \A p \in FramesOf(r) : p \in DOMAIN memory
    BY <2>1 DEF MapIsFaithful
  <2> DEFINE s == r.start
             l == r.len
  <2>3. FramesOf(r) = s .. (s + l - 1) /\ RegionEnd(r) = s + l BY <2>2, FramesAre
  <2>4. s \in Nat /\ l \in Nat \ {0} BY <2>2
  <2> HIDE DEF s, l
  <2>5. s + l - 1 \in s .. (s + l - 1) BY <2>4
  <2>6. s + l - 1 \in 0 .. (b - 1) BY <1>1, <2>2, <2>3, <2>5
  <2>7. s + l \in Nat /\ s + l < b + 1 BY <1>1, <2>4, <2>6
  <2> QED BY <2>3, <2>7
<1>3. T \subseteq Nat /\ \A x \in T : x < b + 1 BY <1>2
<1>4. T # {}
  <2>1. 1 \in DOMAIN regions BY DEF MapIsFaithful
  <2>2. regions[1] \in RegionSet BY <2>1 DEF RegionSet, Range
  <2>3. RegionEnd(regions[1]) \in T BY <2>2
  <2> QED BY <2>3
<1>5. m \in Nat
  <2> HIDE DEF T
  <2>1. b + 1 \in Nat OBVIOUS
  <2>2. \E x \in T : \A y \in T : x >= y BY <1>3, <1>4, <2>1, GreatestExists
  <2>3. m \in T BY <2>2 DEF Max
  <2> QED BY <1>3, <2>3
<1> HIDE DEF m
<1>6. MAX_MANAGED \in Nat /\ MAX_MAPPED \in Nat /\ MAX_MANAGED <= MAX_MAPPED BY BootHandoffAssumption
<1>7. Min({m, MAX_MANAGED}) = IF m <= MAX_MANAGED THEN m ELSE MAX_MANAGED BY <1>5, <1>6, MinOfTwo
<1>8. Min({m, MAX_MANAGED}) \in Nat /\ Min({m, MAX_MANAGED}) <= MAX_MAPPED BY <1>5, <1>6, <1>7
<1> QED BY <1>8 DEF m

-----------------------------------------------------------------------------
(* The steps. *)

\* The boot starts in it.
LEMMA InvInit == Init => IInv
<1> SUFFICES ASSUME Init PROVE IInv OBVIOUS
<1>1. Paged
  <2>1. memory \in Machines BY DEF Init
  <2> QED BY <2>1, BootHandoffAssumption DEF Paged
<1>2. pc = "load" /\ rejected = "none" /\ kernel = {} /\ handed = {} /\ kept = {} BY DEF Init
<1> QED BY <1>1, <1>2
      DEF IInv, AllocationsAreTyped, RamIsMapped, SomethingIsAllocated, MapIsFaithfulOnceMade,
          RefusalIsForWant, PoolIsFree, HeapIsNobodyElses, UsableMemoryIsAccountedFor

\* A step that leaves memory alone and goes where nothing is promised of what
\* it changes.
LEMMA InvLoaderFails == IInv /\ LoaderFails => IInv'
<1> SUFFICES ASSUME IInv, LoaderFails PROVE IInv' OBVIOUS
<1> USE DEF LoaderFails, machineVars
<1>1. Paged' /\ AllocationsAreTyped' BY DEF IInv, Paged, AllocationsAreTyped, Of
<1>2. pc' = "returned" /\ pc \in {"load", "query", "map", "exit"} OBVIOUS
<1>3. rejected' \in {"none", "Ok"} BY <1>2 DEF IInv, RefusalIsForWant
<1> QED BY <1>1, <1>2, <1>3
      DEF IInv, RamIsMapped, SomethingIsAllocated, MapIsFaithfulOnceMade, RefusalIsForWant,
          PoolIsFree, HeapIsNobodyElses, UsableMemoryIsAccountedFor

\* The page taken was conventional and is now the loader's own.
LEMMA InvAllocatePages == IInv /\ AllocatePages => IInv'
<1> SUFFICES ASSUME IInv, AllocatePages PROVE IInv' OBVIOUS
<1>1. PICK p \in Of("CONVENTIONAL") :
        /\ Allocated(p)
        /\ kernel' \in {kernel, kernel \cup {p}} /\ handed' \in {handed, handed \cup {p}}
        /\ kept' \in {kept, kept \cup {p}}
  BY DEF AllocatePages
<1>2. pc = "load" /\ pc' \in {"load", "query"} /\ rejected' = rejected BY DEF AllocatePages
<1>3. Paged' /\ Of("LOADER_DATA")' = Of("LOADER_DATA") \cup {p} BY <1>1, AllocationKeeps DEF IInv
<1>4. AllocationsAreTyped' BY <1>1, <1>3 DEF IInv, AllocationsAreTyped
<1>5. rejected' \in {"none", "Ok"} BY <1>2 DEF IInv, RefusalIsForWant
<1> QED BY <1>2, <1>3, <1>4, <1>5
      DEF IInv, RamIsMapped, SomethingIsAllocated, MapIsFaithfulOnceMade, RefusalIsForWant,
          PoolIsFree, HeapIsNobodyElses, UsableMemoryIsAccountedFor

\* RAM is measured: all of it, up to the limit, is below the mark.
LEMMA InvQuery == IInv /\ Query => IInv'
<1> SUFFICES ASSUME IInv, Query PROVE IInv' OBVIOUS
<1>1. /\ pc = "query" /\ pc' = "map" /\ highestRam' = HighestRam /\ rejected' = rejected
      /\ memory' = memory /\ kernel' = kernel /\ handed' = handed /\ kept' = kept
  BY DEF Query, machineVars
<1>2. Paged' /\ AllocationsAreTyped' BY <1>1 DEF IInv, Paged, AllocationsAreTyped, Of
<1>3. RamIsMapped' BY <1>1, RamIsBelowHighest DEF IInv, RamIsMapped
<1>4. rejected' \in {"none", "Ok"} BY <1>1 DEF IInv, RefusalIsForWant
<1> QED BY <1>1, <1>2, <1>3, <1>4
      DEF IInv, SomethingIsAllocated, MapIsFaithfulOnceMade, RefusalIsForWant,
          PoolIsFree, HeapIsNobodyElses, UsableMemoryIsAccountedFor

\* What is below the mark is in the window.
LEMMA InvBuildTables == IInv /\ BuildTables => IInv'
<1> SUFFICES ASSUME IInv, BuildTables PROVE IInv' OBVIOUS
<1>1. /\ pc = "map" /\ pc' = "exit" /\ rejected' = rejected
      /\ window' = HugeRange(0 .. (highestRam - 1)) \cup HugeRange(framebuffer)
      /\ memory' = memory /\ kernel' = kernel /\ handed' = handed /\ kept' = kept
  BY DEF BuildTables, machineVars
<1>2. Paged' /\ AllocationsAreTyped' BY <1>1 DEF IInv, Paged, AllocationsAreTyped, Of
<1>3. RamIsMapped'
  <2>1. ASSUME NEW p \in DOMAIN memory, IsInstalledRam(memory[p]), p < MAX_MAPPED
        PROVE  p \in window'
    <3>1. highestRam \in Nat /\ p \in Nat /\ p < highestRam
      BY <1>1, <2>1 DEF IInv, RamIsMapped
    <3> QED BY <1>1, <3>1, HugeRangeCovers
  <2> QED BY <1>1, <2>1 DEF RamIsMapped
<1>4. rejected' \in {"none", "Ok"} BY <1>1 DEF IInv, RefusalIsForWant
<1> QED BY <1>1, <1>2, <1>3, <1>4
      DEF IInv, SomethingIsAllocated, MapIsFaithfulOnceMade, RefusalIsForWant,
          PoolIsFree, HeapIsNobodyElses, UsableMemoryIsAccountedFor

\* One more page is taken; there is now something to convert at least.
LEMMA InvExitBootServices == IInv /\ ExitBootServices => IInv'
<1> SUFFICES ASSUME IInv, ExitBootServices PROVE IInv' OBVIOUS
<1>1. PICK p \in Of("CONVENTIONAL") : Allocated(p) /\ kept' = kept \cup {p} BY DEF ExitBootServices
<1>2. /\ pc = "exit" /\ pc' = "convert" /\ rejected' = rejected /\ window' = window
      /\ kernel' = kernel /\ handed' = handed
  BY DEF ExitBootServices
<1>3. /\ Paged' /\ DOMAIN memory' = DOMAIN memory
      /\ Of("LOADER_DATA")' = Of("LOADER_DATA") \cup {p}
      /\ \A q \in DOMAIN memory : IsInstalledRam(memory'[q]) => IsInstalledRam(memory[q])
  BY <1>1, AllocationKeeps DEF IInv
<1>4. AllocationsAreTyped' BY <1>1, <1>2, <1>3 DEF IInv, AllocationsAreTyped
<1>5. RamIsMapped' BY <1>2, <1>3 DEF IInv, RamIsMapped
<1>6. SomethingIsAllocated' BY <1>3 DEF SomethingIsAllocated
<1>7. rejected' \in {"none", "Ok"} BY <1>2 DEF IInv, RefusalIsForWant
<1> QED BY <1>2, <1>3, <1>4, <1>5, <1>6, <1>7
      DEF IInv, MapIsFaithfulOnceMade, RefusalIsForWant,
          PoolIsFree, HeapIsNobodyElses, UsableMemoryIsAccountedFor

\* The map that is made is faithful.
LEMMA InvConvertMemoryMap == IInv /\ ConvertMemoryMap => IInv'
<1> SUFFICES ASSUME IInv, ConvertMemoryMap PROVE IInv' OBVIOUS
<1>1. PICK listing \in Listings :
        /\ regions' = Sorted({Converted(listing[i]) : i \in Kept(listing)})
        /\ truncated' = (Kept(listing) # NonEmpty(listing))
  BY DEF ConvertMemoryMap
<1>2. /\ pc = "convert" /\ pc' = "jump" /\ rejected' = rejected /\ window' = window
      /\ memory' = memory /\ kernel' = kernel /\ handed' = handed /\ kept' = kept
  BY DEF ConvertMemoryMap, machineVars
<1>3. Descriptors # {}
  <2>1. PICK k \in Of("LOADER_DATA") : TRUE BY <1>2 DEF IInv, SomethingIsAllocated
  <2>2. k \in DOMAIN memory /\ memory[k] # "HOLE" BY DEF Of
  <2> QED BY <2>2, DescriptorFacts DEF IInv
<1>4. MapIsFaithful' BY <1>1, <1>2, <1>3, ConversionIsFaithful DEF IInv
<1>5. Paged' /\ AllocationsAreTyped' BY <1>2 DEF IInv, Paged, AllocationsAreTyped, Of
<1>6. RamIsMapped' BY <1>2 DEF IInv, RamIsMapped
<1>7. rejected' \in {"none", "Ok"} BY <1>2 DEF IInv, RefusalIsForWant
<1> QED BY <1>2, <1>4, <1>5, <1>6, <1>7
      DEF IInv, SomethingIsAllocated, MapIsFaithfulOnceMade, RefusalIsForWant,
          PoolIsFree, HeapIsNobodyElses, UsableMemoryIsAccountedFor

\* A faithful map stays one while neither it nor memory changes.
LEMMA FaithfulStays ==
  ASSUME MapIsFaithful, memory' = memory, regions' = regions, truncated' = truncated
  PROVE  MapIsFaithful'
BY DEF MapIsFaithful, FramesOf, RegionEnd, Of

\* Nothing the invariant is about changes but the place.
LEMMA InvJump == IInv /\ Jump => IInv'
<1> SUFFICES ASSUME IInv, Jump PROVE IInv' OBVIOUS
<1>1. /\ pc = "jump" /\ pc' \in {"entered", "faulted"} /\ rejected' = rejected /\ window' = window
      /\ memory' = memory /\ kernel' = kernel /\ handed' = handed /\ kept' = kept
      /\ regions' = regions /\ truncated' = truncated
  BY DEF Jump, machineVars
<1>2. MapIsFaithful' BY <1>1, FaithfulStays DEF IInv, MapIsFaithfulOnceMade
<1>3. Paged' /\ AllocationsAreTyped' BY <1>1 DEF IInv, Paged, AllocationsAreTyped, Of
<1>4. RamIsMapped' BY <1>1 DEF IInv, RamIsMapped
<1>5. rejected' \in {"none", "Ok"} BY <1>1 DEF IInv, RefusalIsForWant
<1> QED BY <1>1, <1>2, <1>3, <1>4, <1>5
      DEF IInv, SomethingIsAllocated, MapIsFaithfulOnceMade, RefusalIsForWant,
          PoolIsFree, HeapIsNobodyElses, UsableMemoryIsAccountedFor

\* A faithful map is refused only for want of usable memory.
LEMMA InvValidateBootInfo == IInv /\ ValidateBootInfo => IInv'
<1> SUFFICES ASSUME IInv, ValidateBootInfo PROVE IInv' OBVIOUS
<1>1. /\ pc = "entered" /\ window' = window
      /\ memory' = memory /\ kernel' = kernel /\ handed' = handed /\ kept' = kept
      /\ regions' = regions /\ truncated' = truncated
      /\ \/ /\ rejected' = Validation
            /\ pc' = IF Validation = "Ok" THEN "memory" ELSE "stopped"
         \/ pc' = "faulted" /\ rejected' = rejected
  BY DEF ValidateBootInfo, machineVars
<1>2. MapIsFaithful BY <1>1 DEF IInv, MapIsFaithfulOnceMade
<1>3. MapIsFaithful' BY <1>1, <1>2, FaithfulStays
<1>4. Paged' /\ AllocationsAreTyped' BY <1>1 DEF IInv, Paged, AllocationsAreTyped, Of
<1>5. RamIsMapped' BY <1>1 DEF IInv, RamIsMapped
<1>6. RefusalIsForWant'
  <2>1. Of("CONVENTIONAL")' = Of("CONVENTIONAL") BY <1>1 DEF Of
  <2>2. CASE rejected' = Validation /\ pc' = IF Validation = "Ok" THEN "memory" ELSE "stopped"
    BY <1>1, <1>2, <2>1, <2>2, FaithfulIsValid DEF RefusalIsForWant
  <2>3. CASE rejected' = rejected BY <1>1, <2>3 DEF IInv, RefusalIsForWant
  <2> QED BY <1>1, <2>2, <2>3
<1>7. pc' \in {"memory", "stopped", "faulted"} BY <1>1
<1> QED BY <1>3, <1>4, <1>5, <1>6, <1>7
      DEF IInv, SomethingIsAllocated, MapIsFaithfulOnceMade,
          PoolIsFree, HeapIsNobodyElses, UsableMemoryIsAccountedFor

\* The pool is the usable frames less what is reserved, all in free memory.
LEMMA InvSetupMemory == IInv /\ SetupMemory => IInv'
<1> SUFFICES ASSUME IInv, SetupMemory PROVE IInv' OBVIOUS
<1> DEFINE n == Min({Max({RegionEnd(r) : r \in RegionSet}), MAX_MANAGED})
           usable == FramesOfKind("Usable")
           loader == FramesOfKind("BootloaderReclaimable")
           reserved == kernel \cup framebuffer \cup loader \cup {0}
           C == Of("CONVENTIONAL")
<1>1. /\ pc = "memory" /\ pc' = "heap" /\ window' = window /\ rejected' = rejected
      /\ memory' = memory /\ kernel' = kernel /\ handed' = handed /\ kept' = kept
      /\ framebuffer' = framebuffer /\ truncated' = truncated
  BY DEF SetupMemory, machineVars
<1>2. /\ managed' = 0 .. (n - 1)
      /\ free' = (usable \cap (0 .. (n - 1))) \ reserved
      /\ warned' = (End(usable) > n)
  BY DEF SetupMemory, ExcessUsable
<1>3. Paged /\ MapIsFaithful BY <1>1 DEF IInv, MapIsFaithfulOnceMade
<1>4. n \in Nat /\ n <= MAX_MAPPED BY <1>3, ManagedIsBounded
<1> HIDE DEF n
<1>5. \A p \in usable : p \in DOMAIN memory /\ p \in C
  <2> SUFFICES ASSUME NEW p \in usable PROVE p \in DOMAIN memory /\ p \in C OBVIOUS
  <2>1. p \in DOMAIN memory /\ KindOf(memory[p]) = "Usable" BY <1>3, FramesAreOfKind
  <2> QED BY <2>1, UsableIsConventional DEF Of
<1>6. \A p \in C : p \notin loader /\ p \notin kernel
  <2> SUFFICES ASSUME NEW p \in C PROVE p \notin loader /\ p \notin kernel OBVIOUS
  <2>1. memory[p] = "CONVENTIONAL" BY DEF Of
  <2>2. KindOf(memory[p]) # "BootloaderReclaimable" BY <2>1 DEF KindOf
  <2>3. p \notin loader BY <1>3, <2>2, FramesAreOfKind
  <2>4. p \notin kernel BY <2>1 DEF IInv, AllocationsAreTyped, Of
  <2> QED BY <2>3, <2>4
<1>7. ~truncated => C \subseteq usable BY <1>3, UsableIsComplete
<1>8. End(usable) \in Nat /\ \A p \in usable : p \in Nat /\ p < End(usable)
  <2>1. PICK b \in Nat : memory \in [0 .. (b - 1) -> Types] BY <1>3 DEF Paged
  <2>2. usable \subseteq Nat /\ \A p \in usable : p < b
    <3>1. DOMAIN memory = 0 .. (b - 1) BY <2>1
    <3> HIDE DEF usable, C
    <3> QED BY <1>5, <3>1
  <2> HIDE DEF usable
  <2> QED BY <2>2, EndIsAbove
<1>9. C' = C BY <1>1 DEF Of
<1>10. MAX_MAPPED \in Nat BY BootHandoffAssumption
<1> HIDE DEF usable, loader, C
<1>11. free' \subseteq C \ (framebuffer \cup {0}) BY <1>2, <1>5
<1>12. \A p \in free' : p < MAX_MAPPED
  <2> SUFFICES ASSUME NEW p \in free' PROVE p < MAX_MAPPED OBVIOUS
  <2>1. p \in 0 .. (n - 1) BY <1>2
  <2> QED BY <1>4, <1>10, <2>1
<1>13. ASSUME ~truncated, NEW p \in C
       PROVE  p \in free' \cup framebuffer \cup {0} \/ (p \notin managed' /\ warned')
  <2>1. p \in usable /\ p \in Nat /\ p < End(usable) BY <1>7, <1>8, <1>13
  <2>2. CASE p < n
    <3>1. p \in 0 .. (n - 1) BY <1>4, <2>1, <2>2
    <3> QED BY <1>2, <1>6, <2>1, <3>1
  <2>3. CASE ~(p < n)
    <3>1. p \notin 0 .. (n - 1) BY <1>4, <2>1, <2>3
    <3>2. End(usable) > n
      <4> DEFINE e == End(usable)
      <4>1. e \in Nat /\ p < e BY <1>8, <2>1
      <4> HIDE DEF e
      <4>2. e > n BY <1>4, <2>1, <2>3, <4>1
      <4> QED BY <4>2 DEF e
    <3> QED BY <1>2, <3>1, <3>2
  <2> QED BY <2>2, <2>3
<1>14. PoolIsFree' BY <1>1, <1>9, <1>11, <1>12, <1>13 DEF PoolIsFree, C
<1>15. Paged' /\ AllocationsAreTyped' BY <1>1 DEF IInv, Paged, AllocationsAreTyped, Of
<1>16. RamIsMapped' BY <1>1 DEF IInv, RamIsMapped
<1>17. rejected' \in {"none", "Ok"} BY <1>1 DEF IInv, RefusalIsForWant
<1> QED BY <1>1, <1>14, <1>15, <1>16, <1>17
      DEF IInv, SomethingIsAllocated, MapIsFaithfulOnceMade, RefusalIsForWant,
          HeapIsNobodyElses, UsableMemoryIsAccountedFor

\* What the pool grants.
LEMMA HeapIsGranted ==
  ASSUME SetupHeap
  PROVE  /\ pc = "heap" /\ managed' = managed
         /\ \/ /\ heap' \subseteq free /\ free' = free \ heap'
               /\ pc' = IF heap' \subseteq window THEN "running" ELSE "faulted"
            \/ pc' = "stopped"
<1>1. CASE /\ Pool!Grant(HEAP_FRAMES)
           /\ heap' = Pool!Run(outcome'.frame, HEAP_FRAMES)
           /\ pc' = IF heap' \subseteq window THEN "running" ELSE "faulted"
  <2>1. PICK f \in managed :
          /\ Pool!Run(f, HEAP_FRAMES) \subseteq free
          /\ free' = free \ Pool!Run(f, HEAP_FRAMES) /\ managed' = managed
          /\ outcome' = Pool!Outcome("allocate", f, HEAP_FRAMES, "Ok")
    BY <1>1 DEF Pool!Grant, Pool!Complete
  <2>2. outcome'.frame = f BY <2>1 DEF Pool!Outcome
  <2> HIDE DEF Pool!Run
  <2>3. heap' = Pool!Run(f, HEAP_FRAMES) BY <1>1, <2>2
  <2> QED BY <1>1, <2>1, <2>3 DEF SetupHeap
<1>2. CASE Pool!Deny(HEAP_FRAMES) /\ pc' = "stopped"
  BY <1>2 DEF SetupHeap, Pool!Deny, Pool!Complete
<1> QED BY <1>1, <1>2 DEF SetupHeap

\* The heap is taken from the pool.
LEMMA InvSetupHeap == IInv /\ SetupHeap => IInv'
<1> SUFFICES ASSUME IInv, SetupHeap PROVE IInv' OBVIOUS
<1> DEFINE C == Of("CONVENTIONAL")
<1>1. /\ rejected' = rejected /\ warned' = warned /\ truncated' = truncated
      /\ memory' = memory /\ kernel' = kernel /\ handed' = handed /\ kept' = kept
      /\ framebuffer' = framebuffer
  BY DEF SetupHeap, machineVars
<1>2. /\ pc = "heap" /\ managed' = managed
      /\ \/ /\ heap' \subseteq free /\ free' = free \ heap'
            /\ pc' \in {"running", "faulted"}
         \/ pc' = "stopped"
  BY HeapIsGranted
<1>3. /\ free \subseteq C \ (framebuffer \cup {0})
      /\ ~truncated => \A p \in C : p \in free \cup framebuffer \cup {0} \/ (p \notin managed /\ warned)
  BY <1>2 DEF IInv, PoolIsFree
<1>4. C' = C BY <1>1 DEF Of
<1>5. C \cap (kernel \cup handed \cup kept) = {} BY DEF IInv, AllocationsAreTyped, Of
<1> HIDE DEF C
<1>6. HeapIsNobodyElses' BY <1>1, <1>2, <1>3, <1>4, <1>5 DEF HeapIsNobodyElses, C
<1>7. UsableMemoryIsAccountedFor' BY <1>1, <1>2, <1>3, <1>4 DEF UsableMemoryIsAccountedFor, C
<1>8. Paged' /\ AllocationsAreTyped' BY <1>1 DEF IInv, Paged, AllocationsAreTyped, Of
<1>9. rejected' \in {"none", "Ok"} BY <1>1, <1>2 DEF IInv, RefusalIsForWant
<1>10. pc' \in {"running", "faulted", "stopped"} BY <1>2
<1> QED BY <1>6, <1>7, <1>8, <1>9, <1>10
      DEF IInv, RamIsMapped, SomethingIsAllocated, MapIsFaithfulOnceMade, RefusalIsForWant, PoolIsFree

\* Stuttering.
LEMMA InvUnchanged == IInv /\ UNCHANGED vars => IInv'
<1> SUFFICES ASSUME IInv, UNCHANGED vars PROVE IInv' OBVIOUS
<1> USE DEF vars
<1>1. Paged' /\ AllocationsAreTyped' BY DEF IInv, Paged, AllocationsAreTyped, Of
<1>2. RamIsMapped' /\ SomethingIsAllocated' BY DEF IInv, RamIsMapped, SomethingIsAllocated, Of
<1>3. MapIsFaithfulOnceMade' BY FaithfulStays DEF IInv, MapIsFaithfulOnceMade
<1>4. RefusalIsForWant' BY DEF IInv, RefusalIsForWant, Of
<1>5. PoolIsFree' BY DEF IInv, PoolIsFree, Of
<1>6. HeapIsNobodyElses' BY DEF IInv, HeapIsNobodyElses, Of
<1>7. UsableMemoryIsAccountedFor' BY DEF IInv, UsableMemoryIsAccountedFor, Of
<1> QED BY <1>1, <1>2, <1>3, <1>4, <1>5, <1>6, <1>7 DEF IInv

\* The invariant holds of the whole boot.
LEMMA Inductive == Spec => []IInv
<1>1. IInv /\ [Next]_vars => IInv'
  BY InvLoaderFails, InvAllocatePages, InvQuery, InvBuildTables, InvExitBootServices,
     InvConvertMemoryMap, InvJump, InvValidateBootInfo, InvSetupMemory, InvSetupHeap, InvUnchanged
     DEF Next
<1> QED BY <1>1, InvInit, PTL DEF Spec

-----------------------------------------------------------------------------
(* The theorems. *)

\* Wherever the loader's allocations lie, the kernel's heap is memory that was
\* free when the firmware was left (main.rs of the kernel, setup_memory).
THEOREM HeapIsFreeMemory == Spec => []HeapIsNobodyElses
BY Inductive, PTL DEF IInv

\* The loader hands over a map that the kernel accepts, whatever the firmware's
\* order (main.rs of the loader, convert_memory_map; validate_memory_map).
THEOREM TheMapIsGood == Spec => []GoodMapIsAccepted
<1>1. IInv => GoodMapIsAccepted BY DEF IInv, RefusalIsForWant, GoodMapIsAccepted
<1> QED BY <1>1, Inductive, PTL

\* No usable page is lost without a word, unless the map did not fit (main.rs
\* of the kernel, setup_memory).
THEOREM NothingUsableIsLost == Spec => []UsableMemoryIsAccountedFor
BY Inductive, PTL DEF IInv

\* What is out of reach of the identity map, or of the window.
OutOfReach ==
  \/ \E p \in Of("LOADER_CODE") : p >= IDENTITY
  \/ \E p \in handed : p >= MAX_MAPPED

\* A boot that gets to the kernel faults only for what is out of reach: pages
\* below the limits are mapped when they are first used, and the heap always
\* is (main.rs of the loader, highest_ram_address, map_huge_range and the
\* switch of page tables; setup_heap).
THEOREM NothingInReachFaults == Spec => []FaultsOnlyOutOfReach
<1>1. Init => FaultsOnlyOutOfReach
  BY DEF Init, FaultsOnlyOutOfReach
<1>2. IInv /\ FaultsOnlyOutOfReach /\ [Next]_vars => FaultsOnlyOutOfReach'
  <2> SUFFICES ASSUME IInv, FaultsOnlyOutOfReach, [Next]_vars, pc' = "faulted"
               PROVE  OutOfReach'
    BY DEF FaultsOnlyOutOfReach, OutOfReach
  <2>1. CASE Jump
    <3>1. memory' = memory /\ handed' = handed BY <2>1 DEF Jump, machineVars
    <3>2. PICK p \in Of("LOADER_CODE") : p \notin 0 .. (IDENTITY - 1) BY <2>1 DEF Jump
    <3>3. p \in Nat /\ IDENTITY \in Nat BY <3>2, BootHandoffAssumption DEF IInv, Paged, Of
    <3>4. p >= IDENTITY BY <3>2, <3>3
    <3> QED BY <3>1, <3>2, <3>4 DEF OutOfReach, Of
  <2>2. CASE ValidateBootInfo
    <3>1. memory' = memory /\ handed' = handed /\ pc = "entered"
      BY <2>2 DEF ValidateBootInfo, machineVars
    <3>2. PICK p \in handed : p \notin window BY <2>2 DEF ValidateBootInfo
    <3>3. p \in DOMAIN memory /\ memory[p] = "LOADER_DATA"
      BY <3>2 DEF IInv, AllocationsAreTyped, Of
    <3>4. IsInstalledRam(memory[p]) BY <3>3 DEF IsInstalledRam
    <3>5. ~(p < MAX_MAPPED) BY <3>1, <3>2, <3>3, <3>4 DEF IInv, RamIsMapped
    <3>6. p \in Nat /\ MAX_MAPPED \in Nat BY <3>3, BootHandoffAssumption DEF IInv, Paged
    <3>7. p >= MAX_MAPPED BY <3>5, <3>6
    <3> QED BY <3>1, <3>2, <3>7 DEF OutOfReach
  <2>3. CASE SetupHeap
    <3>1. free \subseteq window
      <4> SUFFICES ASSUME NEW p \in free PROVE p \in window OBVIOUS
      <4>1. pc = "heap" BY <2>3 DEF SetupHeap
      <4>2. p \in Of("CONVENTIONAL") /\ p < MAX_MAPPED BY <4>1 DEF IInv, PoolIsFree
      <4>3. p \in DOMAIN memory /\ IsInstalledRam(memory[p]) BY <4>2 DEF Of, IsInstalledRam
      <4> QED BY <4>1, <4>2, <4>3 DEF IInv, RamIsMapped
    <3> QED BY <2>3, <3>1, HeapIsGranted
  <2>4. CASE UNCHANGED vars
    <3>1. pc = "faulted" /\ memory' = memory /\ handed' = handed BY <2>4 DEF vars
    <3> QED BY <3>1 DEF FaultsOnlyOutOfReach, OutOfReach, Of
  <2>5. CASE \/ LoaderFails \/ AllocatePages \/ Query \/ BuildTables \/ ExitBootServices
             \/ ConvertMemoryMap \/ SetupMemory
    BY <2>5 DEF LoaderFails, AllocatePages, Query, BuildTables, ExitBootServices,
                ConvertMemoryMap, SetupMemory
  <2> QED BY <2>1, <2>2, <2>3, <2>4, <2>5 DEF Next
<1> QED BY <1>1, <1>2, Inductive, PTL DEF Spec

=============================================================================
