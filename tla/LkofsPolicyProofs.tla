------------------------- MODULE LkofsPolicyProofs -------------------------
(***************************************************************************)
(* Theorems about LkofsPolicy and LkoPath, for any texts, subjects and     *)
(* grants.  Every path the system holds is canonical, however it was come  *)
(* by: legal names, the root they name and a bounded length.  From that    *)
(* follow what the paths promise and, with the policy's answer to what is  *)
(* being performed, what the policy promises.                              *)
(***************************************************************************)
EXTENDS LkofsPolicy, FiniteSetTheorems, SequenceTheorems, WellFoundedInduction, TLAPS

\* Some well-founded relation contains the order of the natural numbers.
LEMMA LessIsWellFounded ==
  \E R : IsWellFoundedOn(R, Nat) /\ \A x, y \in Nat : x < y => <<x, y>> \in R
<1>1. IsWellFoundedOn(OpToRel(<, Nat), Nat) BY NatLessThanWellFounded, Zenon
<1>2. \A x, y \in Nat : x < y => <<x, y>> \in OpToRel(<, Nat) BY DEF OpToRel
<1> QED BY <1>1, <1>2, Zenon

\* So a set of natural numbers that is not empty has a least element.
LEMMA LeastExists ==
  ASSUME NEW T, T \subseteq Nat, T # {}
  PROVE  \E x \in T : \A y \in T : x <= y
<1>1. PICK R : IsWellFoundedOn(R, Nat) /\ \A x, y \in Nat : x < y => <<x, y>> \in R
  BY LessIsWellFounded, Zenon
<1>2. \E x \in T : \A y \in T : ~(<<y, x>> \in R)
  <2>1. IsWellFoundedOn(R, Nat) BY <1>1
  <2> HIDE <1>1
  <2>2. \A RR, SS : IsWellFoundedOn(RR, SS) =>
          \A TT : TT \subseteq SS /\ TT # {} => \E x \in TT : \A y \in TT : ~(<<y, x>> \in RR)
    BY WFMin, Zenon
  <2> QED BY <2>1, <2>2, Zenon
<1>3. PICK x \in T : \A y \in T : ~(<<y, x>> \in R) BY <1>2, Zenon
<1>4. \A y \in T : ~(y < x) BY <1>1, <1>3, Zenon
<1> QED BY <1>4

\* Induction: a set that holds zero and the successor of each of its members
\* up to a bound holds every number up to it.
LEMMA CountingUp ==
  ASSUME NEW n \in Nat, NEW T, 0 \in T, \A i \in 0..(n - 1) : i \in T => i + 1 \in T
  PROVE  0..n \subseteq T
<1> DEFINE B == {i \in 0..n : i \notin T}
<1> SUFFICES ASSUME B # {} PROVE FALSE OBVIOUS
<1>1. PICK i \in B : \A j \in B : i <= j
  <2>1. B \subseteq Nat OBVIOUS
  <2> QED BY <2>1, LeastExists
<1>2. i # 0 BY <1>1
<1>3. i - 1 \in 0..(n - 1) /\ i - 1 \in T BY <1>1, <1>2
<1>4. (i - 1) + 1 \in T BY <1>3
<1> QED BY <1>1, <1>4

-----------------------------------------------------------------------------
(* Lengths. *)

LEMMA NamesTyped ==
  ASSUME NEW s \in Seq(Names)
  PROVE  /\ Len(s) \in Nat /\ DOMAIN s = 1..Len(s)
         /\ \A i \in 1..Len(s) : s[i] \in Names /\ s[i].bytes \in Nat
<1>1. Len(s) \in Nat /\ DOMAIN s = 1..Len(s) /\ \A i \in 1..Len(s) : s[i] \in Names OBVIOUS
<1>2. \A n \in Names : n.bytes \in Nat BY DEF Names
<1> QED BY <1>1, <1>2

\* The running length satisfies its equation.
LEMMA JoinedIsASum ==
  ASSUME NEW s \in Seq(Names)
  PROVE  \E u : /\ Joined(s) = u[Len(s)] /\ u[0] = 0
                /\ \A i \in 1..Len(s) : u[i] = u[i - 1] + 1 + s[i].bytes
                /\ \A i \in 0..Len(s) : u[i] \in Nat
<1> DEFINE n == Len(s)
           F(f) == [i \in 0..n |-> IF i = 0 THEN 0 ELSE f[i - 1] + 1 + s[i].bytes]
           u == CHOOSE f : f = F(f)
<1>0. n \in Nat BY NamesTyped
<1>1. Joined(s) = u[n] BY DEF Joined
<1> DEFINE T == {k \in 0..n : \E f : \A i \in 0..k : f[i] = IF i = 0 THEN 0 ELSE f[i - 1] + 1 + s[i].bytes}
<1> HIDE DEF n
<1>2. 0 \in T
  <2> DEFINE f == [i \in {0} |-> 0]
  <2>1. \A i \in 0..0 : f[i] = IF i = 0 THEN 0 ELSE f[i - 1] + 1 + s[i].bytes OBVIOUS
  <2> HIDE DEF f
  <2>2. \E g : \A i \in 0..0 : g[i] = IF i = 0 THEN 0 ELSE g[i - 1] + 1 + s[i].bytes BY <2>1
  <2> QED BY <1>0, <2>2
<1>3. ASSUME NEW k \in 0..(n - 1), k \in T PROVE k + 1 \in T
  <2>1. PICK f : \A i \in 0..k : f[i] = IF i = 0 THEN 0 ELSE f[i - 1] + 1 + s[i].bytes BY <1>3
  <2> DEFINE g == [i \in 0..(k + 1) |-> IF i = k + 1 THEN f[k] + 1 + s[k + 1].bytes ELSE f[i]]
  <2>2. ASSUME NEW i \in 0..(k + 1) PROVE g[i] = IF i = 0 THEN 0 ELSE g[i - 1] + 1 + s[i].bytes
    <3>1. CASE i = k + 1
      <4>1. i # 0 /\ i - 1 = k /\ k # k + 1 /\ k \in 0..(k + 1) BY <1>0, <3>1
      <4> QED BY <3>1, <4>1
    <3>2. CASE i # k + 1
      <4>1. i \in 0..k /\ (i # 0 => i - 1 \in 0..k /\ i - 1 # k + 1 /\ i - 1 \in 0..(k + 1))
        BY <1>0, <3>2
      <4> QED BY <2>1, <3>2, <4>1
    <3> QED BY <3>1, <3>2
  <2> HIDE DEF g
  <2>3. k + 1 \in 0..n BY <1>0
  <2> QED BY <2>2, <2>3
<1>4. n \in T
  <2> HIDE DEF T
  <2>1. 0..n \subseteq T BY <1>0, <1>2, <1>3, CountingUp
  <2> QED BY <1>0, <2>1
<1>5. PICK f : \A i \in 0..n : f[i] = IF i = 0 THEN 0 ELSE f[i - 1] + 1 + s[i].bytes BY <1>4
<1>6. \E h : h = F(h)
  <2> DEFINE h == [i \in 0..n |-> f[i]]
  <2>1. ASSUME NEW i \in 0..n PROVE h[i] = IF i = 0 THEN 0 ELSE h[i - 1] + 1 + s[i].bytes
    <3>1. i # 0 => i - 1 \in 0..n BY <1>0
    <3> QED BY <1>5, <3>1
  <2>2. h = F(h) BY <2>1
  <2> HIDE DEF h, F
  <2> QED BY <2>2
<1>7. u = F(u)
  <2> HIDE DEF F
  <2> QED BY <1>6, Zenon
<1> HIDE DEF u
<1>8. u[0] = 0 BY <1>0, <1>7
<1>9. \A i \in 1..n : u[i] = u[i - 1] + 1 + s[i].bytes BY <1>0, <1>7
<1>10. \A i \in 0..n : u[i] \in Nat
  <2> DEFINE V == {i \in 0..n : u[i] \in Nat}
  <2>1. 0 \in V BY <1>0, <1>8
  <2>2. ASSUME NEW i \in 0..(n - 1), i \in V PROVE i + 1 \in V
    <3>1. i + 1 \in 1..n /\ (i + 1) - 1 = i BY <1>0
    <3>2. s[i + 1].bytes \in Nat BY <3>1, NamesTyped DEF n
    <3>3. u[i + 1] = u[i] + 1 + s[i + 1].bytes BY <1>9, <3>1
    <3> QED BY <1>0, <2>2, <3>1, <3>2, <3>3
  <2>3. 0..n \subseteq V
    <3> HIDE DEF V
    <3> QED BY <1>0, <2>1, <2>2, CountingUp
  <2> QED BY <2>3
<1> QED BY <1>1, <1>8, <1>9, <1>10 DEF n

\* No names have no bytes.
LEMMA JoinedOfNone == Joined(<< >>) = 0
<1>1. << >> \in Seq(Names) /\ Len(<< >>) = 0 OBVIOUS
<1>2. PICK u : Joined(<< >>) = u[Len(<< >>)] /\ u[0] = 0 BY <1>1, JoinedIsASum, Zenon
<1> QED BY <1>1, <1>2, Zenon

\* The length of a prefix is the running length there.
LEMMA JoinedOfPrefix ==
  ASSUME NEW s \in Seq(Names)
  PROVE  \E u : /\ u[0] = 0
                /\ \A i \in 1..Len(s) : u[i] = u[i - 1] + 1 + s[i].bytes
                /\ \A i \in 0..Len(s) : u[i] \in Nat /\ Joined(SubSeq(s, 1, i)) = u[i]
<1> DEFINE n == Len(s)
<1>1. PICK u : /\ u[0] = 0
               /\ \A i \in 1..n : u[i] = u[i - 1] + 1 + s[i].bytes
               /\ \A i \in 0..n : u[i] \in Nat
  BY JoinedIsASum
<1>2. ASSUME NEW k \in 0..n PROVE Joined(SubSeq(s, 1, k)) = u[k]
  <2> DEFINE t == SubSeq(s, 1, k)
  <2>1. t \in Seq(Names) /\ Len(t) = k /\ \A i \in 1..k : t[i] = s[i]
    BY SubSeqProperties
  <2> HIDE DEF t
  <2>2. PICK v : /\ Joined(t) = v[k] /\ v[0] = 0
                 /\ \A i \in 1..k : v[i] = v[i - 1] + 1 + t[i].bytes
    BY <2>1, JoinedIsASum
  <2> DEFINE T == {i \in 0..k : v[i] = u[i]}
  <2>3. 0 \in T BY <1>1, <2>2
  <2>4. ASSUME NEW i \in 0..(k - 1), i \in T PROVE i + 1 \in T
    <3>1. i + 1 \in 1..k /\ i + 1 \in 1..n /\ (i + 1) - 1 = i /\ i + 1 \in 0..k BY NamesTyped
    <3>2. v[i + 1] = v[i] + 1 + s[i + 1].bytes BY <2>1, <2>2, <3>1
    <3>3. u[i + 1] = u[i] + 1 + s[i + 1].bytes BY <1>1, <3>1
    <3> QED BY <2>4, <3>1, <3>2, <3>3
  <2>5. 0..k \subseteq T
    <3> HIDE DEF T
    <3>1. k \in Nat BY NamesTyped
    <3> QED BY <2>3, <2>4, <3>1, CountingUp
  <2>6. k \in T BY <2>5, NamesTyped
  <2> QED BY <2>2, <2>6 DEF t
<1> QED BY <1>1, <1>2

\* One name, one name more, and a longer prefix.
LEMMA JoinedOfOne ==
  ASSUME NEW n \in Names
  PROVE  Joined(<<n>>) = 1 + n.bytes
<1> DEFINE s == <<n>>
<1>1. s \in Seq(Names) /\ Len(s) = 1 /\ s[1] = n OBVIOUS
<1>2. n.bytes \in Nat BY DEF Names
<1> HIDE DEF s
<1>3. PICK u : /\ Joined(s) = u[Len(s)] /\ u[0] = 0
               /\ \A i \in 1..Len(s) : u[i] = u[i - 1] + 1 + s[i].bytes
  BY <1>1, JoinedIsASum
<1>4. 1 \in 1..Len(s) /\ 1 - 1 = 0 BY <1>1
<1>5. u[1] = u[0] + 1 + n.bytes BY <1>1, <1>3, <1>4
<1>6. Joined(s) = 1 + n.bytes BY <1>1, <1>2, <1>3, <1>5
<1> QED BY <1>6 DEF s

\* One more name adds its bytes and a separator.
LEMMA JoinedOfAppend ==
  ASSUME NEW s \in Seq(Names), NEW n \in Names
  PROVE  /\ Joined(s) \in Nat
         /\ Joined(Append(s, n)) = Joined(s) + 1 + n.bytes
<1> DEFINE t == Append(s, n)
<1>1. /\ t \in Seq(Names) /\ Len(t) = Len(s) + 1 /\ t[Len(s) + 1] = n /\ Len(s) \in Nat
      /\ SubSeq(t, 1, Len(s)) = s /\ SubSeq(t, 1, Len(s) + 1) = t
  BY AppendProperties, SubSeqFull, SubSeqProperties
<1> HIDE DEF t
<1>2. PICK u : /\ \A i \in 1..Len(t) : u[i] = u[i - 1] + 1 + t[i].bytes
               /\ \A i \in 0..Len(t) : u[i] \in Nat /\ Joined(SubSeq(t, 1, i)) = u[i]
  BY <1>1, JoinedOfPrefix
<1>3. Joined(s) = u[Len(s)] /\ u[Len(s)] \in Nat /\ Joined(t) = u[Len(s) + 1]
  <2>1. Len(s) \in 0..Len(t) /\ Len(s) + 1 \in 0..Len(t) BY <1>1
  <2>2. Joined(SubSeq(t, 1, Len(s))) = u[Len(s)] /\ u[Len(s)] \in Nat BY <1>2, <2>1
  <2>3. Joined(SubSeq(t, 1, Len(s) + 1)) = u[Len(s) + 1] BY <1>2, <2>1
  <2> QED BY <1>1, <2>2, <2>3
<1>4. u[Len(s) + 1] = u[Len(s)] + 1 + n.bytes
  <2>1. Len(s) + 1 \in 1..Len(t) /\ (Len(s) + 1) - 1 = Len(s) BY <1>1
  <2> QED BY <1>1, <1>2, <2>1
<1> QED BY <1>3, <1>4 DEF t

\* A length is a natural number.
LEMMA SumIsNat ==
  ASSUME NEW s \in Seq(Names)
  PROVE  Joined(s) \in Nat
<1>1. Len(s) \in 0..Len(s) BY NamesTyped
<1> QED BY <1>1, JoinedIsASum

\* More of the names are no fewer bytes.
LEMMA PrefixesGrow ==
  ASSUME NEW s \in Seq(Names), NEW j \in 0..Len(s), NEW k \in 0..Len(s)
  PROVE  /\ Joined(SubSeq(s, 1, j)) \in Nat
         /\ j < k => Joined(SubSeq(s, 1, j)) < Joined(SubSeq(s, 1, k))
<1> DEFINE n == Len(s)
<1>0. n \in Nat BY NamesTyped
<1>1. PICK u : /\ u[0] = 0
               /\ \A i \in 1..n : u[i] = u[i - 1] + 1 + s[i].bytes
               /\ \A i \in 0..n : u[i] \in Nat /\ Joined(SubSeq(s, 1, i)) = u[i]
  BY JoinedOfPrefix
<1> DEFINE T == {d \in Nat : j + d < n => u[j] < u[j + d + 1]}
<1>2. ASSUME NEW d \in Nat, j + d < n PROVE u[j + d] < u[j + d + 1]
  <2>1. j + d + 1 \in 1..n /\ (j + d + 1) - 1 = j + d BY <1>0, <1>2
  <2>2. s[j + d + 1].bytes \in Nat BY <2>1, NamesTyped
  <2>3. u[j + d] \in Nat BY <1>0, <1>1, <1>2
  <2>4. u[j + d + 1] = u[j + d] + 1 + s[j + d + 1].bytes BY <1>1, <2>1
  <2> QED BY <2>2, <2>3, <2>4
<1>3. 0 \in T BY <1>0, <1>2
<1>4. ASSUME NEW d \in 0..(n - 1), d \in T PROVE d + 1 \in T
  <2> SUFFICES ASSUME j + (d + 1) < n PROVE u[j] < u[j + (d + 1) + 1] BY <1>0
  <2>1. u[j] < u[j + d + 1] BY <1>4, <1>0
  <2>2. u[j + (d + 1)] < u[j + (d + 1) + 1]
    <3>1. d + 1 \in Nat OBVIOUS
    <3> QED BY <1>2, <3>1
  <2>3. j + d + 1 = j + (d + 1) /\ j + d + 1 \in 0..n /\ j + (d + 1) + 1 \in 0..n BY <1>0
  <2>4. u[j] \in Nat /\ u[j + d + 1] \in Nat /\ u[j + (d + 1) + 1] \in Nat BY <1>1, <2>3
  <2> QED BY <2>1, <2>2, <2>3, <2>4
<1>5. 0..n \subseteq T
  <2> HIDE DEF T
  <2> QED BY <1>0, <1>3, <1>4, CountingUp
<1>6. ASSUME j < k PROVE u[j] < u[k]
  <2>1. k - j - 1 \in 0..n /\ j + (k - j - 1) < n /\ j + (k - j - 1) + 1 = k BY <1>0, <1>6
  <2>2. k - j - 1 \in T BY <1>5, <2>1
  <2> QED BY <2>1, <2>2
<1> QED BY <1>1, <1>6

-----------------------------------------------------------------------------
(* Validation. *)

\* A component that may stand in a path.
Legal(n) == n.bytes \in 1..MAX_COMPONENT_LEN /\ n.marks \subseteq {"NonAscii"}

\* Validation passes exactly what may stand in a path.
LEMMA ValidIsLegal ==
  ASSUME NEW n \in Names
  PROVE  ValidateComponent(<<n>>) = "Ok" <=> Legal(n)
<1> DEFINE order == <<"EmptyComponent", "ComponentTooLong", "RelativeComponent", "BackslashSeparator",
                      "SeparatorInName", "ControlCharacter", "BidirectionalOverride",
                      "TrailingSpaceOrDot">>
           found == {i \in DOMAIN order : order[i] \in Flaws(<<n>>)}
<1>1. n.bytes \in Nat /\ n.marks \subseteq Marks BY DEF Names
<1>2. Flaws(<<n>>) = (IF n.bytes = 0 THEN {"EmptyComponent"} ELSE {})
                     \cup (IF n.bytes > MAX_COMPONENT_LEN THEN {"ComponentTooLong"} ELSE {})
                     \cup (n.marks \ {"NonAscii"})
  <2>1. Joined(<<n>>) - 1 = n.bytes BY <1>1, JoinedOfOne
  <2>2. Len(<<n>>) = 1 /\ <<n>>[1] = n /\ DOMAIN <<n>> = {1} OBVIOUS
  <2>3. UNION {<<n>>[i].marks \cap {"BackslashSeparator"} : i \in DOMAIN <<n>>}
          = n.marks \cap {"BackslashSeparator"}
    BY <2>2
  <2>4. n.marks \cap {"BackslashSeparator"} \subseteq n.marks \ {"NonAscii"} OBVIOUS
  <2> DEFINE b == Joined(<<n>>) - 1
             m == UNION {<<n>>[i].marks \cap {"BackslashSeparator"} : i \in DOMAIN <<n>>}
  <2>5. Flaws(<<n>>) = (IF b = 0 THEN {"EmptyComponent"} ELSE {})
                       \cup (IF b > MAX_COMPONENT_LEN THEN {"ComponentTooLong"} ELSE {})
                       \cup (IF Len(<<n>>) > 1 THEN {"SeparatorInName"} ELSE <<n>>[1].marks \ {"NonAscii"})
                       \cup m
    BY DEF Flaws
  <2>6. ~(Len(<<n>>) > 1) BY <2>2
  <2> HIDE DEF b, m
  <2>7. b = n.bytes /\ m \subseteq n.marks \ {"NonAscii"} BY <2>1, <2>3, <2>4 DEF b, m
  <2> QED BY <2>2, <2>5, <2>6, <2>7
<1>3. DOMAIN order = 1..8 OBVIOUS
<1>4. found = {} <=> Legal(n)
  <2>1. Legal(n) => found = {}
    <3> SUFFICES ASSUME Legal(n), NEW i \in 1..8, order[i] \in Flaws(<<n>>) PROVE FALSE BY <1>3
    <3>1. Flaws(<<n>>) = {} BY <1>1, <1>2, LkoPathAssumption DEF Legal
    <3> QED BY <3>1
  <2>2. found = {} => Legal(n)
    <3> SUFFICES ASSUME found = {} PROVE Legal(n) OBVIOUS
    <3>1. \A i \in 1..8 : order[i] \notin Flaws(<<n>>) BY <1>3
    <3>2. /\ "EmptyComponent" \notin Flaws(<<n>>) /\ "ComponentTooLong" \notin Flaws(<<n>>)
          /\ "RelativeComponent" \notin Flaws(<<n>>) /\ "BackslashSeparator" \notin Flaws(<<n>>)
          /\ "ControlCharacter" \notin Flaws(<<n>>) /\ "BidirectionalOverride" \notin Flaws(<<n>>)
          /\ "TrailingSpaceOrDot" \notin Flaws(<<n>>)
      BY <3>1
    <3> HIDE DEF order, found
    <3> QED BY <1>1, <1>2, <3>2, LkoPathAssumption DEF Legal, Marks
  <2> QED BY <2>1, <2>2
<1>5. ValidateComponent(<<n>>) = IF found = {} THEN "Ok" ELSE order[Min(found)]
  BY DEF ValidateComponent
<1>6. found # {} => order[Min(found)] # "Ok"
  <2> SUFFICES ASSUME found # {} PROVE order[Min(found)] # "Ok" OBVIOUS
  <2>1. \E x \in found : \A y \in found : x <= y
    <3>1. found \subseteq Nat BY <1>3
    <3> HIDE DEF found
    <3> QED BY <3>1, LeastExists
  <2>2. Min(found) \in found
    <3> HIDE DEF found
    <3> QED BY <2>1 DEF Min
  <2>3. Min(found) \in 1..8 BY <1>3, <2>2
  <2>4. \A i \in 1..8 : order[i] # "Ok" OBVIOUS
  <2> HIDE DEF found, order
  <2> QED BY <2>3, <2>4
<1> HIDE DEF found, order
<1> QED BY <1>4, <1>5, <1>6

\* More than one name is not a component.
LEMMA SeparatorsAreRefused ==
  ASSUME NEW names \in Seq(Names), names # << >>, ValidateComponent(names) = "Ok"
  PROVE  Len(names) = 1 /\ names = <<names[1]>> /\ names[1] \in Names
<1> DEFINE order == <<"EmptyComponent", "ComponentTooLong", "RelativeComponent", "BackslashSeparator",
                      "SeparatorInName", "ControlCharacter", "BidirectionalOverride",
                      "TrailingSpaceOrDot">>
           found == {i \in DOMAIN order : order[i] \in Flaws(names)}
<1>0. DOMAIN order = 1..8 OBVIOUS
<1>1. found = {}
  <2>1. ValidateComponent(names) = IF found = {} THEN "Ok" ELSE order[Min(found)]
    BY DEF ValidateComponent
  <2> SUFFICES ASSUME found # {} PROVE order[Min(found)] # "Ok" BY <2>1
  <2>2. \E x \in found : \A y \in found : x <= y
    <3>1. found \subseteq Nat BY <1>0
    <3> HIDE DEF found
    <3> QED BY <3>1, LeastExists
  <2>3. Min(found) \in found
    <3> HIDE DEF found
    <3> QED BY <2>2 DEF Min
  <2>4. Min(found) \in 1..8 BY <1>0, <2>3
  <2>5. \A i \in 1..8 : order[i] # "Ok" OBVIOUS
  <2> HIDE DEF found, order
  <2> QED BY <2>4, <2>5
<1>2. "SeparatorInName" \notin Flaws(names)
  <2>1. 5 \in 1..8 /\ order[5] = "SeparatorInName" OBVIOUS
  <2> QED BY <1>0, <1>1, <2>1
<1>3. ~(Len(names) > 1) BY <1>2 DEF Flaws
<1>4. Len(names) = 1
  <2>1. Len(names) \in Nat BY NamesTyped
  <2>2. Len(names) # 0 BY EmptySeq
  <2> DEFINE k == Len(names)
  <2>3. k \in Nat /\ k # 0 /\ ~(k > 1) BY <1>3, <2>1, <2>2
  <2> HIDE DEF k
  <2>4. k = 1 BY <2>3
  <2> QED BY <2>4 DEF k
<1> QED BY <1>4, NamesTyped

-----------------------------------------------------------------------------
(* Paths. *)

\* Selecting the first positions cuts the sequence.
LEMMA SelectedPrefix ==
  ASSUME NEW S, NEW s \in Seq(S), NEW n \in 0..Len(s)
  PROVE  Selected(s, 1..n) = SubSeq(s, 1, n)
<1> DEFINE P == 1..n
           key == [i \in P |-> i]
           rank(x) == Cardinality({y \in P : key[y] <= key[x]})
<1>0. n \in Nat BY LenProperties
<1>1. Cardinality(P) = n BY <1>0, FS_Interval
<1>2. ASSUME NEW x \in P PROVE rank(x) = x
  <2>1. {y \in P : key[y] <= key[x]} = 1..x BY <1>0
  <2>2. Cardinality(1..x) = x BY <1>0, FS_Interval
  <2> QED BY <2>1, <2>2
<1>3. ASSUME NEW k \in 1..n PROVE (CHOOSE x \in P : rank(x) = k) = k
  <2> HIDE DEF rank
  <2>1. \E x \in P : rank(x) = k BY <1>2
  <2> DEFINE z == CHOOSE x \in P : rank(x) = k
  <2>2. z \in P /\ rank(z) = k BY <2>1
  <2> HIDE DEF z
  <2>3. z = k BY <1>2, <2>2
  <2> QED BY <2>3 DEF z
<1> DEFINE order == Ascending(P, key)
<1>4. order = [k \in 1..n |-> CHOOSE x \in P : rank(x) = k] BY <1>1 DEF Ascending
<1> HIDE DEF rank
<1>5. \A k \in 1..n : order[k] = k BY <1>3, <1>4
<1>6. Selected(s, P) = [k \in 1..n |-> s[order[k]]] BY <1>1 DEF Selected
<1> HIDE DEF order
<1>7. Selected(s, P) = [k \in 1..n |-> s[k]] BY <1>5, <1>6
<1>8. SubSeq(s, 1, n) = [k \in 1..n |-> s[k]]
  <2>1. /\ SubSeq(s, 1, n) \in Seq(S) /\ Len(SubSeq(s, 1, n)) = n
        /\ \A i \in 1..n : SubSeq(s, 1, n)[i] = s[i]
    BY <1>0, SubSeqProperties
  <2>2. DOMAIN SubSeq(s, 1, n) = 1..n BY <2>1, LenProperties
  <2> QED BY <1>0, <2>1, <2>2
<1> QED BY <1>7, <1>8

\* A path as parse, join and parent leave it: legal names, after which one
\* separator may stand, the root the first of them names, and a bounded length.
WellFormed(p) ==
  /\ p \in [prefix : {"LKO", "lko", ""}, parts : Seq(Names), root : Roots \cup {None}]
  /\ \A i \in 1..Len(p.parts) :
       Legal(p.parts[i]) \/ (i = Len(p.parts) /\ i > 1 /\ p.parts[i] = EmptyName)
  /\ IF p.parts = << >> THEN p.root = None
     ELSE p.root # None /\ p.root = RootNamed(p.parts[1])

Canonical(p) == WellFormed(p) /\ Joined(Components(p)) <= MAX_PATH_LEN

\* The components of a path are its parts up to a trailing separator.
LEMMA ComponentsAreParts ==
  ASSUME NEW p, WellFormed(p)
  PROVE  \E n \in 0..Len(p.parts) :
           /\ Components(p) = SubSeq(p.parts, 1, n)
           /\ Components(p) \in Seq(Names) /\ Len(Components(p)) = n
           /\ \A i \in 1..n : Components(p)[i] = p.parts[i] /\ Legal(p.parts[i])
           /\ p.parts = << >> <=> n = 0
           /\ n = Len(p.parts) \/ (n = Len(p.parts) - 1 /\ p.parts[Len(p.parts)] = EmptyName)
<1> DEFINE s == p.parts
           L == Len(s)
           P == {i \in DOMAIN s : s[i].bytes # 0}
           n == IF L > 1 /\ s[L] = EmptyName THEN L - 1 ELSE L
<1>1. s \in Seq(Names) /\ L \in Nat /\ DOMAIN s = 1..L BY NamesTyped DEF WellFormed
<1>2. \A i \in 1..L : Legal(s[i]) \/ (i = L /\ i > 1 /\ s[i] = EmptyName) BY DEF WellFormed
<1>3. Components(p) = Selected(s, P) BY DEF Components
<1> HIDE DEF s
<1>4. EmptyName.bytes = 0 BY DEF EmptyName
<1>5. \A m : Legal(m) => m.bytes # 0 /\ m # EmptyName BY <1>4, LkoPathAssumption DEF Legal
<1>6. n \in 0..L /\ (L = 0 <=> n = 0) BY <1>1
<1>7. P = 1..n
  <2>1. CASE L > 1 /\ s[L] = EmptyName
    <3>1. n = L - 1 BY <2>1
    <3>2. \A i \in 1..L : i \in P <=> i # L BY <1>1, <1>2, <1>4, <1>5, <2>1
    <3>3. P \subseteq 1..L BY <1>1
    <3> HIDE DEF n, P, L
    <3>4. \A i \in 1..n : i \in 1..L /\ i # L BY <1>1, <3>1
    <3>5. \A i \in 1..L : i # L => i \in 1..n BY <1>1, <3>1
    <3> QED BY <3>2, <3>3, <3>4, <3>5
  <2>2. CASE ~(L > 1 /\ s[L] = EmptyName)
    <3>1. n = L BY <2>2
    <3>2. (\A i \in 1..L : i \in P) /\ P \subseteq 1..L BY <1>1, <1>2, <1>5, <2>2
    <3> HIDE DEF n
    <3> QED BY <1>1, <3>1, <3>2
  <2> QED BY <2>1, <2>2
<1>8. \A i \in 1..n : Legal(s[i])
  <2>1. \A i \in 1..n : i \in 1..L /\ s[i].bytes # 0 BY <1>1, <1>7
  <2> QED BY <1>2, <1>4, <2>1
<1>9. n = L \/ (n = L - 1 /\ s[L] = EmptyName) OBVIOUS
<1>10. s = << >> <=> n = 0
  <2>1. s = << >> <=> L = 0 BY <1>1, EmptySeq
  <2> QED BY <1>6, <2>1
<1> HIDE DEF n, P, L
<1>11. Components(p) = SubSeq(s, 1, n) BY <1>1, <1>3, <1>6, <1>7, SelectedPrefix DEF L
<1>12. /\ SubSeq(s, 1, n) \in Seq(Names) /\ Len(SubSeq(s, 1, n)) = n
       /\ \A i \in 1..n : SubSeq(s, 1, n)[i] = s[i]
  BY <1>1, <1>6, SubSeqProperties DEF L
<1> QED BY <1>6, <1>8, <1>9, <1>10, <1>11, <1>12 DEF s, L

\* What the words, the root and the depth of a path are.
LEMMA PathFacts ==
  ASSUME NEW p, WellFormed(p)
  PROVE  /\ Components(p) \in Seq(Names) /\ Depth(p) = Len(Components(p)) /\ Depth(p) \in Nat
         /\ \A i \in 1..Depth(p) : /\ Components(p)[i] \in Names /\ Legal(Components(p)[i])
                                   /\ Words(p)[i] = Components(p)[i].word
                                   /\ Components(p)[i].word \in STRING
         /\ Len(Words(p)) = Depth(p) /\ DOMAIN Words(p) = 1..Depth(p)
         /\ Depth(p) = 0 => p.root = None /\ p.parts = << >>
         /\ Depth(p) > 0 => /\ p.root = Words(p)[1] /\ p.root \in Roots /\ p.root # None
                            /\ p.root = RootNamed(Components(p)[1])
         /\ \A i \in Nat : TailAt(p, i) = IF Depth(p) > i THEN Words(p)[i + 1] ELSE None
<1>1. PICK n \in 0..Len(p.parts) :
           /\ Components(p) = SubSeq(p.parts, 1, n)
           /\ Components(p) \in Seq(Names) /\ Len(Components(p)) = n
           /\ \A i \in 1..n : Components(p)[i] = p.parts[i] /\ Legal(p.parts[i])
           /\ p.parts = << >> <=> n = 0
  BY ComponentsAreParts
<1> DEFINE c == Components(p)
<1>2. n \in Nat /\ Depth(p) = n BY <1>1 DEF Depth
<1>3. \A i \in 1..n : c[i] \in Names /\ Legal(c[i]) BY <1>1, NamesTyped
<1>4. Words(p) = [i \in 1..n |-> c[i].word] BY <1>2 DEF Words
<1> HIDE DEF c
<1>5. \A i \in 1..n : c[i].word \in STRING
  <2>1. \A m \in Names : m.word \in STRING BY DEF Names
  <2> QED BY <1>3, <2>1
<1>6. Len(Words(p)) = n /\ DOMAIN Words(p) = 1..n BY <1>2, <1>4
<1>7. \A i \in 1..n : Words(p)[i] = c[i].word BY <1>4
<1>8. n = 0 => p.root = None /\ p.parts = << >> BY <1>1 DEF WellFormed
<1>9. ASSUME n > 0 PROVE p.root = Words(p)[1] /\ p.root \in Roots /\ p.root # None
                         /\ p.root = RootNamed(c[1])
  <2>1. 1 \in 1..n /\ p.parts # << >> BY <1>1, <1>2, <1>9
  <2>2. c[1] = p.parts[1] BY <1>1, <2>1 DEF c
  <2>3. p.root # None /\ p.root = RootNamed(c[1]) BY <2>1, <2>2 DEF WellFormed
  <2>4. p.root = c[1].word /\ c[1].word \in Roots BY <2>3 DEF RootNamed
  <2> QED BY <1>7, <2>1, <2>3, <2>4
<1>10. ASSUME NEW i \in Nat PROVE TailAt(p, i) = IF n > i THEN Words(p)[i + 1] ELSE None
  <2>1. n > i => i + 1 \in 1..n BY <1>2
  <2> QED BY <1>2, <1>7, <2>1 DEF TailAt, c
<1> QED BY <1>1, <1>2, <1>3, <1>5, <1>6, <1>7, <1>8, <1>9, <1>10 DEF c

\* Where every part is legal, the parts are the components.
LEMMA LegalParts ==
  ASSUME NEW p, WellFormed(p), \A i \in 1..Len(p.parts) : Legal(p.parts[i])
  PROVE  Components(p) = p.parts
<1>1. PICK n \in 0..Len(p.parts) :
           /\ Components(p) = SubSeq(p.parts, 1, n)
           /\ p.parts = << >> <=> n = 0
           /\ n = Len(p.parts) \/ (n = Len(p.parts) - 1 /\ p.parts[Len(p.parts)] = EmptyName)
  BY ComponentsAreParts
<1>2. p.parts \in Seq(Names) /\ Len(p.parts) \in Nat BY NamesTyped DEF WellFormed
<1>3. ~Legal(EmptyName) BY LkoPathAssumption DEF Legal, EmptyName
<1>4. n = Len(p.parts)
  <2> SUFFICES ASSUME n # Len(p.parts) PROVE FALSE OBVIOUS
  <2>1. n = Len(p.parts) - 1 /\ p.parts[Len(p.parts)] = EmptyName BY <1>1
  <2>2. Len(p.parts) \in 1..Len(p.parts) BY <1>2, <2>1
  <2> QED BY <1>3, <2>1, <2>2
<1> QED BY <1>1, <1>2, <1>4, SubSeqFull

\* The volume itself is canonical.
LEMMA NothingIsCanonical == Canonical(VolumeRoot) /\ Components(VolumeRoot) = << >>
<1>1. WellFormed(VolumeRoot)
  <2>1. << >> \in Seq(Names) /\ Len(<< >>) = 0 OBVIOUS
  <2> QED BY <2>1 DEF WellFormed, VolumeRoot
<1>2. VolumeRoot.parts = << >> /\ Len(<< >>) = 0 BY DEF VolumeRoot
<1>3. Components(VolumeRoot) = << >> BY <1>1, <1>2, LegalParts
<1> QED BY <1>1, <1>3, JoinedOfNone, LkoPathAssumption DEF Canonical

\* No path has longer components than text.
LEMMA ComponentsAreNoLonger ==
  ASSUME NEW p, WellFormed(p)
  PROVE  Joined(Components(p)) \in Nat /\ Joined(Components(p)) <= Joined(p.parts)
<1>1. PICK n \in 0..Len(p.parts) : Components(p) = SubSeq(p.parts, 1, n)
  BY ComponentsAreParts
<1>2. p.parts \in Seq(Names) /\ Len(p.parts) \in Nat BY NamesTyped DEF WellFormed
<1>3. SubSeq(p.parts, 1, Len(p.parts)) = p.parts BY <1>2, SubSeqFull
<1>4. Len(p.parts) \in 0..Len(p.parts) BY <1>2
<1>5. /\ Joined(SubSeq(p.parts, 1, n)) \in Nat /\ Joined(SubSeq(p.parts, 1, Len(p.parts))) \in Nat
      /\ n < Len(p.parts) => Joined(SubSeq(p.parts, 1, n)) < Joined(SubSeq(p.parts, 1, Len(p.parts)))
  BY <1>2, <1>4, PrefixesGrow
<1> DEFINE a == Joined(SubSeq(p.parts, 1, n))
           b == Joined(SubSeq(p.parts, 1, Len(p.parts)))
<1>6. n = Len(p.parts) \/ n < Len(p.parts) BY <1>2
<1>7. a \in Nat /\ b \in Nat /\ (a = b \/ a < b) BY <1>5, <1>6
<1>8. Joined(Components(p)) = a /\ Joined(p.parts) = b BY <1>1, <1>3
<1> HIDE DEF a, b
<1>9. a <= b BY <1>7
<1> QED BY <1>7, <1>8, <1>9

\* What parse has looked at when it comes to the body.
HasBody(t) == Bytes(t) <= MAX_PATH_LEN /\ t.prefix \in {"LKO", "lko", ""} /\ t.parts # << >>

\* What is parsed is canonical.
LEMMA BodyIsCanonical ==
  ASSUME NEW t \in AnyText, HasBody(t)
  PROVE  Canonical(ParseBody(t).path)
<1> DEFINE s == t.parts
           L == Len(s)
           body == Body(t)
<1>0. s \in Seq(Names) BY DEF AnyText
<1>1. L \in Nat /\ \A i \in 1..L : s[i] \in Names
  <2> HIDE DEF s
  <2> QED BY <1>0, NamesTyped
<1>2. \A e : Failed(e).path = VolumeRoot BY DEF Failed
<1>3. \A q : Parsed(q).path = q BY DEF Parsed
<1>4. L > 0 /\ s # << >>
  <2>1. s # << >> BY DEF HasBody
  <2> HIDE DEF s
  <2>2. Len(s) \in Nat \ {0} BY <1>0, <2>1, EmptySeq
  <2> QED BY <2>1, <2>2
<1> DEFINE q == [prefix |-> t.prefix, parts |-> s, root |-> RootNamed(Head(body))]
           bad == {i \in 2..Len(body) : ValidateComponent(<<body[i]>>) # "Ok"}
<1>5. \/ \E e : ParseBody(t) = Failed(e)
      \/ ParseBody(t) = Parsed(VolumeRoot)
      \/ /\ ValidateComponent(<<Head(body)>>) = "Ok" /\ RootNamed(Head(body)) # None /\ bad = {}
         /\ ParseBody(t) = Parsed(q)
  BY DEF ParseBody
<1> HIDE DEF s, L
<1> DEFINE n == IF L > 1 /\ s[L] = EmptyName THEN L - 1 ELSE L
<1>6. /\ body = SubSeq(s, 1, n) /\ Len(body) = n /\ \A i \in 1..n : body[i] = s[i]
      /\ Head(body) = s[1] /\ n \in 1..L
  <2>1. n \in 1..L BY <1>1, <1>4
  <2>2. body = SubSeq(s, 1, n)
    <3>1. CASE L > 1 /\ s[L] = EmptyName
      BY <3>1 DEF Body, Last, Front, s, L
    <3>2. CASE ~(L > 1 /\ s[L] = EmptyName)
      <4>1. body = s BY <3>2 DEF Body, Last, s, L
      <4> QED BY <1>0, <3>2, <4>1, SubSeqFull DEF L
    <3> QED BY <3>1, <3>2
  <2> HIDE DEF n
  <2>3. /\ SubSeq(s, 1, n) \in Seq(Names) /\ Len(SubSeq(s, 1, n)) = n
        /\ \A i \in 1..n : SubSeq(s, 1, n)[i] = s[i]
    BY <1>0, <1>1, <2>1, SubSeqProperties DEF L
  <2> HIDE DEF body
  <2>4. Head(body) = body[1] /\ 1 \in 1..n
    <3>0. n \in Nat \ {0} BY <1>1, <2>1
    <3>1. body # << >>
      <4>1. Len(body) # Len(<< >>) BY <2>2, <2>3, <3>0
      <4> QED BY <4>1, Zenon
    <3>2. 1 \in 1..n BY <3>0
    <3> QED BY <2>2, <2>3, <3>1, <3>2, HeadTailProperties
  <2> QED BY <2>1, <2>2, <2>3, <2>4
<1>7. ASSUME ValidateComponent(<<Head(body)>>) = "Ok", RootNamed(Head(body)) # None, bad = {}
      PROVE  Canonical(q)
  <2>7. n = L \/ (L > 1 /\ n = L - 1 /\ s[L] = EmptyName) OBVIOUS
  <2> HIDE DEF n
  <2>8. \A i \in 1..n : Legal(s[i])
    <3> SUFFICES ASSUME NEW i \in 1..n PROVE Legal(s[i]) OBVIOUS
    <3>1. s[i] \in Names BY <1>1, <1>6
    <3>2. ValidateComponent(<<s[i]>>) = "Ok"
      <4>1. CASE i = 1 BY <1>6, <1>7, <4>1
      <4>2. CASE i # 1
        <5>1. i \in 2..Len(body) /\ body[i] = s[i] BY <1>1, <1>6, <4>2
        <5> QED BY <1>7, <5>1
      <4> QED BY <4>1, <4>2
    <3> QED BY <3>1, <3>2, ValidIsLegal
  <2>9. WellFormed(q) /\ q.parts = s
    <3>1. RootNamed(s[1]) \in Roots \cup {None} BY DEF RootNamed
    <3>2. q.parts = s /\ q.root = RootNamed(s[1]) /\ q.root # None BY <1>6, <1>7
    <3>3. q \in [prefix : {"LKO", "lko", ""}, parts : Seq(Names), root : Roots \cup {None}]
      BY <1>0, <1>6, <3>1 DEF HasBody
    <3>4. \A i \in 1..L : Legal(s[i]) \/ (i = L /\ i > 1 /\ s[i] = EmptyName)
      <4> SUFFICES ASSUME NEW i \in 1..L, ~Legal(s[i]) PROVE i = L /\ i > 1 /\ s[i] = EmptyName OBVIOUS
      <4>1. i \notin 1..n BY <2>8
      <4> QED BY <1>1, <1>6, <2>7, <4>1
    <3> HIDE DEF q
    <3> QED BY <1>4, <3>2, <3>3, <3>4 DEF WellFormed, L
  <2>10. Joined(Components(q)) \in Nat /\ Joined(Components(q)) <= Joined(s)
    <3> HIDE DEF q
    <3> QED BY <2>9, ComponentsAreNoLonger
  <2>11. Joined(s) \in Nat /\ Joined(s) <= MAX_PATH_LEN
    <3> DEFINE j == Joined(s)
    <3>1. j \in Nat BY <1>0, SumIsNat
    <3> DEFINE k == PrefixLen(t.prefix)
    <3>2. k \in Nat /\ k + j <= MAX_PATH_LEN BY DEF Bytes, s, HasBody, PrefixLen
    <3> HIDE DEF j, k
    <3>3. j <= MAX_PATH_LEN BY <3>1, <3>2, LkoPathAssumption
    <3> QED BY <3>1, <3>3 DEF j
  <2> DEFINE a == Joined(Components(q))
             b == Joined(s)
  <2>12. a \in Nat /\ b \in Nat /\ a <= b /\ b <= MAX_PATH_LEN BY <2>10, <2>11
  <2> HIDE DEF q, a, b
  <2>13. a <= MAX_PATH_LEN BY <2>12, LkoPathAssumption
  <2> QED BY <2>9, <2>13 DEF Canonical, a
<1> QED BY <1>2, <1>3, <1>5, <1>7, NothingIsCanonical

\* What parse accepts is canonical.
LEMMA ParsedIsCanonical ==
  ASSUME NEW t \in AnyText
  PROVE  Canonical(Parse(t).path)
<1>1. \A e : Failed(e).path = VolumeRoot BY DEF Failed
<1>2. Parsed(VolumeRoot).path = VolumeRoot BY DEF Parsed
<1>3. \/ \E e : Parse(t) = Failed(e)
      \/ Parse(t) = Parsed(VolumeRoot)
      \/ /\ ~(Bytes(t) > MAX_PATH_LEN) /\ t.prefix \in {"LKO", "lko", ""} /\ t.parts # << >>
         /\ Parse(t) = ParseBody(t)
  BY DEF Parse
<1>4. CASE \E e : Parse(t) = Failed(e) BY <1>1, <1>4, NothingIsCanonical
<1>5. CASE Parse(t) = Parsed(VolumeRoot) BY <1>2, <1>5, NothingIsCanonical
<1>6. CASE /\ ~(Bytes(t) > MAX_PATH_LEN) /\ t.prefix \in {"LKO", "lko", ""} /\ t.parts # << >>
           /\ Parse(t) = ParseBody(t)
  <2>1. Bytes(t) <= MAX_PATH_LEN
    <3>1. PrefixLen(t.prefix) \in Nat BY DEF PrefixLen
    <3>2. t.parts \in Seq(Names) BY DEF AnyText
    <3>3. Joined(t.parts) \in Nat BY <3>2, SumIsNat
    <3>4. Bytes(t) \in Nat BY <3>1, <3>3 DEF Bytes
    <3>5. ~(Bytes(t) > MAX_PATH_LEN) BY <1>6
    <3> QED BY <3>4, <3>5, LkoPathAssumption
  <2>2. HasBody(t) BY <1>6, <2>1 DEF HasBody
  <2> QED BY <1>6, <2>2, BodyIsCanonical
<1> QED BY <1>3, <1>4, <1>5, <1>6

\* A path whose parts are given as legal names, and the root they name.
LEMMA MadeOfLegalNames ==
  ASSUME NEW prefix \in {"LKO", "lko", ""}, NEW s \in Seq(Names), NEW root,
         \A i \in 1..Len(s) : Legal(s[i]),
         s = << >> => root = None,
         s # << >> => root # None /\ root = RootNamed(s[1])
  PROVE  LET p == [prefix |-> prefix, parts |-> s, root |-> root]
         IN  WellFormed(p) /\ Components(p) = s
<1> DEFINE p == [prefix |-> prefix, parts |-> s, root |-> root]
<1>1. root \in Roots \cup {None} BY DEF RootNamed
<1>2. p \in [prefix : {"LKO", "lko", ""}, parts : Seq(Names), root : Roots \cup {None}] BY <1>1
<1>3. p.parts = s /\ p.root = root OBVIOUS
<1> HIDE DEF p
<1>4. WellFormed(p) BY <1>2, <1>3 DEF WellFormed
<1>5. Components(p) = s BY <1>3, <1>4, LegalParts
<1> QED BY <1>4, <1>5 DEF p

\* The canonical copy has the components as its text.
LEMMA OwnedIsCanonical ==
  ASSUME NEW p, Canonical(p)
  PROVE  /\ ToOwned(p) = [prefix |-> "LKO", parts |-> Components(p), root |-> p.root]
         /\ Canonical(ToOwned(p)) /\ Components(ToOwned(p)) = Components(p)
         /\ Bytes(ToOwned(p)) = 3 + Joined(Components(p))
<1> DEFINE c == Components(p)
           o == [prefix |-> "LKO", parts |-> c, root |-> p.root]
<1>0. WellFormed(p) BY DEF Canonical
<1>1. /\ c \in Seq(Names) /\ Len(c) \in Nat /\ Depth(p) = Len(c)
      /\ \A i \in 1..Len(c) : Legal(c[i])
      /\ Depth(p) = 0 => p.root = None
      /\ Depth(p) > 0 => p.root # None /\ p.root = RootNamed(c[1])
  <2> HIDE DEF c
  <2> QED BY <1>0, PathFacts DEF c
<1>2. ToOwned(p) = o BY DEF ToOwned
<1> HIDE DEF c
<1>3. (c = << >> => Len(c) = 0) /\ (c # << >> => Len(c) > 0)
  <2>1. c # << >> => Len(c) \in Nat \ {0} BY <1>1, EmptySeq
  <2>2. c # << >> => Len(c) > 0 BY <1>1, <2>1
  <2> QED BY <2>2
<1>4. WellFormed(o) /\ Components(o) = c
  <2>1. "LKO" \in {"LKO", "lko", ""} OBVIOUS
  <2>2. c = << >> => p.root = None BY <1>1, <1>3
  <2>3. c # << >> => p.root # None /\ p.root = RootNamed(c[1]) BY <1>1, <1>3
  <2> QED BY <1>1, <2>1, <2>2, <2>3, MadeOfLegalNames
<1>5. Bytes(o) = 3 + Joined(c) BY DEF Bytes, PrefixLen
<1>6. Joined(c) <= MAX_PATH_LEN BY DEF c, Canonical
<1> HIDE DEF o
<1> QED BY <1>2, <1>4, <1>5, <1>6 DEF Canonical, o, c

\* What join makes of a path.
LEMMA JoinedIsCanonical ==
  ASSUME NEW p, Canonical(p), NEW names \in Seq(Names), names # << >>, Join(p, names).error = "Ok"
  PROVE  /\ names[1] \in Names
         /\ Canonical(Join(p, names).path)
         /\ Components(Join(p, names).path) = Append(Components(p), names[1])
<1> DEFINE c == Components(p)
           m == names[1]
           root == IF p.root = None THEN RootNamed(m) ELSE p.root
           q == [prefix |-> "LKO", parts |-> c \o names, root |-> root]
<1>0. WellFormed(p) BY DEF Canonical
<1>1. /\ c \in Seq(Names) /\ Len(c) \in Nat /\ Depth(p) = Len(c)
      /\ \A i \in 1..Len(c) : Legal(c[i])
      /\ Depth(p) = 0 => p.root = None
      /\ Depth(p) > 0 => p.root # None /\ p.root = RootNamed(c[1])
  BY <1>0, PathFacts
<1>2. \A e : Failed(e).error = e BY DEF Failed
<1>3. /\ ValidateComponent(names) = "Ok" /\ ~(Bytes(ToOwned(p)) + Joined(names) > MAX_PATH_LEN)
      /\ root # None /\ Join(p, names) = Parsed(q)
  BY <1>2 DEF Join
<1>4. names = <<m>> /\ m \in Names BY <1>3, SeparatorsAreRefused
<1>5. Legal(m) BY <1>3, <1>4, ValidIsLegal
<1>6. Bytes(ToOwned(p)) = 3 + Joined(c) BY OwnedIsCanonical
<1> DEFINE s == Append(c, m)
<1> HIDE DEF c, m
<1>7. c \o names = s BY <1>1, <1>4, AppendIsConcat
<1>8. /\ s \in Seq(Names) /\ Len(s) = Len(c) + 1 /\ s[Len(c) + 1] = m
      /\ \A i \in 1..Len(c) : s[i] = c[i]
  BY <1>1, <1>4, AppendProperties
<1> HIDE DEF s
<1>9. \A i \in 1..Len(s) : Legal(s[i])
  <2> SUFFICES ASSUME NEW i \in 1..Len(s) PROVE Legal(s[i]) OBVIOUS
  <2>1. i \in 1..Len(c) \/ i = Len(c) + 1 BY <1>1, <1>8
  <2> QED BY <1>1, <1>5, <1>8, <2>1
<1>10. s # << >> BY <1>1, <1>8
<1>11. root = RootNamed(s[1])
  <2>1. CASE Len(c) = 0 BY <1>1, <1>8, <2>1
  <2>2. CASE Len(c) > 0
    <3>1. 1 \in 1..Len(c) BY <1>1, <2>2
    <3> QED BY <1>1, <1>8, <2>2, <3>1
  <2> QED BY <1>1, <2>1, <2>2
<1>12. q = [prefix |-> "LKO", parts |-> s, root |-> root] BY <1>7
<1> HIDE DEF root, q
<1>13. WellFormed(q) /\ Components(q) = s
  <2>1. "LKO" \in {"LKO", "lko", ""} OBVIOUS
  <2> QED BY <1>3, <1>8, <1>9, <1>10, <1>11, <1>12, <2>1, MadeOfLegalNames
<1>14. Joined(s) <= MAX_PATH_LEN
  <2>1. Joined(c) \in Nat /\ Joined(s) = Joined(c) + 1 + m.bytes
    BY <1>1, <1>4, JoinedOfAppend DEF s
  <2>2. Joined(names) = 1 + m.bytes /\ m.bytes \in Nat BY <1>4, JoinedOfOne DEF Names
  <2> DEFINE a == Joined(c)
             b == m.bytes
  <2>3. a \in Nat /\ b \in Nat /\ ~((3 + a) + (1 + b) > MAX_PATH_LEN) BY <1>3, <1>6, <2>1, <2>2
  <2>4. Joined(s) = a + 1 + b BY <2>1
  <2> HIDE DEF a, b
  <2>5. a + 1 + b <= MAX_PATH_LEN BY <2>3, LkoPathAssumption
  <2> QED BY <2>4, <2>5
<1>15. Join(p, names).path = q BY <1>3 DEF Parsed
<1> QED BY <1>4, <1>13, <1>14, <1>15 DEF Canonical, s, c, m

\* The parent is the path without its last component.
LEMMA ParentIsCanonical ==
  ASSUME NEW p, Canonical(p), Depth(p) > 0
  PROVE  /\ Canonical(Parent(p))
         /\ Components(Parent(p)) = SubSeq(Components(p), 1, Depth(p) - 1)
<1> DEFINE c == Components(p)
           s == p.parts
           B(k) == Joined(SubSeq(s, 1, k))
           pre == PrefixLen(p.prefix)
<1>0. WellFormed(p) BY DEF Canonical
<1>1. PICK d \in 0..Len(s) :
        /\ c = SubSeq(s, 1, d) /\ c \in Seq(Names) /\ Len(c) = d
        /\ \A i \in 1..d : c[i] = s[i] /\ Legal(s[i])
        /\ s = << >> <=> d = 0
  BY <1>0, ComponentsAreParts, Zenon
<1>2. s \in Seq(Names) /\ Len(s) \in Nat
  <2>1. s \in Seq(Names) BY <1>0 DEF WellFormed
  <2> HIDE DEF s
  <2> QED BY <2>1, NamesTyped
<1> HIDE DEF s
<1>3. Depth(p) = d /\ d > 0 /\ d \in Nat BY <1>1, <1>2 DEF Depth
<1>6. p.prefix \in {"LKO", "lko", ""} BY <1>0 DEF WellFormed
<1>7. pre \in Nat /\ (p.prefix = "" => pre = 0) /\ (p.prefix # "" => pre = 3) BY DEF PrefixLen
<1>8. pre \in Nat BY <1>7
<1> HIDE DEF pre
<1>4. CASE d = 1
  <2>1. Parent(p) = VolumeRoot BY <1>1, <1>4 DEF Parent
  <2>2. SubSeq(c, 1, 0) = << >> BY <1>1, SubSeqEmpty
  <2> QED BY <1>3, <1>4, <2>1, <2>2, NothingIsCanonical
<1>5. CASE d # 1
  <2> DEFINE e == d - 1
             off == RawOffset(p, 3 + Joined(Front(c)))
             Upto(k) == [prefix |-> p.prefix, parts |-> SubSeq(s, 1, k), root |-> p.root]
             K == {k \in 0..Len(s) : Bytes(Upto(k)) <= off}
  <2>1. e \in 1..Len(s) /\ e \in 0..Len(s) /\ e < d BY <1>1, <1>2, <1>3, <1>5
  <2>2. Front(c) = SubSeq(s, 1, e)
    <3>1. Front(c) = SubSeq(c, 1, e) BY <1>1 DEF Front
    <3>2. /\ SubSeq(c, 1, e) \in Seq(Names) /\ Len(SubSeq(c, 1, e)) = e
          /\ \A i \in 1..e : SubSeq(c, 1, e)[i] = c[i]
      BY <1>1, <1>3, <2>1, SubSeqProperties
    <3>3. /\ SubSeq(s, 1, e) \in Seq(Names) /\ Len(SubSeq(s, 1, e)) = e
          /\ \A i \in 1..e : SubSeq(s, 1, e)[i] = s[i]
      BY <1>2, <2>1, SubSeqProperties
    <3>4. \A i \in 1..e : c[i] = s[i] BY <1>1, <1>3, <2>1
    <3> HIDE DEF e, s, c
    <3>5. SubSeq(c, 1, e) = SubSeq(s, 1, e)
      BY <3>2, <3>3, <3>4, SeqEqual
    <3> QED BY <3>1, <3>5
  <2>3. \A k \in 0..Len(s) : B(k) \in Nat BY <1>2, PrefixesGrow
  <2>4. \A j, k \in 0..Len(s) : j < k => B(j) < B(k) BY <1>2, PrefixesGrow
  <2>5. off = pre + B(e)
    <3>1. B(e) \in Nat BY <2>1, <2>3
    <3> DEFINE b == B(e)
    <3>2. off = IF p.prefix = "" THEN (3 + b) - 3 ELSE 3 + b
      BY <2>2 DEF RawOffset, PrefixLen
    <3>3. b \in Nat BY <3>1
    <3> HIDE DEF b, off
    <3>4. CASE p.prefix = ""
      <4>1. off = (3 + b) - 3 /\ pre = 0 BY <1>7, <3>2, <3>4
      <4> QED BY <3>3, <4>1 DEF b
    <3>5. CASE p.prefix # ""
      <4>1. off = 3 + b /\ pre = 3 BY <1>7, <3>2, <3>5
      <4> QED BY <4>1 DEF b
    <3> QED BY <3>4, <3>5
  <2>6. ASSUME NEW k \in 0..Len(s)
        PROVE  Bytes(Upto(k)) = pre + B(k)
    <3>1. Upto(k).prefix = p.prefix /\ Upto(k).parts = SubSeq(s, 1, k) OBVIOUS
    <3> HIDE DEF Upto
    <3> QED BY <3>1 DEF Bytes, pre
  <2>7. Max(K) = e
    <3>1. K = 0..e
      <4>1. ASSUME NEW k \in 0..Len(s) PROVE Bytes(Upto(k)) <= off <=> k <= e
        <5> DEFINE x == B(k)
                   y == B(e)
        <5>1. x \in Nat /\ y \in Nat /\ (k < e => x < y) /\ (e < k => y < x) /\ (k = e => x = y)
          BY <2>1, <2>3, <2>4
        <5>2. Bytes(Upto(k)) = pre + x /\ off = pre + y BY <2>5, <2>6
        <5>3. k \in Nat /\ e \in Nat /\ pre \in Nat
          <6>1. k \in Nat BY <1>2
          <6>2. e \in Nat BY <2>1
          <6> HIDE DEF e
          <6> QED BY <1>8, <6>1, <6>2
        <5> HIDE DEF x, y, off, Upto, e
        <5>4. pre + x <= pre + y <=> k <= e BY <5>1, <5>3
        <5> QED BY <5>2, <5>4
      <4>2. \A k : k \in 0..e <=> k \in 0..Len(s) /\ k <= e BY <1>2, <2>1
      <4> HIDE DEF Upto, off, e
      <4> QED BY <4>1, <4>2
    <3>2. e \in 0..e /\ \A y \in 0..e : e >= y BY <2>1
    <3> DEFINE z == Max(K)
    <3>3. z \in 0..e /\ \A y \in 0..e : z >= y
      <4> HIDE DEF K, e
      <4> QED BY <3>1, <3>2 DEF Max
    <3>4. z = e
      <4>1. e \in Nat BY <2>1
      <4> HIDE DEF z, e
      <4> QED BY <3>2, <3>3, <4>1
    <3> QED BY <3>4
  <2>8. Parent(p) = Upto(e)
    <3>1. Parent(p) = FirstBytes(p, off) BY <1>1, <1>5 DEF Parent, PrefixLen
    <3>2. off - Bytes(Upto(e)) = 0
      <4> DEFINE b == B(e)
      <4>1. b \in Nat /\ pre \in Nat /\ off = pre + b /\ Bytes(Upto(e)) = pre + b
        BY <1>7, <2>1, <2>3, <2>5, <2>6
      <4> HIDE DEF b, off, Upto
      <4> QED BY <4>1
    <3>3. FirstBytes(p, off) =
            LET whole == Upto(Max(K))
                left == off - Bytes(whole)
            IN  IF left = 0 THEN whole
                ELSE [whole EXCEPT !.parts = Append(@, [EmptyName EXCEPT !.bytes = left - 1])]
      BY DEF FirstBytes, s
    <3> HIDE DEF K, Upto, off
    <3> QED BY <2>7, <3>1, <3>2, <3>3
  <2> DEFINE f == SubSeq(s, 1, e)
  <2>9. f \in Seq(Names) /\ Len(f) = e /\ \A i \in 1..e : f[i] = s[i]
    BY <1>2, <2>1, SubSeqProperties
  <2>10. f # << >>
    <3>1. Len(f) # Len(<< >>) BY <2>1, <2>9
    <3> QED BY <3>1, Zenon
  <2>11. p.root # None /\ p.root = RootNamed(f[1])
    <3>1. s # << >> /\ 1 \in 1..e BY <1>1, <1>3, <2>1
    <3>2. f[1] = s[1] BY <2>9, <3>1
    <3> QED BY <1>0, <3>1, <3>2 DEF WellFormed, s
  <2>12. \A i \in 1..Len(f) : Legal(f[i])
    <3>1. \A i \in 1..e : i \in 1..d BY <1>3, <2>1
    <3> QED BY <1>1, <2>9, <3>1
  <2>13. Upto(e) = [prefix |-> p.prefix, parts |-> f, root |-> p.root] OBVIOUS
  <2> HIDE DEF f, Upto
  <2>14. WellFormed(Upto(e)) /\ Components(Upto(e)) = f
    <3> DEFINE q == [prefix |-> p.prefix, parts |-> f, root |-> p.root]
    <3>1. f \in Seq(Names) BY <2>9
    <3>2. WellFormed(q) /\ Components(q) = f
      BY <1>6, <2>10, <2>11, <2>12, <3>1, MadeOfLegalNames
    <3> QED BY <2>13, <3>2
  <2>15. Joined(f) <= MAX_PATH_LEN
    <3> DEFINE x == B(e)
               y == B(d)
    <3>1. x \in Nat /\ y \in Nat /\ x < y BY <1>1, <2>1, <2>3, <2>4
    <3>2. y <= MAX_PATH_LEN BY <1>1 DEF Canonical
    <3>3. Joined(f) = x BY DEF f
    <3> HIDE DEF x, y
    <3>4. x <= MAX_PATH_LEN BY <3>1, <3>2, LkoPathAssumption
    <3> QED BY <3>3, <3>4
  <2>16. f = SubSeq(c, 1, d - 1) BY <1>1, <2>2 DEF f, Front
  <2> QED BY <1>3, <2>8, <2>14, <2>15, <2>16 DEF Canonical
<1> QED BY <1>4, <1>5

-----------------------------------------------------------------------------
(* The paths of the system. *)

\* o is a text of p without a trailing separator, with the volume's name or
\* without, and not too long.
IsSpelling(o, p) ==
  /\ o = [prefix |-> o.prefix, parts |-> Components(p), root |-> p.root]
  /\ o.parts = Components(p) /\ o.root = p.root
  /\ o.prefix \in {"LKO", ""}
  /\ o.prefix = "" => Components(p) # << >>
  /\ PrefixLen(o.prefix) + Joined(Components(p)) <= MAX_PATH_LEN

\* Such a text is read back as the path it is of.
LEMMA SpellingIsReadBack ==
  ASSUME NEW p, Canonical(p), NEW o, IsSpelling(o, p)
  PROVE  Parse(o) = Parsed(o)
<1> DEFINE c == Components(p)
<1>1. WellFormed(p) BY DEF Canonical
<1>2. /\ c \in Seq(Names) /\ Len(c) \in Nat
      /\ \A i \in 1..Len(c) : c[i] \in Names /\ Legal(c[i])
      /\ Len(c) = 0 => p.root = None
      /\ Len(c) > 0 => p.root # None /\ p.root = RootNamed(c[1])
  BY <1>1, PathFacts
<1>4. ~(Bytes(o) > MAX_PATH_LEN)
  <2> DEFINE b == Joined(c)
             k == PrefixLen(o.prefix)
  <2>1. b \in Nat BY <1>2, SumIsNat
  <2>2. o.parts = c BY Zenon DEF IsSpelling
  <2>3. Bytes(o) = k + b BY <2>2 DEF Bytes
  <2>4. k + b <= MAX_PATH_LEN BY DEF IsSpelling
  <2>5. k \in {0, 3} BY DEF PrefixLen
  <2> HIDE DEF b, c, k
  <2> QED BY <2>1, <2>3, <2>4, <2>5, LkoPathAssumption
<1>5. /\ o.prefix \in {"LKO", "lko", ""} /\ o.parts = c /\ o.root = p.root
      /\ o = [prefix |-> o.prefix, parts |-> c, root |-> p.root]
      /\ c = << >> => o.prefix = "LKO"
  BY Zenon DEF IsSpelling
<1> HIDE DEF c
<1>6. ~\E i \in DOMAIN c : "BackslashSeparator" \in c[i].marks
  <2>1. DOMAIN c = 1..Len(c) BY <1>2, NamesTyped
  <2> QED BY <1>2, <2>1 DEF Legal
<1>7. CASE c = << >>
  <2>1. p.root = None
    <3>1. Len(c) = 0 BY <1>7
    <3> QED BY <1>2, <3>1
  <2>2. o.prefix = "LKO" BY <1>5, <1>7
  <2>3. o = VolumeRoot BY <1>5, <1>7, <2>1, <2>2 DEF VolumeRoot
  <2>4. Parse(o) = Parsed(VolumeRoot)
    BY <1>4, <1>5, <1>6, <1>7, <2>2 DEF Parse
  <2> QED BY <2>3, <2>4
<1>8. CASE c # << >>
  <2>1. Len(c) > 0 /\ 1 \in 1..Len(c) /\ Len(c) \in 1..Len(c)
    <3>1. Len(c) # 0 BY <1>2, <1>8, EmptySeq
    <3> QED BY <1>2, <3>1
  <2>2. Head(c) = c[1] BY <1>2, <1>8, HeadTailProperties
  <2>3. \A i \in 1..Len(c) : c[i].bytes # 0
    <3>1. \A i \in 1..Len(c) : c[i].bytes \in 1..MAX_COMPONENT_LEN BY <1>2 DEF Legal
    <3> QED BY <3>1, LkoPathAssumption
  <2>4. EmptyName.bytes = 0 BY DEF EmptyName
  <2>5. Body(o) = c
    <3>1. Last(c) = c[Len(c)] BY DEF Last
    <3>2. Last(c) # EmptyName BY <2>1, <2>3, <2>4, <3>1
    <3> QED BY <1>5, <3>2 DEF Body
  <2>6. c # <<EmptyName>>
    <3>1. <<EmptyName>>[1] = EmptyName OBVIOUS
    <3> QED BY <2>1, <2>3, <2>4, <3>1
  <2>7. \A i \in 1..Len(c) : ValidateComponent(<<c[i]>>) = "Ok" BY <1>2, ValidIsLegal
  <2>8. "NonAscii" \notin c[1].marks /\ RootNamed(c[1]) # None /\ p.root = RootNamed(c[1])
    BY <1>2, <2>1 DEF RootNamed
  <2>9. {i \in 2..Len(c) : ValidateComponent(<<c[i]>>) # "Ok"} = {}
    <3>1. \A i \in 2..Len(c) : i \in 1..Len(c) BY <1>2
    <3> QED BY <2>7, <3>1
  <2>10. ParseBody(o) = Parsed([prefix |-> o.prefix, parts |-> c, root |-> p.root])
    BY <1>5, <2>1, <2>2, <2>5, <2>6, <2>7, <2>8, <2>9 DEF ParseBody
  <2>11. Parse(o) = ParseBody(o) BY <1>4, <1>5, <1>6, <1>8 DEF Parse
  <2> QED BY <1>5, <2>10, <2>11
<1> QED BY <1>7, <1>8

\* Paths of the same words are decided alike.
LEMMA SameWordsSameAnswer ==
  ASSUME NEW p, NEW q, Canonical(p), Canonical(q), \A g \in grants : Canonical(g[2]),
         Words(p) = Words(q), NEW s, NEW op
  PROVE  Evaluate(s, p, op) = Evaluate(s, q, op)
<1>1. WellFormed(p) /\ WellFormed(q) BY DEF Canonical
<1>2. Depth(p) = Depth(q) /\ Depth(p) \in Nat BY <1>1, PathFacts
<1>3. RootOf(p) = RootOf(q)
  <2>1. CASE Depth(p) = 0 BY <1>1, <1>2, <2>1, PathFacts DEF RootOf
  <2>2. CASE Depth(p) > 0
    <3>1. p.root = Words(p)[1] /\ q.root = Words(q)[1] BY <1>1, <1>2, <2>2, PathFacts
    <3> QED BY <3>1 DEF RootOf
  <2> QED BY <1>2, <2>1, <2>2
<1>4. \A i \in {1, 2, 3} : TailAt(p, i) = TailAt(q, i)
  <2> SUFFICES ASSUME NEW i \in {1, 2, 3} PROVE TailAt(p, i) = TailAt(q, i) OBVIOUS
  <2>1. i \in Nat OBVIOUS
  <2>2. TailAt(p, i) = IF Depth(p) > i THEN Words(p)[i + 1] ELSE None BY <1>1, <2>1, PathFacts
  <2>3. TailAt(q, i) = IF Depth(q) > i THEN Words(q)[i + 1] ELSE None BY <1>1, <2>1, PathFacts
  <2> QED BY <1>2, <2>2, <2>3
<1>5. ASSUME NEW g \in grants PROVE IsWithin(p, g[2]) <=> IsWithin(q, g[2])
  <2> DEFINE w == g[2]
             cp == Components(p)
             cq == Components(q)
             cw == Components(w)
  <2>1. WellFormed(w) BY DEF Canonical
  <2>2. Len(cw) \in Nat /\ DOMAIN cw = 1..Len(cw)
    <3>1. cw \in Seq(Names) BY <2>1, PathFacts
    <3> HIDE DEF cw
    <3> QED BY <3>1, NamesTyped
  <2>3. Len(cp) = Depth(p) /\ Len(cq) = Depth(p) BY <1>2 DEF Depth
  <2>4. \A i \in 1..Depth(p) : cp[i].word = cq[i].word
    <3>1. \A i \in 1..Depth(p) : Words(p)[i] = cp[i].word BY <1>1, PathFacts
    <3>2. \A i \in 1..Depth(p) : Words(q)[i] = cq[i].word BY <1>1, <1>2, PathFacts
    <3> QED BY <3>1, <3>2
  <2>5. Len(cw) <= Depth(p) => \A i \in 1..Len(cw) : i \in 1..Depth(p) BY <1>2, <2>2
  <2>6. /\ IsWithin(p, w) <=> Len(cw) <= Len(cp) /\ \A i \in DOMAIN cw : cp[i].word = cw[i].word
        /\ IsWithin(q, w) <=> Len(cw) <= Len(cq) /\ \A i \in DOMAIN cw : cq[i].word = cw[i].word
    BY DEF IsWithin
  <2> HIDE DEF cw, cp, cq, w
  <2>7. IsWithin(p, w) <=> IsWithin(q, w) BY <2>2, <2>3, <2>4, <2>5, <2>6
  <2> QED BY <2>7 DEF w
<1>6. HasGrantCovering(s, p) <=> HasGrantCovering(s, q) BY <1>5 DEF HasGrantCovering
<1> HIDE DEF RootOf, TailAt, IsWithin, HasGrantCovering
<1>7. EffectiveProtection(p) = EffectiveProtection(q) BY <1>3, <1>4 DEF EffectiveProtection
<1>8. CrossUser(s, p) <=> CrossUser(s, q) BY <1>3, <1>4 DEF CrossUser
<1>9. SandboxDecision(s, p, op) = SandboxDecision(s, q, op)
  BY <1>3, <1>4 DEF SandboxDecision, InOwnAppData, InOwnInstallDir
<1>10. DriverDecision(p, op) = DriverDecision(q, op) BY <1>3 DEF DriverDecision
<1> QED BY <1>3, <1>6, <1>7, <1>8, <1>9, <1>10 DEF Evaluate

\* Every path the system holds is canonical, however it was come by.
PathsAreCanonical == Canonical(here) /\ \A g \in grants : Canonical(g[2])

\* What is read is canonical, and so is what may be granted.
LEMMA ReadIsCanonical ==
  /\ \A p \in Readable : Canonical(p)
  /\ \A p \in GrantablePaths : Canonical(p)
<1>1. ASSUME NEW t \in Texts \cup Grantable PROVE Canonical(Parse(t).path)
  <2>1. t \in AnyText BY LkofsPolicyAssumption
  <2> QED BY <2>1, ParsedIsCanonical
<1> QED BY <1>1 DEF Readable, GrantablePaths

\* Every path the system ever holds is canonical.
LEMMA PathsAreCanonicalHolds == Spec => []PathsAreCanonical
<1>1. Init => PathsAreCanonical BY NothingIsCanonical DEF Init, PathsAreCanonical
<1>2. PathsAreCanonical /\ [Next]_vars => PathsAreCanonical'
  <2> SUFFICES ASSUME PathsAreCanonical, [Next]_vars PROVE PathsAreCanonical' OBVIOUS
  <2>1. ASSUME NEW p \in Readable, Open(p) PROVE PathsAreCanonical'
    BY <2>1, ReadIsCanonical DEF Open, PathsAreCanonical
  <2>2. ASSUME NEW names \in Typed, Descend(names) PROVE PathsAreCanonical'
    <3>1. names \in Seq(Names) /\ names # << >> BY LkofsPolicyAssumption
    <3>2. Join(here, names).error = "Ok" /\ here' = Join(here, names).path /\ grants' = grants
      BY <2>2 DEF Descend
    <3>3. Canonical(Join(here, names).path) BY <3>1, <3>2, JoinedIsCanonical DEF PathsAreCanonical
    <3> QED BY <3>2, <3>3 DEF PathsAreCanonical
  <2>3. ASSUME Climb PROVE PathsAreCanonical'
    <3>1. Depth(here) > 0 /\ here' = Parent(here) /\ grants' = grants BY <2>3 DEF Climb
    <3>2. Canonical(Parent(here)) BY <3>1, ParentIsCanonical DEF PathsAreCanonical
    <3> QED BY <3>1, <3>2 DEF PathsAreCanonical
  <2>4. ASSUME Own PROVE PathsAreCanonical'
    <3>1. here' = ToOwned(here) /\ grants' = grants BY <2>4 DEF Own
    <3>2. Canonical(ToOwned(here)) BY OwnedIsCanonical DEF PathsAreCanonical
    <3> QED BY <3>1, <3>2 DEF PathsAreCanonical
  <2>5. ASSUME NEW s \in Subjects, NEW p \in GrantablePaths, GiveGrant(s, p) PROVE PathsAreCanonical'
    <3>1. here' = here /\ grants' = grants \cup {<<s, p>>} BY <2>5 DEF GiveGrant
    <3>2. Canonical(p) BY ReadIsCanonical
    <3> QED BY <3>1, <3>2 DEF PathsAreCanonical
  <2>6. CASE here' = here /\ grants' \subseteq grants BY <2>6 DEF PathsAreCanonical
  <2>7. \/ here' = here /\ grants' \subseteq grants
        \/ \E p \in Readable : Open(p)
        \/ \E names \in Typed : Descend(names)
        \/ Climb \/ Own
        \/ \E s \in Subjects, p \in GrantablePaths : GiveGrant(s, p)
    BY DEF Next, Access, WithdrawGrant, SwitchTransaction, Complete, vars
  <2> QED BY <2>1, <2>2, <2>3, <2>4, <2>5, <2>6, <2>7
<1> QED BY <1>1, <1>2, PTL DEF Spec

\* A canonical path says what the policy goes by.
LEMMA CanonicalIsSound ==
  ASSUME Canonical(here)
  PROVE  HeldPathIsSound
<1> DEFINE c == Components(here)
           R == [word : STRING, spelling : STRING, bytes : 1..MAX_COMPONENT_LEN,
                 marks : SUBSET {"NonAscii"}]
<1>1. WellFormed(here) BY DEF Canonical
<1>2. /\ c \in Seq(Names) /\ Depth(here) = Len(c) /\ Depth(here) \in Nat
      /\ \A i \in 1..Depth(here) : c[i] \in Names /\ Legal(c[i])
      /\ Depth(here) = 0 => here.root = None
      /\ Depth(here) > 0 => here.root = Words(here)[1] /\ here.root \in Roots
  BY <1>1, PathFacts
<1>3. \A n \in Names : Legal(n) => n \in R BY DEF Names, Legal
<1> HIDE DEF R
<1>4. c \in Seq(R)
  <2> HIDE DEF c
  <2>1. \A i \in 1..Len(c) : c[i] \in R BY <1>2, <1>3
  <2> QED BY <1>2, <2>1, NamesTyped, SeqDef
<1> QED BY <1>2, <1>4 DEF HeldPathIsSound, R

\* What a path says, what is decided about it and what is written of it agree,
\* however it was come by (path.rs, parse, join, parent, to_owned_path and
\* is_within).
THEOREM EveryPathIsSound == Spec => []PathsAreSound
<1>1. PathsAreCanonical => PathsAreSound
  <2> SUFFICES ASSUME PathsAreCanonical PROVE PathsAreSound OBVIOUS
  <2>1. Canonical(here) /\ \A g \in grants : Canonical(g[2]) BY DEF PathsAreCanonical
  <2>2. HeldPathIsSound BY <2>1, CanonicalIsSound
  <2>3. CanonicalTextIsReadBack
    <3> DEFINE c == Components(here)
               b == Joined(c)
               owned == ToOwned(here)
               short == [prefix |-> "", parts |-> owned.parts, root |-> owned.root]
    <3>1. /\ owned = [prefix |-> "LKO", parts |-> c, root |-> here.root]
          /\ Bytes(owned) = 3 + b
      BY <2>1, OwnedIsCanonical
    <3>a. b <= MAX_PATH_LEN BY <2>1 DEF Canonical
    <3>b. short = [prefix |-> "", parts |-> c, root |-> here.root] BY <3>1
    <3>2. b \in Nat
      <4>1. c \in Seq(Names) BY <2>1, PathFacts DEF Canonical
      <4> QED BY <4>1, SumIsNat
    <3>3. PrefixLen("LKO") = 3 /\ PrefixLen("") = 0 BY DEF PrefixLen
    <3>4. CASE Bytes(owned) <= MAX_PATH_LEN
      <4>1. PrefixLen("LKO") + Joined(Components(here)) <= MAX_PATH_LEN BY <3>1, <3>3, <3>4
      <4>2. IsSpelling(owned, here) BY <3>1, <4>1 DEF IsSpelling
      <4>3. Parse(owned) = Parsed(owned) BY <2>1, <4>2, SpellingIsReadBack
      <4> QED BY <3>4, <4>3 DEF CanonicalTextIsReadBack
    <3>5. CASE ~(Bytes(owned) <= MAX_PATH_LEN)
      <4>1. Bytes(owned) > MAX_PATH_LEN
        <5> HIDE DEF b, owned
        <5> QED BY <3>1, <3>2, <3>5, LkoPathAssumption
      <4>2. Parse(owned) = Failed("TooLong") BY <4>1 DEF Parse
      <4>3. Components(here) # << >>
        <5> SUFFICES ASSUME c = << >> PROVE FALSE OBVIOUS
        <5>1. b = 0 BY JoinedOfNone
        <5> HIDE DEF b, owned
        <5> QED BY <3>1, <4>1, <5>1, LkoPathAssumption
      <4>4. PrefixLen("") + Joined(Components(here)) <= MAX_PATH_LEN
        <5>1. 0 + b <= MAX_PATH_LEN
          <6> HIDE DEF b
          <6> QED BY <3>a, <3>2, LkoPathAssumption
        <5> QED BY <3>3, <5>1
      <4>5. IsSpelling(short, here) BY <3>b, <4>3, <4>4 DEF IsSpelling
      <4>6. Parse(short) = Parsed(short) BY <2>1, <4>5, SpellingIsReadBack
      <4> QED BY <3>5, <4>2, <4>6 DEF CanonicalTextIsReadBack
    <3> QED BY <3>4, <3>5
  <2>4. SpellingDecidesNothing
    BY <2>1, ReadIsCanonical, SameWordsSameAnswer DEF SpellingDecidesNothing
  <2> QED BY <2>2, <2>3, <2>4 DEF PathsAreSound
<1> QED BY <1>1, PathsAreCanonicalHolds, PTL

\* Joining goes one level down and taking the parent one level up, whatever is
\* given to join and however the path is spelled (path.rs, join and parent).
THEOREM WalkingIsLevelByLevel == Spec => WalkingIsByOneLevel
<1> DEFINE A == here' # here =>
                  /\ \A names \in Typed : Descend(names) =>
                       Under(Words(here), here') /\ Depth(here') = Depth(here) + 1
                  /\ Climb => Words(here') = Front(Words(here))
<1>1. PathsAreCanonical /\ PathsAreCanonical' /\ [Next]_vars => [A]_vars
  <2> SUFFICES ASSUME PathsAreCanonical, PathsAreCanonical' PROVE A OBVIOUS
  <2>1. Canonical(here) /\ Canonical(here') BY DEF PathsAreCanonical
  <2> DEFINE p == here
             q == here'
             c == Components(p)
             e == Components(q)
             d == Depth(p)
  <2>2. WellFormed(p) /\ WellFormed(q) BY <2>1 DEF Canonical
  <2>3. /\ c \in Seq(Names) /\ d = Len(c) /\ d \in Nat
        /\ \A i \in 1..d : Words(p)[i] = c[i].word
        /\ Len(Words(p)) = d /\ Words(p) = [i \in 1..d |-> c[i].word]
    <3>1. Words(p) = [i \in 1..d |-> c[i].word] BY DEF Words
    <3> QED BY <2>2, <3>1, PathFacts
  <2>4. /\ e \in Seq(Names) /\ Depth(q) = Len(e)
        /\ \A i \in 1..Depth(q) : Words(q)[i] = e[i].word
        /\ Words(q) = [i \in 1..Depth(q) |-> e[i].word]
    <3>1. Words(q) = [i \in 1..Depth(q) |-> e[i].word] BY DEF Words
    <3> QED BY <2>2, <3>1, PathFacts
  <2>5. ASSUME NEW names \in Typed, Descend(names)
        PROVE  Under(Words(p), q) /\ Depth(q) = d + 1
    <3>1. names \in Seq(Names) /\ names # << >> BY LkofsPolicyAssumption
    <3>2. Join(p, names).error = "Ok" /\ q = Join(p, names).path BY <2>5 DEF Descend
    <3>3. names[1] \in Names /\ e = Append(c, names[1]) BY <2>1, <3>1, <3>2, JoinedIsCanonical
    <3> HIDE DEF c, e, d, p, q
    <3>4. Len(e) = d + 1 /\ \A i \in 1..d : e[i] = c[i] BY <2>3, <3>3, AppendProperties
    <3>5. d <= d + 1 /\ \A i \in 1..d : i \in 1..(d + 1) BY <2>3
    <3>6. \A i \in 1..d : Words(p)[i] = Words(q)[i] BY <2>3, <2>4, <3>4, <3>5
    <3> QED BY <2>3, <2>4, <3>4, <3>5, <3>6 DEF Under
  <2>6. ASSUME Climb PROVE Words(q) = Front(Words(p))
    <3>1. d > 0 /\ q = Parent(p) BY <2>6 DEF Climb
    <3>2. e = SubSeq(c, 1, d - 1) BY <2>1, <3>1, ParentIsCanonical
    <3> HIDE DEF c, e, d, p, q
    <3>3. d - 1 \in 0..d /\ \A i \in 1..(d - 1) : i \in 1..d BY <2>3, <3>1
    <3>4. Len(e) = d - 1 /\ \A i \in 1..(d - 1) : e[i] = c[i]
      BY <2>3, <3>2, <3>3, SubSeqProperties
    <3>5. Words(q) = [i \in 1..(d - 1) |-> c[i].word] BY <2>4, <3>4
    <3>6. Words(p) \in Seq(STRING)
      <4>1. \A i \in 1..d : c[i].word \in STRING BY <2>2, PathFacts DEF c, d
      <4>2. [i \in 1..d |-> c[i].word] \in [1..d -> STRING] BY <4>1
      <4> QED BY <2>3, <4>2
    <3>7. Front(Words(p)) = SubSeq(Words(p), 1, d - 1) BY <2>3 DEF Front
    <3> DEFINE w == Words(p)
    <3>8. w \in Seq(STRING) /\ Len(w) = d BY <2>3, <3>6
    <3>9. \A i \in 1..d : w[i] = c[i].word BY <2>3
    <3> HIDE DEF w
    <3>10. /\ SubSeq(w, 1, d - 1) \in Seq(STRING) /\ Len(SubSeq(w, 1, d - 1)) = d - 1
           /\ \A i \in 1..(d - 1) : SubSeq(w, 1, d - 1)[i] = w[i]
      BY <3>3, <3>8, SubSeqProperties
    <3>11. SubSeq(w, 1, d - 1) = [i \in 1..(d - 1) |-> c[i].word]
      <4>1. DOMAIN SubSeq(w, 1, d - 1) = 1..(d - 1) BY <3>10, LenProperties
      <4> QED BY <3>3, <3>9, <3>10, <4>1
    <3> QED BY <3>5, <3>7, <3>11 DEF w
  <2> QED BY <2>5, <2>6
<1> QED BY <1>1, PathsAreCanonicalHolds, PTL DEF Spec, WalkingIsByOneLevel

-----------------------------------------------------------------------------
(* What is performed. *)

\* What is being performed is what the policy still answers: nothing changes
\* under an operation.
DecidedNow ==
  done = Nothing \/
    /\ done.by \in Subjects /\ done.op \in Operations
    /\ \/ done.how = "allowed" /\ Evaluate(done.by, here, done.op) = "Allow"
       \/ done.how = "confirmed" /\ Evaluate(done.by, here, done.op) \in Confirmations

\* No name is None.
LEMMA NoneIsNoName ==
  /\ None \notin STRING
  /\ \A r \in Roots : r # None
  /\ "AppData" # None /\ "Users" # None /\ "Apps" # None /\ "Temp" # None /\ "Cache" # None
BY LkoPathAssumption, LkofsPolicyAssumption DEF Roots

\* What is performed is always what the policy decides now.
LEMMA DecidedNowHolds == Spec => []DecidedNow
<1>1. Init => DecidedNow BY DEF Init, DecidedNow
<1>2. DecidedNow /\ [Next]_vars => DecidedNow'
  <2> SUFFICES ASSUME DecidedNow, [Next]_vars PROVE DecidedNow' OBVIOUS
  <2>1. ASSUME NEW s \in Subjects, NEW op \in Operations, Access(s, op) PROVE DecidedNow'
    <3>1. /\ here' = here /\ grants' = grants /\ transaction' = transaction
          /\ \/ /\ done' = Performed(s, op, "allowed") /\ Evaluate(s, here, op) = "Allow"
             \/ /\ done' = Performed(s, op, "confirmed") /\ Evaluate(s, here, op) \in Confirmations
      BY <2>1 DEF Access
    <3>2. \A u, o : Evaluate(u, here, o)' = Evaluate(u, here, o)
      BY <3>1 DEF Evaluate, HasGrantCovering, SandboxDecision
    <3>3. done'.by = s /\ done'.op = op /\ done'.how \in {"allowed", "confirmed"}
      BY <3>1 DEF Performed
    <3> QED BY <3>1, <3>2, <3>3 DEF DecidedNow, Performed
  <2>2. CASE done' = Nothing BY <2>2 DEF DecidedNow
  <2>3. CASE UNCHANGED vars
    BY <2>3 DEF vars, DecidedNow, Evaluate, HasGrantCovering, SandboxDecision
  <2>4. done' = Nothing \/ UNCHANGED vars \/ \E s \in Subjects, op \in Operations : Access(s, op)
    BY DEF Next, Open, Descend, Climb, Own, Complete, GiveGrant, WithdrawGrant, SwitchTransaction
  <2> QED BY <2>1, <2>2, <2>3, <2>4
<1> QED BY <1>1, <1>2, PTL DEF Spec

\* What is performed was not refused.
LEMMA NotRefused ==
  ASSUME DecidedNow, Happened
  PROVE  /\ done.by.class # "Kernel" /\ done.by \in Subjects /\ done.op \in Operations
         /\ Evaluate(done.by, here, done.op) \in {"Allow"} \cup Confirmations
         /\ Evaluate(done.by, here, done.op) \in Confirmations => done.how = "confirmed"
BY DEF DecidedNow, Happened, Nothing, Confirmations

\* The root and the tail the policy goes by are the words of the text.
LEMMA SoundPath ==
  ASSUME HeldPathIsSound
  PROVE  /\ Depth(here) \in Nat
         /\ Depth(here) = 0 => RootOf(here) = None
         /\ Depth(here) > 0 => RootOf(here) = Words(here)[1] /\ RootOf(here) \in Roots
         /\ RootOf(here) # None => Depth(here) > 0
         /\ \A i \in 1..3 : Depth(here) > i => TailAt(here, i) = Words(here)[i + 1]
         /\ \A i \in 1..3 : TailAt(here, i) # None => Depth(here) > i
<1>1. Depth(here) \in Nat
  <2>1. Components(here) \in Seq([word : STRING, spelling : STRING, bytes : 1..MAX_COMPONENT_LEN,
                                 marks : SUBSET {"NonAscii"}])
    BY DEF HeldPathIsSound
  <2> HIDE DEF Components
  <2> QED BY <2>1 DEF Depth
<1>2. /\ Depth(here) = 0 => RootOf(here) = None
      /\ Depth(here) # 0 => RootOf(here) = Words(here)[1] /\ RootOf(here) \in Roots
  BY DEF HeldPathIsSound, RootOf
<1>3. ASSUME NEW i \in 1..3 PROVE Depth(here) > i => TailAt(here, i) = Words(here)[i + 1]
  BY <1>1 DEF TailAt, Words
<1>4. ASSUME NEW i \in 1..3 PROVE TailAt(here, i) # None => Depth(here) > i
  BY DEF TailAt
<1> HIDE DEF Depth, RootOf, Words, TailAt
<1> QED BY <1>1, <1>2, <1>3, <1>4

\* What LokoOS is made of is immutable to the policy.
LEMMA SystemIsImmutable ==
  ASSUME HeldPathIsSound, IsSystemLocation(here)
  PROVE  EffectiveProtection(here) = "SystemImmutable"
<1>1. CASE Depth(here) = 0 BY <1>1, SoundPath DEF EffectiveProtection
<1> HIDE DEF Depth, Words, RootOf, TailAt
<1>2. CASE Depth(here) # 0 /\ Words(here)[1] \in {"System", "Drivers", "Boot", "Recovery"}
  <2>1. RootOf(here) \in {"System", "Drivers", "Boot", "Recovery"} /\ RootOf(here) \in Roots
    BY <1>2, SoundPath
  <2> QED BY <2>1, LkoPathAssumption DEF EffectiveProtection, RootProtection, Roots
<1>3. ASSUME NEW r \in {"Config", "Services"}, Under(<<r, "Security">>, here)
      PROVE  EffectiveProtection(here) = "SystemImmutable"
  <2>1. Depth(here) >= 2 /\ Words(here)[1] = r /\ Words(here)[2] = "Security"
    BY <1>3 DEF Under
  <2>2. RootOf(here) = r /\ TailAt(here, 1) = "Security" BY <2>1, SoundPath
  <2> QED BY <2>2 DEF EffectiveProtection
<1> QED BY <1>1, <1>2, <1>3 DEF IsSystemLocation

-----------------------------------------------------------------------------
(* The theorems. *)

\* The system changes in update transactions only (policy.rs, rule 1).
THEOREM TheSystemIsImmutable == Spec => []OnlyUpdatesChangeTheSystem
<1>1. DecidedNow /\ HeldPathIsSound => OnlyUpdatesChangeTheSystem
  <2> SUFFICES ASSUME DecidedNow, HeldPathIsSound, Happened, IsMutating(done.op),
                      IsSystemLocation(here)
               PROVE  done.by.class = "SystemUpdater" /\ transaction
    BY DEF OnlyUpdatesChangeTheSystem
  <2>1. EffectiveProtection(here) = "SystemImmutable" BY SystemIsImmutable
  <2>2. Evaluate(done.by, here, done.op) # "ProtectedLocation"
    BY NotRefused DEF Confirmations
  <2> QED BY <2>1, <2>2, NotRefused DEF Evaluate
<1> QED BY <1>1, DecidedNowHolds, EveryPathIsSound, PTL DEF PathsAreSound

\* Outside scratch space Loko AI destroys nothing unconfirmed (policy.rs,
\* rule 10).
THEOREM AiAsksFirst == Spec => []AiDestroysNothingSilently
<1>1. DecidedNow /\ HeldPathIsSound => AiDestroysNothingSilently
  <2> SUFFICES ASSUME DecidedNow, HeldPathIsSound, Happened, done.by.class = "AiAgent",
                      done.op \in {"Delete", "Write", "Rename"},
                      ~Under(<<"Temp">>, here), ~Under(<<"Cache">>, here)
               PROVE  done.how = "confirmed"
    BY DEF AiDestroysNothingSilently
  <2>1. RootOf(here) \notin {"Temp", "Cache"}
    <3>1. Depth(here) > 0 => RootOf(here) = Words(here)[1] BY SoundPath
    <3>2. Depth(here) \in Nat /\ (RootOf(here) # None => Depth(here) > 0) BY SoundPath
    <3> HIDE DEF Depth, Words, RootOf
    <3>3. Depth(here) > 0 => Words(here)[1] # "Temp" /\ Words(here)[1] # "Cache"
      BY <3>2 DEF Under
    <3> QED BY <3>1, <3>2, <3>3, NoneIsNoName DEF Roots
  <2>2. IsMutating(done.op) /\ IsDestructive(done.op) BY DEF IsMutating, IsDestructive
  <2>3. Evaluate(done.by, here, done.op) \in {"Allow"} \cup Confirmations BY NotRefused
  <2>4. Evaluate(done.by, here, done.op) # "Allow"
    BY <2>1, <2>2, NotRefused DEF Evaluate
  <2> QED BY <2>3, <2>4, NotRefused
<1> QED BY <1>1, DecidedNowHolds, EveryPathIsSound, PTL DEF PathsAreSound

\* A sandboxed application stays in its container, its installation and
\* scratch space, whatever is granted to it (policy.rs, rule 6).
THEOREM SandboxesHold == Spec => []SandboxIsConfined
<1>1. DecidedNow /\ HeldPathIsSound => SandboxIsConfined
  <2> DEFINE s == done.by
  <2> SUFFICES ASSUME DecidedNow, HeldPathIsSound, Happened, s.class = "SandboxedApp"
               PROVE  \/ Under(<<"Users", s.user, "AppData", s.app>>, here)
                      \/ Under(<<"Apps", s.app>>, here) /\ ~IsMutating(done.op)
                      \/ Under(<<"Temp">>, here) \/ Under(<<"Cache">>, here)
    BY DEF SandboxIsConfined
  <2>1. Evaluate(s, here, done.op) \in {"Allow"} \cup Confirmations BY NotRefused
  <2>2. /\ Depth(here) \in Nat
        /\ RootOf(here) # None => Depth(here) > 0 /\ RootOf(here) = Words(here)[1]
        /\ \A i \in 1..3 : TailAt(here, i) # None =>
             Depth(here) > i /\ TailAt(here, i) = Words(here)[i + 1]
    BY SoundPath
  <2> HIDE DEF Depth, Words, RootOf, TailAt, s
  <2>3. \/ RootOf(here) \in {"Temp", "Cache"}
        \/ SandboxDecision(s, here, done.op) = "Allow"
    BY <2>1 DEF Evaluate, Confirmations, SandboxDecision
  <2>4. CASE RootOf(here) \in {"Temp", "Cache"}
    BY <2>2, <2>4, NoneIsNoName DEF Under
  <2>5. CASE InOwnAppData(s, here)
    <3>1. /\ RootOf(here) = "Users" /\ TailAt(here, 1) = s.user /\ TailAt(here, 2) = "AppData"
          /\ TailAt(here, 3) = s.app /\ s.user # None /\ s.app # None /\ "AppData" # None
      BY <2>5, NoneIsNoName DEF InOwnAppData
    <3>2. Depth(here) > 3 /\ Words(here)[1] = "Users" /\ Words(here)[2] = s.user
          /\ Words(here)[3] = "AppData" /\ Words(here)[4] = s.app
      BY <2>2, <3>1, NoneIsNoName
    <3>3. \A i \in 1..4 : i = 1 \/ i = 2 \/ i = 3 \/ i = 4 OBVIOUS
    <3> QED BY <2>2, <3>2, <3>3 DEF Under
  <2>6. CASE InOwnInstallDir(s, here) /\ ~IsMutating(done.op)
    <3>1. /\ Depth(here) > 1 /\ Words(here)[1] = "Apps" /\ Words(here)[2] = s.app
      BY <2>2, <2>6, NoneIsNoName DEF InOwnInstallDir
    <3>2. \A i \in 1..2 : i = 1 \/ i = 2 OBVIOUS
    <3> QED BY <2>2, <2>6, <3>1, <3>2 DEF Under
  <2> QED BY <2>3, <2>4, <2>5, <2>6 DEF SandboxDecision
<1> QED BY <1>1, DecidedNowHolds, EveryPathIsSound, PTL DEF PathsAreSound

\* A home directory is its owner's, and needs a grant (policy.rs, rules 4
\* and 8).
THEOREM HomesArePrivate == Spec => []HomesNeedOwnerAndGrant
<1>1. DecidedNow /\ HeldPathIsSound => HomesNeedOwnerAndGrant
  <2> DEFINE s == done.by
  <2> SUFFICES ASSUME DecidedNow, HeldPathIsSound, Happened, Under(<<"Users">>, here), Depth(here) > 1
               PROVE  /\ s.user = Words(here)[2] \/ s.class \in {"SystemService", "SystemUpdater"}
                      /\ \/ s.class = "UserShell"
                         \/ s.class = "SandboxedApp"
                         \/ \E g \in grants : g[1] = s /\ Under(Words(g[2]), here)
    BY DEF HomesNeedOwnerAndGrant
  <2>1. Evaluate(s, here, done.op) \in {"Allow"} \cup Confirmations /\ s.class # "Kernel"
    BY NotRefused
  <2>2. Words(here)[2] \in STRING
    <3>1. Components(here) \in Seq([word : STRING, spelling : STRING, bytes : 1..MAX_COMPONENT_LEN,
                                   marks : SUBSET {"NonAscii"}])
      BY DEF HeldPathIsSound
    <3> DEFINE c == Components(here)
    <3> HIDE DEF c
    <3>2. Len(c) > 1 BY DEF c, Depth
    <3>3. Len(c) \in Nat /\ 2 \in DOMAIN c /\ DOMAIN c = 1..Len(c) BY <3>1, <3>2 DEF c
    <3>4. c[2].word \in STRING
      <4> DEFINE R == [word : STRING, spelling : STRING, bytes : 1..MAX_COMPONENT_LEN,
                       marks : SUBSET {"NonAscii"}]
      <4>1. \A e \in R : e.word \in STRING OBVIOUS
      <4>2. c \in Seq(R) BY <3>1 DEF c
      <4> HIDE DEF R
      <4>3. c[2] \in R BY <3>3, <4>2
      <4> QED BY <4>1, <4>3
    <3>5. Words(here) = [i \in 1..Len(c) |-> c[i].word] BY DEF Words, Depth, c
    <3> QED BY <3>3, <3>4, <3>5
  <2>3. RootOf(here) = "Users" /\ TailAt(here, 1) = Words(here)[2] /\ TailAt(here, 1) # None
    BY <2>2, SoundPath, NoneIsNoName DEF Under
  <2> HIDE DEF Depth, Words, RootOf, TailAt, s
  <2>4. EffectiveProtection(here) = "UserOwned"
    BY <2>3, NoneIsNoName DEF EffectiveProtection, RootProtection
  <2>5. ~CrossUser(s, here) /\ s.class # "Driver"
    BY <2>1, <2>3, <2>4 DEF Evaluate, Confirmations, DriverDecision
  <2>6. s.user = Words(here)[2] \/ s.class \in {"SystemService", "SystemUpdater"}
    BY <2>3, <2>5 DEF CrossUser
  <2>7. s.class \in {"UserShell", "SandboxedApp"} \/ HasGrantCovering(s, here)
    BY <2>1, <2>3, <2>4, <2>5 DEF Evaluate, Confirmations
  <2>8. HasGrantCovering(s, here) => \E g \in grants : g[1] = s /\ Under(Words(g[2]), here)
    <3> SUFFICES ASSUME NEW g \in grants, g[1] = s, IsWithin(here, g[2])
                 PROVE  Under(Words(g[2]), here)
      BY DEF HasGrantCovering
    <3> QED BY DEF IsWithin, Under, Words, Depth
  <2> QED BY <2>6, <2>7, <2>8
<1> QED BY <1>1, DecidedNowHolds, EveryPathIsSound, PTL DEF PathsAreSound

=============================================================================
