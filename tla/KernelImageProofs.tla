------------------------- MODULE KernelImageProofs -------------------------
(***************************************************************************)
(* Theorems about PageTables and KernelImage: what the loader builds, for  *)
(* every kernel file, every machine, every page size and every fan-out.    *)
(***************************************************************************)
EXTENDS KernelImage, FiniteSetTheorems, SequenceTheorems, WellFoundedInduction, TLAPS

-----------------------------------------------------------------------------
(* Numbers. *)

\* Sizes are positive.
LEMMA Product == \A a, b \in Nat \ {0} : a * b \in Nat \ {0}
OBVIOUS

\* What division by a positive number gives.
LEMMA Division ==
  ASSUME NEW x \in Int, NEW d \in Nat \ {0}
  PROVE  /\ x \div d \in Int /\ x % d \in 0 .. d - 1
         /\ x % d = x - d * (x \div d)
         /\ x \in Nat => x \div d \in Nat
<1>1. x \div d \in Int /\ x % d \in 0 .. d - 1 OBVIOUS
<1>2. x % d = x - d * (x \div d) OBVIOUS
<1>3. x \in Nat => x \div d \in Nat OBVIOUS
<1> QED BY <1>1, <1>2, <1>3

\* The quotient is the only number with a small rest.
LEMMA Quotient ==
  ASSUME NEW x \in Int, NEW d \in Nat \ {0}, NEW q \in Int, d * q <= x, x < d * q + d
  PROVE  x \div d = q /\ x % d = x - d * q
<1> DEFINE p == x \div d
           r == x % d
<1>1. p \in Int /\ r \in 0 .. d - 1 /\ r = x - d * p BY Division
<1> HIDE DEF p, r
<1>2. d * p <= x /\ x < d * p + d
  <2>1. d * p \in Int BY <1>1
  <2> QED BY <1>1, <2>1
<1>3. d * (p - q) < d /\ d * (q - p) < d BY <1>1, <1>2
<1>4. p - q < 1 /\ q - p < 1
  <2>1. \A n \in Int : n >= 1 => d * n >= d OBVIOUS
  <2>2. p - q \in Int /\ q - p \in Int BY <1>1
  <2>3. d * (p - q) \in Int /\ d * (q - p) \in Int BY <2>2
  <2> QED BY <1>3, <2>1, <2>2, <2>3
<1>5. p = q BY <1>1, <1>4
<1> QED BY <1>1, <1>5 DEF p, r

\* Dividing in two steps.
LEMMA DivDiv ==
  ASSUME NEW x \in Int, NEW a \in Nat \ {0}, NEW b \in Nat \ {0}
  PROVE  x \div (a * b) = (x \div a) \div b
<1> DEFINE q == x \div a
           p == q \div b
           r == x % a
           s == q % b
<1>1. q \in Int /\ r \in 0 .. a - 1 /\ r = x - a * q BY Division
<1> HIDE DEF q, r
<1>2. p \in Int /\ s \in 0 .. b - 1 /\ s = q - b * p BY <1>1, Division
<1> HIDE DEF p, s
<1>3. a * b \in Nat \ {0} BY Product
<1>4. (a * b) * p + (a * s + r) = x
  <2>1. q = b * p + s
    <3>1. b * p \in Int BY <1>2
    <3> QED BY <1>1, <1>2, <3>1
  <2>2. a * q = a * (b * p) + a * s
    <3>1. b * p \in Int /\ s \in Int BY <1>2
    <3> QED BY <2>1, <3>1
  <2>3. a * (b * p) = (a * b) * p BY <1>2
  <2>4. a * q \in Int /\ a * s \in Int /\ (a * b) * p \in Int BY <1>1, <1>2, <1>3
  <2> QED BY <1>1, <2>2, <2>3, <2>4
<1>5. 0 <= a * s + r /\ a * s + r < a * b
  <2>1. a * s >= 0 BY <1>2
  <2>2. a * s <= a * (b - 1) BY <1>2
  <2>3. a * (b - 1) = a * b - a OBVIOUS
  <2>4. a * s \in Int BY <1>2
  <2> QED BY <1>1, <1>3, <2>1, <2>2, <2>3, <2>4
<1>6. (a * b) * p <= x /\ x < (a * b) * p + a * b
  <2>1. (a * b) * p \in Int /\ a * s + r \in Int BY <1>1, <1>2, <1>3
  <2> QED BY <1>3, <1>4, <1>5, <2>1
<1> QED BY <1>2, <1>3, <1>6, Quotient DEF p, q

\* Rounding up to whole pages.
LEMMA RoundUp ==
  ASSUME NEW n \in Nat, NEW d \in Nat \ {0}
  PROVE  /\ (n + d - 1) \div d \in Nat /\ ((n + d - 1) \div d) * d >= n
         /\ \A b \in 0 .. n - 1 : b \div d \in 0 .. (n + d - 1) \div d - 1
<1> DEFINE m == n + d - 1
           q == m \div d
           r == m % d
<1>0. m \in Nat /\ m \in Int /\ m = n + d - 1 OBVIOUS
<1> HIDE DEF m
<1>1. q \in Nat /\ r \in 0 .. d - 1 /\ r = m - d * q BY <1>0, Division
<1> HIDE DEF q, r
<1>2. d * q \in Int /\ q * d = d * q BY <1>1
<1>3. d * q >= n BY <1>0, <1>1, <1>2
<1>4. ASSUME NEW b \in 0 .. n - 1 PROVE b \div d \in 0 .. q - 1
  <2> DEFINE k == b \div d
  <2>0. b \in Int /\ b \in Nat OBVIOUS
  <2>1. k \in Nat /\ b % d \in 0 .. d - 1 /\ b % d = b - d * k BY <2>0, Division
  <2> HIDE DEF k
  <2>2. d * k < d * q
    <3>1. d * k \in Int BY <2>1
    <3> QED BY <1>2, <1>3, <2>0, <2>1, <3>1
  <2>3. k < q BY <1>1, <2>1, <2>2
  <2> QED BY <1>1, <2>1, <2>3 DEF k
<1> QED BY <1>1, <1>2, <1>3, <1>4 DEF q, m

\* Rest and quotient of a sum with an aligned address or with whole pages.
LEMMA Offsets ==
  ASSUME NEW a \in Int, NEW d \in Nat \ {0}
  PROVE  /\ a % d = 0 => a = d * (a \div d)
         /\ a % d = 0 => \A r \in 0 .. d - 1 : (a + r) \div d = a \div d /\ (a + r) % d = r
         /\ \A k \in Int : (a + k * d) \div d = a \div d + k /\ (a + k * d) % d = a % d
<1> DEFINE q == a \div d
           m == a % d
<1>1. q \in Int /\ m \in 0 .. d - 1 /\ m = a - d * q BY Division
<1> HIDE DEF q, m
<1>2. d * q \in Int BY <1>1
<1>3. m = 0 => a = d * q BY <1>1, <1>2
<1>4. ASSUME m = 0, NEW r \in 0 .. d - 1 PROVE (a + r) \div d = q /\ (a + r) % d = r
  <2> DEFINE x == a + r
  <2>1. x \in Int /\ x = d * q + r BY <1>2, <1>3, <1>4
  <2> HIDE DEF x
  <2>2. d * q <= x /\ x < d * q + d BY <1>2, <1>4, <2>1
  <2>3. x \div d = q /\ x % d = x - d * q BY <1>1, <2>1, <2>2, Quotient
  <2>4. x % d = r BY <1>2, <2>1, <2>3
  <2> QED BY <2>3, <2>4 DEF x
<1>5. ASSUME NEW k \in Int PROVE (a + k * d) \div d = q + k /\ (a + k * d) % d = m
  <2> DEFINE x == a + k * d
             p == q + k
  <2>1. k * d \in Int OBVIOUS
  <2>2. x \in Int /\ p \in Int BY <1>1, <2>1
  <2>3. d * p = d * q + k * d BY <1>1
  <2>4. x = d * p + m BY <1>1, <1>2, <2>1, <2>3
  <2>5. d * p \in Int BY <1>2, <2>1, <2>3
  <2> HIDE DEF x, p
  <2>6. d * p <= x /\ x < d * p + d BY <1>1, <2>2, <2>4, <2>5
  <2>7. x \div d = p /\ x % d = x - d * p BY <2>2, <2>6, Quotient
  <2>8. x % d = m BY <1>1, <2>4, <2>5, <2>7
  <2> QED BY <2>7, <2>8 DEF x, p
<1> QED BY <1>3, <1>4, <1>5 DEF q, m

\* Some well-founded relation contains the order of the natural numbers.
LEMMA LessIsWellFounded ==
  \E R : IsWellFoundedOn(R, Nat) /\ \A x, y \in Nat : x < y => <<x, y>> \in R
<1>1. IsWellFoundedOn(OpToRel(<, Nat), Nat) BY NatLessThanWellFounded, Zenon
<1>2. \A x, y \in Nat : x < y => <<x, y>> \in OpToRel(<, Nat) BY DEF OpToRel
<1> QED BY <1>1, <1>2, Zenon

\* So a set of natural numbers that is not empty has a least element.
LEMMA LeastExists ==
  ASSUME NEW T, T \subseteq Nat, T # {}
  PROVE  \E x \in T : \A y \in T : x <= y
<1>1. PICK R : IsWellFoundedOn(R, Nat) /\ \A x, y \in Nat : x < y => <<x, y>> \in R
  BY LessIsWellFounded, Zenon
<1>2. \E x \in T : \A y \in T : ~(<<y, x>> \in R)
  <2>1. IsWellFoundedOn(R, Nat) BY <1>1
  <2> HIDE <1>1
  <2>2. \A RR, SS : IsWellFoundedOn(RR, SS) =>
          \A TT : TT \subseteq SS /\ TT # {} => \E x \in TT : \A y \in TT : ~(<<y, x>> \in RR)
    BY WFMin, Zenon
  <2> QED BY <2>1, <2>2, Zenon
<1>3. PICK x \in T : \A y \in T : ~(<<y, x>> \in R) BY <1>2, Zenon
<1>4. \A y \in T : ~(y < x) BY <1>1, <1>3, Zenon
<1> QED BY <1>4

\* The sizes that divide an address are positive.
LEMMA Sizes ==
  /\ PAGE_SIZE \in Nat \ {0} /\ PT_FAN \in Nat \ {0} /\ PD_FAN \in Nat \ {0}
  /\ PDPT_FAN \in Nat \ {0} /\ PML4_FAN \in Nat \ {0}
  /\ HUGE_PAGE_SIZE \in Nat \ {0} /\ HUGE_PAGE_SIZE * PD_FAN \in Nat \ {0}
  /\ HUGE_PAGE_SIZE * PD_FAN * PDPT_FAN \in Nat \ {0} /\ TOP \in Nat /\ ADDRESS_LIMIT \in Nat
  /\ TOP = (HUGE_PAGE_SIZE * PD_FAN * PDPT_FAN) * PML4_FAN
<1>1. /\ PAGE_SIZE \in Nat \ {0} /\ PT_FAN \in Nat \ {0} /\ PD_FAN \in Nat \ {0}
      /\ PDPT_FAN \in Nat \ {0} /\ PML4_FAN \in Nat \ {0} /\ SPANS \in Nat \ {0}
  BY PageTablesAssumption
<1>2. HUGE_PAGE_SIZE \in Nat \ {0} BY <1>1, Product DEF HUGE_PAGE_SIZE
<1>3. HUGE_PAGE_SIZE * PD_FAN \in Nat \ {0} BY <1>1, <1>2, Product
<1>4. HUGE_PAGE_SIZE * PD_FAN * PDPT_FAN \in Nat \ {0} BY <1>1, <1>3, Product
<1>5. TOP = (HUGE_PAGE_SIZE * PD_FAN * PDPT_FAN) * PML4_FAN BY DEF TOP
<1>6. TOP \in Nat \ {0} BY <1>1, <1>4, <1>5, Product
<1>7. ADDRESS_LIMIT \in Nat BY <1>1, <1>6, Product DEF ADDRESS_LIMIT
<1> QED BY <1>1, <1>2, <1>3, <1>4, <1>5, <1>6, <1>7

-----------------------------------------------------------------------------
(* Entries. *)

\* The entries on the way to an address.
LEMMA EntryShape ==
  ASSUME NEW va \in Int, NEW level \in 0 .. 4
  PROVE  /\ Entry(va, level) \in Seq(Int) /\ Len(Entry(va, level)) = level
         /\ \A i \in 1 .. level : Entry(va, level)[i] = Walk(va)[i]
<1>1. Walk(va) \in Seq(Int) /\ Len(Walk(va)) = 4
  <2>1. \A x \in Int : \A d, m \in Nat \ {0} : (x \div d) % m \in Int
    <3> SUFFICES ASSUME NEW x \in Int, NEW d \in Nat \ {0}, NEW m \in Nat \ {0}
                 PROVE  (x \div d) % m \in Int
      OBVIOUS
    <3>1. x \div d \in Int BY Division
    <3> QED BY <3>1, Division
  <2>2. /\ Pml4Index(va) \in Int /\ PdptIndex(va) \in Int /\ PdIndex(va) \in Int
        /\ PtIndex(va) \in Int
    BY <2>1, Sizes DEF Pml4Index, PdptIndex, PdIndex, PtIndex
  <2> HIDE DEF Pml4Index, PdptIndex, PdIndex, PtIndex
  <2> QED BY <2>2 DEF Walk
<1> DEFINE w == Walk(va)
<1>2. w \in Seq(Int) /\ Len(w) = 4 /\ Entry(va, level) = SubSeq(w, 1, level) BY <1>1 DEF Entry
<1> HIDE DEF w
<1>3. 1 \in 1 .. Len(w) + 1 /\ level \in 0 .. Len(w) BY <1>2
<1> QED BY <1>2, <1>3, SubSeqProperties DEF w

\* A page of the same entry lies in the same table, and is no huge page.
LEMMA EntryNests ==
  ASSUME NEW va \in Int, NEW vb \in Int
  PROVE  /\ Entry(va, 4) = Entry(vb, 4) => Entry(va, 3) = Entry(vb, 3)
         /\ Entry(va, 4) # Entry(vb, 3)
<1>1. 3 \in 0 .. 4 /\ 4 \in 0 .. 4 /\ \A i \in 1 .. 3 : i \in 1 .. 4 OBVIOUS
<1>2. /\ Entry(va, 4) \in Seq(Int) /\ Len(Entry(va, 4)) = 4
      /\ \A i \in 1 .. 4 : Entry(va, 4)[i] = Walk(va)[i]
  BY <1>1, EntryShape
<1>3. \A i \in 1 .. 4 : Entry(vb, 4)[i] = Walk(vb)[i] BY <1>1, EntryShape
<1>4. /\ Entry(va, 3) \in Seq(Int) /\ Len(Entry(va, 3)) = 3
      /\ \A i \in 1 .. 3 : Entry(va, 3)[i] = Walk(va)[i]
  BY <1>1, EntryShape
<1>5. /\ Entry(vb, 3) \in Seq(Int) /\ Len(Entry(vb, 3)) = 3
      /\ \A i \in 1 .. 3 : Entry(vb, 3)[i] = Walk(vb)[i]
  BY <1>1, EntryShape
<1>6. Entry(va, 4) # Entry(vb, 3) BY <1>2, <1>5
<1>7. ASSUME Entry(va, 4) = Entry(vb, 4) PROVE Entry(va, 3) = Entry(vb, 3)
  <2>1. \A i \in 1 .. 3 : Entry(va, 3)[i] = Entry(vb, 3)[i] BY <1>1, <1>2, <1>3, <1>4, <1>5, <1>7
  <2> QED BY <1>4, <1>5, <2>1, SeqEqual
<1> QED BY <1>6, <1>7

\* The indices of an address above the page, from the number of its huge page.
LEMMA IndicesOfHuge ==
  ASSUME NEW va \in Int
  PROVE  /\ PdIndex(va) = (va \div HUGE_PAGE_SIZE) % PD_FAN
         /\ PdptIndex(va) = ((va \div HUGE_PAGE_SIZE) \div PD_FAN) % PDPT_FAN
         /\ Pml4Index(va) = (((va \div HUGE_PAGE_SIZE) \div PD_FAN) \div PDPT_FAN) % PML4_FAN
         /\ va \div (HUGE_PAGE_SIZE * PD_FAN * PDPT_FAN)
              = ((va \div HUGE_PAGE_SIZE) \div PD_FAN) \div PDPT_FAN
<1>1. va \div (HUGE_PAGE_SIZE * PD_FAN) = (va \div HUGE_PAGE_SIZE) \div PD_FAN BY Sizes, DivDiv
<1>2. va \div ((HUGE_PAGE_SIZE * PD_FAN) * PDPT_FAN) = (va \div (HUGE_PAGE_SIZE * PD_FAN)) \div PDPT_FAN
  BY Sizes, DivDiv
<1> QED BY <1>1, <1>2 DEF PdIndex, PdptIndex, Pml4Index

\* Addresses of one huge page have one entry for it, addresses of one page too.
LEMMA SameEntry ==
  ASSUME NEW va \in Int, NEW vb \in Int
  PROVE  /\ va \div HUGE_PAGE_SIZE = vb \div HUGE_PAGE_SIZE => Entry(va, 3) = Entry(vb, 3)
         /\ va \div PAGE_SIZE = vb \div PAGE_SIZE =>
              Entry(va, 4) = Entry(vb, 4) /\ Entry(va, 3) = Entry(vb, 3)
<1>0. 3 \in 0 .. 4 /\ 4 \in 0 .. 4 OBVIOUS
<1>1. ASSUME va \div HUGE_PAGE_SIZE = vb \div HUGE_PAGE_SIZE
      PROVE  Walk(va)[1] = Walk(vb)[1] /\ Walk(va)[2] = Walk(vb)[2] /\ Walk(va)[3] = Walk(vb)[3]
  <2>1. PdIndex(va) = PdIndex(vb) /\ PdptIndex(va) = PdptIndex(vb) /\ Pml4Index(va) = Pml4Index(vb)
    BY <1>1, IndicesOfHuge
  <2> QED BY <2>1 DEF Walk
<1>2. ASSUME va \div HUGE_PAGE_SIZE = vb \div HUGE_PAGE_SIZE
      PROVE  Entry(va, 3) = Entry(vb, 3)
  <2>1. /\ Entry(va, 3) \in Seq(Int) /\ Len(Entry(va, 3)) = 3
        /\ \A i \in 1 .. 3 : Entry(va, 3)[i] = Walk(va)[i]
    BY <1>0, EntryShape
  <2>2. /\ Entry(vb, 3) \in Seq(Int) /\ Len(Entry(vb, 3)) = 3
        /\ \A i \in 1 .. 3 : Entry(vb, 3)[i] = Walk(vb)[i]
    BY <1>0, EntryShape
  <2>3. \A i \in 1 .. 3 : Walk(va)[i] = Walk(vb)[i]
    <3>1. \A i \in 1 .. 3 : i = 1 \/ i = 2 \/ i = 3 OBVIOUS
    <3> QED BY <1>1, <1>2, <3>1
  <2>4. \A i \in 1 .. 3 : Entry(va, 3)[i] = Entry(vb, 3)[i] BY <2>1, <2>2, <2>3
  <2> QED BY <2>1, <2>2, <2>4, SeqEqual
<1>3. ASSUME va \div PAGE_SIZE = vb \div PAGE_SIZE PROVE Entry(va, 4) = Entry(vb, 4)
  <2>0. va \div HUGE_PAGE_SIZE = vb \div HUGE_PAGE_SIZE
    <3>1. va \div (PAGE_SIZE * PT_FAN) = (va \div PAGE_SIZE) \div PT_FAN BY Sizes, DivDiv
    <3>2. vb \div (PAGE_SIZE * PT_FAN) = (vb \div PAGE_SIZE) \div PT_FAN BY Sizes, DivDiv
    <3> QED BY <1>3, <3>1, <3>2 DEF HUGE_PAGE_SIZE
  <2>1. /\ Entry(va, 4) \in Seq(Int) /\ Len(Entry(va, 4)) = 4
        /\ \A i \in 1 .. 4 : Entry(va, 4)[i] = Walk(va)[i]
    BY <1>0, EntryShape
  <2>2. /\ Entry(vb, 4) \in Seq(Int) /\ Len(Entry(vb, 4)) = 4
        /\ \A i \in 1 .. 4 : Entry(vb, 4)[i] = Walk(vb)[i]
    BY <1>0, EntryShape
  <2>3. \A i \in 1 .. 4 : Walk(va)[i] = Walk(vb)[i]
    <3>1. \A i \in 1 .. 4 : i = 1 \/ i = 2 \/ i = 3 \/ i = 4 OBVIOUS
    <3>2. Walk(va)[4] = Walk(vb)[4] BY <1>3 DEF Walk, PtIndex
    <3> QED BY <1>1, <2>0, <3>1, <3>2
  <2>4. \A i \in 1 .. 4 : Entry(va, 4)[i] = Entry(vb, 4)[i] BY <2>1, <2>2, <2>3
  <2> QED BY <2>1, <2>2, <2>4, SeqEqual
<1>4. va \div PAGE_SIZE = vb \div PAGE_SIZE => va \div HUGE_PAGE_SIZE = vb \div HUGE_PAGE_SIZE
  <2>1. va \div (PAGE_SIZE * PT_FAN) = (va \div PAGE_SIZE) \div PT_FAN BY Sizes, DivDiv
  <2>2. vb \div (PAGE_SIZE * PT_FAN) = (vb \div PAGE_SIZE) \div PT_FAN BY Sizes, DivDiv
  <2> QED BY <2>1, <2>2 DEF HUGE_PAGE_SIZE
<1> QED BY <1>2, <1>3, <1>4

\* Among the addresses of one span of the tree no two huge pages share an
\* entry.
LEMMA HugeIsUnique ==
  ASSUME NEW n \in Nat, NEW va \in Nat, NEW vb \in Nat,
         TOP * n <= va, va < TOP * n + TOP, TOP * n <= vb, vb < TOP * n + TOP,
         Entry(va, 3) = Entry(vb, 3)
  PROVE  va \div HUGE_PAGE_SIZE = vb \div HUGE_PAGE_SIZE
<1> DEFINE S == HUGE_PAGE_SIZE * PD_FAN * PDPT_FAN
           H(v) == v \div HUGE_PAGE_SIZE
           P(v) == H(v) \div PD_FAN
           Q(v) == P(v) \div PDPT_FAN
<1>0. va \in Nat /\ vb \in Nat /\ va \in Int /\ vb \in Int OBVIOUS
<1>1. \A v \in Nat : /\ H(v) \in Nat /\ H(v) % PD_FAN = H(v) - PD_FAN * P(v)
                     /\ P(v) \in Nat /\ P(v) % PDPT_FAN = P(v) - PDPT_FAN * Q(v)
                     /\ Q(v) \in Nat
  <2> SUFFICES ASSUME NEW v \in Nat
               PROVE  /\ H(v) \in Nat /\ H(v) % PD_FAN = H(v) - PD_FAN * P(v)
                      /\ P(v) \in Nat /\ P(v) % PDPT_FAN = P(v) - PDPT_FAN * Q(v)
                      /\ Q(v) \in Nat
    OBVIOUS
  <2>1. H(v) \in Nat /\ H(v) \in Int
    <3> DEFINE d == HUGE_PAGE_SIZE
    <3>1. d \in Nat \ {0} BY Sizes
    <3> HIDE DEF d
    <3>2. v \div d \in Nat /\ v \div d \in Int BY <3>1
    <3> QED BY <3>2 DEF d
  <2> HIDE DEF H
  <2>2. P(v) \in Nat /\ P(v) \in Int /\ H(v) % PD_FAN = H(v) - PD_FAN * P(v) BY <2>1, Sizes, Division
  <2> HIDE DEF P
  <2>3. Q(v) \in Nat /\ P(v) % PDPT_FAN = P(v) - PDPT_FAN * Q(v) BY <2>2, Sizes, Division
  <2> QED BY <2>1, <2>2, <2>3
<1>2. \A v \in Nat : TOP * n <= v /\ v < TOP * n + TOP => Q(v) % PML4_FAN = Q(v) - PML4_FAN * n
  <2> SUFFICES ASSUME NEW v \in Nat, TOP * n <= v, v < TOP * n + TOP
               PROVE  Q(v) % PML4_FAN = Q(v) - PML4_FAN * n
    OBVIOUS
  <2> DEFINE q == v \div S
             r == v % S
             m == PML4_FAN * n
  <2>1. q = Q(v) BY IndicesOfHuge
  <2>2. S \in Nat \ {0} /\ TOP = S * PML4_FAN /\ PML4_FAN \in Nat \ {0} BY Sizes
  <2> HIDE DEF S
  <2>3. q \in Nat /\ r \in 0 .. S - 1 /\ r = v - S * q
    <3>1. v \in Int OBVIOUS
    <3> QED BY <2>2, <3>1, Division
  <2>4. m \in Nat /\ TOP * n = S * m BY <2>2
  <2>5. S * m <= v /\ v < S * m + S * PML4_FAN BY <2>2, <2>4
  <2> HIDE DEF q, r, Q, m
  <2>6. S * q \in Int /\ S * m \in Int /\ S * PML4_FAN \in Int BY <2>2, <2>3, <2>4
  <2>7. S * q < S * m + S * PML4_FAN /\ S * m < S * q + S BY <2>2, <2>3, <2>5, <2>6
  <2>8. S * q < S * (m + PML4_FAN) /\ S * m < S * (q + 1) BY <2>2, <2>3, <2>4, <2>7
  <2>9. q < m + PML4_FAN /\ m <= q
    <3>1. \A x, y \in Nat : S * x < S * y => x < y BY <2>2
    <3>2. m + PML4_FAN \in Nat /\ q + 1 \in Nat BY <2>2, <2>3, <2>4
    <3>3. q < m + PML4_FAN /\ m < q + 1 BY <2>3, <2>4, <2>8, <3>1, <3>2
    <3> QED BY <2>2, <2>3, <2>4, <3>3
  <2>10. PML4_FAN * n <= q /\ q < PML4_FAN * n + PML4_FAN BY <2>9 DEF m
  <2>11. q % PML4_FAN = q - PML4_FAN * n
    <3>1. q \in Int /\ n \in Int BY <2>3
    <3> QED BY <2>2, <2>10, <3>1, Quotient
  <2> QED BY <2>1, <2>11
<1>3. /\ H(va) % PD_FAN = H(vb) % PD_FAN /\ P(va) % PDPT_FAN = P(vb) % PDPT_FAN
      /\ Q(va) % PML4_FAN = Q(vb) % PML4_FAN
  <2>0. 3 \in 0 .. 4 /\ 1 \in 1 .. 3 /\ 2 \in 1 .. 3 /\ 3 \in 1 .. 3 OBVIOUS
  <2>1. \A i \in 1 .. 3 : Entry(va, 3)[i] = Walk(va)[i] BY <1>0, <2>0, EntryShape
  <2>2. \A i \in 1 .. 3 : Entry(vb, 3)[i] = Walk(vb)[i] BY <1>0, <2>0, EntryShape
  <2>3. Walk(va)[1] = Walk(vb)[1] /\ Walk(va)[2] = Walk(vb)[2] /\ Walk(va)[3] = Walk(vb)[3]
    BY <2>0, <2>1, <2>2
  <2>4. PdIndex(va) = PdIndex(vb) /\ PdptIndex(va) = PdptIndex(vb) /\ Pml4Index(va) = Pml4Index(vb)
    BY <2>3 DEF Walk
  <2> QED BY <1>0, <2>4, IndicesOfHuge
<1>4. Q(va) = Q(vb)
  <2>1. Q(va) - PML4_FAN * n = Q(vb) - PML4_FAN * n BY <1>2, <1>3
  <2>2. PML4_FAN * n \in Int /\ Q(va) \in Int /\ Q(vb) \in Int BY <1>0, <1>1, Sizes
  <2> HIDE DEF Q
  <2> QED BY <2>1, <2>2
<1> HIDE DEF H, P, Q
<1>5. P(va) = P(vb)
  <2>1. P(va) - PDPT_FAN * Q(va) = P(vb) - PDPT_FAN * Q(vb) BY <1>0, <1>1, <1>3
  <2>2. PDPT_FAN * Q(va) \in Int /\ P(va) \in Int /\ P(vb) \in Int BY <1>0, <1>1, Sizes
  <2> QED BY <1>4, <2>1, <2>2
<1>6. H(va) = H(vb)
  <2>1. H(va) - PD_FAN * P(va) = H(vb) - PD_FAN * P(vb) BY <1>0, <1>1, <1>3
  <2>2. PD_FAN * P(va) \in Int /\ H(va) \in Int /\ H(vb) \in Int BY <1>0, <1>1, Sizes
  <2> QED BY <1>5, <2>1, <2>2
<1> QED BY <1>6 DEF H

\* Entries of different levels are different.
LEMMA LevelsDiffer ==
  ASSUME NEW va \in Int, NEW vb \in Int, NEW j \in 0 .. 4, NEW k \in 0 .. 4,
         Entry(va, j) = Entry(vb, k)
  PROVE  j = k
<1>1. Len(Entry(va, j)) = j BY EntryShape
<1>2. Len(Entry(vb, k)) = k BY EntryShape
<1> QED BY <1>1, <1>2

-----------------------------------------------------------------------------
(* The tables. *)

\* The permissions that exist.
Kinds == {READ_ONLY, READ_WRITE, READ_EXECUTE}

\* What the record is made of.
TablesTyped(t) ==
  /\ t = [arena |-> t.arena, used |-> t.used, tables |-> t.tables, leaves |-> t.leaves,
          error |-> t.error]
  /\ t.arena \in Nat /\ t.used \in Nat

\* An entry is a leaf or points to a table, not both; leaves have one of the
\* three permissions and are pages or huge pages; a page is reached through
\* the table that holds it.
TablesOK(t) ==
  /\ TablesTyped(t)
  /\ \A e \in DOMAIN t.leaves : e \notin t.tables /\ t.leaves[e].permissions \in Kinds
  /\ \A va \in Addresses :
       /\ Entry(va, 4) \in DOMAIN t.leaves => Entry(va, 3) \in t.tables
       /\ Entry(va, 2) \notin DOMAIN t.leaves /\ Entry(va, 1) \notin DOMAIN t.leaves

\* Tables grow: what was there stays as it was.
Grown(t, u) ==
  /\ t.tables \subseteq u.tables
  /\ DOMAIN t.leaves \subseteq DOMAIN u.leaves
  /\ \A e \in DOMAIN t.leaves : u.leaves[e] = t.leaves[e]

\* A page is mapped, and a huge page is.
PageMapped(t, va, pa, permissions) ==
  /\ va \in Addresses /\ va % PAGE_SIZE = 0 /\ pa % PAGE_SIZE = 0
  /\ Entry(va, 4) \in DOMAIN t.leaves /\ t.leaves[Entry(va, 4)] = Leaf(pa, permissions)
HugeMapped(t, va, pa, permissions) ==
  /\ va % HUGE_PAGE_SIZE = 0 /\ pa % HUGE_PAGE_SIZE = 0
  /\ Entry(va, 3) \in DOMAIN t.leaves /\ t.leaves[Entry(va, 3)] = Leaf(pa, permissions)

\* The entry of a huge page that was just mapped.
IsHugeOf(t, e, va, pa, permissions) ==
  va % HUGE_PAGE_SIZE = 0 /\ e = Entry(va, 3) /\ t.leaves[e] = Leaf(pa, permissions)

\* The entries on the way to an address, down to a level.
Way(va, level) == {Entry(va, k) : k \in 1 .. level}

\* Addresses are numbers.
LEMMA AddressTyped == \A va \in Addresses : va \in Nat /\ va \in Int /\ va < ADDRESS_LIMIT
BY Sizes DEF Addresses

\* The way to a directory passes no entry of a page table or of a huge page.
LEMMA WayIsAbove ==
  ASSUME NEW va \in Addresses, NEW vb \in Addresses
  PROVE  Entry(vb, 3) \notin Way(va, 2)
<1>1. 3 \in 0 .. 4 /\ \A k \in 1 .. 2 : k \in 0 .. 4 /\ k # 3 OBVIOUS
<1>2. \A k \in 1 .. 2 : Entry(vb, 3) # Entry(va, k) BY <1>1, AddressTyped, LevelsDiffer
<1> QED BY <1>2 DEF Way

\* How many frames a walk takes.
LEMMA TakenIsNat ==
  ASSUME NEW t, NEW va \in Int, NEW level \in Nat
  PROVE  FramesTaken(t, va, level) \in Nat
<1>1. IsFiniteSet(1 .. level) BY FS_Interval
<1>2. Missing(t, va, level) \subseteq 1 .. level BY DEF Missing
<1>3. IsFiniteSet(Missing(t, va, level)) BY <1>1, <1>2, FS_Subset
<1> QED BY <1>3, FS_CardinalityType DEF FramesTaken

\* A call that fails leaves the tables as they are.
LEMMA FailOK ==
  ASSUME NEW t, TablesOK(t), NEW error
  PROVE  /\ TablesOK(Fail(t, error)) /\ Grown(t, Fail(t, error))
         /\ Fail(t, error).leaves = t.leaves /\ Fail(t, error).tables = t.tables
         /\ Fail(t, error).error = error
<1> DEFINE u == Fail(t, error)
<1>1. t = [arena |-> t.arena, used |-> t.used, tables |-> t.tables, leaves |-> t.leaves,
           error |-> t.error]
  BY DEF TablesOK, TablesTyped
<1>2. u = [arena |-> t.arena, used |-> t.used, tables |-> t.tables, leaves |-> t.leaves,
           error |-> error]
  BY <1>1 DEF Fail
<1> HIDE DEF u
<1>3. /\ u.arena = t.arena /\ u.used = t.used /\ u.tables = t.tables /\ u.leaves = t.leaves
      /\ u.error = error
  BY <1>2
<1> QED BY <1>2, <1>3 DEF TablesOK, TablesTyped, Grown, u

\* descend adds tables on the way, where there are no leaves.
LEMMA DescendOK ==
  ASSUME NEW t, TablesOK(t), NEW va \in Addresses, NEW level \in 0 .. 4
  PROVE  /\ TablesOK(Descend(t, va, level)) /\ Grown(t, Descend(t, va, level))
         /\ Descend(t, va, level).leaves = t.leaves
         /\ level \in 1 .. 4 /\ Descend(t, va, level).error = "None" =>
              Entry(va, level) \in Descend(t, va, level).tables
         /\ \A e \in Descend(t, va, level).tables :
              e \in t.tables \/ e \in Way(va, level)
         /\ t.error = "None" /\ Descend(t, va, level).error = "Conflict" =>
              \E k \in 1 .. level : Entry(va, k) \in DOMAIN t.leaves
<1> DEFINE taken == FramesTaken(t, va, level)
           u == Descend(t, va, level)
           last == level - taken + t.arena - t.used
<1>0. va \in Int BY Sizes DEF Addresses
<1>1. /\ t = [arena |-> t.arena, used |-> t.used, tables |-> t.tables, leaves |-> t.leaves,
              error |-> t.error]
      /\ t.arena \in Nat /\ t.used \in Nat /\ taken \in Nat
  BY <1>0, TakenIsNat DEF TablesOK, TablesTyped
<1>2. CASE \E k \in 1 .. level : IsLeaf(t, Entry(va, k))
  <2>1. u = Fail(t, "Conflict") BY <1>2 DEF Descend
  <2>2. u.error = "Conflict" /\ u.tables = t.tables /\ TablesOK(u) /\ Grown(t, u) /\ u.leaves = t.leaves
    BY <2>1, FailOK
  <2> QED BY <1>2, <2>2 DEF IsLeaf
<1>3. ASSUME ~ \E k \in 1 .. level : IsLeaf(t, Entry(va, k)),
             NEW T, T \subseteq Way(va, level), NEW n \in Nat, NEW error,
             u = [arena |-> t.arena, used |-> n, tables |-> t.tables \cup T,
                  leaves |-> t.leaves, error |-> error]
      PROVE  /\ TablesOK(u) /\ Grown(t, u) /\ u.leaves = t.leaves
             /\ \A e \in u.tables : e \in t.tables \/ e \in Way(va, level)
  <2> HIDE DEF u
  <2>1. /\ u.arena = t.arena /\ u.used = n /\ u.tables = t.tables \cup T /\ u.leaves = t.leaves
        /\ u.error = error
    BY <1>3
  <2>2. TablesTyped(u) BY <1>1, <1>3, <2>1 DEF TablesTyped
  <2>3. \A e \in DOMAIN u.leaves : e \notin u.tables /\ u.leaves[e].permissions \in Kinds
    BY <1>3, <2>1 DEF TablesOK, IsLeaf, Way
  <2>4. \A vb \in Addresses :
          /\ Entry(vb, 4) \in DOMAIN u.leaves => Entry(vb, 3) \in u.tables
          /\ Entry(vb, 2) \notin DOMAIN u.leaves /\ Entry(vb, 1) \notin DOMAIN u.leaves
    BY <2>1 DEF TablesOK
  <2>5. \A e \in u.tables : e \in t.tables \/ e \in Way(va, level)
    BY <1>3, <2>1
  <2> QED BY <2>1, <2>2, <2>3, <2>4, <2>5 DEF TablesOK, Grown
<1>4. CASE ~(\E k \in 1 .. level : IsLeaf(t, Entry(va, k))) /\ t.used + taken > t.arena
  <2> DEFINE T == {Entry(va, k) : k \in 1 .. last}
  <2>1. u = [t EXCEPT !.used = t.arena, !.error = "ArenaExhausted", !.tables = @ \cup T]
    BY <1>4 DEF Descend
  <2>2. u = [arena |-> t.arena, used |-> t.arena, tables |-> t.tables \cup T,
             leaves |-> t.leaves, error |-> "ArenaExhausted"]
    BY <1>1, <2>1
  <2>3. T \subseteq Way(va, level)
    <3>1. last < level
      <4> HIDE DEF taken
      <4> QED BY <1>1, <1>4
    <3>2. last \in Int
      <4> HIDE DEF taken
      <4> QED BY <1>1
    <3> HIDE DEF last
    <3> QED BY <3>1, <3>2 DEF Way
  <2>4. u.error = "ArenaExhausted" BY <2>2
  <2> HIDE DEF u, T
  <2>5. /\ TablesOK(u) /\ Grown(t, u) /\ u.leaves = t.leaves
        /\ \A e \in u.tables : e \in t.tables \/ e \in Way(va, level)
    BY <1>1, <1>3, <1>4, <2>2, <2>3
  <2>6. u.error # "None" /\ u.error # "Conflict" BY <2>4
  <2> QED BY <2>5, <2>6 DEF u
<1>5. CASE ~(\E k \in 1 .. level : IsLeaf(t, Entry(va, k))) /\ ~(t.used + taken > t.arena)
  <2> DEFINE T == {Entry(va, k) : k \in 1 .. level}
  <2>1. u = [t EXCEPT !.used = @ + taken, !.tables = @ \cup T] BY <1>5 DEF Descend
  <2> HIDE DEF taken
  <2>2. u = [arena |-> t.arena, used |-> t.used + taken, tables |-> t.tables \cup T,
             leaves |-> t.leaves, error |-> t.error]
    BY <1>1, <2>1
  <2>3. level \in 1 .. 4 => Entry(va, level) \in T OBVIOUS
  <2>4. t.used + taken \in Nat BY <1>1
  <2>5. u.tables = t.tables \cup T /\ u.error = t.error BY <2>2
  <2> HIDE DEF u, T
  <2>6. T \subseteq Way(va, level) BY DEF T, Way
  <2>7. /\ TablesOK(u) /\ Grown(t, u) /\ u.leaves = t.leaves
        /\ \A e \in u.tables : e \in t.tables \/ e \in Way(va, level)
    BY <1>3, <1>5, <2>2, <2>4, <2>6
  <2> QED BY <2>3, <2>5, <2>7 DEF u
<1> QED BY <1>2, <1>4, <1>5

\* A leaf is put where there is nothing, in a table that is there.
LEMMA PutLeafOK ==
  ASSUME NEW t, TablesOK(t), NEW va \in Addresses, NEW entry, NEW leaf,
         leaf.permissions \in Kinds,
         \/ entry = Entry(va, 3)
         \/ entry = Entry(va, 4) /\ (t.error = "None" => Entry(va, 3) \in t.tables)
  PROVE  /\ TablesOK(PutLeaf(t, entry, leaf)) /\ Grown(t, PutLeaf(t, entry, leaf))
         /\ PutLeaf(t, entry, leaf).tables = t.tables
         /\ PutLeaf(t, entry, leaf).error = "None" =>
              /\ entry \notin DOMAIN t.leaves
              /\ entry \in DOMAIN PutLeaf(t, entry, leaf).leaves
              /\ PutLeaf(t, entry, leaf).leaves[entry] = leaf
         /\ \A e \in DOMAIN PutLeaf(t, entry, leaf).leaves :
              e \in DOMAIN t.leaves \/ (e = entry /\ PutLeaf(t, entry, leaf).leaves[e] = leaf)
         /\ PutLeaf(t, entry, leaf).error = "Conflict" =>
              t.error = "Conflict" \/ entry \in DOMAIN t.leaves \/ entry \in t.tables
<1> DEFINE u == PutLeaf(t, entry, leaf)
           new == WithLeaf(t, entry, leaf)
<1>0. va \in Int BY Sizes DEF Addresses
<1>1. t = [arena |-> t.arena, used |-> t.used, tables |-> t.tables, leaves |-> t.leaves,
           error |-> t.error]
  BY DEF TablesOK, TablesTyped
<1>2. CASE t.error # "None" BY <1>2 DEF PutLeaf, Grown
<1>3. CASE t.error = "None" /\ IsPresent(t, entry)
  <2>1. u = Fail(t, "Conflict") BY <1>3 DEF PutLeaf
  <2>2. entry \in DOMAIN t.leaves \/ entry \in t.tables BY <1>3 DEF IsPresent, IsLeaf, IsTable
  <2>3. TablesOK(u) /\ Grown(t, u) /\ u.leaves = t.leaves /\ u.tables = t.tables /\ u.error = "Conflict"
    BY <2>1, FailOK
  <2> QED BY <2>2, <2>3
<1>4. CASE t.error = "None" /\ ~IsPresent(t, entry)
  <2>1. u = [t EXCEPT !.leaves = new] BY <1>4 DEF PutLeaf
  <2>2. /\ DOMAIN new = DOMAIN t.leaves \cup {entry} /\ new[entry] = leaf
        /\ entry \notin DOMAIN t.leaves /\ entry \notin t.tables
        /\ \A e \in DOMAIN t.leaves : new[e] = t.leaves[e]
    BY <1>4 DEF WithLeaf, IsPresent, IsLeaf, IsTable
  <2> HIDE DEF new
  <2>3. u = [arena |-> t.arena, used |-> t.used, tables |-> t.tables, leaves |-> new,
             error |-> t.error]
    BY <1>1, <2>1
  <2> HIDE DEF u
  <2>4. /\ u.arena = t.arena /\ u.used = t.used /\ u.tables = t.tables /\ u.leaves = new
        /\ u.error = t.error
    BY <2>3
  <2>5. TablesTyped(u) BY <2>3, <2>4 DEF TablesOK, TablesTyped
  <2>6. \A e \in DOMAIN u.leaves : e \notin u.tables /\ u.leaves[e].permissions \in Kinds
    BY <2>2, <2>4 DEF TablesOK
  <2>7. ASSUME NEW vb \in Addresses
        PROVE  /\ Entry(vb, 4) \in DOMAIN u.leaves => Entry(vb, 3) \in u.tables
               /\ Entry(vb, 2) \notin DOMAIN u.leaves /\ Entry(vb, 1) \notin DOMAIN u.leaves
    <3>0. vb \in Int BY Sizes DEF Addresses
    <3>1. ASSUME Entry(vb, 4) \in DOMAIN t.leaves PROVE Entry(vb, 3) \in u.tables
      BY <2>4, <3>1 DEF TablesOK
    <3>2. ASSUME Entry(vb, 4) = entry PROVE Entry(vb, 3) \in u.tables
      BY <1>0, <1>4, <2>4, <3>0, <3>2, EntryNests
    <3>3. entry # Entry(vb, 2) /\ entry # Entry(vb, 1)
      <4>1. 1 \in 0 .. 4 /\ 2 \in 0 .. 4 /\ 3 \in 0 .. 4 /\ 4 \in 0 .. 4 OBVIOUS
      <4>2. \A j, k \in 0 .. 4 : Entry(va, j) = Entry(vb, k) => j = k
        BY <1>0, <3>0, LevelsDiffer
      <4>3. Entry(va, 3) # Entry(vb, 2) /\ Entry(va, 3) # Entry(vb, 1) BY <4>1, <4>2
      <4>4. Entry(va, 4) # Entry(vb, 2) /\ Entry(va, 4) # Entry(vb, 1) BY <4>1, <4>2
      <4> QED BY <4>3, <4>4
    <3>4. Entry(vb, 2) \notin DOMAIN t.leaves /\ Entry(vb, 1) \notin DOMAIN t.leaves
      BY DEF TablesOK
    <3> QED BY <2>2, <2>4, <3>1, <3>2, <3>3, <3>4
  <2>8. Grown(t, u) BY <2>2, <2>4 DEF Grown
  <2>9. TablesOK(u) BY <2>5, <2>6, <2>7 DEF TablesOK
  <2> QED BY <1>4, <2>2, <2>4, <2>8, <2>9 DEF u
<1> QED BY <1>2, <1>3, <1>4

\* Growth adds up.
LEMMA GrownIsTransitive ==
  ASSUME NEW t, NEW u, NEW v, Grown(t, u), Grown(u, v)
  PROVE  Grown(t, v)
BY DEF Grown

\* map_page.
LEMMA MapPageOK ==
  ASSUME NEW t, TablesOK(t), NEW va \in Addresses, NEW pa, NEW permissions \in Kinds
  PROVE  /\ TablesOK(MapPage(t, va, pa, permissions)) /\ Grown(t, MapPage(t, va, pa, permissions))
         /\ MapPage(t, va, pa, permissions).error = "None" =>
              /\ PageMapped(MapPage(t, va, pa, permissions), va, pa, permissions)
              /\ Entry(va, 4) \notin DOMAIN t.leaves
         /\ \A e \in MapPage(t, va, pa, permissions).tables :
              e \in t.tables \/ e \in Way(va, 3)
         /\ \A e \in DOMAIN MapPage(t, va, pa, permissions).leaves :
              e \in DOMAIN t.leaves \/ e = Entry(va, 4)
<1>1. Leaf(pa, permissions).permissions \in Kinds BY DEF Leaf
<1>2. 3 \in 0 .. 4 /\ 3 \in 1 .. 4 OBVIOUS
<1> DEFINE m == MapPage(t, va, pa, permissions)
<1>3. CASE va % PAGE_SIZE # 0 \/ pa % PAGE_SIZE # 0
  <2>1. m = Fail(t, "Misaligned") BY <1>3 DEF MapPage
  <2> HIDE DEF m
  <2>2. TablesOK(m) /\ Grown(t, m) /\ m.leaves = t.leaves /\ m.tables = t.tables
        /\ m.error = "Misaligned"
    BY <2>1, FailOK
  <2>3. m.error # "None" /\ m.error # "Conflict" BY <2>2
  <2> QED BY <2>2, <2>3 DEF m
<1>4. CASE va % PAGE_SIZE = 0 /\ pa % PAGE_SIZE = 0
  <2> DEFINE d == Descend(t, va, 3)
             leaf == Leaf(pa, permissions)
  <2>1. /\ TablesOK(d) /\ Grown(t, d) /\ d.leaves = t.leaves
        /\ d.error = "None" => Entry(va, 3) \in d.tables
        /\ \A e \in d.tables : e \in t.tables \/ e \in Way(va, 3)
    <3>1. TablesOK(d) /\ Grown(t, d) /\ d.leaves = t.leaves BY <1>2, DescendOK
    <3>2. d.error = "None" => Entry(va, 3) \in d.tables BY <1>2, DescendOK
    <3>3. \A e \in d.tables : e \in t.tables \/ e \in Way(va, 3)
      BY <1>2, DescendOK
    <3> QED BY <3>1, <3>2, <3>3
  <2>2. m = PutLeaf(d, Entry(va, 4), leaf) BY <1>4 DEF MapPage
  <2> HIDE DEF d, leaf
  <2>3. /\ TablesOK(m) /\ Grown(d, m) /\ m.tables = d.tables
        /\ m.error = "None" =>
             /\ Entry(va, 4) \notin DOMAIN d.leaves /\ Entry(va, 4) \in DOMAIN m.leaves
             /\ m.leaves[Entry(va, 4)] = leaf
        /\ \A e \in DOMAIN m.leaves : e \in DOMAIN d.leaves \/ e = Entry(va, 4)
    <3> HIDE DEF m
    <3>1. leaf.permissions \in Kinds BY <1>1 DEF leaf
    <3> QED BY <2>1, <2>2, <3>1, PutLeafOK
  <2> HIDE DEF m
  <2>4. Grown(t, m) BY <2>1, <2>3, GrownIsTransitive
  <2>5. m.error = "None" => PageMapped(m, va, pa, permissions)
    BY <1>4, <2>3 DEF PageMapped, leaf
  <2> QED BY <2>1, <2>3, <2>4, <2>5 DEF m
<1> QED BY <1>3, <1>4

\* map_huge_page; a conflict is about the entry itself.
LEMMA MapHugePageOK ==
  ASSUME NEW t, TablesOK(t), t.error = "None", NEW va \in Addresses, NEW pa,
         NEW permissions \in Kinds
  PROVE  /\ TablesOK(MapHugePage(t, va, pa, permissions))
         /\ Grown(t, MapHugePage(t, va, pa, permissions))
         /\ MapHugePage(t, va, pa, permissions).error = "None" =>
              HugeMapped(MapHugePage(t, va, pa, permissions), va, pa, permissions)
         /\ MapHugePage(t, va, pa, permissions).error = "Conflict" =>
              /\ va % HUGE_PAGE_SIZE = 0 /\ pa % HUGE_PAGE_SIZE = 0
              /\ Entry(va, 3) \in DOMAIN t.leaves \/ Entry(va, 3) \in t.tables
         /\ \A e \in MapHugePage(t, va, pa, permissions).tables :
              e \in t.tables \/ e \in Way(va, 2)
         /\ \A e \in DOMAIN MapHugePage(t, va, pa, permissions).leaves :
              \/ e \in DOMAIN t.leaves
              \/ IsHugeOf(MapHugePage(t, va, pa, permissions), e, va, pa, permissions)
<1>0. va \in Int BY Sizes DEF Addresses
<1>1. Leaf(pa, permissions).permissions \in Kinds BY DEF Leaf
<1>2. 2 \in 0 .. 4 /\ 2 \in 1 .. 4 /\ 3 \in 0 .. 4 /\ 1 \in 0 .. 4 OBVIOUS
<1> DEFINE m == MapHugePage(t, va, pa, permissions)
<1>3. CASE va % HUGE_PAGE_SIZE # 0 \/ pa % HUGE_PAGE_SIZE # 0
  <2>1. m = Fail(t, "Misaligned") BY <1>3 DEF MapHugePage
  <2> HIDE DEF m
  <2>2. TablesOK(m) /\ Grown(t, m) /\ m.leaves = t.leaves /\ m.tables = t.tables
        /\ m.error = "Misaligned"
    BY <2>1, FailOK
  <2>3. m.error # "None" /\ m.error # "Conflict" BY <2>2
  <2> QED BY <2>2, <2>3 DEF m
<1>4. CASE va % HUGE_PAGE_SIZE = 0 /\ pa % HUGE_PAGE_SIZE = 0
  <2> DEFINE d == Descend(t, va, 2)
             leaf == Leaf(pa, permissions)
  <2>1. /\ TablesOK(d) /\ Grown(t, d) /\ d.leaves = t.leaves
        /\ \A e \in d.tables : e \in t.tables \/ e \in Way(va, 2)
        /\ d.error = "Conflict" => \E k \in 1 .. 2 : Entry(va, k) \in DOMAIN t.leaves
    <3>1. TablesOK(d) /\ Grown(t, d) /\ d.leaves = t.leaves BY <1>2, DescendOK
    <3>2. \A e \in d.tables : e \in t.tables \/ e \in Way(va, 2)
      BY <1>2, DescendOK
    <3>3. d.error = "Conflict" => \E k \in 1 .. 2 : Entry(va, k) \in DOMAIN t.leaves
      BY <1>2, DescendOK
    <3> QED BY <3>1, <3>2, <3>3
  <2>2. m = PutLeaf(d, Entry(va, 3), leaf) BY <1>4 DEF MapHugePage
  <2> HIDE DEF d, leaf
  <2>3. /\ TablesOK(m) /\ Grown(d, m) /\ m.tables = d.tables
        /\ m.error = "None" =>
             /\ Entry(va, 3) \in DOMAIN m.leaves /\ m.leaves[Entry(va, 3)] = leaf
        /\ \A e \in DOMAIN m.leaves :
             e \in DOMAIN d.leaves \/ (e = Entry(va, 3) /\ m.leaves[e] = leaf)
        /\ m.error = "Conflict" =>
             d.error = "Conflict" \/ Entry(va, 3) \in DOMAIN d.leaves \/ Entry(va, 3) \in d.tables
    <3> HIDE DEF m
    <3>1. leaf.permissions \in Kinds BY <1>1 DEF leaf
    <3> QED BY <2>1, <2>2, <3>1, PutLeafOK
  <2> HIDE DEF m
  <2>4. Grown(t, m) BY <2>1, <2>3, GrownIsTransitive
  <2>5. m.error = "None" => HugeMapped(m, va, pa, permissions)
    BY <1>4, <2>3 DEF HugeMapped, leaf
  <2>6. d.error # "Conflict"
    <3>1. \A k \in 1 .. 2 : k = 1 \/ k = 2 OBVIOUS
    <3>2. Entry(va, 1) \notin DOMAIN t.leaves /\ Entry(va, 2) \notin DOMAIN t.leaves
      BY DEF TablesOK
    <3> QED BY <2>1, <3>1, <3>2
  <2>7. Entry(va, 3) \in d.tables => Entry(va, 3) \in t.tables
    <3>1. \A k \in 1 .. 2 : Entry(va, 3) # Entry(va, k)
      <4>1. \A k \in 1 .. 2 : k \in 0 .. 4 /\ k # 3 OBVIOUS
      <4> QED BY <1>0, <1>2, <4>1, LevelsDiffer
    <3> QED BY <2>1, <3>1 DEF Way
  <2> QED BY <1>4, <2>1, <2>3, <2>4, <2>5, <2>6, <2>7 DEF m, leaf, IsHugeOf
<1> QED BY <1>3, <1>4

-----------------------------------------------------------------------------
(* What the processor finds. *)

\* No leaf is writable and executable.
LEMMA KindsFound ==
  ASSUME NEW t, TablesOK(t), NEW va \in Addresses
  PROVE  Lookup(t, va).permissions \in Kinds
<1>1. CASE Entry(va, 3) \in DOMAIN t.leaves
  <2>1. Lookup(t, va).permissions = t.leaves[Entry(va, 3)].permissions
    BY <1>1 DEF Lookup, IsLeaf
  <2> QED BY <1>1, <2>1 DEF TablesOK
<1>2. CASE Entry(va, 3) \notin DOMAIN t.leaves /\ Entry(va, 4) \in DOMAIN t.leaves
  <2>1. Lookup(t, va).permissions = t.leaves[Entry(va, 4)].permissions
    BY <1>2 DEF Lookup, IsLeaf
  <2> QED BY <1>2, <2>1 DEF TablesOK
<1>3. CASE Entry(va, 3) \notin DOMAIN t.leaves /\ Entry(va, 4) \notin DOMAIN t.leaves
  <2>1. Lookup(t, va) = Fault BY <1>3 DEF Lookup, IsLeaf
  <2> QED BY <2>1 DEF Fault, Kinds
<1> QED BY <1>1, <1>2, <1>3

\* What tables translate, they translate the same way when they have grown.
LEMMA GrownFinds ==
  ASSUME NEW t, NEW u, TablesOK(t), TablesOK(u), Grown(t, u), NEW va \in Addresses,
         Lookup(t, va) # Fault
  PROVE  Lookup(u, va) = Lookup(t, va)
<1>1. CASE Entry(va, 3) \in DOMAIN t.leaves
  <2>1. Entry(va, 3) \in DOMAIN u.leaves /\ u.leaves[Entry(va, 3)] = t.leaves[Entry(va, 3)]
    BY <1>1 DEF Grown
  <2> QED BY <1>1, <2>1 DEF Lookup, IsLeaf
<1>2. CASE Entry(va, 3) \notin DOMAIN t.leaves /\ Entry(va, 4) \in DOMAIN t.leaves
  <2>1. Entry(va, 4) \in DOMAIN u.leaves /\ u.leaves[Entry(va, 4)] = t.leaves[Entry(va, 4)]
    BY <1>2 DEF Grown
  <2>2. Entry(va, 3) \in u.tables BY <1>2 DEF Grown, TablesOK
  <2>3. Entry(va, 3) \notin DOMAIN u.leaves BY <2>2 DEF TablesOK
  <2> QED BY <1>2, <2>1, <2>3 DEF Lookup, IsLeaf
<1>3. CASE Entry(va, 3) \notin DOMAIN t.leaves /\ Entry(va, 4) \notin DOMAIN t.leaves
  <2>1. Lookup(t, va) = Fault BY <1>3 DEF Lookup, IsLeaf
  <2> QED BY <2>1
<1> QED BY <1>1, <1>2, <1>3

\* Every byte of a mapped page is found.
LEMMA PageIsFound ==
  ASSUME NEW t, TablesOK(t), NEW va, NEW pa, NEW permissions,
         PageMapped(t, va, pa, permissions), NEW r \in 0 .. PAGE_SIZE - 1
  PROVE  Lookup(t, va + r) = [byte |-> pa + r, permissions |-> permissions]
<1>1. va \in Addresses /\ va \in Int /\ va + r \in Int /\ va % PAGE_SIZE = 0
  BY Sizes DEF PageMapped, Addresses
<1>2. (va + r) \div PAGE_SIZE = va \div PAGE_SIZE /\ (va + r) % PAGE_SIZE = r
  BY <1>1, Sizes, Offsets
<1>3. Entry(va + r, 4) = Entry(va, 4) /\ Entry(va + r, 3) = Entry(va, 3)
  BY <1>1, <1>2, SameEntry
<1>4. Entry(va, 4) \in DOMAIN t.leaves /\ t.leaves[Entry(va, 4)] = Leaf(pa, permissions)
  BY DEF PageMapped
<1>5. Entry(va, 3) \notin DOMAIN t.leaves BY <1>1, <1>4 DEF TablesOK
<1>6. Lookup(t, va + r) = [byte |-> t.leaves[Entry(va, 4)].to + r,
                              permissions |-> t.leaves[Entry(va, 4)].permissions]
  BY <1>2, <1>3, <1>4, <1>5 DEF Lookup, IsLeaf
<1> QED BY <1>4, <1>6 DEF Leaf

\* Every byte of a mapped huge page is found.
LEMMA HugeIsFound ==
  ASSUME NEW t, NEW va \in Int, NEW pa, NEW permissions,
         HugeMapped(t, va, pa, permissions), NEW r \in 0 .. HUGE_PAGE_SIZE - 1
  PROVE  Lookup(t, va + r) = [byte |-> pa + r, permissions |-> permissions]
<1>1. va + r \in Int /\ va % HUGE_PAGE_SIZE = 0 BY Sizes DEF HugeMapped
<1>2. (va + r) \div HUGE_PAGE_SIZE = va \div HUGE_PAGE_SIZE /\ (va + r) % HUGE_PAGE_SIZE = r
  BY <1>1, Sizes, Offsets
<1>3. Entry(va + r, 3) = Entry(va, 3) BY <1>1, <1>2, SameEntry
<1>4. Entry(va, 3) \in DOMAIN t.leaves /\ t.leaves[Entry(va, 3)] = Leaf(pa, permissions)
  BY DEF HugeMapped
<1>5. Lookup(t, va + r) = [byte |-> t.leaves[Entry(va, 3)].to + r,
                              permissions |-> t.leaves[Entry(va, 3)].permissions]
  BY <1>2, <1>3, <1>4 DEF Lookup, IsLeaf
<1> QED BY <1>4, <1>5 DEF Leaf

\* What is mapped stays mapped as tables grow.
LEMMA GrownKeeps ==
  ASSUME NEW t, NEW u, Grown(t, u), NEW va, NEW pa, NEW permissions
  PROVE  /\ PageMapped(t, va, pa, permissions) => PageMapped(u, va, pa, permissions)
         /\ HugeMapped(t, va, pa, permissions) => HugeMapped(u, va, pa, permissions)
BY DEF Grown, PageMapped, HugeMapped

-----------------------------------------------------------------------------
(* The kernel's file. *)

\* Sets of addresses below a bound have a greatest element.
LEMMA GreatestExists ==
  ASSUME NEW T, T \subseteq Nat, T # {}, NEW bound \in Nat, \A x \in T : x < bound
  PROVE  \E x \in T : \A y \in T : x >= y
<1> DEFINE D == {bound - x : x \in T}
<1>1. D \subseteq Nat /\ D # {}
  <2>1. \A x \in T : bound - x \in Nat OBVIOUS
  <2>2. PICK x \in T : TRUE OBVIOUS
  <2>3. bound - x \in D BY <2>2
  <2>4. D \subseteq Nat BY <2>1
  <2> QED BY <2>3, <2>4
<1> HIDE DEF D
<1>2. PICK d \in D : \A e \in D : d <= e BY <1>1, LeastExists
<1>3. PICK x \in T : d = bound - x BY DEF D
<1>4. \A y \in T : bound - y \in D BY DEF D
<1>5. \A y \in T : bound - x <= bound - y BY <1>2, <1>3, <1>4
<1>6. \A y \in T : x \in Nat /\ y \in Nat OBVIOUS
<1>7. \A y \in T : x >= y BY <1>5, <1>6
<1> QED BY <1>7

\* Rounding up, in the code's words.
LEMMA DivCeilOK ==
  ASSUME NEW n \in Nat, NEW d \in Nat \ {0}
  PROVE  /\ DivCeil(n, d) \in Nat /\ DivCeil(n, d) * d \in Nat /\ DivCeil(n, d) * d >= n
         /\ \A b \in 0 .. n - 1 : b \div d \in 0 .. DivCeil(n, d) - 1
<1>1. /\ DivCeil(n, d) \in Nat /\ DivCeil(n, d) * d >= n
      /\ \A b \in 0 .. n - 1 : b \div d \in 0 .. DivCeil(n, d) - 1
  BY RoundUp DEF DivCeil
<1> HIDE DEF DivCeil
<1>2. DivCeil(n, d) * d \in Nat BY <1>1
<1> QED BY <1>1, <1>2

\* What the headers hold.
LEMMA HeadersTyped ==
  ASSUME image \in Images
  PROVE  /\ image.size \in Nat /\ image.tableEnd \in Nat /\ Len(image.headers) \in Nat
         /\ DOMAIN image.headers = 1 .. Len(image.headers)
         /\ \A i \in DOMAIN image.headers : image.headers[i] \in Headers
         /\ Loadable \subseteq 1 .. Len(image.headers)
         /\ \A i \in Loadable :
              /\ Segment(i) \in Headers
              /\ Segment(i).fileOffset \in Nat /\ Segment(i).fileSize \in Nat
              /\ Segment(i).virtualAddress \in Nat /\ Segment(i).memorySize \in Nat
<1>1. image.size \in Nat /\ image.tableEnd \in Nat /\ image.headers \in Seq(Headers)
  BY KernelImageAssumption
<1>2. /\ Len(image.headers) \in Nat /\ DOMAIN image.headers = 1 .. Len(image.headers)
      /\ \A i \in DOMAIN image.headers : image.headers[i] \in Headers
  BY <1>1
<1>3. Loadable \subseteq DOMAIN image.headers BY DEF Loadable
<1>4. \A i \in Loadable : Segment(i) \in Headers BY <1>2, <1>3 DEF Segment
<1>5. \A h \in Headers : /\ h.fileOffset \in Nat /\ h.fileSize \in Nat
                         /\ h.virtualAddress \in Nat /\ h.memorySize \in Nat
  BY DEF Headers
<1> QED BY <1>1, <1>2, <1>3, <1>4, <1>5

\* A file that can be loaded: something to load, no segment larger in the file
\* than in memory, no address past the last one.
Accepted ==
  /\ image \in Images /\ Loadable # {}
  /\ \A i \in Loadable : Segment(i).fileSize <= Segment(i).memorySize
  /\ \A end \in Ends : end < ADDRESS_LIMIT

\* A file that passed the checks is one.
LEMMA ParsedIsAccepted ==
  ASSUME image \in Images, ParseError = "None", ~ExtentOverflows
  PROVE  Accepted
<1> DEFINE bad == {i \in DOMAIN image.headers : SegmentError(image.headers[i]) # "None"}
<1>0. image \in Images /\ ParseError = "None" OBVIOUS
<1>1. BufferSize \in Nat /\ image.tableEnd \in Nat
  <2>1. image.size \in Nat /\ PAGE_SIZE \in Nat \ {0} /\ image.tableEnd \in Nat
    BY <1>0, HeadersTyped, Sizes
  <2> QED BY <2>1, DivCeilOK DEF BufferSize
<1>2. image.format = "None"
  <2>1. image.format # "None" => ParseError = image.format BY DEF ParseError
  <2> QED BY <1>0, <2>1
<1>3. image.tableEnd <= BufferSize
  <2>1. image.format = "None" /\ image.tableEnd > BufferSize => ParseError = "TruncatedHeaders"
    BY <1>1 DEF ParseError
  <2>2. ~(image.tableEnd > BufferSize) BY <1>0, <1>2, <2>1
  <2> QED BY <1>1, <2>2
<1>4. ~(image.tableEnd > BufferSize) BY <1>1, <1>3
<1>5. bad = {}
  <2> SUFFICES ASSUME bad # {} PROVE FALSE
    OBVIOUS
  <2>1. bad \subseteq Nat
    <3>1. bad \subseteq DOMAIN image.headers OBVIOUS
    <3> HIDE DEF bad
    <3> QED BY <1>0, <3>1, HeadersTyped
  <2> DEFINE first == CHOOSE i \in bad : \A k \in bad : i <= k
  <2>2. first \in bad
    <3> HIDE DEF bad
    <3>1. \E i \in bad : \A k \in bad : i <= k BY <2>1, LeastExists
    <3> QED BY <3>1
  <2>3. ParseError = SegmentError(image.headers[first])
    BY <1>2, <1>3, <1>4 DEF ParseError
  <2>4. SegmentError(image.headers[first]) # "None"
    <3> HIDE DEF first
    <3> QED BY <2>2
  <2> QED BY <1>0, <2>3, <2>4
<1>6. Loadable # {}
  <2>1. image.format = "None" /\ image.tableEnd <= BufferSize /\ ~(image.tableEnd > BufferSize)
        /\ bad = {} /\ Loadable = {} => ParseError = "NothingToLoad"
    BY DEF ParseError
  <2> QED BY <1>0, <1>2, <1>3, <1>4, <1>5, <2>1
<1>7. ASSUME NEW i \in Loadable PROVE Segment(i).fileSize <= Segment(i).memorySize
  <2> DEFINE h == Segment(i)
  <2>1. i \in DOMAIN image.headers /\ h.kind = "LOAD" /\ h = image.headers[i]
    BY DEF Loadable, Segment
  <2>2. SegmentError(h) = "None" BY <1>5, <2>1
  <2>3. h.fileSize \in Nat /\ h.memorySize \in Nat BY <1>0, HeadersTyped
  <2> HIDE DEF h
  <2>4. h.kind = "LOAD" /\ h.memorySize < h.fileSize => SegmentError(h) = "ImpossibleSegment"
    BY <2>3 DEF SegmentError
  <2>5. ~(h.memorySize < h.fileSize) BY <2>1, <2>2, <2>4
  <2>6. h.fileSize <= h.memorySize BY <2>3, <2>5
  <2> QED BY <2>6 DEF h
<1>8. \A end \in Ends : end < ADDRESS_LIMIT
  <2>1. Ends \subseteq Nat BY HeadersTyped DEF Ends
  <2> QED BY <2>1, Sizes DEF ExtentOverflows
<1> QED BY <1>6, <1>7, <1>8 DEF Accepted

\* The extent holds every segment, and so does the memory allocated for it:
\* "the destination lies inside the allocation" (main.rs).
LEMMA ExtentHolds ==
  ASSUME Accepted
  PROVE  /\ KernelLow \in Nat /\ KernelHigh \in Nat
         /\ \A i \in Loadable :
              /\ KernelLow <= Segment(i).virtualAddress
              /\ SegmentPhysical(i) \in Nat
              /\ \A b \in 0 .. Segment(i).memorySize - 1 : SegmentPhysical(i) + b \in Allocation
<1>0. image \in Images /\ \A end \in Ends : end < ADDRESS_LIMIT BY DEF Accepted
<1>1. \A i \in Loadable : Segment(i).virtualAddress \in Nat /\ Segment(i).memorySize \in Nat
  BY <1>0, HeadersTyped
<1>2. Loadable # {} BY DEF Accepted
<1>3. Starts \subseteq Nat /\ Starts # {} BY <1>1, <1>2 DEF Starts
<1>4. Ends \subseteq Nat /\ Ends # {} BY <1>1, <1>2 DEF Ends
<1>5. Least(Starts) \in Starts /\ \A m \in Starts : Least(Starts) <= m
  <2>1. \E n \in Starts : \A m \in Starts : n <= m BY <1>3, LeastExists
  <2> QED BY <2>1 DEF Least
<1>6. Greatest(Ends) \in Ends /\ \A m \in Ends : Greatest(Ends) >= m
  <2>1. \E n \in Ends : \A m \in Ends : n >= m
    BY <1>0, <1>4, Sizes, GreatestExists
  <2> QED BY <2>1 DEF Greatest
<1>7. KernelLow \in Nat /\ KernelHigh \in Nat
  BY <1>3, <1>4, <1>5, <1>6 DEF KernelLow, KernelHigh
<1>8. \A i \in Loadable :
        /\ Least(Starts) <= Segment(i).virtualAddress /\ KernelLow <= Segment(i).virtualAddress
        /\ Segment(i).virtualAddress + Segment(i).memorySize <= Greatest(Ends)
        /\ Segment(i).virtualAddress + Segment(i).memorySize < ADDRESS_LIMIT
  <2> TAKE i \in Loadable
  <2>1. Segment(i).virtualAddress \in Starts BY DEF Starts
  <2>2. Segment(i).virtualAddress + Segment(i).memorySize \in Ends BY DEF Ends
  <2>3. Least(Starts) <= Segment(i).virtualAddress BY <1>5, <2>1
  <2>4. KernelLow <= Segment(i).virtualAddress BY <1>1, <2>3 DEF KernelLow
  <2>5. Greatest(Ends) >= Segment(i).virtualAddress + Segment(i).memorySize BY <1>6, <2>2
  <2>6. Segment(i).virtualAddress + Segment(i).memorySize <= Greatest(Ends)
    BY <1>1, <1>4, <1>6, <2>2, <2>5
  <2> QED BY <1>0, <2>2, <2>3, <2>4, <2>6
<1>9. ASSUME NEW i \in Loadable, NEW b \in 0 .. Segment(i).memorySize - 1
      PROVE  /\ ~NoExtent /\ KernelLow = Least(Starts)
             /\ Segment(i).virtualAddress + Segment(i).memorySize <= KernelHigh
  <2>1. ~NoExtent
    <3> DEFINE v == Segment(i).virtualAddress
               m == Segment(i).memorySize
               least == Least(Starts)
    <3>1. v \in Nat /\ m \in Nat /\ least \in Nat /\ least <= v /\ v + m < ADDRESS_LIMIT
          /\ b \in 0 .. m - 1 /\ ADDRESS_LIMIT \in Nat
      BY <1>1, <1>3, <1>5, <1>8, Sizes
    <3>2. NoExtent => least = ADDRESS_LIMIT - 1 BY DEF NoExtent
    <3> HIDE DEF v, m, least
    <3> QED BY <3>1, <3>2
  <2> QED BY <1>8, <2>1 DEF KernelLow, KernelHigh
<1>10. ASSUME NEW i \in Loadable, NEW b \in 0 .. Segment(i).memorySize - 1
       PROVE  KernelPages * PAGE_SIZE \in Nat /\ KernelPages * PAGE_SIZE >= KernelHigh - KernelLow
  <2>1. KernelHigh - KernelLow \in Nat
    <3>1. /\ KernelLow <= Segment(i).virtualAddress
          /\ Segment(i).virtualAddress + Segment(i).memorySize <= KernelHigh
      BY <1>8, <1>9
    <3> QED BY <1>1, <1>7, <3>1
  <2> QED BY <2>1, Sizes, DivCeilOK DEF KernelPages
<1>11. KERNEL_PHYSICAL \in Nat BY KernelImageAssumption
<1>12. ASSUME NEW i \in Loadable, NEW b \in 0 .. Segment(i).memorySize - 1
       PROVE  SegmentPhysical(i) + b \in Allocation
  <2> DEFINE size == KernelPages * PAGE_SIZE
             va == Segment(i).virtualAddress
             ms == Segment(i).memorySize
             low == KernelLow
             high == KernelHigh
  <2>1. /\ size \in Nat /\ size >= high - low /\ low \in Nat /\ high \in Nat
        /\ va \in Nat /\ ms \in Nat /\ low <= va /\ va + ms <= high
    BY <1>1, <1>7, <1>8, <1>9, <1>10
  <2>2. /\ Allocation = KERNEL_PHYSICAL .. KERNEL_PHYSICAL + size - 1
        /\ SegmentPhysical(i) = KERNEL_PHYSICAL + va - low /\ b \in 0 .. ms - 1
    BY DEF Allocation, SegmentPhysical
  <2> HIDE DEF size, va, ms, low, high
  <2> QED BY <1>11, <2>1, <2>2
<1>13. \A i \in Loadable : SegmentPhysical(i) \in Nat
  BY <1>1, <1>7, <1>8, <1>11 DEF SegmentPhysical
<1> QED BY <1>7, <1>8, <1>12, <1>13

-----------------------------------------------------------------------------
(* The invariant of the loader. *)

\* What load_and_start can be doing, and when the kernel's bytes are in place.
Stages ==
  {"read", "parse", "reserve", "copy", "map kernel", "map ram", "map framebuffer",
   "map identity", "started", "failed"}
Mapping == {"map kernel", "map ram", "map framebuffer", "map identity", "started"}

\* The variables, and no error outlives a call that the loader survives.
LoaderTyped ==
  /\ image \in Images /\ machine \in Machines
  /\ stage \in Stages /\ at \in Nat /\ page \in Nat
  /\ memory \in [0 .. MEMORY - 1 -> Int]
  /\ TablesOK(tables) /\ (stage # "failed" => tables.error = "None")

\* What the checks and the allocation established.
Parsed ==
  /\ stage \in {"reserve", "copy"} \cup Mapping => Accepted
  /\ stage \in {"copy"} \cup Mapping => Allocation \subseteq 0 .. MEMORY - 1

\* The byte of a segment, and what of its bytes is in memory once the headers
\* before n are copied: all that no later segment covers.
WantedByte(i, b) ==
  IF b < Segment(i).fileSize THEN BufferByte(Segment(i).fileOffset + b) ELSE 0
BytesUpTo(m, n) ==
  \A i \in Loadable : i < n => \A b \in 0 .. Segment(i).memorySize - 1 :
    \/ m[SegmentPhysical(i) + b] = WantedByte(i, b)
    \/ \E j \in Loadable :
         /\ i < j /\ j < n
         /\ Segment(i).virtualAddress + b
              \in Segment(j).virtualAddress .. Segment(j).virtualAddress + Segment(j).memorySize - 1
BytesCopied ==
  /\ stage = "copy" => BytesUpTo(memory, at)
  /\ stage \in Mapping => BytesUpTo(memory, Len(image.headers) + 1)

\* The pages of a segment, in the tables up to page p of header a, and no two
\* segments share one: this is what keeps a later segment from covering bytes
\* of an earlier one in a kernel that starts.
Va(i, k) == Segment(i).virtualAddress + k * PAGE_SIZE
Pa(i, k) == SegmentPhysical(i) + k * PAGE_SIZE
KernelMapped(t, a, p) ==
  \A i \in Loadable : \A k \in 0 .. SegmentPages(i) - 1 :
    i < a \/ (i = a /\ k < p) =>
      \E permissions \in SegmentPermissions(Segment(i)) :
        PageMapped(t, Va(i, k), Pa(i, k), permissions)
PagesDiffer(a, p) ==
  \A i, j \in Loadable : \A k \in 0 .. SegmentPages(i) - 1 : \A l \in 0 .. SegmentPages(j) - 1 :
    i < j /\ (j < a \/ (j = a /\ l < p)) => Va(i, k) # Va(j, l)
KernelPlaced ==
  /\ stage \in {"read", "parse", "reserve"} => at = 1
  /\ stage \in {"read", "parse", "reserve", "copy"} => page = 0
  /\ stage \in Mapping => KernelMapped(tables, at, page) /\ PagesDiffer(at, page)
  /\ stage \in Mapping \ {"map kernel"} => at > Len(image.headers)

\* Page tables are there for pages of the kernel only, and huge pages, until the
\* identity map is built, for the window only: so a conflict of the framebuffer
\* is with what the window already shows.
Window == PHYSICAL_MEMORY_OFFSET .. ADDRESS_LIMIT - 1
TablesAreKernels(t) ==
  \A va \in Addresses : Entry(va, 3) \in t.tables =>
    \E i \in Loadable : \E k \in 0 .. SegmentPages(i) - 1 :
      Entry(Va(i, k), 3) = Entry(va, 3)
LeavesAreWindow(t) ==
  \A va \in Window : va % HUGE_PAGE_SIZE = 0 /\ Entry(va, 3) \in DOMAIN t.leaves =>
    t.leaves[Entry(va, 3)] = Leaf(va - PHYSICAL_MEMORY_OFFSET, READ_WRITE)
EntriesAreKnown ==
  /\ stage # "failed" => TablesAreKernels(tables)
  /\ stage \notin {"map identity", "started", "failed"} => LeavesAreWindow(tables)

\* The huge pages of RAM and of the identity map.
RamPages == DivCeil(machine.highestRam, HUGE_PAGE_SIZE)
IdentityPages == DivCeil(IDENTITY_MAPPED_BYTES, HUGE_PAGE_SIZE)

\* n huge pages of the window from a physical address on, and of the identity
\* map.
Shown(t, n, base) ==
  \A k \in 0 .. n - 1 :
    HugeMapped(t, PHYSICAL_MEMORY_OFFSET + (base + k * HUGE_PAGE_SIZE),
               base + k * HUGE_PAGE_SIZE, READ_WRITE)
IdentityUpTo(t, n) ==
  \A k \in 0 .. n - 1 :
    HugeMapped(t, k * HUGE_PAGE_SIZE, k * HUGE_PAGE_SIZE, IdentityPermissions)
RangesMapped ==
  /\ stage = "map ram" => Shown(tables, page, 0)
  /\ stage \in {"map framebuffer", "map identity", "started"} => Shown(tables, RamPages, 0)
  /\ stage = "map framebuffer" /\ FramebufferIsClear => Shown(tables, page, FramebufferBase)
  /\ stage \in {"map identity", "started"} /\ FramebufferIsClear =>
       Shown(tables, FramebufferPages, FramebufferBase)
  /\ stage = "map identity" => IdentityUpTo(tables, page)
  /\ stage = "started" => IdentityUpTo(tables, IdentityPages)

\* All of it: what holds whenever a step of the loader ends.
LoaderInv ==
  /\ LoaderTyped /\ Parsed /\ CopyStaysInside /\ BytesCopied
  /\ KernelPlaced /\ EntriesAreKnown /\ RangesMapped

\* The file and the machine stay what they are, and with them all that is
\* computed from them.
LEMMA FileStays ==
  ASSUME image' = image
  PROVE  /\ Loadable' = Loadable /\ Ends' = Ends /\ Allocation' = Allocation
         /\ Len(image.headers)' = Len(image.headers)
         /\ \A i : /\ Segment(i)' = Segment(i) /\ SegmentPages(i)' = SegmentPages(i)
                   /\ SegmentPhysical(i)' = SegmentPhysical(i)
         /\ \A i, k : Va(i, k)' = Va(i, k) /\ Pa(i, k)' = Pa(i, k)
         /\ \A i, b : WantedByte(i, b)' = WantedByte(i, b)
<1>1. Loadable' = Loadable BY DEF Loadable
<1>2. \A i : Segment(i)' = Segment(i) BY DEF Segment
<1>3. Starts' = Starts /\ Ends' = Ends BY <1>1, <1>2 DEF Starts, Ends
<1>4. KernelLow' = KernelLow /\ KernelHigh' = KernelHigh
  BY <1>3 DEF KernelLow, KernelHigh, NoExtent
<1>5. Allocation' = Allocation BY <1>4 DEF Allocation, KernelPages
<1>6. \A i : SegmentPages(i)' = SegmentPages(i) BY <1>2 DEF SegmentPages
<1>7. \A i : SegmentPhysical(i)' = SegmentPhysical(i) BY <1>2, <1>4 DEF SegmentPhysical
<1>8. \A i, k : Va(i, k)' = Va(i, k) /\ Pa(i, k)' = Pa(i, k) BY <1>2, <1>7 DEF Va, Pa
<1>9. \A i, b : WantedByte(i, b)' = WantedByte(i, b) BY <1>2 DEF WantedByte, BufferByte
<1> QED BY <1>1, <1>2, <1>3, <1>5, <1>6, <1>7, <1>8, <1>9

\* So the invariant's parts read the same after a step.
LEMMA PartsStay ==
  ASSUME image' = image, machine' = machine
  PROVE  /\ Accepted' <=> Accepted
         /\ BytesUpTo(memory, at)' <=> BytesUpTo(memory', at')
         /\ BytesUpTo(memory, Len(image.headers) + 1)' <=> BytesUpTo(memory', Len(image.headers) + 1)
         /\ KernelMapped(tables, at, page)' <=> KernelMapped(tables', at', page')
         /\ PagesDiffer(at, page)' <=> PagesDiffer(at', page')
         /\ TablesAreKernels(tables)' <=> TablesAreKernels(tables')
         /\ FramebufferIsClear' <=> FramebufferIsClear
         /\ FramebufferBase' = FramebufferBase /\ FramebufferPages' = FramebufferPages
         /\ RamPages' = RamPages
<1>1. Accepted' <=> Accepted BY FileStays DEF Accepted
<1>2. /\ BytesUpTo(memory, at)' <=> BytesUpTo(memory', at')
      /\ BytesUpTo(memory, Len(image.headers) + 1)' <=> BytesUpTo(memory', Len(image.headers) + 1)
  BY FileStays DEF BytesUpTo
<1>3. KernelMapped(tables, at, page)' <=> KernelMapped(tables', at', page')
  BY FileStays DEF KernelMapped, SegmentPermissions
<1>4. PagesDiffer(at, page)' <=> PagesDiffer(at', page') BY FileStays DEF PagesDiffer
<1>5. TablesAreKernels(tables)' <=> TablesAreKernels(tables') BY FileStays DEF TablesAreKernels
<1>6. FramebufferBase' = FramebufferBase BY DEF FramebufferBase
<1>7. FramebufferPages' = FramebufferPages BY <1>6 DEF FramebufferPages
<1>8. RamPages' = RamPages BY DEF RamPages
<1>9. FramebufferIsClear' <=> FramebufferIsClear BY <1>6, <1>7, FileStays DEF FramebufferIsClear
<1> QED BY <1>1, <1>2, <1>3, <1>4, <1>5, <1>6, <1>7, <1>8, <1>9

\* A loader that gives up leaves memory as it is.
LEMMA FailedStep ==
  ASSUME LoaderInv, stage' = "failed", UNCHANGED <<image, machine, at, page, memory>>,
         TablesOK(tables')
  PROVE  LoaderInv'
<1>1. LoaderTyped' BY DEF LoaderInv, LoaderTyped, Stages
<1>2. CopyStaysInside' BY FileStays DEF LoaderInv, CopyStaysInside
<1>3. Parsed' /\ BytesCopied' BY DEF Parsed, BytesCopied, Mapping
<1>4. KernelPlaced' BY DEF KernelPlaced, Mapping
<1>5. EntriesAreKnown' BY DEF EntriesAreKnown
<1>6. RangesMapped' BY DEF RangesMapped
<1> QED BY <1>1, <1>2, <1>3, <1>4, <1>5, <1>6 DEF LoaderInv

\* A loader that maps a page leaves the kernel's bytes as they are.
LEMMA MappingStep ==
  ASSUME LoaderInv, stage \in Mapping, stage' \in Mapping, UNCHANGED <<image, machine, memory>>,
         at' \in Nat, page' \in Nat, TablesOK(tables'), tables'.error = "None",
         KernelMapped(tables', at', page'), PagesDiffer(at', page'),
         stage' # "map kernel" => at' > Len(image.headers),
         TablesAreKernels(tables'),
         stage' \notin {"map identity", "started"} => LeavesAreWindow(tables'),
         RangesMapped'
  PROVE  LoaderInv'
<1>1. LoaderTyped' BY DEF LoaderInv, LoaderTyped, Stages, Mapping
<1>2. CopyStaysInside' BY FileStays DEF LoaderInv, CopyStaysInside
<1>3. Parsed' BY FileStays, PartsStay DEF LoaderInv, Parsed
<1>4. BytesCopied' BY PartsStay DEF LoaderInv, BytesCopied, Mapping
<1>5. KernelPlaced' BY FileStays, PartsStay DEF KernelPlaced, Mapping
<1>6. EntriesAreKnown'
  <2>1. LeavesAreWindow(tables)' <=> LeavesAreWindow(tables') BY DEF LeavesAreWindow
  <2> QED BY <2>1, PartsStay DEF EntriesAreKnown
<1> QED BY <1>1, <1>2, <1>3, <1>4, <1>5, <1>6 DEF LoaderInv

\* A call of Map: the loader gives up, or has come to the next page.
LEMMA MapStep ==
  ASSUME LoaderInv, NEW va \in Nat, NEW mapped, NEW tolerated,
         va \in Addresses => TablesOK(mapped) /\ Grown(tables, mapped),
         Map(va, mapped, tolerated)
  PROVE  \/ LoaderInv' /\ Grown(tables, tables')
         \/ /\ va \in Addresses /\ UNCHANGED <<image, machine, stage, at, memory>>
            /\ page' = page + 1 /\ mapped.error \in {"None"} \cup tolerated
            /\ TablesOK(tables') /\ tables'.error = "None" /\ Grown(tables, tables')
            /\ tables'.leaves = mapped.leaves /\ tables'.tables = mapped.tables
<1>0. ADDRESS_LIMIT \in Nat BY Sizes
<1>1. TablesOK(tables) BY DEF LoaderInv, LoaderTyped
<1>2. CASE va >= ADDRESS_LIMIT
  <2>1. stage' = "failed" /\ UNCHANGED <<image, machine, at, page, memory, tables>>
    BY <1>2 DEF Map, Stop
  <2>2. LoaderInv' BY <1>1, <2>1, FailedStep
  <2>3. Grown(tables, tables') BY <2>1 DEF Grown
  <2> QED BY <2>2, <2>3
<1>3. CASE ~(va >= ADDRESS_LIMIT)
  <2>1. va \in Addresses BY <1>0, <1>3 DEF Addresses
  <2>2. TablesOK(mapped) /\ Grown(tables, mapped) BY <2>1
  <2>3. UNCHANGED <<image, machine, at, memory>> BY <1>3 DEF Map
  <2>4. CASE mapped.error \in {"None"} \cup tolerated
    <3>1. page' = page + 1 /\ tables' = Fail(mapped, "None") /\ stage' = stage
      BY <1>3, <2>4 DEF Map, Fail
    <3>2. /\ TablesOK(tables') /\ Grown(mapped, tables') /\ tables'.leaves = mapped.leaves
          /\ tables'.tables = mapped.tables /\ tables'.error = "None"
      BY <2>2, <3>1, FailOK
    <3>3. Grown(tables, tables') BY <2>2, <3>2, GrownIsTransitive
    <3> QED BY <2>1, <2>3, <2>4, <3>1, <3>2, <3>3
  <2>5. CASE mapped.error \notin {"None"} \cup tolerated
    <3>1. stage' = "failed" /\ tables' = mapped /\ page' = page BY <1>3, <2>5 DEF Map
    <3>2. LoaderInv' BY <2>2, <2>3, <3>1, FailedStep
    <3> QED BY <2>2, <3>1, <3>2
  <2> QED BY <2>4, <2>5
<1> QED BY <1>2, <1>3

\* The kernel stays mapped while other ranges are.
LEMMA KernelStays ==
  ASSUME LoaderInv, at > Len(image.headers), NEW t, Grown(tables, t),
         KernelMapped(tables, at, page), PagesDiffer(at, page), NEW p
  PROVE  KernelMapped(t, at, p) /\ PagesDiffer(at, p)
<1>1. \A i \in Loadable : i < at
  <2>1. Loadable \subseteq 1 .. Len(image.headers) /\ Len(image.headers) \in Nat /\ at \in Nat
    BY HeadersTyped DEF LoaderInv, LoaderTyped
  <2> QED BY <2>1
<1>2. KernelMapped(t, at, p) BY <1>1, GrownKeeps DEF KernelMapped
<1>3. PagesDiffer(at, p) BY <1>1 DEF PagesDiffer
<1> QED BY <1>2, <1>3

\* What is mapped of the other ranges stays mapped.
LEMMA RangesStay ==
  ASSUME NEW t, NEW u, Grown(t, u), NEW n, NEW base
  PROVE  /\ Shown(t, n, base) => Shown(u, n, base)
         /\ IdentityUpTo(t, n) => IdentityUpTo(u, n)
BY GrownKeeps DEF Shown, IdentityUpTo

\* A call of map_huge_page that the loader survives.
HugeCall(va, pa, permissions) ==
  /\ va \in Addresses /\ UNCHANGED <<image, machine, stage, at, memory>>
  /\ page' = page + 1 /\ TablesOK(tables') /\ tables'.error = "None"
  /\ Grown(tables, tables')
  /\ KernelMapped(tables', at', page') /\ PagesDiffer(at', page')
  /\ at' > Len(image.headers) /\ TablesAreKernels(tables')
  /\ \A e \in DOMAIN tables'.leaves :
       e \in DOMAIN tables.leaves \/ IsHugeOf(tables', e, va, pa, permissions)

\* What a conflict means.
HugeConflict(va, pa) ==
  /\ va % HUGE_PAGE_SIZE = 0 /\ pa % HUGE_PAGE_SIZE = 0
  /\ Entry(va, 3) \in DOMAIN tables.leaves \/ Entry(va, 3) \in tables.tables

\* A call of map_huge_page.
LEMMA MapHugeStep ==
  ASSUME LoaderInv, stage \in {"map ram", "map framebuffer", "map identity"},
         NEW va \in Nat, NEW pa, NEW permissions \in Kinds, NEW tolerated,
         tolerated \subseteq {"Conflict"},
         Map(va, MapHugePage(tables, va, pa, permissions), tolerated)
  PROVE  \/ LoaderInv' /\ Grown(tables, tables')
         \/ /\ HugeCall(va, pa, permissions)
            /\ \/ HugeMapped(tables', va, pa, permissions)
               \/ "Conflict" \in tolerated /\ HugeConflict(va, pa)
<1> DEFINE mapped == MapHugePage(tables, va, pa, permissions)
<1>1. /\ TablesOK(tables) /\ tables.error = "None" /\ at > Len(image.headers)
      /\ KernelMapped(tables, at, page) /\ PagesDiffer(at, page) /\ TablesAreKernels(tables)
  BY DEF LoaderInv, LoaderTyped, KernelPlaced, EntriesAreKnown, Mapping
<1>2. ASSUME va \in Addresses
      PROVE  /\ TablesOK(mapped) /\ Grown(tables, mapped)
             /\ mapped.error = "None" => HugeMapped(mapped, va, pa, permissions)
             /\ mapped.error = "Conflict" =>
                  /\ va % HUGE_PAGE_SIZE = 0 /\ pa % HUGE_PAGE_SIZE = 0
                  /\ Entry(va, 3) \in DOMAIN tables.leaves \/ Entry(va, 3) \in tables.tables
             /\ \A e \in mapped.tables : e \in tables.tables \/ e \in Way(va, 2)
             /\ \A e \in DOMAIN mapped.leaves :
                  \/ e \in DOMAIN tables.leaves
                  \/ IsHugeOf(mapped, e, va, pa, permissions)
  <2>1. TablesOK(mapped) /\ Grown(tables, mapped) BY <1>1, <1>2, MapHugePageOK
  <2>2. mapped.error = "None" => HugeMapped(mapped, va, pa, permissions)
    BY <1>1, <1>2, MapHugePageOK
  <2>3. mapped.error = "Conflict" =>
          /\ va % HUGE_PAGE_SIZE = 0 /\ pa % HUGE_PAGE_SIZE = 0
          /\ Entry(va, 3) \in DOMAIN tables.leaves \/ Entry(va, 3) \in tables.tables
    BY <1>1, <1>2, MapHugePageOK
  <2>4. \A e \in mapped.tables : e \in tables.tables \/ e \in Way(va, 2)
    BY <1>1, <1>2, MapHugePageOK
  <2>5. \A e \in DOMAIN mapped.leaves :
          \/ e \in DOMAIN tables.leaves
          \/ IsHugeOf(mapped, e, va, pa, permissions)
    BY <1>1, <1>2, MapHugePageOK
  <2> QED BY <2>1, <2>2, <2>3, <2>4, <2>5
<1> HIDE DEF mapped
<1>3. \/ LoaderInv' /\ Grown(tables, tables')
      \/ /\ va \in Addresses /\ UNCHANGED <<image, machine, stage, at, memory>>
         /\ page' = page + 1 /\ mapped.error \in {"None"} \cup tolerated
         /\ TablesOK(tables') /\ tables'.error = "None" /\ Grown(tables, tables')
         /\ tables'.leaves = mapped.leaves /\ tables'.tables = mapped.tables
  <2>1. Map(va, mapped, tolerated) BY DEF mapped
  <2> QED BY <1>2, <2>1, MapStep
<1>4. CASE LoaderInv' /\ Grown(tables, tables') BY <1>4
<1>5. CASE /\ va \in Addresses /\ UNCHANGED <<image, machine, stage, at, memory>>
           /\ page' = page + 1 /\ mapped.error \in {"None"} \cup tolerated
           /\ TablesOK(tables') /\ tables'.error = "None" /\ Grown(tables, tables')
           /\ tables'.leaves = mapped.leaves /\ tables'.tables = mapped.tables
  <2>1. KernelMapped(tables', at', page') /\ PagesDiffer(at', page') BY <1>1, <1>5, KernelStays
  <2>2. TablesAreKernels(tables')
    <3> SUFFICES ASSUME NEW vb \in Addresses, Entry(vb, 3) \in tables'.tables
                 PROVE  Entry(vb, 3) \in tables.tables
      BY <1>1 DEF TablesAreKernels
    <3>1. Entry(vb, 3) \notin Way(va, 2) BY <1>5, WayIsAbove
    <3> QED BY <1>2, <1>5, <3>1
  <2>3. \/ HugeMapped(tables', va, pa, permissions)
        \/ /\ "Conflict" \in tolerated
           /\ va % HUGE_PAGE_SIZE = 0 /\ pa % HUGE_PAGE_SIZE = 0
           /\ Entry(va, 3) \in DOMAIN tables.leaves \/ Entry(va, 3) \in tables.tables
    <3>1. CASE mapped.error = "None"
      <4>1. HugeMapped(mapped, va, pa, permissions) BY <1>2, <1>5, <3>1
      <4> QED BY <1>5, <4>1 DEF HugeMapped
    <3>2. CASE mapped.error \in tolerated
      <4>1. mapped.error = "Conflict" BY <3>2
      <4> QED BY <1>2, <1>5, <3>2, <4>1
    <3> QED BY <1>5, <3>1, <3>2
  <2>4. \A e \in DOMAIN tables'.leaves :
          \/ e \in DOMAIN tables.leaves
          \/ IsHugeOf(tables', e, va, pa, permissions)
    BY <1>2, <1>5 DEF IsHugeOf
  <2>5. HugeCall(va, pa, permissions) BY <1>1, <1>5, <2>1, <2>2, <2>4 DEF HugeCall
  <2> QED BY <2>3, <2>5 DEF HugeConflict
<1> QED BY <1>3, <1>4, <1>5

\* What the machine's description gives.
LEMMA MachineTyped ==
  ASSUME machine \in Machines
  PROVE  /\ machine.highestRam \in Nat /\ machine.framebuffer.base \in Nat
         /\ machine.framebuffer.size \in Nat /\ FramebufferBase \in Nat
         /\ FramebufferBase <= machine.framebuffer.base
         /\ FramebufferBase % HUGE_PAGE_SIZE = 0
         /\ FramebufferPages \in Nat /\ RamPages \in Nat /\ IdentityPages \in Nat
         /\ PHYSICAL_MEMORY_OFFSET \in Nat /\ IDENTITY_MAPPED_BYTES \in Nat
<1>1. /\ machine.highestRam \in Nat /\ machine.framebuffer.base \in Nat
      /\ machine.framebuffer.size \in Nat /\ PHYSICAL_MEMORY_OFFSET \in Nat
      /\ IDENTITY_MAPPED_BYTES \in Nat
  BY KernelImageAssumption
<1>2. HUGE_PAGE_SIZE \in Nat \ {0} BY Sizes
<1> DEFINE b == machine.framebuffer.base
           q == b \div HUGE_PAGE_SIZE
           r == b % HUGE_PAGE_SIZE
<1>3. /\ b \in Nat /\ q \in Nat /\ r \in 0 .. HUGE_PAGE_SIZE - 1 /\ r = b - HUGE_PAGE_SIZE * q
  <2>1. b \in Nat /\ b \in Int BY <1>1
  <2> HIDE DEF b
  <2> QED BY <1>2, <2>1, Division
<1>4. FramebufferBase = b - r BY DEF FramebufferBase
<1> HIDE DEF b, q, r
<1>5. HUGE_PAGE_SIZE * q \in Nat BY <1>2, <1>3
<1>6. FramebufferBase = HUGE_PAGE_SIZE * q /\ FramebufferBase <= b BY <1>2, <1>3, <1>4, <1>5
<1>7. FramebufferBase % HUGE_PAGE_SIZE = 0
  <2>1. FramebufferBase = 0 + q * HUGE_PAGE_SIZE BY <1>2, <1>3, <1>5, <1>6
  <2>2. (0 + q * HUGE_PAGE_SIZE) % HUGE_PAGE_SIZE = 0 % HUGE_PAGE_SIZE
    <3>1. 0 \in Int /\ q \in Int BY <1>3
    <3> QED BY <1>2, <3>1, Offsets
  <2>3. 0 % HUGE_PAGE_SIZE = 0 BY <1>2
  <2> QED BY <2>1, <2>2, <2>3
<1>8. FramebufferPages \in Nat
  <2> DEFINE n == machine.framebuffer.size + machine.framebuffer.base - FramebufferBase
  <2>1. n \in Nat BY <1>1, <1>5, <1>6 DEF b
  <2> HIDE DEF n
  <2>2. DivCeil(n, HUGE_PAGE_SIZE) \in Nat BY <1>2, <2>1, DivCeilOK
  <2> QED BY <2>2 DEF FramebufferPages, n
<1>9. RamPages \in Nat /\ IdentityPages \in Nat BY <1>1, <1>2, DivCeilOK DEF RamPages, IdentityPages
<1> QED BY <1>1, <1>5, <1>6, <1>7, <1>8, <1>9 DEF b

\* One more page of the window.
LEMMA ShownGrows ==
  ASSUME NEW t, NEW u, Grown(t, u), NEW n \in Nat, NEW base, Shown(t, n, base),
         HugeMapped(u, PHYSICAL_MEMORY_OFFSET + (base + n * HUGE_PAGE_SIZE),
                    base + n * HUGE_PAGE_SIZE, READ_WRITE)
  PROVE  Shown(u, n + 1, base)
<1>1. Shown(u, n, base) BY RangesStay
<1>2. \A k \in 0 .. (n + 1) - 1 : k \in 0 .. n - 1 \/ k = n OBVIOUS
<1> QED BY <1>1, <1>2 DEF Shown

\* And one more of the identity map.
LEMMA IdentityGrows ==
  ASSUME NEW t, NEW u, Grown(t, u), NEW n \in Nat, IdentityUpTo(t, n),
         HugeMapped(u, n * HUGE_PAGE_SIZE, n * HUGE_PAGE_SIZE, IdentityPermissions)
  PROVE  IdentityUpTo(u, n + 1)
<1>1. IdentityUpTo(u, n) BY RangesStay
<1>2. \A k \in 0 .. (n + 1) - 1 : k \in 0 .. n - 1 \/ k = n OBVIOUS
<1> QED BY <1>1, <1>2 DEF IdentityUpTo

\* Less than was mapped is mapped.
LEMMA RangesShrink ==
  ASSUME NEW t, NEW n \in Nat, NEW m \in Nat, m <= n, NEW base
  PROVE  /\ Shown(t, n, base) => Shown(t, m, base)
         /\ IdentityUpTo(t, n) => IdentityUpTo(t, m)
         /\ Shown(t, 0, base) /\ IdentityUpTo(t, 0)
<1>1. \A k \in 0 .. m - 1 : k \in 0 .. n - 1 OBVIOUS
<1>2. 0 .. 0 - 1 = {} OBVIOUS
<1> QED BY <1>1, <1>2 DEF Shown, IdentityUpTo

\* The window lies in one span of the tree, and in its upper half.
LEMMA WindowIsOneSpan ==
  ASSUME NEW va \in Nat, PHYSICAL_MEMORY_OFFSET <= va
  PROVE  /\ SPANS - 1 \in Nat /\ TOP * (SPANS - 1) <= va
         /\ va < ADDRESS_LIMIT => va \in Window /\ va < TOP * (SPANS - 1) + TOP
         /\ Canonical(va)
<1> DEFINE half == TOP \div 2
<1>1. SPANS \in Nat \ {0} /\ TOP \in Nat /\ ADDRESS_LIMIT \in Nat
  BY PageTablesAssumption, Sizes
<1>2. half \in Nat /\ half <= TOP
  <2>1. 2 \in Nat \ {0} /\ TOP \in Int BY <1>1
  <2>2. half \in Nat /\ TOP % 2 \in 0 .. 1 /\ TOP % 2 = TOP - 2 * half BY <1>1, <2>1, Division
  <2> HIDE DEF half
  <2> QED BY <1>1, <2>2
<1>3. /\ PHYSICAL_MEMORY_OFFSET \in Nat /\ ADDRESS_LIMIT - half <= PHYSICAL_MEMORY_OFFSET
  <2>1. PHYSICAL_MEMORY_OFFSET \in ADDRESS_LIMIT - half .. ADDRESS_LIMIT - 1
        /\ PHYSICAL_MEMORY_OFFSET \in Nat
    BY KernelImageAssumption
  <2> HIDE DEF half
  <2> QED BY <1>1, <1>2, <2>1
<1>4. Canonical(va)
  <2>1. va >= ADDRESS_LIMIT - half
    <3> HIDE DEF half
    <3> QED BY <1>1, <1>2, <1>3
  <2> QED BY <2>1 DEF Canonical
<1> HIDE DEF half
<1>5. TOP * (SPANS - 1) = ADDRESS_LIMIT - TOP BY <1>1 DEF ADDRESS_LIMIT
<1>6. SPANS - 1 \in Nat BY <1>1
<1>7. TOP * (SPANS - 1) <= va BY <1>1, <1>2, <1>3, <1>5
<1>8. va < ADDRESS_LIMIT => va \in Window /\ va < TOP * (SPANS - 1) + TOP
  BY <1>1, <1>3, <1>5 DEF Window
<1> QED BY <1>4, <1>6, <1>7, <1>8

\* A huge page of the window is one.
LEMMA WindowGrows ==
  ASSUME NEW t, NEW u, Grown(t, u), LeavesAreWindow(t),
         NEW va \in Addresses, NEW pa \in Nat, va = PHYSICAL_MEMORY_OFFSET + pa,
         \A e \in DOMAIN u.leaves :
           e \in DOMAIN t.leaves \/ IsHugeOf(u, e, va, pa, READ_WRITE)
  PROVE  LeavesAreWindow(u)
<1> SUFFICES ASSUME NEW vb \in Window, vb % HUGE_PAGE_SIZE = 0,
                    Entry(vb, 3) \in DOMAIN u.leaves
             PROVE  u.leaves[Entry(vb, 3)] = Leaf(vb - PHYSICAL_MEMORY_OFFSET, READ_WRITE)
  BY DEF LeavesAreWindow
<1>1. CASE Entry(vb, 3) \in DOMAIN t.leaves BY <1>1 DEF LeavesAreWindow, Grown
<1>2. CASE IsHugeOf(u, Entry(vb, 3), va, pa, READ_WRITE)
  <2>1. /\ va % HUGE_PAGE_SIZE = 0 /\ Entry(vb, 3) = Entry(va, 3)
        /\ u.leaves[Entry(vb, 3)] = Leaf(pa, READ_WRITE)
    BY <1>2 DEF IsHugeOf
  <2>0. /\ va \in Nat /\ PHYSICAL_MEMORY_OFFSET <= va /\ va < ADDRESS_LIMIT
        /\ vb \in Nat /\ PHYSICAL_MEMORY_OFFSET <= vb /\ vb < ADDRESS_LIMIT
    <3>1. PHYSICAL_MEMORY_OFFSET \in Nat BY KernelImageAssumption
    <3> QED BY <3>1, AddressTyped, Sizes DEF Window
  <2>2. va \div HUGE_PAGE_SIZE = vb \div HUGE_PAGE_SIZE
    <3>1. /\ SPANS - 1 \in Nat /\ TOP * (SPANS - 1) <= va /\ va < TOP * (SPANS - 1) + TOP
          /\ TOP * (SPANS - 1) <= vb /\ vb < TOP * (SPANS - 1) + TOP
      BY <2>0, WindowIsOneSpan
    <3> DEFINE n == SPANS - 1
    <3>2. /\ n \in Nat /\ TOP * n <= va /\ va < TOP * n + TOP
          /\ TOP * n <= vb /\ vb < TOP * n + TOP
      BY <3>1
    <3> HIDE DEF n
    <3> QED BY <2>0, <2>1, <3>2, HugeIsUnique
  <2>3. va \in Int /\ vb \in Int /\ HUGE_PAGE_SIZE \in Nat \ {0} BY <2>0, Sizes
  <2>4. va = HUGE_PAGE_SIZE * (va \div HUGE_PAGE_SIZE) BY <2>1, <2>3, Offsets
  <2>5. vb = HUGE_PAGE_SIZE * (vb \div HUGE_PAGE_SIZE) BY <2>3, Offsets
  <2>6. va = vb BY <2>2, <2>4, <2>5
  <2>7. pa = vb - PHYSICAL_MEMORY_OFFSET
    <3>1. PHYSICAL_MEMORY_OFFSET \in Int BY KernelImageAssumption
    <3> QED BY <2>3, <2>6, <3>1
  <2> QED BY <2>1, <2>7
<1> QED BY <1>1, <1>2

\* A range is finished: nothing is mapped, and the next one begins.
LEMMA RangeDoneStep ==
  ASSUME LoaderInv, stage \in Mapping, at > Len(image.headers),
         NEW next \in Mapping \ {"map kernel"}, RangeDone(next),
         next \notin {"map identity", "started"} => LeavesAreWindow(tables), RangesMapped'
  PROVE  LoaderInv' /\ Grown(tables, tables')
<1>1. stage' = next /\ page' = 0 /\ UNCHANGED <<image, machine, at, memory, tables>>
  BY DEF RangeDone
<1>2. Grown(tables, tables) BY DEF Grown
<1>3. /\ TablesOK(tables) /\ tables.error = "None" /\ at \in Nat
      /\ KernelMapped(tables, at, page) /\ PagesDiffer(at, page) /\ TablesAreKernels(tables)
  BY DEF LoaderInv, LoaderTyped, KernelPlaced, EntriesAreKnown, Mapping
<1>4. KernelMapped(tables, at, 0) /\ PagesDiffer(at, 0) BY <1>2, <1>3, KernelStays
<1>5. /\ KernelMapped(tables', at', page') /\ PagesDiffer(at', page') /\ TablesAreKernels(tables')
      /\ TablesOK(tables') /\ tables'.error = "None" /\ at' \in Nat /\ page' \in Nat
      /\ stage' \in Mapping /\ (stage' \notin {"map identity", "started"} => LeavesAreWindow(tables'))
      /\ at' > Len(image.headers)
  BY <1>1, <1>3, <1>4
<1>6. LoaderInv' BY <1>1, <1>5, MappingStep
<1> QED BY <1>1, <1>2, <1>6

\* map_huge_range over RAM.
LEMMA MapRamPageStep ==
  ASSUME LoaderInv, MapRamPage
  PROVE  LoaderInv' /\ Grown(tables, tables')
<1>1. stage = "map ram" BY DEF MapRamPage
<1>2. /\ machine \in Machines /\ page \in Nat /\ at > Len(image.headers) /\ stage \in Mapping
      /\ LeavesAreWindow(tables) /\ Shown(tables, page, 0)
  BY <1>1 DEF LoaderInv, LoaderTyped, KernelPlaced, EntriesAreKnown, RangesMapped, Mapping
<1>3. RamPages \in Nat /\ PHYSICAL_MEMORY_OFFSET \in Nat /\ HUGE_PAGE_SIZE \in Nat \ {0}
  BY <1>2, MachineTyped, Sizes
<1>4. CASE page < RamPages
  <2> DEFINE pa == page * HUGE_PAGE_SIZE
             va == PHYSICAL_MEMORY_OFFSET + pa
  <2>1. pa \in Nat /\ va \in Nat /\ pa = 0 + page * HUGE_PAGE_SIZE
    <3>1. pa \in Nat BY <1>2, <1>3
    <3> HIDE DEF pa
    <3>2. va \in Nat BY <1>3, <3>1
    <3>3. 0 + pa = pa BY <3>1
    <3> QED BY <3>1, <3>2, <3>3 DEF pa
  <2>2. Map(va, MapHugePage(tables, va, pa, READ_WRITE), {}) BY <1>4 DEF MapRamPage, RamPages
  <2>3. READ_WRITE \in Kinds BY DEF Kinds
  <2> HIDE DEF pa, va
  <2>4. \/ LoaderInv' /\ Grown(tables, tables')
        \/ HugeCall(va, pa, READ_WRITE) /\ HugeMapped(tables', va, pa, READ_WRITE)
    <3> DEFINE tolerated == {}
    <3>1. stage \in {"map ram", "map framebuffer", "map identity"} BY <1>1
    <3>2. tolerated \subseteq {"Conflict"} /\ "Conflict" \notin tolerated OBVIOUS
    <3>3. Map(va, MapHugePage(tables, va, pa, READ_WRITE), tolerated) BY <2>2
    <3> HIDE DEF tolerated
    <3> QED BY <2>1, <2>3, <3>1, <3>2, <3>3, MapHugeStep
  <2>5. CASE HugeCall(va, pa, READ_WRITE) /\ HugeMapped(tables', va, pa, READ_WRITE)
    <3>0. /\ va \in Addresses /\ UNCHANGED <<image, machine, stage, at, memory>>
          /\ page' = page + 1 /\ TablesOK(tables') /\ tables'.error = "None"
          /\ Grown(tables, tables')
          /\ KernelMapped(tables', at', page') /\ PagesDiffer(at', page')
          /\ at' > Len(image.headers) /\ TablesAreKernels(tables')
          /\ \A e \in DOMAIN tables'.leaves :
               e \in DOMAIN tables.leaves \/ IsHugeOf(tables', e, va, pa, READ_WRITE)
      BY <2>5 DEF HugeCall
    <3>1. LeavesAreWindow(tables')
      <4>1. pa \in Nat /\ va = PHYSICAL_MEMORY_OFFSET + pa BY <2>1 DEF va
      <4> QED BY <1>2, <3>0, <4>1, WindowGrows
    <3>2. Shown(tables', page + 1, 0)
      <4>1. HugeMapped(tables', PHYSICAL_MEMORY_OFFSET + (0 + page * HUGE_PAGE_SIZE),
                       0 + page * HUGE_PAGE_SIZE, READ_WRITE)
        BY <2>1, <2>5 DEF va
      <4> QED BY <1>2, <3>0, <4>1, ShownGrows
    <3>3. RangesMapped' BY <1>1, <3>0, <3>2 DEF RangesMapped
    <3>4. at' \in Nat /\ page' \in Nat /\ stage' \in Mapping
      BY <1>2, <3>0 DEF LoaderInv, LoaderTyped
    <3>5. LoaderInv' BY <1>2, <3>0, <3>1, <3>3, <3>4, MappingStep
    <3> QED BY <3>0, <3>5
  <2> QED BY <2>4, <2>5
<1>5. CASE ~(page < RamPages)
  <2>1. RangeDone("map framebuffer") BY <1>5 DEF MapRamPage, RamPages
  <2>2. Shown(tables, RamPages, 0)
    <3>1. RamPages <= page BY <1>2, <1>3, <1>5
    <3> QED BY <1>2, <1>3, <3>1, RangesShrink
  <2>3. UNCHANGED <<image, machine, tables>> /\ stage' = "map framebuffer" /\ page' = 0
    BY <2>1 DEF RangeDone
  <2>4. RamPages' = RamPages /\ FramebufferBase' = FramebufferBase BY <2>3, PartsStay
  <2>5. Shown(tables, 0, FramebufferBase)
    <3>1. 0 \in Nat /\ 0 <= 0 OBVIOUS
    <3> QED BY <3>1, RangesShrink
  <2>6. RangesMapped' BY <2>2, <2>3, <2>4, <2>5 DEF RangesMapped
  <2>7. "map framebuffer" \in Mapping \ {"map kernel"} BY DEF Mapping
  <2> QED BY <1>2, <2>1, <2>6, <2>7, RangeDoneStep
<1> QED BY <1>4, <1>5

\* Where a page of the framebuffer is shown.
LEMMA FramebufferPlace ==
  ASSUME machine \in Machines, page \in Nat, page < FramebufferPages,
         NEW base, base = FramebufferBase + page * HUGE_PAGE_SIZE,
         NEW va, va = PHYSICAL_MEMORY_OFFSET + base
  PROVE  /\ base \in Nat /\ va \in Nat /\ PHYSICAL_MEMORY_OFFSET <= va
         /\ va - PHYSICAL_MEMORY_OFFSET = base /\ page \in 0 .. FramebufferPages - 1
<1> DEFINE f == FramebufferBase
           n == FramebufferPages
           o == PHYSICAL_MEMORY_OFFSET
           m == page * HUGE_PAGE_SIZE
<1>1. f \in Nat /\ n \in Nat /\ o \in Nat BY MachineTyped
<1>2. m \in Nat
  <2>1. HUGE_PAGE_SIZE \in Nat BY Sizes
  <2> QED BY <2>1
<1>3. base = f + m /\ va = o + base /\ page < n OBVIOUS
<1> HIDE DEF f, n, o, m
<1>4. base \in Nat /\ va \in Nat /\ o <= va /\ va - o = base /\ page \in 0 .. n - 1
  BY <1>1, <1>2, <1>3
<1> QED BY <1>4 DEF n, o

\* A conflict of the framebuffer is with the window itself, where the kernel is
\* not: "A conflict there is benign by construction" (main.rs).
LEMMA ConflictIsBenign ==
  ASSUME LoaderInv, stage = "map framebuffer", FramebufferIsClear, page < FramebufferPages,
         NEW base, base = FramebufferBase + page * HUGE_PAGE_SIZE,
         NEW va \in Addresses, va = PHYSICAL_MEMORY_OFFSET + base, HugeConflict(va, base)
  PROVE  HugeMapped(tables, va, base, READ_WRITE)
<1>1. machine \in Machines /\ page \in Nat /\ TablesAreKernels(tables) /\ LeavesAreWindow(tables)
  BY DEF LoaderInv, LoaderTyped, EntriesAreKnown
<1>2. /\ va \in Nat /\ PHYSICAL_MEMORY_OFFSET <= va /\ va - PHYSICAL_MEMORY_OFFSET = base
      /\ page \in 0 .. FramebufferPages - 1
  BY <1>1, FramebufferPlace
<1>3. va \in Window BY <1>2, AddressTyped, WindowIsOneSpan
<1>4. CASE Entry(va, 3) \in DOMAIN tables.leaves
  <2>1. va % HUGE_PAGE_SIZE = 0 /\ base % HUGE_PAGE_SIZE = 0 BY DEF HugeConflict
  <2>2. tables.leaves[Entry(va, 3)] = Leaf(va - PHYSICAL_MEMORY_OFFSET, READ_WRITE)
    BY <1>1, <1>3, <1>4, <2>1 DEF LeavesAreWindow
  <2> QED BY <1>2, <1>4, <2>1, <2>2 DEF HugeMapped
<1>5. CASE Entry(va, 3) \in tables.tables
  <2>0. PICK i \in Loadable : \E k \in 0 .. SegmentPages(i) - 1 :
          Entry(Va(i, k), 3) = Entry(va, 3)
    BY <1>1, <1>5 DEF TablesAreKernels
  <2>1. PICK k \in 0 .. SegmentPages(i) - 1 :
          Entry(Va(i, k), 3) = Entry(va, 3)
    BY <2>0
  <2>2. Entry(Va(i, k), 3) # Entry(va, 3) BY <1>2 DEF FramebufferIsClear, Va
  <2> QED BY <2>1, <2>2
<1> QED BY <1>4, <1>5 DEF HugeConflict

\* map_huge_range_lenient over the framebuffer.
LEMMA MapFramebufferPageStep ==
  ASSUME LoaderInv, MapFramebufferPage
  PROVE  LoaderInv' /\ Grown(tables, tables')
<1>1. stage = "map framebuffer" BY DEF MapFramebufferPage
<1>2. /\ machine \in Machines /\ page \in Nat /\ at > Len(image.headers) /\ stage \in Mapping
      /\ LeavesAreWindow(tables) /\ Shown(tables, RamPages, 0)
      /\ FramebufferIsClear => Shown(tables, page, FramebufferBase)
  BY <1>1 DEF LoaderInv, LoaderTyped, KernelPlaced, EntriesAreKnown, RangesMapped, Mapping
<1>3. /\ FramebufferBase \in Nat /\ FramebufferPages \in Nat /\ PHYSICAL_MEMORY_OFFSET \in Nat
      /\ HUGE_PAGE_SIZE \in Nat \ {0}
  BY <1>2, MachineTyped, Sizes
<1>4. CASE page < FramebufferPages
  <2> DEFINE base == FramebufferBase + page * HUGE_PAGE_SIZE
             va == PHYSICAL_MEMORY_OFFSET + base
             tolerated == Tolerated
  <2>1. base \in Nat /\ va \in Nat
    <3>1. page * HUGE_PAGE_SIZE \in Nat BY <1>2, <1>3
    <3> QED BY <1>3, <3>1
  <2>2. Map(va, MapHugePage(tables, va, base, READ_WRITE), tolerated)
    BY <1>4 DEF MapFramebufferPage
  <2>3. READ_WRITE \in Kinds BY DEF Kinds
  <2>4. tolerated \subseteq {"Conflict"} BY DEF Tolerated
  <2>5. base = FramebufferBase + page * HUGE_PAGE_SIZE /\ va = PHYSICAL_MEMORY_OFFSET + base
    OBVIOUS
  <2> HIDE DEF base, va, tolerated
  <2>6. \/ LoaderInv' /\ Grown(tables, tables')
        \/ /\ HugeCall(va, base, READ_WRITE)
           /\ HugeMapped(tables', va, base, READ_WRITE) \/ HugeConflict(va, base)
    <3>1. stage \in {"map ram", "map framebuffer", "map identity"} BY <1>1
    <3> QED BY <2>1, <2>2, <2>3, <2>4, <3>1, MapHugeStep
  <2>7. CASE /\ HugeCall(va, base, READ_WRITE)
             /\ HugeMapped(tables', va, base, READ_WRITE) \/ HugeConflict(va, base)
    <3>0. /\ va \in Addresses /\ UNCHANGED <<image, machine, stage, at, memory>>
          /\ page' = page + 1 /\ TablesOK(tables') /\ tables'.error = "None"
          /\ Grown(tables, tables')
          /\ KernelMapped(tables', at', page') /\ PagesDiffer(at', page')
          /\ at' > Len(image.headers) /\ TablesAreKernels(tables')
          /\ \A e \in DOMAIN tables'.leaves :
               e \in DOMAIN tables.leaves \/ IsHugeOf(tables', e, va, base, READ_WRITE)
      BY <2>7 DEF HugeCall
    <3>1. LeavesAreWindow(tables')
      <4>1. base \in Nat BY <2>1
      <4> QED BY <1>2, <2>5, <3>0, <4>1, WindowGrows
    <3>2. ASSUME FramebufferIsClear PROVE Shown(tables', page + 1, FramebufferBase)
      <4>1. HugeMapped(tables', va, base, READ_WRITE)
        <5>1. CASE HugeConflict(va, base)
          <6>1. HugeMapped(tables, va, base, READ_WRITE)
            BY <1>1, <1>4, <2>5, <3>0, <3>2, <5>1, ConflictIsBenign
          <6> QED BY <3>0, <6>1, GrownKeeps
        <5> QED BY <2>7, <5>1
      <4>2. HugeMapped(tables', PHYSICAL_MEMORY_OFFSET + (FramebufferBase + page * HUGE_PAGE_SIZE),
                       FramebufferBase + page * HUGE_PAGE_SIZE, READ_WRITE)
        BY <2>5, <4>1
      <4> QED BY <1>2, <3>0, <3>2, <4>2, ShownGrows
    <3>3. Shown(tables', RamPages, 0) BY <1>2, <3>0, RangesStay
    <3>4. /\ RamPages' = RamPages /\ FramebufferBase' = FramebufferBase
          /\ FramebufferIsClear' <=> FramebufferIsClear
      BY <3>0, PartsStay
    <3>5. RangesMapped' BY <1>1, <3>0, <3>2, <3>3, <3>4 DEF RangesMapped
    <3>6. at' \in Nat /\ page' \in Nat /\ stage' \in Mapping
      BY <1>2, <3>0 DEF LoaderInv, LoaderTyped
    <3>7. LoaderInv' BY <1>2, <3>0, <3>1, <3>5, <3>6, MappingStep
    <3> QED BY <3>0, <3>7
  <2> QED BY <2>6, <2>7
<1>5. CASE ~(page < FramebufferPages)
  <2>1. RangeDone("map identity") BY <1>5 DEF MapFramebufferPage
  <2>2. FramebufferIsClear => Shown(tables, FramebufferPages, FramebufferBase)
    <3>1. FramebufferPages <= page BY <1>2, <1>3, <1>5
    <3> QED BY <1>2, <1>3, <3>1, RangesShrink
  <2>3. UNCHANGED <<image, machine, tables>> /\ stage' = "map identity" /\ page' = 0
    BY <2>1 DEF RangeDone
  <2>4. /\ RamPages' = RamPages /\ FramebufferBase' = FramebufferBase
        /\ FramebufferPages' = FramebufferPages
        /\ FramebufferIsClear' <=> FramebufferIsClear
    BY <2>3, PartsStay
  <2>5. IdentityUpTo(tables, 0)
    <3>1. 0 \in Nat /\ 0 <= 0 OBVIOUS
    <3> QED BY <3>1, RangesShrink
  <2>6. RangesMapped' BY <1>2, <2>2, <2>3, <2>4, <2>5 DEF RangesMapped
  <2>7. "map identity" \in Mapping \ {"map kernel"} BY DEF Mapping
  <2> QED BY <1>2, <2>1, <2>6, <2>7, RangeDoneStep
<1> QED BY <1>4, <1>5

\* The identity map.
LEMMA MapIdentityPageStep ==
  ASSUME LoaderInv, MapIdentityPage
  PROVE  LoaderInv' /\ Grown(tables, tables')
<1>1. stage = "map identity" BY DEF MapIdentityPage
<1>2. /\ machine \in Machines /\ page \in Nat /\ at > Len(image.headers) /\ stage \in Mapping
      /\ Shown(tables, RamPages, 0) /\ IdentityUpTo(tables, page)
      /\ FramebufferIsClear => Shown(tables, FramebufferPages, FramebufferBase)
  BY <1>1 DEF LoaderInv, LoaderTyped, KernelPlaced, RangesMapped, Mapping
<1>3. IdentityPages \in Nat /\ HUGE_PAGE_SIZE \in Nat \ {0} BY <1>2, MachineTyped, Sizes
<1>4. CASE page < IdentityPages
  <2> DEFINE va == page * HUGE_PAGE_SIZE
             tolerated == {}
  <2>1. va \in Nat BY <1>2, <1>3
  <2>2. Map(va, MapHugePage(tables, va, va, IdentityPermissions), tolerated)
    BY <1>4 DEF MapIdentityPage, IdentityPages
  <2>3. IdentityPermissions \in Kinds BY DEF Kinds, IdentityPermissions
  <2>4. tolerated \subseteq {"Conflict"} /\ "Conflict" \notin tolerated OBVIOUS
  <2> HIDE DEF va, tolerated
  <2>5. \/ LoaderInv' /\ Grown(tables, tables')
        \/ /\ HugeCall(va, va, IdentityPermissions)
           /\ HugeMapped(tables', va, va, IdentityPermissions)
    <3>1. stage \in {"map ram", "map framebuffer", "map identity"} BY <1>1
    <3> QED BY <2>1, <2>2, <2>3, <2>4, <3>1, MapHugeStep
  <2>6. CASE /\ HugeCall(va, va, IdentityPermissions)
             /\ HugeMapped(tables', va, va, IdentityPermissions)
    <3>0. /\ va \in Addresses /\ UNCHANGED <<image, machine, stage, at, memory>>
          /\ page' = page + 1 /\ TablesOK(tables') /\ tables'.error = "None"
          /\ Grown(tables, tables')
          /\ KernelMapped(tables', at', page') /\ PagesDiffer(at', page')
          /\ at' > Len(image.headers) /\ TablesAreKernels(tables')
      BY <2>6 DEF HugeCall
    <3>1. IdentityUpTo(tables', page + 1)
      <4>1. HugeMapped(tables', page * HUGE_PAGE_SIZE, page * HUGE_PAGE_SIZE, IdentityPermissions)
        BY <2>6 DEF va
      <4> QED BY <1>2, <3>0, <4>1, IdentityGrows
    <3>2. /\ Shown(tables', RamPages, 0)
          /\ FramebufferIsClear => Shown(tables', FramebufferPages, FramebufferBase)
      BY <1>2, <3>0, RangesStay
    <3>3. /\ RamPages' = RamPages /\ FramebufferBase' = FramebufferBase
          /\ FramebufferPages' = FramebufferPages
          /\ FramebufferIsClear' <=> FramebufferIsClear
      BY <3>0, PartsStay
    <3>4. RangesMapped' BY <1>1, <3>0, <3>1, <3>2, <3>3 DEF RangesMapped
    <3>5. at' \in Nat /\ page' \in Nat /\ stage' \in Mapping
      BY <1>2, <3>0 DEF LoaderInv, LoaderTyped
    <3>6. stage' = "map identity" BY <1>1, <3>0
    <3>7. LoaderInv' BY <1>2, <3>0, <3>4, <3>5, <3>6, MappingStep
    <3> QED BY <3>0, <3>7
  <2> QED BY <2>5, <2>6
<1>5. CASE ~(page < IdentityPages)
  <2>1. RangeDone("started") BY <1>5 DEF MapIdentityPage, IdentityPages
  <2>2. IdentityUpTo(tables, IdentityPages)
    <3>1. IdentityPages <= page BY <1>2, <1>3, <1>5
    <3> QED BY <1>2, <1>3, <3>1, RangesShrink
  <2>3. UNCHANGED <<image, machine, tables>> /\ stage' = "started" BY <2>1 DEF RangeDone
  <2>4. /\ RamPages' = RamPages /\ FramebufferBase' = FramebufferBase
        /\ FramebufferPages' = FramebufferPages
        /\ FramebufferIsClear' <=> FramebufferIsClear
    BY <2>3, PartsStay
  <2>5. RangesMapped' BY <1>2, <2>2, <2>3, <2>4 DEF RangesMapped, IdentityPages
  <2>6. "started" \in Mapping \ {"map kernel"} BY DEF Mapping
  <2> QED BY <1>2, <2>1, <2>5, <2>6, RangeDoneStep
<1> QED BY <1>4, <1>5

\* A step before anything is mapped.
LEMMA QuietStep ==
  ASSUME LoaderInv, stage \in {"read", "parse", "reserve", "copy"},
         stage' \in {"parse", "reserve", "copy", "map kernel"},
         UNCHANGED <<image, machine, page, tables>>, at' \in Nat,
         memory' \in [0 .. MEMORY - 1 -> Int],
         Parsed', CopyStaysInside', BytesCopied', KernelPlaced'
  PROVE  LoaderInv'
<1>1. LoaderTyped' BY DEF LoaderInv, LoaderTyped, Stages
<1>2. EntriesAreKnown'
  <2>1. TablesAreKernels(tables) /\ LeavesAreWindow(tables) BY DEF LoaderInv, EntriesAreKnown
  <2>2. TablesAreKernels(tables') /\ LeavesAreWindow(tables') BY <2>1
  <2>3. LeavesAreWindow(tables)' <=> LeavesAreWindow(tables') BY DEF LeavesAreWindow
  <2>4. TablesAreKernels(tables)' BY <2>2, PartsStay
  <2> QED BY <2>2, <2>3, <2>4 DEF EntriesAreKnown
<1>3. RangesMapped' BY DEF RangesMapped
<1> QED BY <1>1, <1>2, <1>3 DEF LoaderInv

\* Nothing of the kernel is mapped when the first header is looked at.
LEMMA NothingYet ==
  ASSUME image \in Images, NEW t, NEW m
  PROVE  KernelMapped(t, 1, 0) /\ PagesDiffer(1, 0) /\ BytesUpTo(m, 1)
<1>1. Loadable \subseteq 1 .. Len(image.headers) /\ Len(image.headers) \in Nat BY HeadersTyped
<1>2. \A i \in Loadable : ~(i < 1) BY <1>1
<1>3. \A i \in Loadable : \A k \in 0 .. SegmentPages(i) - 1 : ~(k < 0) OBVIOUS
<1>4. KernelMapped(t, 1, 0) BY <1>2, <1>3 DEF KernelMapped
<1>5. PagesDiffer(1, 0) BY <1>2, <1>3 DEF PagesDiffer
<1>6. BytesUpTo(m, 1) BY <1>2 DEF BytesUpTo
<1> QED BY <1>4, <1>5, <1>6

\* read_kernel.
LEMMA ReadKernelStep ==
  ASSUME LoaderInv, ReadKernel
  PROVE  LoaderInv' /\ Grown(tables, tables')
<1>1. stage = "read" /\ UNCHANGED <<image, machine, at, page, memory, tables>> BY DEF ReadKernel
<1>2. Grown(tables, tables') BY <1>1 DEF Grown
<1>3. TablesOK(tables') BY <1>1 DEF LoaderInv, LoaderTyped
<1>4. CASE stage' = "failed"
  <2>1. LoaderInv' BY <1>1, <1>3, <1>4, FailedStep
  <2> QED BY <1>2, <2>1
<1>5. CASE stage' = "parse"
  <2>1. at' \in Nat /\ memory' \in [0 .. MEMORY - 1 -> Int] BY <1>1 DEF LoaderInv, LoaderTyped
  <2>2. Parsed' /\ BytesCopied' BY <1>5 DEF Parsed, BytesCopied, Mapping
  <2>3. CopyStaysInside' BY <1>1, FileStays DEF LoaderInv, CopyStaysInside
  <2>4. KernelPlaced' BY <1>1, <1>5 DEF LoaderInv, KernelPlaced, Mapping
  <2>5. LoaderInv' BY <1>1, <1>5, <2>1, <2>2, <2>3, <2>4, QuietStep
  <2> QED BY <1>2, <2>5
<1> QED BY <1>4, <1>5 DEF ReadKernel

\* parse and virtual_extent.
LEMMA ParseStep ==
  ASSUME LoaderInv, Parse
  PROVE  LoaderInv' /\ Grown(tables, tables')
<1>1. stage = "parse" /\ UNCHANGED <<image, machine, at, page, memory, tables>> BY DEF Parse
<1>2. Grown(tables, tables') BY <1>1 DEF Grown
<1>3. TablesOK(tables') BY <1>1 DEF LoaderInv, LoaderTyped
<1>4. CASE stage' = "failed"
  <2>1. LoaderInv' BY <1>1, <1>3, <1>4, FailedStep
  <2> QED BY <1>2, <2>1
<1>5. CASE stage' = "reserve" /\ ParseError = "None" /\ ~ExtentOverflows
  <2>1. at' \in Nat /\ memory' \in [0 .. MEMORY - 1 -> Int] /\ image \in Images
    BY <1>1 DEF LoaderInv, LoaderTyped
  <2>2. Accepted' BY <1>1, <1>5, <2>1, ParsedIsAccepted, PartsStay
  <2>3. Parsed' /\ BytesCopied' BY <1>5, <2>2 DEF Parsed, BytesCopied, Mapping
  <2>4. CopyStaysInside' BY <1>1, FileStays DEF LoaderInv, CopyStaysInside
  <2>5. KernelPlaced' BY <1>1, <1>5 DEF LoaderInv, KernelPlaced, Mapping
  <2>6. LoaderInv' BY <1>1, <1>5, <2>1, <2>3, <2>4, <2>5, QuietStep
  <2> QED BY <1>2, <2>6
<1> QED BY <1>4, <1>5 DEF Parse

\* allocate_pages.
LEMMA ReserveStep ==
  ASSUME LoaderInv, Reserve
  PROVE  LoaderInv' /\ Grown(tables, tables')
<1>1. stage = "reserve" /\ UNCHANGED <<image, machine, at, page, tables>> BY DEF Reserve
<1>2. Grown(tables, tables') BY <1>1 DEF Grown
<1>3. /\ TablesOK(tables') /\ image \in Images /\ at = 1 /\ page = 0 /\ Accepted
      /\ memory \in [0 .. MEMORY - 1 -> Int] /\ CopyStaysInside
  BY <1>1 DEF LoaderInv, LoaderTyped, KernelPlaced, Parsed
<1>4. CASE stage' = "failed" /\ UNCHANGED memory
  <2>1. LoaderInv' BY <1>1, <1>3, <1>4, FailedStep
  <2> QED BY <1>2, <2>1
<1>5. CASE /\ Allocation \subseteq 0 .. MEMORY - 1 /\ stage' = "copy"
           /\ memory' = [a \in DOMAIN memory |-> IF a \in Allocation THEN 0 ELSE memory[a]]
  <2>1. memory' \in [0 .. MEMORY - 1 -> Int] BY <1>3, <1>5
  <2>2. Parsed' BY <1>1, <1>3, <1>5, FileStays, PartsStay DEF Parsed, Mapping
  <2>3. BytesCopied'
    <3>1. BytesUpTo(memory', 1) BY <1>3, NothingYet
    <3>2. BytesUpTo(memory', at') BY <1>1, <1>3, <3>1
    <3> QED BY <1>1, <1>5, <3>2, PartsStay DEF BytesCopied, Mapping
  <2>4. CopyStaysInside' BY <1>1, <1>3, <1>5, FileStays DEF CopyStaysInside
  <2>5. KernelPlaced' BY <1>1, <1>3, <1>5 DEF KernelPlaced, Mapping
  <2>6. LoaderInv' BY <1>1, <1>3, <1>5, <2>1, <2>2, <2>3, <2>4, <2>5, QuietStep
  <2> QED BY <1>2, <2>6
<1> QED BY <1>4, <1>5 DEF Reserve

\* What copying a segment does to memory: its bytes are there, and no other
\* changed.
LEMMA CopiedBytes ==
  ASSUME Accepted, Allocation \subseteq 0 .. MEMORY - 1, memory \in [0 .. MEMORY - 1 -> Int],
         NEW i \in Loadable
  PROVE  /\ Copied(i) \in [0 .. MEMORY - 1 -> Int]
         /\ \A b \in 0 .. Segment(i).memorySize - 1 :
              Copied(i)[SegmentPhysical(i) + b] = WantedByte(i, b)
         /\ \A a \in 0 .. MEMORY - 1 :
              \/ Copied(i)[a] = memory[a]
              \/ \E b \in 0 .. Segment(i).memorySize - 1 : a = SegmentPhysical(i) + b
<1> DEFINE fs == Segment(i).fileSize
           ms == Segment(i).memorySize
           fo == Segment(i).fileOffset
           d == SegmentPhysical(i)
           m == memory
<1>1. /\ image \in Images /\ fs \in Nat /\ ms \in Nat /\ fo \in Nat /\ fs <= ms /\ d \in Nat
      /\ image.size \in Nat /\ DOMAIN m = 0 .. MEMORY - 1
  BY HeadersTyped, ExtentHolds DEF Accepted
<1>2. Copied(i) = [a \in DOMAIN m |->
                    CASE a \in d .. d + fs - 1 -> BufferByte(fo + a - d)
                      [] a \in d + fs .. d + ms - 1 -> 0
                      [] OTHER -> m[a]]
  BY DEF Copied, SegmentPhysical
<1>3. \A b \in 0 .. ms - 1 : d + b \in 0 .. MEMORY - 1 BY ExtentHolds
<1>4. \A n \in Int : BufferByte(n) \in Int BY <1>1 DEF BufferByte
<1>5. \A a \in 0 .. MEMORY - 1 : m[a] \in Int OBVIOUS
<1>6. \A b : WantedByte(i, b) = IF b < fs THEN BufferByte(fo + b) ELSE 0 BY DEF WantedByte
<1> DEFINE c == Copied(i)
<1>7. \A a \in 0 .. MEMORY - 1 :
        /\ a \in d .. d + fs - 1 => c[a] = BufferByte(fo + a - d)
        /\ a \in d + fs .. d + ms - 1 => c[a] = 0
        /\ a \notin d .. d + ms - 1 => c[a] = m[a]
  <2> SUFFICES ASSUME NEW a \in 0 .. MEMORY - 1
               PROVE  /\ a \in d .. d + fs - 1 => c[a] = BufferByte(fo + a - d)
                      /\ a \in d + fs .. d + ms - 1 => c[a] = 0
                      /\ a \notin d .. d + ms - 1 => c[a] = m[a]
    OBVIOUS
  <2> HIDE DEF d, fs, ms, fo, m
  <2>1. c[a] = CASE a \in d .. d + fs - 1 -> BufferByte(fo + a - d)
                 [] a \in d + fs .. d + ms - 1 -> 0
                 [] OTHER -> m[a]
    BY <1>1, <1>2
  <2>2. ~(a \in d .. d + fs - 1 /\ a \in d + fs .. d + ms - 1) BY <1>1
  <2>3. a \notin d .. d + ms - 1 => a \notin d .. d + fs - 1 /\ a \notin d + fs .. d + ms - 1
    BY <1>1
  <2> HIDE DEF c
  <2> QED BY <2>1, <2>2, <2>3
<1>8. c = [a \in 0 .. MEMORY - 1 |-> c[a]]
  <2>1. DOMAIN c = 0 .. MEMORY - 1 BY <1>1, <1>2
  <2>2. c = [a \in DOMAIN c |-> c[a]] BY <1>2
  <2> QED BY <2>1, <2>2
<1> HIDE DEF c, d, fs, ms, fo, m
<1>9. \A a \in 0 .. MEMORY - 1 : c[a] \in Int
  <2> SUFFICES ASSUME NEW a \in 0 .. MEMORY - 1 PROVE c[a] \in Int
    OBVIOUS
  <2>1. CASE a \in d .. d + fs - 1
    <3>1. fo + a - d \in Int BY <1>1, <2>1
    <3> QED BY <1>4, <1>7, <2>1, <3>1
  <2>2. CASE a \in d + fs .. d + ms - 1 BY <1>7, <2>2
  <2>3. CASE a \notin d .. d + ms - 1 BY <1>5, <1>7, <2>3
  <2>4. a \in d .. d + fs - 1 \/ a \in d + fs .. d + ms - 1 \/ a \notin d .. d + ms - 1 BY <1>1
  <2> QED BY <2>1, <2>2, <2>3, <2>4
<1>10. ASSUME NEW b \in 0 .. ms - 1 PROVE c[d + b] = WantedByte(i, b)
  <2>1. d + b \in 0 .. MEMORY - 1 BY <1>3
  <2>2. CASE b < fs
    <3>1. d + b \in d .. d + fs - 1 /\ fo + (d + b) - d = fo + b BY <1>1, <2>2
    <3> QED BY <1>6, <1>7, <2>1, <2>2, <3>1
  <2>3. CASE ~(b < fs)
    <3>1. d + b \in d + fs .. d + ms - 1 BY <1>1, <2>3
    <3> QED BY <1>6, <1>7, <2>1, <2>3, <3>1
  <2> QED BY <2>2, <2>3
<1>11. ASSUME NEW a \in 0 .. MEMORY - 1
       PROVE  c[a] = m[a] \/ \E b \in 0 .. ms - 1 : a = d + b
  <2>1. CASE a \in d .. d + ms - 1
    <3>1. a - d \in 0 .. ms - 1 /\ a = d + (a - d) BY <1>1, <2>1
    <3> QED BY <3>1
  <2> QED BY <1>7, <2>1
<1>12. c \in [0 .. MEMORY - 1 -> Int] BY <1>8, <1>9
<1> QED BY <1>10, <1>11, <1>12 DEF c, d, ms, m

\* Two segments share a physical address when they share a virtual one.
LEMMA SharedBytes ==
  ASSUME Accepted, NEW i \in Loadable, NEW j \in Loadable, NEW b \in Int, NEW c \in Int
  PROVE  SegmentPhysical(i) + b = SegmentPhysical(j) + c <=>
           Segment(i).virtualAddress + b = Segment(j).virtualAddress + c
<1>1. /\ Segment(i).virtualAddress \in Nat /\ Segment(j).virtualAddress \in Nat
      /\ KernelLow \in Nat /\ KERNEL_PHYSICAL \in Nat
  BY HeadersTyped, ExtentHolds, KernelImageAssumption DEF Accepted
<1> DEFINE v == Segment(i).virtualAddress
           w == Segment(j).virtualAddress
           low == KernelLow
<1>2. v \in Nat /\ w \in Nat /\ low \in Nat /\ KERNEL_PHYSICAL \in Nat BY <1>1
<1>3. SegmentPhysical(i) = KERNEL_PHYSICAL + v - low /\ SegmentPhysical(j) = KERNEL_PHYSICAL + w - low
  BY DEF SegmentPhysical
<1> HIDE DEF v, w, low
<1>4. (KERNEL_PHYSICAL + v - low) + b = (KERNEL_PHYSICAL + w - low) + c <=> v + b = w + c BY <1>2
<1> QED BY <1>3, <1>4 DEF v, w

\* The bytes in memory after a segment is copied.
LEMMA CopiedSoFar ==
  ASSUME Accepted, Allocation \subseteq 0 .. MEMORY - 1, memory \in [0 .. MEMORY - 1 -> Int],
         NEW n \in Loadable, BytesUpTo(memory, n)
  PROVE  BytesUpTo(Copied(n), n + 1)
<1> DEFINE Covered(i, b, k) ==
             \E j \in Loadable :
               /\ i < j /\ j < k
               /\ Segment(i).virtualAddress + b
                    \in Segment(j).virtualAddress
                          .. Segment(j).virtualAddress + Segment(j).memorySize - 1
<1>0. Loadable \subseteq Nat /\ n \in Nat BY HeadersTyped DEF Accepted
<1> SUFFICES ASSUME NEW i \in Loadable, i < n + 1, NEW b \in 0 .. Segment(i).memorySize - 1
             PROVE  \/ Copied(n)[SegmentPhysical(i) + b] = WantedByte(i, b)
                    \/ Covered(i, b, n + 1)
  BY DEF BytesUpTo
<1>1. CASE i = n BY <1>1, CopiedBytes
<1>2. CASE i < n
  <2> DEFINE a == SegmentPhysical(i) + b
  <2>1. a \in 0 .. MEMORY - 1 BY ExtentHolds
  <2>2. memory[a] = WantedByte(i, b) \/ Covered(i, b, n) BY <1>2 DEF BytesUpTo
  <2>3. Covered(i, b, n) => Covered(i, b, n + 1)
    <3>1. \A j \in Loadable : j < n => j < n + 1 BY <1>0
    <3> QED BY <3>1
  <2>4. Copied(n)[a] = memory[a] \/ \E c \in 0 .. Segment(n).memorySize - 1 : a = SegmentPhysical(n) + c
    BY <2>1, CopiedBytes
  <2>5. ASSUME NEW c \in 0 .. Segment(n).memorySize - 1, a = SegmentPhysical(n) + c
        PROVE  Covered(i, b, n + 1)
    <3>1. b \in Int /\ c \in Int OBVIOUS
    <3>2. Segment(i).virtualAddress + b = Segment(n).virtualAddress + c
      BY <2>5, <3>1, SharedBytes
    <3>3. Segment(n).virtualAddress \in Nat /\ Segment(n).memorySize \in Nat
      BY HeadersTyped DEF Accepted
    <3> DEFINE v == Segment(n).virtualAddress
               s == Segment(n).memorySize
    <3>4. v \in Nat /\ s \in Nat /\ c \in 0 .. s - 1 => v + c \in v .. v + s - 1
      <4> HIDE DEF v, s
      <4> QED OBVIOUS
    <3>5. v + c \in v .. v + s - 1 BY <3>3, <3>4
    <3>6. n < n + 1 BY <1>0
    <3> QED BY <1>2, <3>2, <3>5, <3>6
  <2> HIDE DEF Covered
  <2> QED BY <2>2, <2>3, <2>4, <2>5
<1> QED
  <2>1. i = n \/ i < n BY <1>0
  <2> QED BY <1>1, <1>2, <2>1

\* copy_segments.
LEMMA CopySegmentStep ==
  ASSUME LoaderInv, CopySegment
  PROVE  LoaderInv' /\ Grown(tables, tables')
<1>0. CASE Stop
  <2>1. stage' = "failed" /\ UNCHANGED <<image, machine, at, page, memory, tables>>
    BY <1>0 DEF Stop
  <2>2. TablesOK(tables') BY <2>1 DEF LoaderInv, LoaderTyped
  <2>3. LoaderInv' BY <2>1, <2>2, FailedStep
  <2> QED BY <2>1, <2>3 DEF Grown
<1> SUFFICES ASSUME ~Stop PROVE LoaderInv' /\ Grown(tables, tables')
  BY <1>0
<1>1. /\ stage = "copy" /\ stage' = "copy" /\ UNCHANGED <<image, machine, page, tables>>
      /\ at' = at + 1 /\ memory' = IF at \in Loadable THEN Copied(at) ELSE memory
  BY DEF CopySegment
<1>2. Grown(tables, tables') BY <1>1 DEF Grown
<1>3. /\ image \in Images /\ at \in Nat /\ page = 0 /\ Accepted
      /\ memory \in [0 .. MEMORY - 1 -> Int] /\ CopyStaysInside
      /\ Allocation \subseteq 0 .. MEMORY - 1 /\ BytesUpTo(memory, at)
  BY <1>1 DEF LoaderInv, LoaderTyped, KernelPlaced, Parsed, BytesCopied
<1>4. /\ memory' \in [0 .. MEMORY - 1 -> Int] /\ BytesUpTo(memory', at + 1)
      /\ \A a \in 0 .. MEMORY - 1 : memory'[a] = memory[a] \/ a \in Allocation
  <2>1. CASE at \in Loadable
    <3>1. memory' = Copied(at) BY <1>1, <2>1
    <3>2. /\ Copied(at) \in [0 .. MEMORY - 1 -> Int]
          /\ \A a \in 0 .. MEMORY - 1 :
               \/ Copied(at)[a] = memory[a]
               \/ \E b \in 0 .. Segment(at).memorySize - 1 : a = SegmentPhysical(at) + b
      BY <1>3, <2>1, CopiedBytes
    <3>3. BytesUpTo(Copied(at), at + 1) BY <1>3, <2>1, CopiedSoFar
    <3>4. \A b \in 0 .. Segment(at).memorySize - 1 : SegmentPhysical(at) + b \in Allocation
      BY <1>3, <2>1, ExtentHolds
    <3> QED BY <3>1, <3>2, <3>3, <3>4
  <2>2. CASE at \notin Loadable
    <3>1. memory' = memory BY <1>1, <2>2
    <3>2. \A i \in Loadable : (i < at + 1 <=> i < at)
      <4>1. Loadable \subseteq Nat BY <1>3, HeadersTyped
      <4> QED BY <1>3, <2>2, <4>1
    <3>3. BytesUpTo(memory, at + 1) BY <1>3, <3>2 DEF BytesUpTo
    <3> QED BY <1>3, <3>1, <3>3
  <2> QED BY <2>1, <2>2
<1>5. at' \in Nat BY <1>1, <1>3
<1>6. Parsed' BY <1>1, <1>3, FileStays, PartsStay DEF Parsed, Mapping
<1>7. BytesCopied'
  <2>1. BytesUpTo(memory', at') BY <1>1, <1>4
  <2> QED BY <1>1, <2>1, PartsStay DEF BytesCopied, Mapping
<1>8. CopyStaysInside'
  <2>1. DOMAIN memory = 0 .. MEMORY - 1 /\ DOMAIN memory' = 0 .. MEMORY - 1 BY <1>3, <1>4
  <2> QED BY <1>1, <1>3, <1>4, <2>1, FileStays DEF CopyStaysInside
<1>9. KernelPlaced' BY <1>1, <1>3 DEF KernelPlaced, Mapping
<1>10. LoaderInv' BY <1>1, <1>4, <1>5, <1>6, <1>7, <1>8, <1>9, QuietStep
<1> QED BY <1>2, <1>10

\* All segments are copied.
LEMMA CopyDoneStep ==
  ASSUME LoaderInv, CopyDone
  PROVE  LoaderInv' /\ Grown(tables, tables')
<1>1. /\ stage = "copy" /\ stage' = "map kernel" /\ at' = 1 /\ at > Len(image.headers)
      /\ UNCHANGED <<image, machine, page, memory, tables>>
  BY DEF CopyDone
<1>2. Grown(tables, tables') BY <1>1 DEF Grown
<1>3. /\ image \in Images /\ at \in Nat /\ page = 0 /\ Accepted
      /\ memory \in [0 .. MEMORY - 1 -> Int] /\ CopyStaysInside
      /\ Allocation \subseteq 0 .. MEMORY - 1 /\ BytesUpTo(memory, at)
  BY <1>1 DEF LoaderInv, LoaderTyped, KernelPlaced, Parsed, BytesCopied
<1>4. BytesUpTo(memory, Len(image.headers) + 1)
  <2>1. Loadable \subseteq 1 .. Len(image.headers) /\ Len(image.headers) \in Nat
    BY <1>3, HeadersTyped
  <2>2. \A i \in Loadable : i < at /\ i < Len(image.headers) + 1
    <3> DEFINE n == Len(image.headers)
    <3>1. n \in Nat /\ at > n /\ at \in Nat /\ Loadable \subseteq 1 .. n BY <1>1, <1>3, <2>1
    <3> HIDE DEF n
    <3>2. \A i \in 1 .. n : i < at /\ i < n + 1 BY <3>1
    <3> QED BY <3>1, <3>2 DEF n
  <2> QED BY <1>3, <2>2 DEF BytesUpTo
<1>5. at' \in Nat /\ memory' \in [0 .. MEMORY - 1 -> Int] BY <1>1, <1>3
<1>6. Parsed' BY <1>1, <1>3, FileStays, PartsStay DEF Parsed, Mapping
<1>7. BytesCopied' BY <1>1, <1>4, PartsStay DEF BytesCopied
<1>8. CopyStaysInside' BY <1>1, <1>3, FileStays DEF CopyStaysInside
<1>9. KernelPlaced'
  <2>1. KernelMapped(tables', 1, 0) /\ PagesDiffer(1, 0) BY <1>3, NothingYet
  <2>2. KernelMapped(tables', at', page') /\ PagesDiffer(at', page') BY <1>1, <1>3, <2>1
  <2> QED BY <1>1, <2>2, PartsStay DEF KernelPlaced, Mapping
<1>10. LoaderInv' BY <1>1, <1>5, <1>6, <1>7, <1>8, <1>9, QuietStep
<1> QED BY <1>2, <1>10

\* map_kernel maps pages of a segment at addresses that are numbers, with one
\* of the permissions.
LEMMA SegmentPageTyped ==
  ASSUME Accepted, NEW i \in Loadable, NEW k \in Nat
  PROVE  /\ Va(i, k) \in Nat /\ Pa(i, k) \in Nat /\ SegmentPages(i) \in Nat
         /\ SegmentPermissions(Segment(i)) \subseteq Kinds
<1>1. /\ Segment(i).virtualAddress \in Nat /\ Segment(i).memorySize \in Nat
      /\ SegmentPhysical(i) \in Nat /\ PAGE_SIZE \in Nat \ {0}
  BY HeadersTyped, ExtentHolds, Sizes DEF Accepted
<1>2. k * PAGE_SIZE \in Nat BY <1>1
<1>3. Va(i, k) \in Nat /\ Pa(i, k) \in Nat BY <1>1, <1>2 DEF Va, Pa
<1>4. SegmentPages(i) \in Nat BY <1>1, DivCeilOK DEF SegmentPages
<1> QED BY <1>3, <1>4 DEF SegmentPermissions, Kinds

\* One more page of the kernel is mapped.
LEMMA KernelGrows ==
  ASSUME image \in Images, at \in Loadable, page \in Nat, NEW t, Grown(tables, t),
         NEW permissions \in SegmentPermissions(Segment(at)),
         KernelMapped(tables, at, page), PagesDiffer(at, page),
         PageMapped(t, Va(at, page), Pa(at, page), permissions),
         Entry(Va(at, page), 4) \notin DOMAIN tables.leaves
  PROVE  KernelMapped(t, at, page + 1) /\ PagesDiffer(at, page + 1)
<1>1. \A k \in Int : k < page + 1 => k < page \/ k = page OBVIOUS
<1>2. \A i \in Loadable : \A k \in 0 .. SegmentPages(i) - 1 : k \in Int OBVIOUS
<1>3. KernelMapped(t, at, page + 1)
  <2> SUFFICES ASSUME NEW i \in Loadable, NEW k \in 0 .. SegmentPages(i) - 1,
                      i < at \/ (i = at /\ k < page + 1)
               PROVE  \E p \in SegmentPermissions(Segment(i)) : PageMapped(t, Va(i, k), Pa(i, k), p)
    BY DEF KernelMapped
  <2>1. CASE i < at \/ (i = at /\ k < page)
    <3>1. PICK p \in SegmentPermissions(Segment(i)) : PageMapped(tables, Va(i, k), Pa(i, k), p)
      BY <2>1 DEF KernelMapped
    <3>2. PageMapped(t, Va(i, k), Pa(i, k), p) BY <3>1, GrownKeeps
    <3> QED BY <3>2
  <2>2. CASE i = at /\ k = page BY <2>2
  <2> QED BY <1>1, <1>2, <2>1, <2>2
<1>4. PagesDiffer(at, page + 1)
  <2> SUFFICES ASSUME NEW i \in Loadable, NEW j \in Loadable,
                      NEW k \in 0 .. SegmentPages(i) - 1, NEW l \in 0 .. SegmentPages(j) - 1,
                      i < j, j < at \/ (j = at /\ l < page + 1)
               PROVE  Va(i, k) # Va(j, l)
    BY DEF PagesDiffer
  <2>1. CASE j < at \/ (j = at /\ l < page) BY <2>1 DEF PagesDiffer
  <2>2. CASE j = at /\ l = page
    <3>1. PICK p \in SegmentPermissions(Segment(i)) : PageMapped(tables, Va(i, k), Pa(i, k), p)
      BY <2>2 DEF KernelMapped
    <3>2. Entry(Va(i, k), 4) \in DOMAIN tables.leaves BY <3>1 DEF PageMapped
    <3> QED BY <2>2, <3>2
  <2> QED BY <1>1, <1>2, <2>1, <2>2
<1> QED BY <1>3, <1>4

\* And its table is one of the kernel's; nothing was added to the window.
LEMMA KernelEntries ==
  ASSUME at \in Loadable, page \in 0 .. SegmentPages(at) - 1, NEW va \in Addresses,
         va = Va(at, page), NEW t, Grown(tables, t),
         TablesAreKernels(tables), LeavesAreWindow(tables),
         \A e \in t.tables : e \in tables.tables \/ e \in Way(va, 3),
         \A e \in DOMAIN t.leaves : e \in DOMAIN tables.leaves \/ e = Entry(va, 4)
  PROVE  TablesAreKernels(t) /\ LeavesAreWindow(t)
<1>1. ASSUME NEW vb \in Addresses, Entry(vb, 3) \in Way(va, 3)
      PROVE  Entry(va, 3) = Entry(vb, 3)
  <2>1. PICK k \in 1 .. 3 : Entry(vb, 3) = Entry(va, k) BY <1>1 DEF Way
  <2>2. k = 3 BY <2>1, AddressTyped, LevelsDiffer
  <2> QED BY <2>1, <2>2
<1>2. TablesAreKernels(t)
  <2> SUFFICES ASSUME NEW vb \in Addresses, Entry(vb, 3) \in t.tables
               PROVE  \E i \in Loadable : \E k \in 0 .. SegmentPages(i) - 1 :
                        Entry(Va(i, k), 3) = Entry(vb, 3)
    BY DEF TablesAreKernels
  <2>1. CASE Entry(vb, 3) \in tables.tables BY <2>1 DEF TablesAreKernels
  <2>2. CASE Entry(vb, 3) \in Way(va, 3)
    <3>1. Entry(Va(at, page), 3) = Entry(vb, 3) BY <1>1, <2>2
    <3> QED BY <3>1
  <2> QED BY <2>1, <2>2
<1>3. LeavesAreWindow(t)
  <2> SUFFICES ASSUME NEW vb \in Window, vb % HUGE_PAGE_SIZE = 0,
                      Entry(vb, 3) \in DOMAIN t.leaves
               PROVE  t.leaves[Entry(vb, 3)] = Leaf(vb - PHYSICAL_MEMORY_OFFSET, READ_WRITE)
    BY DEF LeavesAreWindow
  <2>0. vb \in Int
    <3>1. PHYSICAL_MEMORY_OFFSET \in Nat BY KernelImageAssumption
    <3> QED BY <3>1, Sizes DEF Window
  <2>1. Entry(vb, 3) # Entry(va, 4) BY <2>0, AddressTyped, EntryNests
  <2>2. Entry(vb, 3) \in DOMAIN tables.leaves BY <2>1
  <2> QED BY <2>2 DEF LeavesAreWindow, Grown
<1> QED BY <1>2, <1>3

\* map_kernel.
LEMMA MapKernelPageStep ==
  ASSUME LoaderInv, MapKernelPage
  PROVE  LoaderInv' /\ Grown(tables, tables')
<1>1. stage = "map kernel" /\ at <= Len(image.headers) BY DEF MapKernelPage
<1>2. /\ image \in Images /\ page \in Nat /\ at \in Nat /\ Accepted /\ stage \in Mapping
      /\ TablesOK(tables) /\ tables.error = "None"
      /\ KernelMapped(tables, at, page) /\ PagesDiffer(at, page)
      /\ TablesAreKernels(tables) /\ LeavesAreWindow(tables)
  BY <1>1 DEF LoaderInv, LoaderTyped, KernelPlaced, EntriesAreKnown, Parsed, Mapping
<1>3. Grown(tables, tables) BY DEF Grown
<1>4. CASE Stop
  <2>1. stage' = "failed" /\ UNCHANGED <<image, machine, at, page, memory, tables>>
    BY <1>4 DEF Stop
  <2>2. LoaderInv' BY <1>2, <2>1, FailedStep
  <2> QED BY <1>3, <2>1, <2>2
<1>5. CASE at \in Loadable /\ page < SegmentPages(at) /\ ~Stop
  <2> DEFINE va == Va(at, page)
             pa == Pa(at, page)
  <2>1. PICK permissions \in SegmentPermissions(Segment(at)) :
          Map(va, MapPage(tables, va, pa, permissions), {})
    BY <1>5 DEF MapKernelPage, Va, Pa
  <2>2. va \in Nat /\ permissions \in Kinds /\ SegmentPages(at) \in Nat
    BY <1>2, <1>5, SegmentPageTyped
  <2>3. page \in 0 .. SegmentPages(at) - 1 BY <1>2, <1>5, <2>2
  <2> DEFINE mapped == MapPage(tables, va, pa, permissions)
             tolerated == {}
  <2> HIDE DEF va, pa
  <2>4. ASSUME va \in Addresses
        PROVE  /\ TablesOK(mapped) /\ Grown(tables, mapped)
               /\ mapped.error = "None" =>
                    PageMapped(mapped, va, pa, permissions) /\ Entry(va, 4) \notin DOMAIN tables.leaves
               /\ \A e \in mapped.tables : e \in tables.tables \/ e \in Way(va, 3)
               /\ \A e \in DOMAIN mapped.leaves : e \in DOMAIN tables.leaves \/ e = Entry(va, 4)
    <3>1. TablesOK(mapped) /\ Grown(tables, mapped) BY <1>2, <2>2, <2>4, MapPageOK
    <3>2. mapped.error = "None" =>
            PageMapped(mapped, va, pa, permissions) /\ Entry(va, 4) \notin DOMAIN tables.leaves
      BY <1>2, <2>2, <2>4, MapPageOK
    <3>3. \A e \in mapped.tables : e \in tables.tables \/ e \in Way(va, 3)
      BY <1>2, <2>2, <2>4, MapPageOK
    <3>4. \A e \in DOMAIN mapped.leaves : e \in DOMAIN tables.leaves \/ e = Entry(va, 4)
      BY <1>2, <2>2, <2>4, MapPageOK
    <3> QED BY <3>1, <3>2, <3>3, <3>4
  <2>5. Map(va, mapped, tolerated) /\ {"None"} \cup tolerated = {"None"} BY <2>1
  <2> HIDE DEF mapped, tolerated
  <2>6. \/ LoaderInv' /\ Grown(tables, tables')
        \/ /\ va \in Addresses /\ UNCHANGED <<image, machine, stage, at, memory>>
           /\ page' = page + 1 /\ mapped.error \in {"None"} \cup tolerated
           /\ TablesOK(tables') /\ tables'.error = "None" /\ Grown(tables, tables')
           /\ tables'.leaves = mapped.leaves /\ tables'.tables = mapped.tables
    BY <2>2, <2>4, <2>5, MapStep
  <2>7. CASE /\ va \in Addresses /\ UNCHANGED <<image, machine, stage, at, memory>>
             /\ page' = page + 1 /\ mapped.error \in {"None"} \cup tolerated
             /\ TablesOK(tables') /\ tables'.error = "None" /\ Grown(tables, tables')
             /\ tables'.leaves = mapped.leaves /\ tables'.tables = mapped.tables
    <3>1. PageMapped(tables', va, pa, permissions) /\ Entry(va, 4) \notin DOMAIN tables.leaves
      <4>1. PageMapped(mapped, va, pa, permissions) /\ Entry(va, 4) \notin DOMAIN tables.leaves
        BY <2>4, <2>5, <2>7
      <4> QED BY <2>7, <4>1 DEF PageMapped
    <3>2. KernelMapped(tables', at, page + 1) /\ PagesDiffer(at, page + 1)
      <4>1. /\ PageMapped(tables', Va(at, page), Pa(at, page), permissions)
            /\ Entry(Va(at, page), 4) \notin DOMAIN tables.leaves
        BY <3>1 DEF va, pa
      <4>2. permissions \in SegmentPermissions(Segment(at)) OBVIOUS
      <4> QED BY <1>2, <1>5, <2>7, <4>1, <4>2, KernelGrows
    <3>3. TablesAreKernels(tables') /\ LeavesAreWindow(tables')
      <4>1. /\ \A e \in tables'.tables : e \in tables.tables \/ e \in Way(va, 3)
            /\ \A e \in DOMAIN tables'.leaves : e \in DOMAIN tables.leaves \/ e = Entry(va, 4)
        BY <2>4, <2>7
      <4>2. va = Va(at, page) BY DEF va
      <4> QED BY <1>2, <1>5, <2>3, <2>7, <4>1, <4>2, KernelEntries
    <3>4. /\ at' \in Nat /\ page' \in Nat /\ stage' = "map kernel" /\ stage' \in Mapping
          /\ KernelMapped(tables', at', page') /\ PagesDiffer(at', page')
      <4>1. at' = at /\ page' = page + 1 /\ stage' = stage BY <2>7
      <4>2. page + 1 \in Nat BY <1>2
      <4>3. KernelMapped(tables', at', page') /\ PagesDiffer(at', page') BY <3>2, <4>1
      <4>4. stage' = "map kernel" /\ stage' \in Mapping BY <1>1, <1>2, <4>1
      <4> QED BY <1>2, <4>1, <4>2, <4>3, <4>4
    <3>5. RangesMapped' BY <3>4 DEF RangesMapped
    <3>6. LoaderInv' BY <1>2, <2>7, <3>3, <3>4, <3>5, MappingStep
    <3> QED BY <2>7, <3>6
  <2> QED BY <2>6, <2>7
<1>6. CASE ~(at \in Loadable /\ page < SegmentPages(at)) /\ ~Stop
  <2>1. at' = at + 1 /\ page' = 0 /\ UNCHANGED <<image, machine, stage, memory, tables>>
    BY <1>6 DEF MapKernelPage
  <2>2. \A i \in Loadable : \A k \in 0 .. SegmentPages(i) - 1 :
          i < at + 1 \/ (i = at + 1 /\ k < 0) => i < at \/ (i = at /\ k < page)
    <3> SUFFICES ASSUME NEW i \in Loadable, NEW k \in 0 .. SegmentPages(i) - 1,
                        i < at + 1 \/ (i = at + 1 /\ k < 0)
                 PROVE  i < at \/ (i = at /\ k < page)
      OBVIOUS
    <3>1. i \in Nat BY <1>2, HeadersTyped
    <3>2. SegmentPages(i) \in Nat BY <1>2, SegmentPageTyped
    <3>3. i < at \/ i = at BY <1>2, <3>1, <3>2
    <3>4. i = at => k < page BY <1>2, <1>6, <3>2
    <3> QED BY <3>3, <3>4
  <2>3. KernelMapped(tables, at + 1, 0) BY <1>2, <2>2 DEF KernelMapped
  <2>4. PagesDiffer(at + 1, 0) BY <1>2, <2>2 DEF PagesDiffer
  <2>5. /\ at' \in Nat /\ page' \in Nat /\ stage' = "map kernel" /\ stage' \in Mapping
        /\ KernelMapped(tables', at', page') /\ PagesDiffer(at', page')
        /\ TablesOK(tables') /\ tables'.error = "None"
        /\ TablesAreKernels(tables') /\ LeavesAreWindow(tables')
    <3>1. at + 1 \in Nat /\ 0 \in Nat BY <1>2
    <3>2. at' \in Nat /\ page' \in Nat BY <2>1, <3>1
    <3>3. KernelMapped(tables', at', page') /\ PagesDiffer(at', page') BY <2>1, <2>3, <2>4
    <3>4. stage' = "map kernel" /\ stage' \in Mapping BY <1>1, <1>2, <2>1
    <3>5. /\ TablesOK(tables') /\ tables'.error = "None"
          /\ TablesAreKernels(tables') /\ LeavesAreWindow(tables')
      BY <1>2, <2>1
    <3> QED BY <3>2, <3>3, <3>4, <3>5
  <2>6. RangesMapped' BY <2>5 DEF RangesMapped
  <2>7. LoaderInv' BY <1>2, <2>1, <2>5, <2>6, MappingStep
  <2> QED BY <1>3, <2>1, <2>7
<1> QED BY <1>4, <1>5, <1>6

\* The kernel is mapped.
LEMMA MapKernelDoneStep ==
  ASSUME LoaderInv, MapKernelDone
  PROVE  LoaderInv' /\ Grown(tables, tables')
<1>1. stage = "map kernel" /\ at > Len(image.headers) /\ RangeDone("map ram") BY DEF MapKernelDone
<1>2. stage \in Mapping /\ LeavesAreWindow(tables)
  BY <1>1 DEF LoaderInv, EntriesAreKnown, Mapping
<1>3. stage' = "map ram" /\ page' = 0 /\ tables' = tables BY <1>1 DEF RangeDone
<1>4. Shown(tables, 0, 0)
  <2>1. 0 \in Nat /\ 0 <= 0 OBVIOUS
  <2> QED BY <2>1, RangesShrink
<1>5. RangesMapped' BY <1>3, <1>4 DEF RangesMapped
<1>6. "map ram" \in Mapping \ {"map kernel"} BY DEF Mapping
<1> QED BY <1>1, <1>2, <1>5, <1>6, RangeDoneStep

-----------------------------------------------------------------------------
(* Theorems. *)

\* A loader that starts has mapped nothing and written nothing.
LEMMA InitOK ==
  ASSUME Init
  PROVE  LoaderInv
<1>1. /\ image \in Images /\ machine \in Machines /\ stage = "read" /\ at = 1 /\ page = 0
      /\ memory = [a \in 0 .. MEMORY - 1 |-> Foreign] /\ tables = NewTables(machine.arena)
  BY DEF Init
<1>2. machine.arena \in Nat BY <1>1, KernelImageAssumption
<1> DEFINE t == tables
<1>3. t = [arena |-> machine.arena, used |-> 1, tables |-> {<<>>}, leaves |-> <<>>, error |-> "None"]
  BY <1>1 DEF NewTables
<1> HIDE DEF t
<1>4. /\ t.arena = machine.arena /\ t.used = 1 /\ t.tables = {<<>>} /\ t.leaves = <<>>
      /\ t.error = "None"
  BY <1>3
<1>5. DOMAIN t.leaves = {} BY <1>4
<1>6. \A va \in Addresses : Entry(va, 3) \notin t.tables
  <2> SUFFICES ASSUME NEW va \in Addresses, Entry(va, 3) = <<>> PROVE FALSE
    BY <1>4
  <2>1. 3 \in 0 .. 4 /\ va \in Int BY AddressTyped
  <2>2. Len(Entry(va, 3)) = 3 BY <2>1, EntryShape
  <2> QED BY <2>2
<1>7. TablesOK(t)
  <2>1. TablesTyped(t) BY <1>2, <1>3, <1>4 DEF TablesTyped
  <2> QED BY <1>5, <2>1 DEF TablesOK
<1>8. LoaderTyped
  <2>1. memory \in [0 .. MEMORY - 1 -> Int] BY <1>1 DEF Foreign
  <2>2. stage \in Stages BY <1>1 DEF Stages
  <2>3. TablesOK(tables) /\ tables.error = "None" BY <1>4, <1>7 DEF t
  <2> QED BY <1>1, <2>1, <2>2, <2>3 DEF LoaderTyped
<1>9. Parsed /\ BytesCopied BY <1>1 DEF Parsed, BytesCopied, Mapping
<1>10. CopyStaysInside BY <1>1 DEF CopyStaysInside
<1>11. KernelPlaced BY <1>1 DEF KernelPlaced, Mapping
<1>12. EntriesAreKnown
  <2>1. TablesAreKernels(t) BY <1>6 DEF TablesAreKernels
  <2>2. LeavesAreWindow(t) BY <1>5 DEF LeavesAreWindow
  <2> QED BY <2>1, <2>2 DEF EntriesAreKnown, t
<1>13. RangesMapped BY <1>1 DEF RangesMapped
<1> QED BY <1>8, <1>9, <1>10, <1>11, <1>12, <1>13 DEF LoaderInv

\* Every step keeps the invariant and what is mapped.
LEMMA StepOK ==
  ASSUME LoaderInv, [Next]_vars
  PROVE  LoaderInv' /\ Grown(tables, tables')
<1>1. CASE Next
  BY <1>1, ReadKernelStep, ParseStep, ReserveStep, CopySegmentStep, CopyDoneStep,
     MapKernelPageStep, MapKernelDoneStep, MapRamPageStep, MapFramebufferPageStep,
     MapIdentityPageStep
  DEF Next
<1>2. CASE UNCHANGED vars
  <2>1. UNCHANGED <<image, machine, stage, at, page, memory, tables>> BY <1>2 DEF vars
  <2>2. Grown(tables, tables') BY <2>1 DEF Grown
  <2>3. LoaderTyped' BY <2>1 DEF LoaderInv, LoaderTyped
  <2>4. Parsed' BY <2>1, FileStays, PartsStay DEF LoaderInv, Parsed
  <2>5. CopyStaysInside' BY <2>1, FileStays DEF LoaderInv, CopyStaysInside
  <2>6. BytesCopied' BY <2>1, PartsStay DEF LoaderInv, BytesCopied
  <2>7. KernelPlaced' BY <2>1, FileStays, PartsStay DEF LoaderInv, KernelPlaced
  <2>8. EntriesAreKnown'
    <3>1. LeavesAreWindow(tables)' <=> LeavesAreWindow(tables') BY DEF LeavesAreWindow
    <3> QED BY <2>1, <3>1, PartsStay DEF LoaderInv, EntriesAreKnown
  <2>9. RangesMapped' BY <2>1, PartsStay DEF LoaderInv, RangesMapped
  <2> QED BY <2>2, <2>3, <2>4, <2>5, <2>6, <2>7, <2>8, <2>9 DEF LoaderInv
<1> QED BY <1>1, <1>2

\* What load_and_start builds is sound after every step, whatever the kernel's
\* file says (main.rs, elf.rs and paging.rs of the loader).
THEOREM LoaderIsSound == Spec => []LoaderInv
<1>1. Init => LoaderInv BY InitOK
<1>2. LoaderInv /\ [Next]_vars => LoaderInv' BY StepOK
<1> QED BY <1>1, <1>2, PTL DEF Spec

\* At no moment, of no image, is a page writable and executable (map_kernel of
\* main.rs; "W^X holds from the first instruction the kernel executes").
THEOREM NothingIsWritableAndExecutable == Spec => []WritableXorExecutable
<1>1. LoaderInv => WritableXorExecutable
  <2> SUFFICES ASSUME LoaderInv, NEW va \in Addresses,
                      Translate(tables, va).permissions.writable,
                      Translate(tables, va).permissions.executable
               PROVE  FALSE
    BY DEF WritableXorExecutable
  <2>1. Translate(tables, va).permissions \in Kinds
    <3>1. Lookup(tables, va).permissions \in Kinds
      BY KindsFound DEF LoaderInv, LoaderTyped
    <3> QED BY <3>1 DEF Translate, Fault, Kinds
  <2> QED BY <2>1 DEF Kinds, READ_ONLY, READ_WRITE, READ_EXECUTE
<1> QED BY <1>1, LoaderIsSound, PTL

\* Whatever map_page or map_huge_page has mapped, at whichever page size, is
\* never mapped otherwise (paging.rs: "Rejected rather than silently replaced").
THEOREM NothingIsRemapped == Spec => MappingsStand
<1>1. ASSUME LoaderInv, [Next]_vars
      PROVE  [\A va \in Addresses :
                Translate(tables, va) # Fault => Translate(tables', va) = Translate(tables, va)]_vars
  <2>1. LoaderInv' /\ Grown(tables, tables') BY <1>1, StepOK
  <2>2. TablesOK(tables) /\ TablesOK(tables') BY <1>1, <2>1 DEF LoaderInv, LoaderTyped
  <2>3. \A va \in Addresses :
          Lookup(tables, va) # Fault => Lookup(tables', va) = Lookup(tables, va)
    BY <2>1, <2>2, GrownFinds
  <2>4. \A va \in Addresses :
          Translate(tables, va) # Fault => Translate(tables', va) = Translate(tables, va)
    BY <2>3 DEF Translate
  <2> QED BY <2>4
<1> QED BY <1>1, LoaderIsSound, PTL DEF Spec, MappingsStand

-----------------------------------------------------------------------------
(* What the processor finds after the switch. *)

\* A number is so many whole pages and the rest.
LEMMA Pieces ==
  ASSUME NEW x \in Nat, NEW d \in Nat \ {0}
  PROVE  /\ x \div d \in Nat /\ x % d \in 0 .. d - 1 /\ (x \div d) * d \in Nat
         /\ x = (x \div d) * d + (x % d)
<1> DEFINE q == x \div d
           r == x % d
<1>1. q \in Nat /\ r \in 0 .. d - 1 /\ r = x - d * q
  <2>1. x \in Int OBVIOUS
  <2> QED BY <2>1, Division
<1> HIDE DEF q, r
<1>2. q * d \in Nat /\ d * q = q * d BY <1>1
<1>3. x = q * d + r BY <1>1, <1>2
<1> QED BY <1>1, <1>2, <1>3 DEF q, r

\* Every byte of the part of the window that is shown is found.
LEMMA ShownIsFound ==
  ASSUME NEW t, NEW n, NEW base \in Nat, Shown(t, n, base), NEW x \in Nat,
         x \div HUGE_PAGE_SIZE \in 0 .. n - 1
  PROVE  Lookup(t, PHYSICAL_MEMORY_OFFSET + (base + x))
           = [byte |-> base + x, permissions |-> READ_WRITE]
<1> DEFINE k == x \div HUGE_PAGE_SIZE
           r == x % HUGE_PAGE_SIZE
           w == k * HUGE_PAGE_SIZE
           va == PHYSICAL_MEMORY_OFFSET + (base + w)
           pa == base + w
<1>1. r \in 0 .. HUGE_PAGE_SIZE - 1 /\ w \in Nat /\ x = w + r BY Sizes, Pieces
<1>2. HugeMapped(t, va, pa, READ_WRITE) BY DEF Shown
<1>3. PHYSICAL_MEMORY_OFFSET \in Nat /\ HUGE_PAGE_SIZE \in Nat BY KernelImageAssumption, Sizes
<1> HIDE DEF k, r, w
<1>4. /\ va \in Int /\ PHYSICAL_MEMORY_OFFSET + (base + x) = va + r
      /\ base + x = pa + r
  BY <1>1, <1>3
<1> HIDE DEF va, pa
<1>5. Lookup(t, va + r) = [byte |-> pa + r, permissions |-> READ_WRITE]
  BY <1>1, <1>2, <1>4, HugeIsFound
<1> QED BY <1>4, <1>5

\* And of the identity map.
LEMMA IdentityIsFound ==
  ASSUME NEW t, NEW n, IdentityUpTo(t, n), NEW x \in Nat, x \div HUGE_PAGE_SIZE \in 0 .. n - 1
  PROVE  Lookup(t, x) = [byte |-> x, permissions |-> READ_EXECUTE]
<1> DEFINE k == x \div HUGE_PAGE_SIZE
           r == x % HUGE_PAGE_SIZE
           w == k * HUGE_PAGE_SIZE
<1>1. r \in 0 .. HUGE_PAGE_SIZE - 1 /\ w \in Nat /\ x = w + r BY Sizes, Pieces
<1>2. HugeMapped(t, w, w, READ_EXECUTE) BY DEF IdentityUpTo, IdentityPermissions
<1> HIDE DEF k, r, w
<1>3. w \in Int BY <1>1
<1>4. Lookup(t, w + r) = [byte |-> w + r, permissions |-> READ_EXECUTE]
  BY <1>1, <1>2, <1>3, HugeIsFound
<1> QED BY <1>1, <1>4

\* When the processor switches, all of RAM and all of the framebuffer is in the
\* window, also where map_huge_range_lenient met a conflict, and the code that
\* switches is where it was (main.rs, "stage 5: building page tables").
THEOREM TheHandoffIsMapped == Spec => []HandoffIsMapped
<1>1. LoaderInv => WindowIsComplete
  <2> SUFFICES ASSUME LoaderInv, stage = "started", FramebufferIsClear
               PROVE  \A pa \in 0 .. machine.highestRam - 1
                        \cup machine.framebuffer.base
                               .. machine.framebuffer.base + machine.framebuffer.size - 1 :
                        Translate(tables, PHYSICAL_MEMORY_OFFSET + pa)
                          = [byte |-> pa, permissions |-> READ_WRITE]
    BY DEF WindowIsComplete
  <2>0. \A pa \in Nat : Canonical(PHYSICAL_MEMORY_OFFSET + pa)
    <3> TAKE pa \in Nat
    <3> DEFINE va == PHYSICAL_MEMORY_OFFSET + pa
    <3>1. PHYSICAL_MEMORY_OFFSET \in Nat BY KernelImageAssumption
    <3>2. va \in Nat /\ PHYSICAL_MEMORY_OFFSET <= va BY <3>1
    <3> HIDE DEF va
    <3>3. Canonical(va) BY <3>2, WindowIsOneSpan
    <3> QED BY <3>3 DEF va
  <2>1. /\ machine \in Machines /\ Shown(tables, RamPages, 0)
        /\ Shown(tables, FramebufferPages, FramebufferBase)
    BY DEF LoaderInv, LoaderTyped, RangesMapped
  <2> DEFINE ram == machine.highestRam
             fb == machine.framebuffer.base
             size == machine.framebuffer.size
             start == FramebufferBase
  <2>2. ram \in Nat /\ fb \in Nat /\ size \in Nat /\ start \in Nat /\ start <= fb
    BY <2>1, MachineTyped
  <2>3. RamPages = DivCeil(ram, HUGE_PAGE_SIZE) BY DEF RamPages
  <2>4. size # 0 => FramebufferPages = DivCeil(size + fb - start, HUGE_PAGE_SIZE)
    BY DEF FramebufferPages
  <2> HIDE DEF ram, fb, size, start
  <2>5. ASSUME NEW pa \in 0 .. ram - 1
        PROVE  Translate(tables, PHYSICAL_MEMORY_OFFSET + pa)
                 = [byte |-> pa, permissions |-> READ_WRITE]
    <3>1. pa \in Nat /\ 0 \in Nat /\ 0 + pa = pa OBVIOUS
    <3>2. pa \div HUGE_PAGE_SIZE \in 0 .. RamPages - 1 BY <2>2, <2>3, Sizes, DivCeilOK
    <3>3. Lookup(tables, PHYSICAL_MEMORY_OFFSET + (0 + pa))
            = [byte |-> 0 + pa, permissions |-> READ_WRITE]
      BY <2>1, <3>1, <3>2, ShownIsFound
    <3>4. Canonical(PHYSICAL_MEMORY_OFFSET + pa) BY <2>0, <3>1
    <3> QED BY <3>1, <3>3, <3>4 DEF Translate
  <2>6. ASSUME NEW pa \in fb .. fb + size - 1
        PROVE  Translate(tables, PHYSICAL_MEMORY_OFFSET + pa)
                 = [byte |-> pa, permissions |-> READ_WRITE]
    <3> DEFINE x == pa - start
               n == size + fb - start
    <3>1. /\ x \in Nat /\ x \in 0 .. n - 1 /\ n \in Nat /\ size # 0 /\ start + x = pa
      BY <2>2
    <3>2. FramebufferPages = DivCeil(n, HUGE_PAGE_SIZE) BY <2>4, <3>1
    <3> HIDE DEF x, n
    <3>3. x \div HUGE_PAGE_SIZE \in 0 .. FramebufferPages - 1 BY <3>1, <3>2, Sizes, DivCeilOK
    <3>4. Shown(tables, FramebufferPages, start) BY <2>1 DEF start
    <3>5. Lookup(tables, PHYSICAL_MEMORY_OFFSET + (start + x))
            = [byte |-> start + x, permissions |-> READ_WRITE]
      BY <2>2, <3>1, <3>3, <3>4, ShownIsFound
    <3>6. Canonical(PHYSICAL_MEMORY_OFFSET + pa)
      <4>1. pa \in Nat BY <2>2
      <4> QED BY <2>0, <4>1
    <3> QED BY <3>1, <3>5, <3>6 DEF Translate
  <2> QED BY <2>5, <2>6 DEF ram, fb, size
<1>2. LoaderInv => SwitchSurvives
  <2> SUFFICES ASSUME LoaderInv, stage = "started", NEW a \in 0 .. IDENTITY_MAPPED_BYTES - 1
               PROVE  Translate(tables, a) = [byte |-> a, permissions |-> READ_EXECUTE]
    BY DEF SwitchSurvives
  <2>1. IdentityUpTo(tables, IdentityPages) BY DEF LoaderInv, RangesMapped
  <2>2. a \in Nat /\ IDENTITY_MAPPED_BYTES \in Nat BY KernelImageAssumption
  <2>3. a \div HUGE_PAGE_SIZE \in 0 .. IdentityPages - 1
    BY <2>2, Sizes, DivCeilOK DEF IdentityPages
  <2>4. Lookup(tables, a) = [byte |-> a, permissions |-> READ_EXECUTE]
    BY <2>1, <2>2, <2>3, IdentityIsFound
  <2>5. Canonical(a)
    <3> DEFINE half == TOP \div 2
    <3>1. half \in Int /\ IDENTITY_MAPPED_BYTES <= half
      <4>1. TOP \in Int /\ 2 \in Nat \ {0} BY Sizes
      <4> QED BY <4>1, Division, KernelImageAssumption
    <3> HIDE DEF half
    <3>2. a < half BY <2>2, <3>1
    <3> QED BY <3>2 DEF Canonical, half
  <2> QED BY <2>4, <2>5 DEF Translate
<1> QED BY <1>1, <1>2, LoaderIsSound, PTL DEF HandoffIsMapped

\* The page of a byte of what starts at an address.
PageAt(v, b) == v + (b \div PAGE_SIZE) * PAGE_SIZE

\* The page starts on a boundary.
IsAligned(v, b) == PageAt(v, b) % PAGE_SIZE = 0

\* Two bytes at one address.
SameByte(v, b, w, c) == v + b = w + c

\* Two bytes at one address, both in pages that start on a page boundary, are
\* in pages at one address.
LEMMA SamePage ==
  ASSUME NEW v \in Nat, NEW w \in Nat, NEW b \in Nat, NEW c \in Nat,
         SameByte(v, b, w, c), IsAligned(v, b), IsAligned(w, c)
  PROVE  PageAt(v, b) = PageAt(w, c)
<1> DEFINE k == (b \div PAGE_SIZE) * PAGE_SIZE
           l == (c \div PAGE_SIZE) * PAGE_SIZE
           r == b % PAGE_SIZE
           s == c % PAGE_SIZE
<1>1. /\ k \in Nat /\ r \in 0 .. PAGE_SIZE - 1 /\ b = k + r
      /\ l \in Nat /\ s \in 0 .. PAGE_SIZE - 1 /\ c = l + s
  BY Sizes, Pieces
<1> DEFINE x == v + k
           y == w + l
<1>2. x % PAGE_SIZE = 0 /\ y % PAGE_SIZE = 0 BY DEF PageAt, IsAligned
<1> HIDE DEF k, l, r, s
<1>3. x \in Int /\ y \in Int BY <1>1
<1>4. x + r = y + s BY <1>1, Sizes DEF SameByte
<1> HIDE DEF x, y
<1>5. (x + r) % PAGE_SIZE = r /\ (y + s) % PAGE_SIZE = s BY <1>1, <1>2, <1>3, Sizes, Offsets
<1>6. r = s BY <1>4, <1>5
<1>7. x = y BY <1>1, <1>3, <1>4, <1>6, Sizes
<1> QED BY <1>7 DEF x, y, k, l, PageAt

\* In a kernel that starts, the page of every byte of a segment is mapped.
LEMMA BytePage ==
  ASSUME LoaderInv, stage = "started", NEW i \in Loadable,
         NEW b \in 0 .. Segment(i).memorySize - 1
  PROVE  /\ Accepted /\ b \in Nat /\ b \div PAGE_SIZE \in 0 .. SegmentPages(i) - 1
         /\ Va(i, b \div PAGE_SIZE) % PAGE_SIZE = 0
         /\ \E permissions \in SegmentPermissions(Segment(i)) :
              PageMapped(tables, Va(i, b \div PAGE_SIZE), Pa(i, b \div PAGE_SIZE), permissions)
<1>1. /\ image \in Images /\ at \in Nat /\ Accepted /\ KernelMapped(tables, at, page)
      /\ at > Len(image.headers)
  BY DEF LoaderInv, LoaderTyped, Parsed, KernelPlaced, Mapping
<1>2. /\ Len(image.headers) \in Nat /\ i \in 1 .. Len(image.headers)
      /\ Segment(i).memorySize \in Nat
  BY <1>1, HeadersTyped
<1>3. i < at BY <1>1, <1>2
<1>4. b \div PAGE_SIZE \in 0 .. SegmentPages(i) - 1 BY <1>2, Sizes, DivCeilOK DEF SegmentPages
<1>5. \E permissions \in SegmentPermissions(Segment(i)) :
        PageMapped(tables, Va(i, b \div PAGE_SIZE), Pa(i, b \div PAGE_SIZE), permissions)
  BY <1>1, <1>3, <1>4 DEF KernelMapped
<1>6. Va(i, b \div PAGE_SIZE) % PAGE_SIZE = 0 BY <1>5 DEF PageMapped
<1>7. b \in Nat BY <1>2
<1> QED BY <1>1, <1>4, <1>5, <1>6, <1>7

\* So no later segment covers a byte of an earlier one.
LEMMA NothingIsCovered ==
  ASSUME LoaderInv, stage = "started", NEW i \in Loadable, NEW j \in Loadable, i < j,
         NEW b \in 0 .. Segment(i).memorySize - 1,
         Segment(i).virtualAddress + b
           \in Segment(j).virtualAddress .. Segment(j).virtualAddress + Segment(j).memorySize - 1
  PROVE  FALSE
<1> DEFINE v == Segment(i).virtualAddress
           w == Segment(j).virtualAddress
           c == v + b - w
           k == b \div PAGE_SIZE
           l == c \div PAGE_SIZE
<1>1. /\ image \in Images /\ at \in Nat /\ PagesDiffer(at, page)
      /\ at > Len(image.headers)
  BY DEF LoaderInv, LoaderTyped, KernelPlaced, Mapping
<1>2. /\ v \in Nat /\ w \in Nat /\ Segment(j).memorySize \in Nat
      /\ Len(image.headers) \in Nat /\ j \in 1 .. Len(image.headers)
  BY <1>1, HeadersTyped
<1>3. b \in Nat /\ k \in 0 .. SegmentPages(i) - 1 /\ Va(i, k) % PAGE_SIZE = 0 BY BytePage
<1>4. c \in 0 .. Segment(j).memorySize - 1 /\ v + b = w + c
  <2> DEFINE m == Segment(j).memorySize
  <2>1. v + b \in w .. w + m - 1 OBVIOUS
  <2>2. m \in Nat BY <1>2
  <2> HIDE DEF v, w, m
  <2>3. c \in 0 .. m - 1 /\ v + b = w + c BY <1>2, <1>3, <2>1, <2>2
  <2> QED BY <2>3 DEF m
<1> HIDE DEF c
<1>5. c \in Nat /\ l \in 0 .. SegmentPages(j) - 1 /\ Va(j, l) % PAGE_SIZE = 0
  BY <1>4, BytePage
<1>6. Va(i, k) = PageAt(v, b) /\ Va(j, l) = PageAt(w, c) BY DEF Va, PageAt
<1> HIDE DEF v, w
<1>7. PageAt(v, b) = PageAt(w, c)
  <2>1. IsAligned(v, b) /\ IsAligned(w, c) BY <1>3, <1>5, <1>6 DEF IsAligned
  <2>2. v \in Nat /\ w \in Nat BY <1>2
  <2>3. b \in Nat /\ c \in Nat /\ SameByte(v, b, w, c) BY <1>3, <1>4, <1>5 DEF SameByte
  <2> QED BY <2>1, <2>2, <2>3, SamePage
<1>8. j < at BY <1>1, <1>2
<1> HIDE DEF k, l
<1>9. Va(i, k) # Va(j, l) BY <1>1, <1>3, <1>5, <1>8 DEF PagesDiffer
<1> QED BY <1>6, <1>7, <1>9

\* The kernel that starts finds itself as it was linked, and loading it wrote
\* nowhere else: two segments that overlap in memory share a page, and then
\* map_page refuses the second (copy_segments and map_kernel of main.rs).  This
\* holds at every address below 2^64 that a segment may name, also where the
\* masks of paging.rs give it the entries of another address.
THEOREM TheImageIsLoaded == Spec => []ImageIsLoaded
<1>1. LoaderInv => ImageIsLoaded
  <2> DEFINE Good(i, b) ==
        LET segment == Segment(i)
            found == Lookup(tables, segment.virtualAddress + b)
        IN /\ found # Fault
           /\ memory[found.byte] = IF b < segment.fileSize
                                     THEN BufferByte(segment.fileOffset + b) ELSE 0
           /\ found.permissions.writable = segment.writable
           /\ found.permissions.executable = segment.executable
  <2>1. ASSUME LoaderInv, stage = "started", NEW i \in Loadable,
               NEW b \in 0 .. Segment(i).memorySize - 1
        PROVE  Good(i, b)
    <3> DEFINE k == b \div PAGE_SIZE
               r == b % PAGE_SIZE
               o == k * PAGE_SIZE
               v == Segment(i).virtualAddress
               p == SegmentPhysical(i)
    <3>1. PICK permissions \in SegmentPermissions(Segment(i)) :
            PageMapped(tables, Va(i, k), Pa(i, k), permissions)
      BY <2>1, BytePage
    <3>2. b \in Nat /\ Accepted BY <2>1, BytePage
    <3>3. r \in 0 .. PAGE_SIZE - 1 /\ o \in Nat /\ b = o + r BY <3>2, Sizes, Pieces
    <3>4. image \in Images /\ TablesOK(tables) BY <2>1 DEF LoaderInv, LoaderTyped
    <3>5. v \in Nat /\ p \in Nat BY <3>2, <3>4, HeadersTyped, ExtentHolds
    <3>6. Va(i, k) = v + o /\ Pa(i, k) = p + o BY DEF Va, Pa
    <3> HIDE DEF k, r, o, v, p
    <3>7. Va(i, k) + r = v + b /\ Pa(i, k) + r = p + b BY <3>3, <3>5, <3>6, Sizes
    <3>8. Lookup(tables, v + b) = [byte |-> p + b, permissions |-> permissions]
      <4>1. Lookup(tables, Va(i, k) + r)
              = [byte |-> Pa(i, k) + r, permissions |-> permissions]
        BY <3>1, <3>3, <3>4, PageIsFound
      <4> QED BY <3>7, <4>1
    <3> DEFINE found == Lookup(tables, v + b)
    <3>9. found.byte = p + b /\ found.permissions = permissions BY <3>8
    <3>10. found # Fault
      <4>1. Fault.byte = -1 BY DEF Fault
      <4>2. p + b # -1 BY <3>2, <3>5
      <4> QED BY <3>9, <4>1, <4>2
    <3> HIDE DEF found
    <3>11. memory[p + b] = WantedByte(i, b)
      <4>1. image \in Images /\ BytesUpTo(memory, Len(image.headers) + 1)
        BY <2>1 DEF LoaderInv, LoaderTyped, BytesCopied, Mapping
      <4>2. i < Len(image.headers) + 1 BY <4>1, HeadersTyped
      <4>3. \/ memory[SegmentPhysical(i) + b] = WantedByte(i, b)
            \/ \E j \in Loadable :
                 /\ i < j
                 /\ Segment(i).virtualAddress + b
                      \in Segment(j).virtualAddress
                            .. Segment(j).virtualAddress + Segment(j).memorySize - 1
        BY <2>1, <4>1, <4>2 DEF BytesUpTo
      <4> QED BY <2>1, <4>3, NothingIsCovered DEF p
    <3>12. /\ permissions.writable = Segment(i).writable
           /\ permissions.executable = Segment(i).executable
      BY DEF SegmentPermissions
    <3> QED BY <3>9, <3>10, <3>11, <3>12 DEF found, v, WantedByte
  <2>2. LoaderInv => CopyStaysInside BY DEF LoaderInv
  <2> QED BY <2>1, <2>2 DEF ImageIsLoaded
<1> QED BY <1>1, LoaderIsSound, PTL

=============================================================================
