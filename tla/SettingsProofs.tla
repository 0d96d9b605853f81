--------------------------- MODULE SettingsProofs ---------------------------
(***************************************************************************)
(* For every configuration file, set of fields and sequence of edits: what *)
(* a user saves is what the next start reads, and a save changes no other  *)
(* field.                                                                  *)
(*                                                                         *)
(* Where a definition counts places or takes the first or the last one,    *)
(* the proofs go by the smallest counterexample: the provers can use that  *)
(* the order of the numbers is well-founded, but not the induction         *)
(* theorems.                                                               *)
(***************************************************************************)
EXTENDS Settings, FiniteSetTheorems, WellFoundedInduction, SequenceTheorems, TLAPS

-----------------------------------------------------------------------------
(* First and last places.                                                  *)
LEMMA LeastOf ==
    ASSUME NEW P \in SUBSET Nat, P # {}
    PROVE  \E i \in P : \A j \in P : i <= j
<1> DEFINE Order == {r \in Nat \X Nat : r[1] < r[2]}
<1>1. \A i, j \in Nat : i < j => <<i, j>> \in Order
  OBVIOUS
<1>2. IsWellFoundedOn(Order, Nat)
  BY NatLessThanWellFounded, Zenon DEF OpToRel
<1> HIDE DEF Order
<1>3. P \subseteq Nat
  OBVIOUS
<1>4. PICK i \in P : \A j \in P : ~(<<j, i>> \in Order)
  BY <1>2, <1>3, WFMin
<1>5. \A j \in P : ~(j < i)
  BY <1>1, <1>3, <1>4
<1> QED BY <1>3, <1>5

(* The maximum of some places.                                             *)
LEMMA MaxIsLast ==
    ASSUME NEW n \in Nat, NEW P \in SUBSET (1 .. n), P # {}
    PROVE  Max(P) \in P /\ \A j \in P : j <= Max(P)
<1> DEFINE Mirrored == {n - i : i \in P}
<1>1. Mirrored \in SUBSET Nat /\ Mirrored # {}
  <2>1. \A i \in P : n - i \in Nat
    OBVIOUS
  <2> QED BY <2>1
<1>2. \E k \in Mirrored : \A m \in Mirrored : k <= m
  <2> HIDE DEF Mirrored
  <2> QED BY <1>1, LeastOf
<1>3. \E i \in P : \A j \in P : n - i <= n - j
  BY <1>2
<1>4. \E i \in P : \A j \in P : i >= j
  BY <1>3
<1>5. Max(P) \in P /\ \A j \in P : Max(P) >= j
  BY <1>4 DEF Max
<1> QED BY <1>5

-----------------------------------------------------------------------------
(* How many of some places come up to each place.                          *)
LEMMA Counting ==
    ASSUME NEW n \in Nat, NEW P \in SUBSET (1 .. n)
    PROVE  /\ \A i \in 0 .. n : Upto(P, i) \in Nat
           /\ Upto(P, 0) = 0
           /\ Upto(P, n) = Cardinality(P)
           /\ \A i \in 1 .. n :
                 Upto(P, i) = IF i \in P THEN Upto(P, i - 1) + 1 ELSE Upto(P, i - 1)
           /\ \A i, j \in 0 .. n : i <= j => Upto(P, i) <= Upto(P, j)
<1>1. \A i \in 0 .. n : IsFiniteSet(P \intersect 1 .. i)
  <2>1. IsFiniteSet(1 .. n)
    BY FS_Interval
  <2>2. IsFiniteSet(P)
    BY <2>1, FS_Subset
  <2> QED BY <2>2, FS_Intersection
<1>2. \A i \in 0 .. n : Upto(P, i) \in Nat
  BY <1>1, FS_CardinalityType DEF Upto
<1>3. Upto(P, 0) = 0
  <2>1. P \intersect 1 .. 0 = {}
    OBVIOUS
  <2> QED BY <2>1, FS_EmptySet DEF Upto
<1>4. Upto(P, n) = Cardinality(P)
  <2>1. P \intersect 1 .. n = P
    OBVIOUS
  <2> QED BY <2>1 DEF Upto
<1>5. ASSUME NEW i \in 1 .. n
      PROVE  Upto(P, i) = IF i \in P THEN Upto(P, i - 1) + 1 ELSE Upto(P, i - 1)
  <2>1. i - 1 \in 0 .. n /\ i \notin P \intersect 1 .. i - 1
    OBVIOUS
  <2>2. CASE i \in P
    <3>1. P \intersect 1 .. i = (P \intersect 1 .. i - 1) \union {i}
      BY <2>2
    <3>2. Cardinality((P \intersect 1 .. i - 1) \union {i}) = Cardinality(P \intersect 1 .. i - 1) + 1
      BY <1>1, <2>1, FS_AddElement
    <3> QED BY <2>2, <3>1, <3>2 DEF Upto
  <2>3. CASE i \notin P
    <3>1. P \intersect 1 .. i = P \intersect 1 .. i - 1
      BY <2>3
    <3> QED BY <2>3, <3>1 DEF Upto
  <2> QED BY <2>2, <2>3
<1>6. ASSUME NEW i \in 0 .. n, NEW j \in 0 .. n, i <= j
      PROVE  Upto(P, i) <= Upto(P, j)
  <2>1. P \intersect 1 .. i \in SUBSET (P \intersect 1 .. j)
    BY <1>6
  <2> QED BY <1>1, <2>1, FS_Subset DEF Upto
<1> QED BY <1>2, <1>3, <1>4, <1>5, <1>6

(* Places in their order: the n-th of them has n of them up to it.         *)
LEMMA NthPlace ==
    ASSUME NEW n \in Nat, NEW P \in SUBSET (1 .. n)
    PROVE  /\ Cardinality(P) \in Nat
           /\ \A k \in 1 .. Cardinality(P) : Nth(P, k) \in P /\ Upto(P, Nth(P, k)) = k
           /\ \A i \in P : Upto(P, i) \in 1 .. Cardinality(P) /\ Nth(P, Upto(P, i)) = i
<1> DEFINE u(i) == Upto(P, i)
<1>1. /\ \A i \in 0 .. n : u(i) \in Nat
      /\ u(0) = 0 /\ u(n) = Cardinality(P) /\ Cardinality(P) \in Nat
      /\ \A i \in 1 .. n : u(i) = IF i \in P THEN u(i - 1) + 1 ELSE u(i - 1)
      /\ \A i, j \in 0 .. n : i <= j => u(i) <= u(j)
  <2>1. n \in 0 .. n
    OBVIOUS
  <2> QED BY <2>1, Counting
<1> HIDE DEF u
<1>2. \A i, j \in P : u(i) = u(j) => i = j
  <2> SUFFICES ASSUME NEW i \in P, NEW j \in P, i < j PROVE u(i) # u(j)
    OBVIOUS
  <2>1. j \in 1 .. n /\ i \in 0 .. n /\ j - 1 \in 0 .. n /\ i <= j - 1
    OBVIOUS
  <2>2. u(j) = u(j - 1) + 1 /\ u(i) <= u(j - 1)
    BY <1>1, <2>1
  <2>3. u(i) \in Nat /\ u(j - 1) \in Nat
    BY <1>1, <2>1
  <2> QED BY <2>2, <2>3
<1>3. \A i \in P : u(i) \in 1 .. Cardinality(P)
  <2> SUFFICES ASSUME NEW i \in P PROVE u(i) \in 1 .. Cardinality(P)
    OBVIOUS
  <2>1. i \in 1 .. n /\ i \in 0 .. n /\ i - 1 \in 0 .. n /\ n \in 0 .. n /\ i <= n
    OBVIOUS
  <2>2. u(i) = u(i - 1) + 1 /\ u(i - 1) \in Nat /\ u(i) <= u(n)
    BY <1>1, <2>1
  <2> QED BY <1>1, <2>2
<1>4. ASSUME NEW k \in 1 .. Cardinality(P) PROVE \E i \in P : u(i) = k
  <2> DEFINE Enough == {i \in 0 .. n : u(i) >= k}
  <2>1. Enough \in SUBSET Nat /\ n \in Enough
    BY <1>1
  <2>2. PICK i \in Enough : \A j \in Enough : i <= j
    <3> HIDE DEF Enough
    <3> QED BY <2>1, LeastOf
  <2>3. i # 0
    BY <1>1
  <2>4. i \in 1 .. n /\ i - 1 \in 0 .. n /\ ~(i <= i - 1)
    BY <2>3
  <2>5. ~(u(i - 1) >= k) /\ u(i) >= k
    BY <2>2, <2>4
  <2>6. u(i) \in Nat /\ u(i - 1) \in Nat /\ (i \in P => u(i) = u(i - 1) + 1)
        /\ (i \notin P => u(i) = u(i - 1))
    BY <1>1, <2>4
  <2> QED BY <2>5, <2>6
<1>5. \A k \in 1 .. Cardinality(P) : Nth(P, k) \in P /\ u(Nth(P, k)) = k
  BY <1>4 DEF Nth, u
<1>6. \A i \in P : Nth(P, u(i)) = i
  BY <1>2, <1>3, <1>5
<1> QED BY <1>1, <1>3, <1>5, <1>6 DEF u

-----------------------------------------------------------------------------
(* The lines that config_manager_save writes.                              *)
Changes(list) == {i \in DOMAIN list : i = 1 \/ list[i - 1].section # list[i].section}

(* Each item ends one or two lines after the one before it.                *)
LEMMA EndsGrow ==
    ASSUME NEW n \in Nat, NEW heads \in SUBSET (1 .. n)
    PROVE  /\ \A i \in 0 .. n : Ends(heads, i) \in Nat
           /\ Ends(heads, 0) = 0
           /\ \A i \in 1 .. n : Ends(heads, i) = Ends(heads, i - 1) + (IF i \in heads THEN 2 ELSE 1)
           /\ \A i, j \in 0 .. n : i < j => Ends(heads, i) < Ends(heads, j)
<1>1. /\ \A i \in 0 .. n : Upto(heads, i) \in Nat
      /\ Upto(heads, 0) = 0
      /\ \A i \in 1 .. n :
            Upto(heads, i) = IF i \in heads THEN Upto(heads, i - 1) + 1 ELSE Upto(heads, i - 1)
      /\ \A i, j \in 0 .. n : i <= j => Upto(heads, i) <= Upto(heads, j)
  BY Counting
<1> DEFINE u(i) == Upto(heads, i)
<1>2. \A i \in 0 .. n : u(i) \in Nat
  BY <1>1
<1>3. \A i \in 1 .. n : i - 1 \in 0 .. n /\ i \in 0 .. n
  OBVIOUS
<1>4. \A i \in 1 .. n : /\ i \in heads => u(i) = u(i - 1) + 1
                        /\ i \notin heads => u(i) = u(i - 1)
  BY <1>1
<1>5. \A i, j \in 0 .. n : i <= j => u(i) <= u(j)
  BY <1>1
<1>6. u(0) = 0
  BY <1>1
<1>7. \A i : Ends(heads, i) = i + u(i)
  BY DEF Ends
<1> HIDE DEF u
<1>8. \A i \in 0 .. n : Ends(heads, i) \in Nat
  BY <1>2, <1>7
<1>9. Ends(heads, 0) = 0
  BY <1>6, <1>7
<1>10. \A i \in 1 .. n : Ends(heads, i) = Ends(heads, i - 1) + (IF i \in heads THEN 2 ELSE 1)
  BY <1>2, <1>3, <1>4, <1>7
<1>11. \A i, j \in 0 .. n : i < j => Ends(heads, i) < Ends(heads, j)
  BY <1>2, <1>5, <1>7
<1> QED BY <1>8, <1>9, <1>10, <1>11

(* Every line is that of one item, or the header before it.                *)
LEMMA LineBelongs ==
    ASSUME NEW n \in Nat, NEW heads \in SUBSET (1 .. n), NEW k \in 1 .. Ends(heads, n)
    PROVE  \E i \in 1 .. n :
              /\ k \in Ends(heads, i - 1) + 1 .. Ends(heads, i)
              /\ \A j \in 1 .. n : k \in Ends(heads, j - 1) + 1 .. Ends(heads, j) => j = i
              /\ k = Ends(heads, i) \/ (i \in heads /\ k = Ends(heads, i) - 1)
<1> DEFINE e(i) == Ends(heads, i)
<1>1. /\ \A i \in 0 .. n : e(i) \in Nat
      /\ e(0) = 0
      /\ \A i \in 1 .. n : e(i) = e(i - 1) + (IF i \in heads THEN 2 ELSE 1)
      /\ \A i, j \in 0 .. n : i < j => e(i) < e(j)
  BY EndsGrow
<1>2. k \in 1 .. e(n) /\ k \in Nat
  <2>1. e(n) \in Nat
    BY <1>1
  <2> QED BY <2>1
<1> HIDE DEF e
<1> DEFINE Reached == {i \in 0 .. n : k <= e(i)}
<1>3. Reached \in SUBSET Nat /\ n \in Reached
  BY <1>1, <1>2
<1>4. PICK i \in Reached : \A j \in Reached : i <= j
  <2> HIDE DEF Reached
  <2> QED BY <1>3, LeastOf
<1>5. i # 0
  BY <1>1, <1>2
<1>6. i \in 1 .. n /\ i - 1 \in 0 .. n /\ ~(i <= i - 1)
  BY <1>5
<1>7. ~(k <= e(i - 1)) /\ k <= e(i) /\ e(i - 1) \in Nat /\ e(i) \in Nat
  BY <1>1, <1>4, <1>6
<1>8. k \in e(i - 1) + 1 .. e(i)
  BY <1>2, <1>7
<1>9. k = e(i) \/ (i \in heads /\ k = e(i) - 1)
  <2>1. e(i) = e(i - 1) + (IF i \in heads THEN 2 ELSE 1)
    BY <1>1, <1>6
  <2> QED BY <1>2, <1>7, <2>1
<1>10. ASSUME NEW j \in 1 .. n, k \in e(j - 1) + 1 .. e(j) PROVE j = i
  <2>1. j - 1 \in 0 .. n /\ j \in 0 .. n /\ e(j) \in Nat /\ e(j - 1) \in Nat
    BY <1>1
  <2>2. e(j - 1) < k /\ k <= e(j)
    BY <1>2, <1>10, <2>1
  <2>3. CASE j < i
    <3>1. j = i - 1 \/ j < i - 1
      BY <1>6, <2>3
    <3>2. e(j) <= e(i - 1)
      BY <1>1, <1>6, <2>1, <3>1
    <3> QED BY <1>2, <1>7, <2>1, <2>2, <3>2
  <2>4. CASE i < j
    <3>1. i = j - 1 \/ i < j - 1
      BY <1>6, <2>4
    <3>2. e(i) <= e(j - 1)
      BY <1>1, <1>6, <2>1, <3>1
    <3> QED BY <1>2, <1>7, <2>1, <2>2, <3>2
  <2> QED BY <1>6, <2>3, <2>4
<1> QED BY <1>6, <1>8, <1>9, <1>10 DEF e

(* What stands where in the file written.                                  *)
LEMMA WrittenLines ==
    ASSUME NEW S, NEW list \in Seq(S), NEW heads \in SUBSET DOMAIN list
    PROVE  LET w == WrittenWith(list, heads)
               n == Len(list)
           IN  /\ n \in Nat /\ DOMAIN list = 1 .. n
               /\ DOMAIN w = 1 .. Ends(heads, n) /\ Ends(heads, n) \in Nat
               /\ w = [k \in 1 .. Ends(heads, n) |-> w[k]]
               /\ \A i \in 1 .. n : /\ Ends(heads, i) \in DOMAIN w
                                    /\ w[Ends(heads, i)] = Item(list[i].key, list[i].value)
               /\ \A i \in heads : /\ Ends(heads, i) - 1 \in DOMAIN w
                                   /\ w[Ends(heads, i) - 1] = Header(list[i].section)
               /\ \A k \in DOMAIN w : \E i \in 1 .. n :
                     \/ k = Ends(heads, i)
                     \/ i \in heads /\ k = Ends(heads, i) - 1
<1> DEFINE w == WrittenWith(list, heads)
           n == Len(list)
           e(i) == Ends(heads, i)
           Owner(k) == CHOOSE i \in DOMAIN list : k \in e(i - 1) + 1 .. e(i)
<1>1. n \in Nat /\ DOMAIN list = 1 .. n /\ heads \in SUBSET (1 .. n)
  OBVIOUS
<1>2. /\ \A i \in 0 .. n : e(i) \in Nat
      /\ e(0) = 0
      /\ \A i \in 1 .. n : e(i) = e(i - 1) + (IF i \in heads THEN 2 ELSE 1)
      /\ \A i, j \in 0 .. n : i < j => e(i) < e(j)
  BY <1>1, EndsGrow
<1>3. w = [k \in 1 .. e(n) |-> IF k = e(Owner(k))
                               THEN Item(list[Owner(k)].key, list[Owner(k)].value)
                               ELSE Header(list[Owner(k)].section)]
  BY DEF WrittenWith
<1>4. \A k \in 1 .. e(n) : \E i \in 1 .. n :
          /\ k \in e(i - 1) + 1 .. e(i)
          /\ \A j \in 1 .. n : k \in e(j - 1) + 1 .. e(j) => j = i
          /\ k = e(i) \/ (i \in heads /\ k = e(i) - 1)
  BY <1>1, LineBelongs
<1> HIDE DEF e, w
<1>5. ASSUME NEW i \in 1 .. n, NEW k \in e(i - 1) + 1 .. e(i)
      PROVE  k \in 1 .. e(n) /\ Owner(k) = i
  <2>a. i - 1 \in 0 .. n /\ i \in 0 .. n /\ n \in 0 .. n /\ (i = n \/ i < n)
    <3> HIDE DEF n
    <3> QED BY <1>1
  <2>1. e(i - 1) \in Nat /\ e(i) \in Nat /\ e(n) \in Nat
    BY <1>2, <2>a
  <2>2. e(i) <= e(n)
    BY <1>2, <2>a, <2>1
  <2>3. k \in 1 .. e(n)
    BY <2>1, <2>2
  <2>4. Owner(k) \in DOMAIN list /\ k \in e(Owner(k) - 1) + 1 .. e(Owner(k))
    BY <1>1
  <2>5. PICK m \in 1 .. n : \A j \in 1 .. n : k \in e(j - 1) + 1 .. e(j) => j = m
    BY <1>4, <2>3
  <2> QED BY <1>1, <2>3, <2>4, <2>5
<1> HIDE DEF Owner
<1>6. ASSUME NEW i \in 1 .. n
      PROVE  e(i) \in 1 .. e(n) /\ w[e(i)] = Item(list[i].key, list[i].value)
  <2>1. i - 1 \in 0 .. n /\ i \in 0 .. n
    BY <1>1
  <2>2. e(i) \in e(i - 1) + 1 .. e(i)
    BY <1>2, <2>1
  <2>3. e(i) \in 1 .. e(n) /\ Owner(e(i)) = i
    BY <1>5, <2>2
  <2> QED BY <1>3, <2>3
<1>7. ASSUME NEW i \in heads
      PROVE  e(i) - 1 \in 1 .. e(n) /\ w[e(i) - 1] = Header(list[i].section)
  <2>1. i \in 1 .. n /\ i - 1 \in 0 .. n /\ i \in 0 .. n
    BY <1>1
  <2>2. e(i) = e(i - 1) + 2 /\ e(i - 1) \in Nat
    BY <1>2, <2>1
  <2>3. e(i) - 1 \in e(i - 1) + 1 .. e(i) /\ e(i) - 1 # e(i)
    BY <2>2
  <2>4. e(i) - 1 \in 1 .. e(n) /\ Owner(e(i) - 1) = i
    BY <1>5, <2>1, <2>3
  <2> QED BY <1>3, <2>3, <2>4
<1>8. DOMAIN w = 1 .. e(n) /\ w = [k \in 1 .. e(n) |-> w[k]]
  BY <1>3
<1>9. e(n) \in Nat
  BY <1>1, <1>2
<1> QED BY <1>1, <1>4, <1>6, <1>7, <1>8, <1>9 DEF e, w

(* The parts of an item's line and of a header.                            *)
LEMMA LineParts ==
    /\ \A k, v : /\ Item(k, v).kind = "item" /\ Item(k, v).section = NONE
                 /\ Item(k, v).key = k /\ Item(k, v).value = v
    /\ \A s : /\ Header(s).kind = "header" /\ Header(s).section = s
              /\ Header(s).key = NONE /\ Header(s).value = NONE
BY DEF Item, Header

(* Above an item there is a header, and the last one names its section.    *)
LEMMA SectionWritten ==
    ASSUME NEW S, NEW list \in Seq(S), NEW i \in DOMAIN list,
           NEW kinds, "header" \in kinds, "item" \notin kinds
    PROVE  SectionAt(Written(list), Ends(Changes(list), i), kinds) = list[i].section
<1> DEFINE w == Written(list)
           n == Len(list)
           hs == Changes(list)
           e(j) == Ends(hs, j)
           above == {k \in 1 .. e(i) : w[k].kind \in kinds}
<1>1. hs \in SUBSET DOMAIN list /\ w = WrittenWith(list, hs)
  BY DEF Written, Changes
<1>2. /\ n \in Nat /\ DOMAIN list = 1 .. n
      /\ DOMAIN w = 1 .. e(n) /\ e(n) \in Nat
      /\ \A j \in 1 .. n : e(j) \in DOMAIN w /\ w[e(j)] = Item(list[j].key, list[j].value)
      /\ \A j \in hs : e(j) - 1 \in DOMAIN w /\ w[e(j) - 1] = Header(list[j].section)
      /\ \A k \in DOMAIN w : \E j \in 1 .. n : k = e(j) \/ (j \in hs /\ k = e(j) - 1)
  <2> HIDE DEF w, hs, e
  <2>1. w = WrittenWith(list, hs) /\ hs \in SUBSET DOMAIN list
    BY <1>1
  <2> QED BY <2>1, WrittenLines DEF e
<1>3. /\ \A j \in 0 .. n : e(j) \in Nat
      /\ \A j, k \in 0 .. n : j < k => e(j) < e(k)
      /\ \A j \in 1 .. n : e(j) = e(j - 1) + (IF j \in hs THEN 2 ELSE 1)
  <2> HIDE DEF hs
  <2>1. n \in Nat /\ hs \in SUBSET (1 .. n)
    BY <1>1, <1>2
  <2> QED BY <2>1, EndsGrow
<1>a. /\ n \in Nat /\ DOMAIN list = 1 .. n /\ DOMAIN w = 1 .. e(n)
      /\ hs \subseteq 1 .. n /\ i \in 1 .. n
  BY <1>1, <1>2
<1>b. \A j \in 1 .. n : w[e(j)].kind = "item"
  <2> HIDE DEF w, hs, e, n
  <2> SUFFICES ASSUME NEW j \in 1 .. n PROVE w[e(j)].kind = "item"
    OBVIOUS
  <2>1. w[e(j)] = Item(list[j].key, list[j].value)
    BY <1>2
  <2>2. Item(list[j].key, list[j].value).kind = "item"
    BY LineParts
  <2> QED BY <2>1, <2>2
<1>c. \A j \in hs : w[e(j) - 1].kind = "header" /\ w[e(j) - 1].section = list[j].section
  <2> HIDE DEF w, hs, e, n
  <2> SUFFICES ASSUME NEW j \in hs
               PROVE  w[e(j) - 1].kind = "header" /\ w[e(j) - 1].section = list[j].section
    OBVIOUS
  <2>1. w[e(j) - 1] = Header(list[j].section)
    BY <1>2
  <2>2. /\ Header(list[j].section).kind = "header"
        /\ Header(list[j].section).section = list[j].section
    BY LineParts
  <2> QED BY <2>1, <2>2
<1>d. \A k \in DOMAIN w : \E j \in 1 .. n : k = e(j) \/ (j \in hs /\ k = e(j) - 1)
  BY <1>2
<1>4. hs = {j \in 1 .. n : j = 1 \/ list[j - 1].section # list[j].section}
  BY <1>a DEF Changes
<1>5. SectionAt(w, e(i), kinds) = IF above = {} THEN NONE ELSE w[Max(above)].section
  BY DEF SectionAt
<1> HIDE DEF w, hs, e, n
<1>6. 1 \in hs
  BY <1>4, <1>a
<1> DEFINE earlier == {j \in hs : j <= i}
<1>7. earlier \in SUBSET (1 .. n) /\ earlier # {} /\ n \in Nat
  <2>1. 1 <= i
    BY <1>a
  <2>2. 1 \in earlier
    BY <1>6, <2>1
  <2> QED BY <1>a, <2>2
<1>8. PICK h \in earlier : \A j \in earlier : j <= h
  <2> HIDE DEF earlier
  <2> QED BY <1>7, MaxIsLast
<1>9. h \in hs /\ h \in 1 .. n /\ h <= i
  BY <1>a
<1>10. list[h].section = list[i].section
  <2> DEFINE Other == {j \in h .. i : list[j].section # list[h].section}
  <2>1. SUFFICES ASSUME Other # {} PROVE FALSE
    BY <1>a, <1>9
  <2>2. Other \in SUBSET Nat
    BY <1>9
  <2>3. PICK j \in Other : \A k \in Other : j <= k
    <3> HIDE DEF Other
    <3> QED BY <2>1, <2>2, LeastOf
  <2>4. j \in h .. i /\ list[j].section # list[h].section
    OBVIOUS
  <2>5. j # h /\ j \in Nat /\ h \in Nat /\ i \in Nat
    BY <1>a, <1>9, <2>4
  <2>6. j - 1 \in h .. i /\ ~(j <= j - 1)
    BY <2>4, <2>5
  <2>7. list[j - 1].section = list[h].section
    BY <2>3, <2>6
  <2>8. j \in 1 .. n /\ list[j - 1].section # list[j].section
    BY <1>a, <1>9, <2>4, <2>5, <2>7
  <2>9. j \in earlier
    BY <1>4, <2>4, <2>5, <2>8
  <2> QED BY <1>8, <2>4, <2>5, <2>9
<1>11. \A j \in 1 .. n : j - 1 \in 0 .. n /\ j \in 0 .. n
  BY <1>a
<1>12. e(i) \in Nat /\ e(h) \in Nat
  BY <1>3, <1>a, <1>9, <1>11
<1>13. \A j, k \in 1 .. n : j <= k => e(j) <= e(k)
  <2> SUFFICES ASSUME NEW j \in 1 .. n, NEW k \in 1 .. n, j <= k PROVE e(j) <= e(k)
    OBVIOUS
  <2>1. j = k \/ j < k
    BY <1>a
  <2> QED BY <1>3, <1>11, <2>1
<1>14. e(h) - 1 \in above
  <2>1. e(h) <= e(i) /\ e(h) - 1 \in DOMAIN w
    BY <1>2, <1>9, <1>13, <1>a
  <2>2. e(h) - 1 \in 1 .. e(i)
    BY <1>2, <1>12, <2>1
  <2> QED BY <1>c, <1>9, <2>2
<1>15. ASSUME NEW k \in above PROVE k <= e(h) - 1
  <2>1. k \in DOMAIN w /\ k \in Nat
    <3>1. e(i) \in 1 .. e(n)
      BY <1>2, <1>a
    <3> QED BY <1>2, <1>12, <3>1
  <2>2. PICK j \in 1 .. n : k = e(j) \/ (j \in hs /\ k = e(j) - 1)
    BY <1>d, <2>1
  <2>3. k # e(j)
    BY <1>b
  <2>4. j \in hs /\ k = e(j) - 1 /\ k <= e(i) /\ e(j) \in Nat
    BY <1>3, <1>11, <1>12, <2>2, <2>3
  <2>5. j <= i
    <3> SUFFICES ASSUME i < j PROVE FALSE
      BY <1>a
    <3>1. e(j) = e(j - 1) + 2 /\ e(j - 1) \in Nat
      BY <1>3, <1>11, <2>4
    <3>2. j - 1 \in 1 .. n /\ i <= j - 1
      BY <1>a
    <3>3. e(i) <= e(j - 1)
      BY <1>13, <1>a, <3>2
    <3> QED BY <1>12, <2>4, <3>1, <3>3
  <2>6. j <= h
    BY <1>8, <2>4, <2>5
  <2>7. e(j) <= e(h)
    BY <1>9, <1>13, <2>6
  <2> QED BY <1>12, <2>4, <2>7
<1>16. Max(above) = e(h) - 1 /\ above # {}
  <2>1. above \in SUBSET (1 .. e(i))
    OBVIOUS
  <2> HIDE DEF above
  <2>2. Max(above) \in above /\ \A k \in above : k <= Max(above)
    BY <1>12, <1>14, <2>1, MaxIsLast
  <2>3. Max(above) <= e(h) - 1 /\ e(h) - 1 <= Max(above)
    BY <1>14, <1>15, <2>2
  <2>4. Max(above) \in Int /\ e(h) - 1 \in Int
    <3>1. Max(above) \in 1 .. e(i)
      BY <2>1, <2>2
    <3> QED BY <1>12, <3>1
  <2> QED BY <1>14, <2>3, <2>4
<1> QED BY <1>c, <1>5, <1>9, <1>10, <1>16 DEF w, e, hs

-----------------------------------------------------------------------------
(* Types of what is read and written.                                      *)
ItemSet == [section : Sections, key : Keys, value : Values]

(* What a line of a file is.                                               *)
LEMMA LineTypes ==
    /\ \A k \in Keys, v \in Values : Item(k, v) \in Lines
    /\ \A s \in Sections : Header(s) \in Lines
    /\ \A l \in Lines : /\ l.kind \in {"header", "loose", "item"}
                        /\ l.kind \in {"header", "loose"} => l.section \in Sections
                        /\ l.key # NONE => l.kind = "item"
                        /\ l.kind = "item" => l.key \in Keys /\ l.value \in Values
<1>1. \A k \in Keys, v \in Values : Item(k, v) \in Lines
  BY DEF Item, Lines
<1>2. \A s \in Sections : Header(s) \in Lines
  BY DEF Header, Lines
<1>3. ASSUME NEW l \in Lines
      PROVE  /\ l.kind \in {"header", "loose", "item"}
             /\ l.kind \in {"header", "loose"} => l.section \in Sections
             /\ l.key # NONE => l.kind = "item"
             /\ l.kind = "item" => l.key \in Keys /\ l.value \in Values
  BY DEF Lines
<1> QED BY <1>1, <1>2, <1>3

(* A file written has lines; none of them is a loose header.               *)
LEMMA WrittenTypes ==
    ASSUME NEW list \in Seq(ItemSet)
    PROVE  /\ Written(list) \in Seq(Lines)
           /\ \A k \in DOMAIN Written(list) : Written(list)[k].kind # "loose"
<1> DEFINE w == Written(list)
           n == Len(list)
           hs == Changes(list)
           e(j) == Ends(hs, j)
<1>1. hs \in SUBSET DOMAIN list /\ w = WrittenWith(list, hs)
  BY DEF Written, Changes
<1>2. /\ n \in Nat /\ DOMAIN list = 1 .. n
      /\ DOMAIN w = 1 .. e(n) /\ e(n) \in Nat
      /\ w = [k \in 1 .. e(n) |-> w[k]]
      /\ \A j \in 1 .. n : e(j) \in DOMAIN w /\ w[e(j)] = Item(list[j].key, list[j].value)
      /\ \A j \in hs : e(j) - 1 \in DOMAIN w /\ w[e(j) - 1] = Header(list[j].section)
      /\ \A k \in DOMAIN w : \E j \in 1 .. n : k = e(j) \/ (j \in hs /\ k = e(j) - 1)
  <2> HIDE DEF w, hs, e
  <2>1. w = WrittenWith(list, hs) /\ hs \in SUBSET DOMAIN list
    BY <1>1
  <2> QED BY <2>1, WrittenLines DEF e
<1>3. \A j \in 1 .. n : /\ list[j].section \in Sections /\ list[j].key \in Keys
                        /\ list[j].value \in Values
  <2> SUFFICES ASSUME NEW j \in 1 .. n
               PROVE  /\ list[j].section \in Sections /\ list[j].key \in Keys
                      /\ list[j].value \in Values
    OBVIOUS
  <2>1. list[j] \in ItemSet
    OBVIOUS
  <2> QED BY <2>1 DEF ItemSet
<1> HIDE DEF w, n, hs, e
<1>4. ASSUME NEW k \in DOMAIN w PROVE w[k] \in Lines /\ w[k].kind # "loose"
  <2>1. PICK j \in 1 .. n : k = e(j) \/ (j \in hs /\ k = e(j) - 1)
    BY <1>2
  <2>2. CASE k = e(j)
    <3>1. w[k] = Item(list[j].key, list[j].value)
      BY <1>2, <2>2
    <3>2. Item(list[j].key, list[j].value) \in Lines /\ Item(list[j].key, list[j].value).kind = "item"
      BY <1>3, LineTypes, LineParts
    <3> QED BY <3>1, <3>2
  <2>3. CASE j \in hs /\ k = e(j) - 1
    <3>1. w[k] = Header(list[j].section)
      BY <1>2, <2>3
    <3>2. Header(list[j].section) \in Lines /\ Header(list[j].section).kind = "header"
      BY <1>3, LineTypes, LineParts
    <3> QED BY <3>1, <3>2
  <2> QED BY <2>1, <2>2, <2>3
<1>5. w \in [1 .. e(n) -> Lines]
  BY <1>2, <1>4
<1>6. w \in Seq(Lines)
  BY <1>2, <1>5
<1> QED BY <1>4, <1>6 DEF w

(* The section of a line is one that was named, or none.                   *)
LEMMA SectionTypes ==
    ASSUME NEW lines \in Seq(Lines), NEW i \in DOMAIN lines,
           NEW kinds \in SUBSET {"header", "loose"}
    PROVE  SectionAt(lines, i, kinds) \in Sections \union {NONE}
<1> DEFINE heads == {j \in 1 .. i : lines[j].kind \in kinds}
<1>1. i \in Nat /\ \A j \in 1 .. i : lines[j] \in Lines
  OBVIOUS
<1>2. SectionAt(lines, i, kinds) = IF heads = {} THEN NONE ELSE lines[Max(heads)].section
  BY DEF SectionAt
<1>3. ASSUME heads # {} PROVE lines[Max(heads)].section \in Sections
  <2>1. heads \in SUBSET (1 .. i)
    OBVIOUS
  <2>2. \A j \in heads : lines[j] \in Lines /\ lines[j].kind \in {"header", "loose"}
    BY <1>1
  <2> HIDE DEF heads
  <2>3. Max(heads) \in heads
    BY <1>1, <1>3, <2>1, MaxIsLast
  <2> QED BY <2>2, <2>3, LineTypes
<1> QED BY <1>2, <1>3

(* The items are items, and their places are places in the file.           *)
LEMMA ItemsTypes ==
    ASSUME NEW lines \in Seq(Lines)
    PROVE  LET L == Listed(lines)
           IN  /\ Items(lines) \in Seq(ItemSet)
               /\ L \in SUBSET (1 .. Len(lines)) /\ Len(lines) \in Nat
               /\ Cardinality(L) \in Nat /\ DOMAIN Items(lines) = 1 .. Cardinality(L)
               /\ \A n \in 1 .. Cardinality(L) :
                     Items(lines)[n] = [section |-> SectionAt(lines, Nth(L, n), {"header"}),
                                        key |-> lines[Nth(L, n)].key,
                                        value |-> lines[Nth(L, n)].value]
<1> DEFINE L == Listed(lines)
           c == Cardinality(L)
           it(n) == [section |-> SectionAt(lines, Nth(L, n), {"header"}),
                     key |-> lines[Nth(L, n)].key, value |-> lines[Nth(L, n)].value]
<1>1. Len(lines) \in Nat /\ L \in SUBSET (1 .. Len(lines)) /\ DOMAIN lines = 1 .. Len(lines)
  BY DEF Listed
<1>2. \A i \in L : /\ i \in DOMAIN lines /\ lines[i] \in Lines
                   /\ lines[i].key # NONE /\ SectionAt(lines, i, {"header"}) # NONE
  BY DEF Listed
<1>3. Items(lines) = [n \in 1 .. c |-> it(n)]
  BY DEF Items
<1> HIDE DEF L
<1>4. c \in Nat /\ \A n \in 1 .. c : Nth(L, n) \in L
  BY <1>1, NthPlace
<1>5. ASSUME NEW i \in L
      PROVE  /\ SectionAt(lines, i, {"header"}) \in Sections
             /\ lines[i].key \in Keys /\ lines[i].value \in Values
  <2>1. i \in DOMAIN lines /\ {"header"} \in SUBSET {"header", "loose"}
    BY <1>2
  <2>2. SectionAt(lines, i, {"header"}) \in Sections \union {NONE}
    BY <2>1, SectionTypes
  <2>3. lines[i].key \in Keys /\ lines[i].value \in Values
    BY <1>2, LineTypes
  <2> QED BY <1>2, <2>2, <2>3
<1>6. \A n \in 1 .. c : it(n) \in ItemSet
  BY <1>4, <1>5 DEF ItemSet
<1> HIDE DEF it
<1>7. Items(lines) \in [1 .. c -> ItemSet]
  BY <1>3, <1>6
<1>8. Items(lines) \in Seq(ItemSet) /\ DOMAIN Items(lines) = 1 .. c
  BY <1>4, <1>7
<1>9. \A n \in 1 .. c : Items(lines)[n] = it(n)
  BY <1>3
<1> QED BY <1>1, <1>4, <1>8, <1>9 DEF L, it

-----------------------------------------------------------------------------
(* config_manager_load finds in a file what config_manager_save wrote.     *)
LEMMA ReadBack ==
    ASSUME NEW list \in Seq(ItemSet)
    PROVE  Items(Written(list)) = list
<1> DEFINE w == Written(list)
           n == Len(list)
           hs == Changes(list)
           e(j) == Ends(hs, j)
           L == Listed(w)
<1>1. hs \in SUBSET DOMAIN list /\ w = WrittenWith(list, hs)
  BY DEF Written, Changes
<1>2. /\ n \in Nat /\ DOMAIN list = 1 .. n
      /\ DOMAIN w = 1 .. e(n) /\ e(n) \in Nat
      /\ \A j \in 1 .. n : e(j) \in DOMAIN w /\ w[e(j)] = Item(list[j].key, list[j].value)
      /\ \A j \in hs : e(j) - 1 \in DOMAIN w /\ w[e(j) - 1] = Header(list[j].section)
      /\ \A k \in DOMAIN w : \E j \in 1 .. n : k = e(j) \/ (j \in hs /\ k = e(j) - 1)
  <2> HIDE DEF w, hs, e
  <2>1. w = WrittenWith(list, hs) /\ hs \in SUBSET DOMAIN list
    BY <1>1
  <2> QED BY <2>1, WrittenLines DEF e
<1>3. /\ \A j \in 0 .. n : e(j) \in Nat
      /\ \A j, k \in 0 .. n : j < k => e(j) < e(k)
      /\ e(0) = 0
  <2> HIDE DEF hs
  <2>1. n \in Nat /\ hs \in SUBSET (1 .. n)
    BY <1>1, <1>2
  <2> QED BY <2>1, EndsGrow
<1>4. w \in Seq(Lines)
  BY WrittenTypes
<1>5. \A j \in 1 .. n : list[j] \in ItemSet
  BY <1>2
<1>6. \A j \in 1 .. n : SectionAt(w, e(j), {"header"}) = list[j].section
  <2> SUFFICES ASSUME NEW j \in 1 .. n
               PROVE  SectionAt(w, e(j), {"header"}) = list[j].section
    OBVIOUS
  <2>1. j \in DOMAIN list /\ "header" \in {"header"} /\ "item" \notin {"header"}
    BY <1>2
  <2> QED BY <2>1, SectionWritten
<1>7. /\ Items(w) \in Seq(ItemSet)
      /\ L \in SUBSET (1 .. Len(w)) /\ Len(w) \in Nat
      /\ Cardinality(L) \in Nat /\ DOMAIN Items(w) = 1 .. Cardinality(L)
      /\ \A m \in 1 .. Cardinality(L) :
            Items(w)[m] = [section |-> SectionAt(w, Nth(L, m), {"header"}),
                           key |-> w[Nth(L, m)].key, value |-> w[Nth(L, m)].value]
  <2> HIDE DEF w
  <2> QED BY <1>4, ItemsTypes
<1>8. L = {k \in DOMAIN w : w[k].key # NONE /\ SectionAt(w, k, {"header"}) # NONE}
  BY DEF Listed
<1>n. n \in Nat /\ (\A j \in 1 .. n : j - 1 \in 0 .. n /\ j \in 0 .. n) /\ n \in 0 .. n
  <2> HIDE DEF n
  <2> QED BY <1>2
<1> HIDE DEF w, hs, e, n, L
<1>9. \A j \in 1 .. n : /\ list[j].section \in Sections /\ list[j].key \in Keys
                        /\ list[j].value \in Values
  BY <1>5 DEF ItemSet
<1>10. NONE \notin Sections /\ NONE \notin Keys
  BY SettingsAssumption
<1>11. \A j \in 1 .. n : /\ e(j) \in L /\ w[e(j)].key = list[j].key
                         /\ w[e(j)].value = list[j].value
  <2> SUFFICES ASSUME NEW j \in 1 .. n
               PROVE  /\ e(j) \in L /\ w[e(j)].key = list[j].key
                      /\ w[e(j)].value = list[j].value
    OBVIOUS
  <2>1. w[e(j)] = Item(list[j].key, list[j].value) /\ e(j) \in DOMAIN w
    BY <1>2
  <2>2. /\ Item(list[j].key, list[j].value).key = list[j].key
        /\ Item(list[j].key, list[j].value).value = list[j].value
    BY LineParts
  <2>3. w[e(j)].key # NONE /\ SectionAt(w, e(j), {"header"}) # NONE
    BY <1>6, <1>9, <1>10, <2>1, <2>2
  <2> QED BY <1>8, <2>1, <2>2, <2>3
<1>12. \A k \in L : \E j \in 1 .. n : k = e(j)
  <2> SUFFICES ASSUME NEW k \in L PROVE \E j \in 1 .. n : k = e(j)
    OBVIOUS
  <2>1. k \in DOMAIN w /\ w[k].key # NONE
    BY <1>8
  <2>2. PICK j \in 1 .. n : k = e(j) \/ (j \in hs /\ k = e(j) - 1)
    BY <1>2, <2>1
  <2>3. ASSUME j \in hs, k = e(j) - 1 PROVE FALSE
    <3>1. w[k] = Header(list[j].section)
      BY <1>2, <2>3
    <3>2. Header(list[j].section).key = NONE
      BY LineParts
    <3> QED BY <2>1, <3>1, <3>2
  <2> QED BY <2>2, <2>3
<1>13. \A i, j \in 1 .. n : (e(i) = e(j) => i = j) /\ (i < j <=> e(i) < e(j))
  <2> SUFFICES ASSUME NEW i \in 1 .. n, NEW j \in 1 .. n
               PROVE  (e(i) = e(j) => i = j) /\ (i < j <=> e(i) < e(j))
    OBVIOUS
  <2>1. i \in 0 .. n /\ j \in 0 .. n /\ e(i) \in Nat /\ e(j) \in Nat /\ i \in Nat /\ j \in Nat
    BY <1>3, <1>n
  <2>2. (i < j => e(i) < e(j)) /\ (j < i => e(j) < e(i))
    BY <1>3, <2>1
  <2> QED BY <2>1, <2>2
<1> DEFINE m == Len(w)
           u(j) == Upto(L, j)
<1>14. /\ m \in Nat /\ L \in SUBSET (1 .. m) /\ DOMAIN w = 1 .. m /\ m = e(n)
  <2>1. DOMAIN w = 1 .. m
    BY <1>4
  <2>2. m \in Nat /\ e(n) \in Nat
    BY <1>2, <1>7
  <2> HIDE DEF m
  <2>3. m = e(n)
    BY <1>2, <2>1, <2>2
  <2> QED BY <1>7, <2>1, <2>2, <2>3 DEF m
<1> HIDE DEF m
<1>15. /\ \A k \in 0 .. m : u(k) \in Nat
       /\ u(0) = 0 /\ u(m) = Cardinality(L)
       /\ \A k \in 1 .. m : u(k) = IF k \in L THEN u(k - 1) + 1 ELSE u(k - 1)
  BY <1>14, Counting
<1> HIDE DEF u
<1>m. \A j \in 1 .. n : e(j) \in 1 .. m /\ e(j) \in Nat
  BY <1>2, <1>14
<1>16. ASSUME NEW a \in 0 .. m, NEW b \in 0 .. m, a <= b,
              \A k \in L : ~(a < k /\ k <= b)
       PROVE  u(b) = u(a)
  <2> DEFINE More == {k \in a .. b : u(k) # u(a)}
  <2>1. SUFFICES ASSUME More # {} PROVE FALSE
    BY <1>16
  <2>2. More \in SUBSET Nat
    OBVIOUS
  <2>3. PICK k \in More : \A j \in More : k <= j
    <3> HIDE DEF More
    <3> QED BY <2>1, <2>2, LeastOf
  <2>4. k \in a .. b /\ u(k) # u(a)
    OBVIOUS
  <2>5. k # a /\ k \in Nat
    BY <2>4
  <2>6. k - 1 \in a .. b /\ ~(k <= k - 1) /\ k \in 1 .. m /\ a < k /\ k <= b
    BY <1>14, <2>4, <2>5
  <2>7. u(k - 1) = u(a)
    BY <2>3, <2>6
  <2>8. k \notin L
    BY <1>16, <2>6
  <2> QED BY <1>15, <2>4, <2>6, <2>7, <2>8
<1>17. ASSUME NEW j \in 1 .. n PROVE u(e(j)) = j
  <2> DEFINE Wrong == {i \in 1 .. n : u(e(i)) # i}
  <2>1. SUFFICES ASSUME Wrong # {} PROVE FALSE
    OBVIOUS
  <2>2. Wrong \in SUBSET Nat
    OBVIOUS
  <2>3. PICK i \in Wrong : \A k \in Wrong : i <= k
    <3> HIDE DEF Wrong
    <3> QED BY <2>1, <2>2, LeastOf
  <2>4. i \in 1 .. n /\ u(e(i)) # i
    OBVIOUS
  <2>5. i - 1 \in 0 .. n /\ i \in 0 .. n /\ i - 1 < i
    BY <1>n, <2>4
  <2>6. u(e(i - 1)) = i - 1
    <3>1. CASE i = 1
      BY <1>3, <1>15, <3>1
    <3>2. CASE i # 1
      <4>1. i - 1 \in 1 .. n /\ ~(i <= i - 1)
        BY <1>n, <2>4, <3>2
      <4> QED BY <2>3, <4>1
    <3> QED BY <3>1, <3>2
  <2>7. e(i - 1) \in Nat /\ e(i) \in Nat /\ e(i - 1) < e(i) /\ e(i) \in 1 .. m
    BY <1>3, <1>m, <2>4, <2>5
  <2>8. e(i - 1) \in 0 .. m /\ e(i) - 1 \in 0 .. m /\ e(i - 1) <= e(i) - 1
    BY <1>14, <2>7
  <2>9. ASSUME NEW k \in L, e(i - 1) < k, k <= e(i) - 1 PROVE FALSE
    <3>1. PICK o \in 1 .. n : k = e(o)
      BY <1>12
    <3>2. e(o) \in Nat /\ e(o) < e(i) /\ e(i - 1) < e(o)
      BY <1>m, <2>7, <2>9, <3>1
    <3>3. o < i
      BY <1>13, <2>4, <3>2
    <3>4. o = i - 1 \/ o < i - 1
      BY <2>4, <3>3
    <3>5. o \in 0 .. n
      BY <1>n
    <3> QED BY <1>3, <2>5, <2>7, <3>2, <3>4, <3>5
  <2>10. u(e(i) - 1) = u(e(i - 1))
    BY <1>16, <2>8, <2>9
  <2>11. u(e(i)) = u(e(i) - 1) + 1
    BY <1>11, <1>15, <2>4, <2>7
  <2> QED BY <2>4, <2>6, <2>10, <2>11
<1>18. Cardinality(L) = n
  <2>1. CASE n = 0
    <3>1. m = 0
      BY <1>3, <1>14, <2>1
    <3> QED BY <1>15, <2>1, <3>1
  <2>2. CASE n # 0
    <3>1. n \in 1 .. n
      BY <1>n, <2>2
    <3> QED BY <1>14, <1>15, <1>17, <3>1
  <2> QED BY <2>1, <2>2
<1>19. \A j \in 1 .. n : Nth(L, j) = e(j)
  <2> SUFFICES ASSUME NEW j \in 1 .. n PROVE Nth(L, j) = e(j)
    OBVIOUS
  <2>1. e(j) \in L /\ Upto(L, e(j)) = j
    BY <1>11, <1>17 DEF u
  <2>2. Nth(L, Upto(L, e(j))) = e(j)
    BY <1>14, <2>1, NthPlace
  <2> QED BY <2>1, <2>2
<1>20. \A j \in 1 .. n : Items(w)[j] = list[j]
  <2> SUFFICES ASSUME NEW j \in 1 .. n PROVE Items(w)[j] = list[j]
    OBVIOUS
  <2>1. Items(w)[j] = [section |-> SectionAt(w, e(j), {"header"}),
                       key |-> w[e(j)].key, value |-> w[e(j)].value]
    BY <1>7, <1>18, <1>19
  <2>2. Items(w)[j] = [section |-> list[j].section, key |-> list[j].key,
                       value |-> list[j].value]
    BY <1>6, <1>11, <2>1
  <2>3. list[j] = [section |-> list[j].section, key |-> list[j].key,
                   value |-> list[j].value]
    BY <1>5 DEF ItemSet
  <2> QED BY <2>2, <2>3
<1>21. Len(Items(w)) = n /\ Items(w) \in Seq(ItemSet) /\ list \in Seq(ItemSet) /\ Len(list) = n
  <2>1. DOMAIN Items(w) = 1 .. n
    BY <1>7, <1>18
  <2> QED BY <1>7, <1>n, <2>1 DEF n
<1>22. Items(w) = list
  BY <1>20, <1>21, SeqEqual
<1> QED BY <1>22 DEF w

-----------------------------------------------------------------------------
(* What the parser reads is made of values.                                *)
LEMMA FieldLines ==
    ASSUME NEW lines \in Seq(Lines), NEW f \in Fields
    PROVE  /\ Len(lines) \in Nat /\ DOMAIN lines = 1 .. Len(lines)
           /\ Of(lines, f) \in SUBSET (1 .. Len(lines))
           /\ \A i \in Of(lines, f) : lines[i].value \in Values
<1>1. Len(lines) \in Nat /\ DOMAIN lines = 1 .. Len(lines)
  OBVIOUS
<1>2. Of(lines, f) \in SUBSET (1 .. Len(lines))
  BY DEF Of
<1>3. ASSUME NEW i \in Of(lines, f) PROVE lines[i].value \in Values
  <2>1. lines[i] \in Lines /\ lines[i].kind = "item"
    BY DEF Of
  <2> QED BY <2>1, LineTypes
<1> QED BY <1>1, <1>2, <1>3

(* What the parser keeps are values too, and so are the zeros of g_config. *)
LEMMA ReadingTypes ==
    ASSUME NEW f \in Fields
    PROVE  /\ Zero(f) \in Values
           /\ \A v \in Values : Reading(f, v) \in Values
<1>1. Zero(f) \in Values
  BY SettingsAssumption DEF Zero
<1>2. Atoi \in [Values -> Values] /\ Kept[f] \in [Values -> Values]
  BY SettingsAssumption
<1>3. \A v \in Values : Atoi[v] \in Values /\ Kept[f][v] \in Values
  BY <1>2
<1> QED BY <1>1, <1>3 DEF Reading

(* The configuration that is read has a value for every field.             *)
LEMMA ParsedTypes ==
    ASSUME NEW lines \in Seq(Lines)
    PROVE  Parsed(lines) \in [Fields -> Values]
<1> DEFINE field(f) == IF Of(lines, f) = {} THEN Zero(f)
                       ELSE Reading(f, lines[Max(Of(lines, f))].value)
<1>1. Parsed(lines) = [f \in Fields |-> field(f)]
  BY DEF Parsed
<1>2. ASSUME NEW f \in Fields PROVE field(f) \in Values
  <2>1. CASE Of(lines, f) = {}
    BY <2>1, ReadingTypes
  <2>2. CASE Of(lines, f) # {}
    <3>1. Max(Of(lines, f)) \in Of(lines, f)
      BY <2>2, FieldLines, MaxIsLast
    <3>2. lines[Max(Of(lines, f))].value \in Values
      BY <3>1, FieldLines
    <3> QED BY <2>2, <3>2, ReadingTypes
  <2> QED BY <2>1, <2>2
<1> HIDE DEF field
<1> QED BY <1>1, <1>2

(* A file that was cut has lines, too.                                     *)
LEMMA CutTypes ==
    ASSUME NEW lines \in Seq(Lines), NEW cut \in Cuts(lines)
    PROVE  cut \in Seq(Lines)
<1> DEFINE front(n) == SubSeq(lines, 1, n)
<1>1. Len(lines) \in Nat /\ DOMAIN lines = 1 .. Len(lines)
  OBVIOUS
<1>2. \A i \in 1 .. Len(lines) : lines[i] \in Lines
  OBVIOUS
<1>3. ASSUME NEW n \in 0 .. Len(lines)
      PROVE  /\ front(n) \in Seq(Lines) /\ Len(front(n)) = n
             /\ \A i \in 1 .. n : front(n)[i] = lines[i]
  <2>1. 1 \in Int /\ n \in Int /\ n \in Nat /\ \A i \in 1 .. n : lines[i] \in Lines
    BY <1>1, <1>2
  <2>2. /\ front(n) \in Seq(Lines)
        /\ Len(front(n)) = IF 1 <= n THEN n - 1 + 1 ELSE 0
        /\ \A i \in 1 .. n - 1 + 1 : front(n)[i] = lines[1 + i - 1]
    BY <2>1, SubSeqProperties DEF front
  <2>3. Len(front(n)) = n
    BY <2>1, <2>2
  <2>4. ASSUME NEW i \in 1 .. n PROVE front(n)[i] = lines[i]
    <3>1. i \in 1 .. n - 1 + 1 /\ 1 + i - 1 = i
      BY <2>1
    <3> QED BY <2>2, <3>1
  <2> QED BY <2>2, <2>3, <2>4
<1>4. \/ \E n \in 0 .. Len(lines) - 1 : cut = front(n)
      \/ \E n \in DOMAIN lines : /\ lines[n].kind = "item" /\ cut \in CutIn(lines, n)
  BY DEF Cuts
<1>a. ASSUME NEW n, cut \in CutIn(lines, n)
      PROVE  \E v \in Fragments[lines[n].value] : cut = [front(n) EXCEPT ![n].value = v]
  BY <1>a DEF CutIn
<1> HIDE DEF front
<1>5. CASE \E n \in 0 .. Len(lines) - 1 : cut = front(n)
  BY <1>1, <1>3, <1>5
<1>6. ASSUME NEW n \in DOMAIN lines, lines[n].kind = "item", cut \in CutIn(lines, n)
      PROVE  cut \in Seq(Lines)
  <2>1. n \in 0 .. Len(lines) /\ n \in 1 .. n
    BY <1>1
  <2>2. front(n) \in Seq(Lines) /\ Len(front(n)) = n /\ front(n)[n] = lines[n]
    BY <1>3, <2>1
  <2>c. lines[n] \in Lines /\ lines[n].kind = "item"
    BY <1>1, <1>2, <1>6
  <2>d. lines[n].value \in Values
    BY <2>c, LineTypes
  <2>e. PICK v \in Fragments[lines[n].value] : cut = [front(n) EXCEPT ![n].value = v]
    BY <1>a, <1>6
  <2>f. v \in Values
    BY <2>d, SettingsAssumption
  <2>4. [lines[n] EXCEPT !.value = v] \in Lines
    BY <2>c, <2>f DEF Lines
  <2>b. cut = [front(n) EXCEPT ![n] = [front(n)[n] EXCEPT !.value = v]]
    BY <2>e
  <2>5. cut = [front(n) EXCEPT ![n] = [lines[n] EXCEPT !.value = v]]
    BY <2>2, <2>b
  <2> DEFINE last == [lines[n] EXCEPT !.value = v]
  <2> HIDE DEF last
  <2>6. last \in Lines /\ cut = [front(n) EXCEPT ![n] = last]
    BY <2>4, <2>5 DEF last
  <2>7. n \in Nat /\ DOMAIN front(n) = 1 .. n /\ \A i \in 1 .. n : front(n)[i] \in Lines
    BY <2>1, <2>2
  <2>8. front(n) \in [1 .. n -> Lines]
    BY <2>2, <2>7
  <2>9. cut \in [1 .. n -> Lines]
    BY <2>6, <2>8
  <2> QED BY <2>7, <2>9
<1> QED BY <1>4, <1>5, <1>6

-----------------------------------------------------------------------------
(* An item of a field.                                                     *)
SameField(it, f) == it.section = f[1] /\ it.key = f[2]
ItemsOf(list, f) == {n \in DOMAIN list : SameField(list[n], f)}

(* Both readers see the same of a file without loose headers: the last     *)
(* item of a field is what the parser reads, and a field with one line has *)
(* one item.                                                               *)
LEMMA ParsedByItems ==
    ASSUME NEW lines \in Seq(Lines), \A k \in DOMAIN lines : lines[k].kind # "loose",
           NEW f \in Fields
    PROVE  LET P == ItemsOf(Items(lines), f)
           IN  /\ Parsed(lines)[f] = IF P = {} THEN Zero(f)
                                     ELSE Reading(f, Items(lines)[Max(P)].value)
               /\ Cardinality(Of(lines, f)) < 2 => \A a, b \in P : a = b
<1> DEFINE its == Items(lines)
           L == Listed(lines)
           c == Cardinality(L)
           O == Of(lines, f)
           P == ItemsOf(its, f)
           sec(i) == SectionAt(lines, i, {"header"})
<1>1. /\ its \in Seq(ItemSet)
      /\ L \in SUBSET (1 .. Len(lines)) /\ Len(lines) \in Nat
      /\ c \in Nat /\ DOMAIN its = 1 .. c
      /\ \A n \in 1 .. c :
            its[n] = [section |-> sec(Nth(L, n)), key |-> lines[Nth(L, n)].key,
                      value |-> lines[Nth(L, n)].value]
  BY ItemsTypes
<1>2. /\ DOMAIN lines = 1 .. Len(lines)
      /\ \A i \in DOMAIN lines : lines[i] \in Lines
  OBVIOUS
<1>3. \A i \in DOMAIN lines : SectionAt(lines, i, {"header", "loose"}) = sec(i)
  <2> SUFFICES ASSUME NEW i \in DOMAIN lines
               PROVE  SectionAt(lines, i, {"header", "loose"}) = sec(i)
    OBVIOUS
  <2>1. \A j \in 1 .. i : lines[j].kind # "loose"
    BY <1>2
  <2>2. {j \in 1 .. i : lines[j].kind \in {"header", "loose"}}
        = {j \in 1 .. i : lines[j].kind \in {"header"}}
    BY <2>1
  <2> QED BY <2>2 DEF SectionAt
<1>4. O = {i \in DOMAIN lines : /\ lines[i].kind = "item" /\ lines[i].key = f[2]
                                /\ sec(i) = f[1]}
  BY <1>3 DEF Of
<1>5. L = {i \in DOMAIN lines : lines[i].key # NONE /\ sec(i) # NONE}
  BY DEF Listed
<1>6. f[1] # NONE /\ f[2] # NONE
  BY SettingsAssumption DEF Sections, Keys
<1>7. P = {n \in DOMAIN its : its[n].section = f[1] /\ its[n].key = f[2]}
  BY DEF ItemsOf, SameField
<1>8. Parsed(lines)[f] = IF O = {} THEN Zero(f) ELSE Reading(f, lines[Max(O)].value)
  BY DEF Parsed
<1> DEFINE place(n) == Nth(L, n)
           order(i) == Upto(L, i)
<1>9. /\ \A n \in 1 .. c : place(n) \in L /\ order(place(n)) = n
      /\ \A i \in L : order(i) \in 1 .. c /\ place(order(i)) = i
  BY <1>1, NthPlace
<1>10. \A i, j \in 0 .. Len(lines) : i <= j => order(i) <= order(j)
  BY <1>1, Counting
<1>11. O \in SUBSET (1 .. Len(lines)) /\ P \in SUBSET (1 .. c)
  <2>1. O \in SUBSET (1 .. Len(lines))
    BY FieldLines
  <2> QED BY <1>1, <1>7, <2>1
<1> HIDE DEF its, L, c, O, P, sec, place, order
<1>12. \A n \in 1 .. c : /\ its[n].section = sec(place(n)) /\ its[n].key = lines[place(n)].key
                         /\ its[n].value = lines[place(n)].value
  BY <1>1 DEF place
<1>13. \A i \in DOMAIN lines : lines[i].key # NONE => lines[i].kind = "item"
  BY <1>2, LineTypes
<1>14. \A n \in P : place(n) \in O
  <2> SUFFICES ASSUME NEW n \in P PROVE place(n) \in O
    OBVIOUS
  <2>1. n \in 1 .. c /\ its[n].section = f[1] /\ its[n].key = f[2]
    BY <1>7, <1>11
  <2>2. place(n) \in DOMAIN lines /\ sec(place(n)) = f[1] /\ lines[place(n)].key = f[2]
    BY <1>5, <1>9, <1>12, <2>1
  <2> QED BY <1>4, <1>6, <1>13, <2>2
<1>15. \A i \in O : i \in L /\ order(i) \in P
  <2> SUFFICES ASSUME NEW i \in O PROVE i \in L /\ order(i) \in P
    OBVIOUS
  <2>1. i \in DOMAIN lines /\ lines[i].key = f[2] /\ sec(i) = f[1]
    BY <1>4
  <2>2. i \in L
    BY <1>5, <1>6, <2>1
  <2>3. order(i) \in 1 .. c /\ place(order(i)) = i
    BY <1>9, <2>2
  <2> QED BY <1>1, <1>7, <1>12, <2>1, <2>2, <2>3
<1>16. O = {} <=> P = {}
  BY <1>14, <1>15
<1>17. ASSUME P # {} PROVE Max(O) = place(Max(P)) /\ Max(P) \in 1 .. c
  <2>1. Max(P) \in P /\ \A n \in P : n <= Max(P)
    BY <1>1, <1>11, <1>17, MaxIsLast
  <2>2. Max(O) \in O /\ \A i \in O : i <= Max(O)
    BY <1>1, <1>11, <1>16, <1>17, MaxIsLast
  <2>3. Max(P) \in 1 .. c /\ place(Max(P)) \in O
    BY <1>11, <1>14, <2>1
  <2>4. order(Max(O)) \in P /\ Max(O) \in L
    BY <1>15, <2>2
  <2>5. order(Max(O)) <= Max(P) /\ place(Max(P)) <= Max(O)
    BY <2>1, <2>2, <2>3, <2>4
  <2>6. place(Max(P)) \in 0 .. Len(lines) /\ Max(O) \in 0 .. Len(lines)
    <3>1. \A i \in O : i \in 0 .. Len(lines)
      BY <1>1, <1>11
    <3> QED BY <2>2, <2>3, <3>1
  <2>7. order(place(Max(P))) = Max(P)
    BY <1>9, <2>3
  <2>8. Max(P) <= order(Max(O))
    BY <1>10, <2>5, <2>6, <2>7
  <2>9. order(Max(O)) \in 1 .. c
    BY <1>11, <2>4
  <2>10. order(Max(O)) = Max(P)
    BY <1>1, <2>3, <2>5, <2>8, <2>9
  <2> QED BY <1>9, <2>3, <2>4, <2>10
<1>18. Parsed(lines)[f] = IF P = {} THEN Zero(f) ELSE Reading(f, its[Max(P)].value)
  BY <1>8, <1>12, <1>16, <1>17
<1>19. ASSUME Cardinality(O) < 2, NEW a \in P, NEW b \in P PROVE a = b
  <2>1. IsFiniteSet(O)
    <3>1. IsFiniteSet(1 .. Len(lines))
      BY <1>1, FS_Interval
    <3> QED BY <1>11, <3>1, FS_Subset
  <2>2. {place(a)} \union {place(b)} \in SUBSET O
    BY <1>14
  <2>3. /\ Cardinality({place(a)} \union {place(b)}) <= Cardinality(O)
        /\ Cardinality(O) \in Nat
    BY <2>1, <2>2, FS_Subset, FS_CardinalityType
  <2>4. IsFiniteSet({place(a)}) /\ Cardinality({place(a)}) = 1
    BY FS_Singleton
  <2>5. ASSUME place(b) \notin {place(a)}
        PROVE  Cardinality({place(a)} \union {place(b)}) = 2
    <3>1. Cardinality({place(a)} \union {place(b)}) = Cardinality({place(a)}) + 1
      BY <2>4, <2>5, FS_AddElement
    <3> QED BY <2>4, <3>1
  <2>6. place(a) = place(b)
    BY <1>19, <2>3, <2>5
  <2>7. a \in 1 .. c /\ b \in 1 .. c
    BY <1>11
  <2> QED BY <1>9, <2>6, <2>7
<1> QED BY <1>18, <1>19 DEF its, O, P

(* What an item says is read from the file written, if its field has one   *)
(* line.                                                                   *)
LEMMA SavedIsRead ==
    ASSUME NEW list \in Seq(ItemSet), NEW f \in Fields, NEW j \in DOMAIN list,
           SameField(list[j], f), Cardinality(Of(Written(list), f)) < 2
    PROVE  Parsed(Written(list))[f] = Reading(f, list[j].value)
<1> DEFINE w == Written(list)
           P == ItemsOf(list, f)
<1>1. w \in Seq(Lines) /\ \A k \in DOMAIN w : w[k].kind # "loose"
  BY WrittenTypes
<1>2. Items(w) = list
  BY ReadBack
<1>3. Cardinality(Of(w, f)) < 2
  OBVIOUS
<1> HIDE DEF w
<1>4. /\ Parsed(w)[f] = IF P = {} THEN Zero(f) ELSE Reading(f, list[Max(P)].value)
      /\ \A a, b \in P : a = b
  BY <1>1, <1>2, <1>3, ParsedByItems
<1>5. j \in P /\ P \in SUBSET (1 .. Len(list)) /\ Len(list) \in Nat
  BY DEF ItemsOf
<1> HIDE DEF P
<1>6. Max(P) \in P
  BY <1>5, MaxIsLast
<1>7. Max(P) = j
  BY <1>4, <1>5, <1>6
<1> QED BY <1>4, <1>5, <1>7 DEF w

-----------------------------------------------------------------------------
(* save_config writes an item for each field, with its value.              *)
LEMMA FieldsWritten ==
    ASSUME NEW c \in [Fields -> Values]
    PROVE  \E list \in Seq(ItemSet) :
              /\ AllFields(c) = Written(list)
              /\ \A f \in Fields : \E j \in DOMAIN list :
                    SameField(list[j], f) /\ list[j].value = c[f]
<1> DEFINE entry(f) == [section |-> f[1], key |-> f[2], value |-> c[f]]
           S == {entry(f) : f \in Fields}
           n == Cardinality(S)
           list == SetToSeq(S)
<1>1. AllFields(c) = Written(list)
  BY DEF AllFields
<1>2. \A f \in Fields : entry(f) \in ItemSet
  BY DEF ItemSet, Sections, Keys
<1>3. list = CHOOSE g \in [1 .. n -> S] : IsInjective(g)
  BY DEF SetToSeq
<1>4. \A f \in Fields : SameField(entry(f), f) /\ entry(f).value = c[f]
  BY DEF SameField
<1> HIDE DEF entry, list
<1>5. IsFiniteSet(S)
  <2> DEFINE map == [f \in Fields |-> entry(f)]
  <2>1. map \in Surjection(Fields, S)
    BY DEF Surjection
  <2> HIDE DEF map, S
  <2>2. IsFiniteSet(Fields)
    BY SettingsAssumption
  <2> QED BY <2>1, <2>2, FS_Surjection
<1>6. S \subseteq ItemSet
  BY <1>2
<1>7. \A f \in Fields : entry(f) \in S
  OBVIOUS
<1> HIDE DEF S
<1>8. n \in Nat /\ ExistsBijection(1 .. n, S)
  BY <1>5, FS_CardinalityType
<1>9. \E g \in [1 .. n -> S] : IsInjective(g)
  BY <1>8 DEF ExistsBijection, Bijection, Injection
<1>10. list \in [1 .. n -> S] /\ IsInjective(list)
  BY <1>3, <1>9
<1>11. list \in Surjection(1 .. n, S)
  <2>1. list \in Injection(1 .. n, S)
    BY <1>10 DEF Injection
  <2>2. Cardinality(1 .. n) = n
    BY <1>8, FS_Interval
  <2> QED BY <1>5, <2>1, <2>2, FS_Injection
<1>12. \A s \in S : \E j \in DOMAIN list : list[j] = s
  BY <1>10, <1>11 DEF Surjection
<1>13. list \in Seq(ItemSet)
  <2>1. list \in [1 .. n -> ItemSet]
    BY <1>6, <1>10
  <2> QED BY <1>8, <2>1
<1>14. \A f \in Fields : \E j \in DOMAIN list : SameField(list[j], f) /\ list[j].value = c[f]
  <2> SUFFICES ASSUME NEW f \in Fields
               PROVE  \E j \in DOMAIN list : SameField(list[j], f) /\ list[j].value = c[f]
    OBVIOUS
  <2>1. PICK j \in DOMAIN list : list[j] = entry(f)
    BY <1>7, <1>12
  <2> QED BY <1>4, <2>1
<1> QED BY <1>1, <1>13, <1>14

(* An empty file has no items.                                             *)
LEMMA NothingListed == <<>> \in Seq(Lines) /\ Items(<<>>) = <<>>
<1>1. <<>> \in Seq(Lines) /\ DOMAIN <<>> = {}
  OBVIOUS
<1>2. Listed(<<>>) = {}
  BY <1>1 DEF Listed
<1>3. Cardinality(Listed(<<>>)) = 0
  BY <1>2, FS_EmptySet
<1>4. Items(<<>>) \in Seq(ItemSet) /\ DOMAIN Items(<<>>) = 1 .. 0
  BY <1>1, <1>3, ItemsTypes
<1>5. Len(Items(<<>>)) = 0
  BY <1>4
<1> QED BY <1>1, <1>4, <1>5

-----------------------------------------------------------------------------
(* The inductive invariant. What was entered is what the first item of its *)
(* field says.                                                             *)
EditedShown ==
    \A f \in Fields : edited[f] # NONE =>
        \E i \in DOMAIN items : SameField(items[i], f) /\ items[i].value = edited[f]

(* The items are those of the file as it was read or written, but for what *)
(* was entered.                                                            *)
FromRead ==
    LET listed == Items(read)
    IN  /\ Len(items) = Len(listed)
        /\ \A i \in DOMAIN items :
              /\ items[i].section = listed[i].section /\ items[i].key = listed[i].key
              /\ \A f \in Fields : SameField(items[i], f) /\ edited[f] = NONE
                                      => items[i].value = listed[i].value

SInv ==
    /\ TypeOK /\ SavedTakesEffect /\ EditedShown /\ FromRead
    /\ ~opened => items = <<>>
    /\ saving => promise = NoValues

(* TypeOK, with the names of the proofs.                                   *)
TypesHold ==
    /\ running \in BOOLEAN /\ opened \in BOOLEAN /\ torn \in BOOLEAN
    /\ modified \in BOOLEAN /\ saving \in BOOLEAN
    /\ file = NoFile \/ file \in Seq(Lines)
    /\ was = NoFile \/ was \in Seq(Lines)
    /\ config \in [Fields -> Values] /\ items \in Seq(ItemSet) /\ read \in Seq(Lines)
    /\ edited \in [Fields -> Values \union {NONE}]
    /\ promise \in [Fields -> Values \union {NONE}]
    /\ saving => running /\ modified
    /\ modified => opened

(* They are the same types.                                                *)
LEMMA Types == (TypeOK <=> TypesHold) /\ (TypeOK' <=> TypesHold')
BY Zenon DEF TypeOK, TypesHold, ItemSet

(* While nothing is promised, the next start may read what it likes.       *)
LEMMA NothingPromised ==
    /\ promise = NoValues => SavedTakesEffect
    /\ promise' = NoValues => SavedTakesEffect'
BY DEF SavedTakesEffect, NoValues

(* When nothing was entered since the items were read, they are those of   *)
(* the file.                                                               *)
LEMMA NothingEdited ==
    /\ edited = NoValues /\ items = Items(read) => EditedShown /\ FromRead
    /\ edited' = NoValues /\ items' = Items(read') => EditedShown' /\ FromRead'
<1>1. edited = NoValues => \A f \in Fields : edited[f] = NONE
  BY DEF NoValues
<1>2. edited' = NoValues => \A f \in Fields : edited'[f] = NONE
  BY DEF NoValues
<1> QED BY <1>1, <1>2 DEF EditedShown, FromRead

(* What the manager has is not touched.                                    *)
LEMMA ManagerKept ==
    ASSUME EditedShown, FromRead, UNCHANGED <<items, edited, read>>
    PROVE  EditedShown' /\ FromRead'
BY DEF EditedShown, FromRead

(* Values of the constants.                                                *)
LEMMA ConstantTypes ==
    /\ NoValues \in [Fields -> Values \union {NONE}] /\ Zeros \in [Fields -> Values]
    /\ Defaults \in [Fields -> Values] /\ Inputs \subseteq Values /\ NONE \notin Values
    /\ Files \union OtherFiles \subseteq Seq(Lines)
<1>1. NoValues \in [Fields -> Values \union {NONE}]
  BY DEF NoValues
<1>2. Zeros \in [Fields -> Values]
  BY ReadingTypes DEF Zeros
<1> QED BY <1>1, <1>2, SettingsAssumption

-----------------------------------------------------------------------------
(* The steps.                                                              *)
LEMMA InitSettings == Init => SInv
<1> SUFFICES ASSUME Init PROVE SInv
  OBVIOUS
<1>1. TypeOK
  <2>1. file = NoFile \/ file \in Seq(Lines)
    BY ConstantTypes DEF Init
  <2>2. items = <<>> /\ read = <<>> /\ <<>> \in Seq(ItemSet) /\ <<>> \in Seq(Lines)
    BY DEF Init
  <2>3. TypesHold
    BY <2>1, <2>2, ConstantTypes DEF Init, TypesHold
  <2> QED BY <2>3, Types
<1>2. EditedShown /\ FromRead
  BY NothingListed, NothingEdited DEF Init
<1>3. SavedTakesEffect
  BY NothingPromised DEF Init
<1> QED BY <1>1, <1>2, <1>3 DEF Init, SInv

(* An edit changes the first item of a field, which exists.                *)
LEMMA FirstExists ==
    ASSUME TypeOK, NEW i \in DOMAIN items
    PROVE  /\ FirstOf(i) \in DOMAIN items
           /\ items[FirstOf(i)].section = items[i].section
           /\ items[FirstOf(i)].key = items[i].key
<1> DEFINE same(j) == items[j].section = items[i].section /\ items[j].key = items[i].key
           P == {j \in DOMAIN items : same(j)}
<1>1. DOMAIN items = 1 .. Len(items) /\ Len(items) \in Nat
  BY DEF TypeOK
<1>2. P \in SUBSET Nat /\ i \in P
  BY <1>1
<1>3. PICK j \in P : \A k \in P : j <= k
  <2> HIDE DEF P
  <2> QED BY <1>2, LeastOf
<1>4. ASSUME NEW k \in 1 .. j - 1 PROVE ~same(k)
  <2>1. j \in 1 .. Len(items)
    BY <1>1
  <2>2. k \in 1 .. Len(items) /\ ~(j <= k)
    BY <1>1, <2>1
  <2> QED BY <1>1, <1>3, <2>2
<1>5. \E m \in DOMAIN items : same(m) /\ \A k \in 1 .. m - 1 : ~same(k)
  BY <1>4
<1>6. FirstOf(i) = CHOOSE m \in DOMAIN items :
          same(m) /\ \A k \in 1 .. m - 1 :
                        items[k].section # items[i].section \/ items[k].key # items[i].key
  BY DEF FirstOf
<1>7. FirstOf(i) \in DOMAIN items /\ same(FirstOf(i))
  BY <1>5, <1>6
<1> QED BY <1>7

(* The edit dialog. *)
LEMMA EditSettings ==
    ASSUME SInv, NEW i \in DOMAIN items, NEW v \in Inputs, Edit(i, v)
    PROVE  SInv'
<1> DEFINE p == FirstOf(i)
           g == <<items[i].section, items[i].key>>
<1>1. TypesHold
  BY Types DEF SInv
<1>2. p \in DOMAIN items /\ items[p].section = items[i].section /\ items[p].key = items[i].key
  BY FirstExists DEF SInv
<1>3. /\ ~saving /\ running /\ modified' = TRUE /\ items' = [items EXCEPT ![p].value = v]
      /\ edited' = [f \in Fields |-> IF f = g THEN v ELSE edited[f]]
      /\ UNCHANGED <<running, file, config, opened, saving, read, was, promise, torn>>
  BY DEF Edit, Ready, histVars
<1>4. v \in Values /\ v # NONE
  BY ConstantTypes
<1>5. \A f \in Fields : f = <<f[1], f[2]>>
  BY SettingsAssumption
<1>6. \A f \in Fields, j \in DOMAIN items : SameField(items[j], f) /\ (j = p \/ j = i) => f = g
  BY <1>2, <1>5 DEF SameField
<1>7. /\ DOMAIN items = 1 .. Len(items) /\ Len(items) \in Nat
      /\ \A j \in DOMAIN items : items[j] \in ItemSet
      /\ items \in [1 .. Len(items) -> ItemSet]
  BY <1>1 DEF TypesHold
<1> DEFINE new == [items[p] EXCEPT !.value = v]
<1>8. /\ new \in ItemSet /\ new.section = items[p].section /\ new.key = items[p].key
      /\ new.value = v
  <2>1. items[p] \in ItemSet
    BY <1>2, <1>7
  <2> QED BY <1>4, <2>1 DEF ItemSet
<1>9. items' = [items EXCEPT ![p] = new]
  BY <1>3
<1> HIDE DEF p, new, g
<1>10. /\ items' \in Seq(ItemSet) /\ DOMAIN items' = DOMAIN items /\ Len(items') = Len(items)
       /\ items'[p] = new /\ \A j \in DOMAIN items : j # p => items'[j] = items[j]
  <2>1. items' \in [1 .. Len(items) -> ItemSet]
    BY <1>7, <1>8, <1>9
  <2> QED BY <1>1, <1>2, <1>7, <1>9, <2>1
<1>11. \A f \in Fields : edited'[f] = IF f = g THEN v ELSE edited[f]
  BY <1>3
<1>12. TypeOK'
  <2>1. edited' \in [Fields -> Values \union {NONE}]
    BY <1>1, <1>3, <1>4 DEF TypesHold
  <2>2. items # <<>>
    BY <1>2
  <2>3. opened
    BY <2>2 DEF SInv
  <2>4. TypesHold'
    BY <1>1, <1>3, <1>10, <2>1, <2>3 DEF TypesHold
  <2> QED BY <2>4, Types
<1>13. EditedShown'
  <2> SUFFICES ASSUME NEW f \in Fields, edited'[f] # NONE
               PROVE  \E j \in DOMAIN items' :
                         SameField(items'[j], f) /\ items'[j].value = edited'[f]
    BY Zenon DEF EditedShown
  <2>1. CASE f = g
    <3>1. f[1] = items[p].section /\ f[2] = items[p].key
      BY <1>2, <2>1 DEF g
    <3>2. SameField(items'[p], f) /\ items'[p].value = edited'[f]
      BY <1>8, <1>10, <1>11, <2>1, <3>1 DEF SameField
    <3> QED BY <1>2, <1>10, <3>2
  <2>2. CASE f # g
    <3>1. edited'[f] = edited[f]
      BY <1>11, <2>2
    <3>2. PICK j \in DOMAIN items : SameField(items[j], f) /\ items[j].value = edited[f]
      BY <3>1 DEF SInv, EditedShown
    <3>3. j # p
      BY <1>6, <2>2, <3>2
    <3> QED BY <1>10, <3>1, <3>2, <3>3
  <2> QED BY <2>1, <2>2
<1>14. FromRead'
  <2> DEFINE listed == Items(read)
  <2>1. /\ Len(items) = Len(listed)
        /\ \A j \in DOMAIN items :
              /\ items[j].section = listed[j].section /\ items[j].key = listed[j].key
              /\ \A f \in Fields : SameField(items[j], f) /\ edited[f] = NONE
                                      => items[j].value = listed[j].value
    BY DEF SInv, FromRead
  <2>2. listed' = listed
    BY <1>3
  <2> HIDE DEF listed
  <2>3. ASSUME NEW j \in DOMAIN items
        PROVE  /\ items'[j].section = listed[j].section /\ items'[j].key = listed[j].key
               /\ \A f \in Fields : SameField(items'[j], f) /\ edited'[f] = NONE
                                       => items'[j].value = listed[j].value
    <3>1. items'[j].section = items[j].section /\ items'[j].key = items[j].key
      BY <1>8, <1>10
    <3>2. ASSUME NEW f \in Fields, SameField(items'[j], f), edited'[f] = NONE
          PROVE  items'[j].value = listed[j].value
      <4>1. f # g /\ edited[f] = NONE
        BY <1>4, <1>11, <3>2
      <4>2. SameField(items[j], f)
        BY <3>1, <3>2 DEF SameField
      <4>3. j # p
        BY <1>6, <4>1, <4>2
      <4> QED BY <1>10, <2>1, <4>1, <4>2, <4>3
    <3> QED BY <2>1, <3>1, <3>2
  <2> QED BY <1>10, <2>1, <2>2, <2>3 DEF FromRead, listed
<1>15. SavedTakesEffect'
  BY <1>3 DEF SInv, SavedTakesEffect
<1>16. (~opened => items = <<>>)' /\ (saving => promise = NoValues)'
  <2>1. items # <<>>
    BY <1>2
  <2> QED BY <1>3, <2>1 DEF SInv
<1> QED BY <1>12, <1>13, <1>14, <1>15, <1>16 DEF SInv

(* The program starts. *)
LEMMA LoadConfigSettings == ASSUME SInv, LoadConfig PROVE SInv'
<1>1. TypesHold
  BY Types DEF SInv
<1>2. /\ ~running /\ running' = TRUE
      /\ UNCHANGED <<file, opened, items, modified, saving, read, edited, was, promise, torn>>
  BY DEF LoadConfig, managerVars, histVars
<1>3. config' \in [Fields -> Values]
  <2>1. PICK f \in IF file = NoFile THEN OtherFiles \union {NoFile} ELSE {file} :
            config' = IF f = NoFile THEN Defaults ELSE Parsed(f)
    BY DEF LoadConfig
  <2>2. CASE f = NoFile
    BY <2>1, <2>2, ConstantTypes
  <2>3. CASE f # NoFile
    <3>1. f \in Seq(Lines)
      BY <1>1, <2>1, <2>3, ConstantTypes DEF TypesHold
    <3> QED BY <2>1, <2>3, <3>1, ParsedTypes
  <2> QED BY <2>2, <2>3
<1>4. TypesHold'
  BY <1>1, <1>2, <1>3 DEF TypesHold
<1>5. EditedShown' /\ FromRead'
  BY <1>2, ManagerKept DEF SInv
<1>6. SavedTakesEffect'
  BY <1>2 DEF SInv, SavedTakesEffect
<1>7. (~opened => items = <<>>)' /\ (saving => promise = NoValues)'
  BY <1>2 DEF SInv
<1> QED BY <1>4, <1>5, <1>6, <1>7, Types DEF SInv

(* The manager reads the file. *)
LEMMA LoadSettings == ASSUME SInv, Load PROVE SInv'
<1>1. TypesHold
  BY Types DEF SInv
<1>2. /\ ~saving /\ file # NoFile /\ opened' = TRUE /\ items' = Items(file)
      /\ modified' = FALSE /\ read' = file /\ edited' = NoValues
      /\ UNCHANGED <<running, file, config, saving, was, promise, torn>>
  BY DEF Load, Ready, histVars
<1>3. file \in Seq(Lines) /\ items' \in Seq(ItemSet)
  <2>1. file \in Seq(Lines)
    BY <1>1, <1>2 DEF TypesHold
  <2> QED BY <1>2, <2>1, ItemsTypes
<1>4. TypesHold'
  BY <1>1, <1>2, <1>3, ConstantTypes DEF TypesHold
<1>5. EditedShown' /\ FromRead'
  BY <1>2, NothingEdited
<1>6. SavedTakesEffect'
  BY <1>2 DEF SInv, SavedTakesEffect
<1>7. (~opened => items = <<>>)' /\ (saving => promise = NoValues)'
  BY <1>2 DEF SInv
<1> QED BY <1>4, <1>5, <1>6, <1>7, Types DEF SInv

(* A save empties the file. *)
LEMMA SaveBeginSettings == ASSUME SInv, SaveBegin PROVE SInv'
<1>1. TypesHold
  BY Types DEF SInv
<1>2. /\ running /\ modified /\ saving' = TRUE /\ file' = <<>> /\ was' = file /\ promise' = NoValues
      /\ UNCHANGED <<running, config, opened, items, modified, read, edited, torn>>
  BY DEF SaveBegin, Ready
<1>3. TypesHold'
  BY <1>1, <1>2, ConstantTypes, NothingListed DEF TypesHold
<1>4. EditedShown' /\ FromRead'
  BY <1>2, ManagerKept DEF SInv
<1>5. SavedTakesEffect'
  BY <1>2, NothingPromised
<1>6. (~opened => items = <<>>)' /\ (saving => promise = NoValues)'
  BY <1>2 DEF SInv
<1> QED BY <1>3, <1>4, <1>5, <1>6, Types DEF SInv

(* The items are written: what they say of a field is what is read.        *)
LEMMA SaveEndSettings == ASSUME SInv, SaveEnd PROVE SInv'
<1>1. TypesHold
  BY Types DEF SInv
<1>2. /\ saving /\ saving' = FALSE /\ modified' = FALSE /\ file' = Written(items)
      /\ read' = Written(items) /\ promise' = edited /\ edited' = NoValues /\ torn' = FALSE
      /\ was' = NoFile /\ UNCHANGED <<running, config, opened, items>>
  BY DEF SaveEnd
<1>3. items \in Seq(ItemSet) /\ Written(items) \in Seq(Lines) /\ Items(Written(items)) = items
  <2>1. items \in Seq(ItemSet)
    BY <1>1 DEF TypesHold
  <2> QED BY <2>1, WrittenTypes, ReadBack
<1>4. TypesHold'
  BY <1>1, <1>2, <1>3, ConstantTypes DEF TypesHold
<1>5. EditedShown' /\ FromRead'
  BY <1>2, <1>3, NothingEdited
<1>6. ASSUME NEW f \in Fields, edited[f] # NONE, Cardinality(Of(Written(items), f)) < 2
      PROVE  Parsed(Written(items))[f] = Reading(f, edited[f])
  <2>1. PICK j \in DOMAIN items : SameField(items[j], f) /\ items[j].value = edited[f]
    BY <1>6 DEF SInv, EditedShown
  <2>2. Parsed(Written(items))[f] = Reading(f, items[j].value)
    BY <1>3, <1>6, <2>1, SavedIsRead
  <2> QED BY <2>1, <2>2
<1>7. SavedTakesEffect'
  <2> SUFFICES ASSUME NEW f \in Fields, edited[f] # NONE, Reading(f, edited[f]) = edited[f],
                      Cardinality(Of(Written(items), f)) < 2
               PROVE  Parsed(Written(items))[f] = edited[f]
    BY <1>2 DEF SavedTakesEffect
  <2> QED BY <1>6
<1>8. (~opened => items = <<>>)' /\ (saving => promise = NoValues)'
  BY <1>2 DEF SInv
<1> QED BY <1>4, <1>5, <1>7, <1>8, Types DEF SInv

(* The disk is full. *)
LEMMA SaveCutSettings == ASSUME SInv, SaveCut PROVE SInv'
<1>1. TypesHold
  BY Types DEF SInv
<1>2. /\ saving /\ saving' = FALSE /\ modified' = FALSE
      /\ file' \in Cuts(Written(items)) /\ torn' = TRUE /\ was' = NoFile
      /\ UNCHANGED <<running, config, opened, items, read, edited, promise>>
  BY DEF SaveCut
<1>3. file' \in Seq(Lines)
  <2>1. Written(items) \in Seq(Lines)
    BY <1>1, WrittenTypes DEF TypesHold
  <2> QED BY <1>2, <2>1, CutTypes
<1>4. TypesHold'
  BY <1>1, <1>2, <1>3 DEF TypesHold
<1>5. EditedShown' /\ FromRead'
  BY <1>2, ManagerKept DEF SInv
<1>6. SavedTakesEffect'
  BY <1>2, NothingPromised DEF SInv
<1>7. (~opened => items = <<>>)' /\ (saving => promise = NoValues)'
  BY <1>2 DEF SInv
<1> QED BY <1>4, <1>5, <1>6, <1>7, Types DEF SInv

(* The whole configuration is written. *)
LEMMA SaveConfigSettings == ASSUME SInv, SaveConfig PROVE SInv'
<1>1. TypesHold
  BY Types DEF SInv
<1>2. /\ ~saving /\ file' = AllFields(config) /\ promise' = config /\ torn' = FALSE
      /\ UNCHANGED <<running, config, opened, items, modified, saving, read, edited, was>>
  BY DEF SaveConfig, Ready, managerVars
<1>3. config \in [Fields -> Values]
  BY <1>1 DEF TypesHold
<1>4. PICK list \in Seq(ItemSet) :
          /\ AllFields(config) = Written(list)
          /\ \A f \in Fields : \E j \in DOMAIN list :
                SameField(list[j], f) /\ list[j].value = config[f]
  BY <1>3, FieldsWritten
<1>5. file' = Written(list) /\ file' \in Seq(Lines)
  <2>1. Written(list) \in Seq(Lines)
    BY WrittenTypes
  <2> QED BY <1>2, <1>4, <2>1
<1>6. TypesHold'
  BY <1>1, <1>2, <1>3, <1>5 DEF TypesHold
<1>7. EditedShown' /\ FromRead'
  BY <1>2, ManagerKept DEF SInv
<1>8. ASSUME NEW f \in Fields, Cardinality(Of(Written(list), f)) < 2
      PROVE  Parsed(Written(list))[f] = Reading(f, config[f])
  <2>1. PICK j \in DOMAIN list : SameField(list[j], f) /\ list[j].value = config[f]
    BY <1>4
  <2>2. Parsed(Written(list))[f] = Reading(f, list[j].value)
    BY <1>8, <2>1, SavedIsRead
  <2> QED BY <2>1, <2>2
<1>9. SavedTakesEffect'
  <2> SUFFICES ASSUME NEW f \in Fields, Reading(f, config[f]) = config[f],
                      Cardinality(Of(Written(list), f)) < 2
               PROVE  Parsed(Written(list))[f] = config[f]
    BY <1>2, <1>5 DEF SavedTakesEffect
  <2> QED BY <1>8
<1>10. (~opened => items = <<>>)' /\ (saving => promise = NoValues)'
  BY <1>2 DEF SInv
<1> QED BY <1>6, <1>7, <1>9, <1>10, Types DEF SInv

(* Another program writes the file. *)
LEMMA ForeignSettings ==
    ASSUME SInv, NEW f \in Files \union {NoFile}, Foreign(f) PROVE SInv'
<1>1. TypesHold
  BY Types DEF SInv
<1>2. /\ ~saving /\ file' = f /\ promise' = NoValues /\ torn' = FALSE
      /\ UNCHANGED <<running, config, opened, items, modified, saving, read, edited, was>>
  BY DEF Foreign, managerVars
<1>3. file' = NoFile \/ file' \in Seq(Lines)
  BY <1>2, ConstantTypes
<1>4. TypesHold'
  BY <1>1, <1>2, <1>3, ConstantTypes DEF TypesHold
<1>5. EditedShown' /\ FromRead'
  BY <1>2, ManagerKept DEF SInv
<1>6. SavedTakesEffect'
  BY <1>2, NothingPromised
<1>7. (~opened => items = <<>>)' /\ (saving => promise = NoValues)'
  BY <1>2 DEF SInv
<1> QED BY <1>4, <1>5, <1>6, <1>7, Types DEF SInv

(* The program ends. *)
LEMMA StopSettings == ASSUME SInv, Stop PROVE SInv'
<1>1. TypesHold
  BY Types DEF SInv
<1>2. /\ running' = FALSE /\ opened' = FALSE /\ items' = <<>> /\ modified' = FALSE
      /\ saving' = FALSE /\ read' = <<>> /\ edited' = NoValues /\ config' = Zeros
      /\ was' = NoFile /\ promise' = promise
      /\ \/ ~saving /\ file' = file /\ torn' = torn
         \/ saving /\ file' \in Cuts(Written(items)) /\ torn' = TRUE
  BY DEF Stop
<1>3. file' = NoFile \/ file' \in Seq(Lines)
  <2>1. Written(items) \in Seq(Lines)
    BY <1>1, WrittenTypes DEF TypesHold
  <2> QED BY <1>1, <1>2, <2>1, CutTypes DEF TypesHold
<1>4. TypesHold'
  <2>1. <<>> \in Seq(ItemSet) /\ <<>> \in Seq(Lines)
    OBVIOUS
  <2>2. torn' \in BOOLEAN
    BY <1>1, <1>2, Zenon DEF TypesHold
  <2> QED BY <1>1, <1>2, <1>3, <2>1, <2>2, ConstantTypes DEF TypesHold
<1>5. EditedShown' /\ FromRead'
  BY <1>2, NothingListed, NothingEdited
<1>6. SavedTakesEffect'
  <2>1. CASE saving
    BY <1>2, <2>1, NothingPromised DEF SInv
  <2>2. CASE ~saving
    BY <1>2, <2>2 DEF SInv, SavedTakesEffect
  <2> QED BY <2>1, <2>2
<1>7. (~opened => items = <<>>)' /\ (saving => promise = NoValues)'
  BY <1>2
<1> QED BY <1>4, <1>5, <1>6, <1>7, Types DEF SInv

(* Every step.                                                             *)
LEMMA SettingsStep == SInv /\ [Next]_vars => SInv'
<1> SUFFICES ASSUME SInv, [Next]_vars PROVE SInv'
  OBVIOUS
<1>1. CASE LoadConfig
  BY <1>1, LoadConfigSettings
<1>2. CASE Load
  BY <1>2, LoadSettings
<1>3. CASE SaveBegin
  BY <1>3, SaveBeginSettings
<1>4. CASE SaveEnd
  BY <1>4, SaveEndSettings
<1>5. CASE SaveCut
  BY <1>5, SaveCutSettings
<1>6. CASE SaveConfig
  BY <1>6, SaveConfigSettings
<1>7. CASE Stop
  BY <1>7, StopSettings
<1>8. CASE \E i \in DOMAIN items, v \in Inputs : Edit(i, v)
  BY <1>8, EditSettings
<1>9. CASE \E f \in Files \union {NoFile} : Foreign(f)
  BY <1>9, ForeignSettings
<1>10. CASE UNCHANGED vars
  <2>1. UNCHANGED <<running, file, config, opened, items, modified, saving, read, edited,
                    was, promise, torn>>
    BY <1>10 DEF vars, managerVars, histVars
  <2>2. TypesHold'
    <3>1. TypesHold
      BY Types DEF SInv
    <3> QED BY <2>1, <3>1 DEF TypesHold
  <2>3. EditedShown' /\ FromRead'
    BY <2>1, ManagerKept DEF SInv
  <2>4. SavedTakesEffect'
    BY <2>1 DEF SInv, SavedTakesEffect
  <2>5. (~opened => items = <<>>)' /\ (saving => promise = NoValues)'
    BY <2>1 DEF SInv
  <2> QED BY <2>2, <2>3, <2>4, <2>5, Types DEF SInv
<1> QED BY <1>1, <1>2, <1>3, <1>4, <1>5, <1>6, <1>7, <1>8, <1>9, <1>10 DEF Next

(* The invariant holds always.                                             *)
LEMMA SettingsInvariant == Spec => []SInv
<1> QED BY InitSettings, SettingsStep, PTL DEF Spec

-----------------------------------------------------------------------------
(* The types of the configuration, its file and the manager's items        *)
(* (config_parser.c, config_manager.c) hold always.                        *)
THEOREM SettingsTypes == Spec => []TypeOK
<1>1. SInv => TypeOK
  BY DEF SInv
<1> QED BY <1>1, SettingsInvariant, PTL

(* What the user enters and saves (config_manager_set_value, ..._save) is  *)
(* what load_config reads at the next start, for any file, fields and      *)
(* values: until another writer comes, or a writing that is cut, for the   *)
(* values the field can hold and the fields that do not have two lines.    *)
THEOREM SavedIsReadNext == Spec => []SavedTakesEffect
<1>1. SInv => SavedTakesEffect
  BY DEF SInv
<1> QED BY <1>1, SettingsInvariant, PTL

(* A complete save changes what the parser reads in no field that was not  *)
(* edited and that no other program changed since the manager read the     *)
(* file, in files without loose headers, however many lines a field has.   *)
THEOREM OthersKept == Spec => SaveKeepsTheOthers
<1> DEFINE Plain == \A i \in DOMAIN read : read[i].kind # "loose"
           Same  == \A f \in Fields : was # NoFile /\ edited[f] = NONE
                                         /\ Parsed(was)[f] = Parsed(read)[f]
                                         => Parsed(file')[f] = Parsed(was)[f]
<1>1. ASSUME SInv, SaveEnd, Plain PROVE Same
  <2>1. TypesHold
    BY <1>1, Types DEF SInv
  <2>2. /\ items \in Seq(ItemSet) /\ read \in Seq(Lines) /\ file' = Written(items)
        /\ Items(read) \in Seq(ItemSet)
    BY <1>1, <2>1, ItemsTypes DEF TypesHold, SaveEnd
  <2>3. /\ Written(items) \in Seq(Lines) /\ Items(Written(items)) = items
        /\ \A k \in DOMAIN Written(items) : Written(items)[k].kind # "loose"
    BY <2>2, WrittenTypes, ReadBack
  <2> DEFINE listed == Items(read)
  <2>4. /\ Len(items) = Len(listed)
        /\ \A i \in DOMAIN items :
              /\ items[i].section = listed[i].section /\ items[i].key = listed[i].key
              /\ \A f \in Fields : SameField(items[i], f) /\ edited[f] = NONE
                                      => items[i].value = listed[i].value
    BY <1>1 DEF SInv, FromRead
  <2> SUFFICES ASSUME NEW f \in Fields, edited[f] = NONE
               PROVE  Parsed(Written(items))[f] = Parsed(read)[f]
    BY <2>2
  <2>5. Parsed(Written(items))[f] =
            IF ItemsOf(items, f) = {} THEN Zero(f)
            ELSE Reading(f, items[Max(ItemsOf(items, f))].value)
    BY <2>3, ParsedByItems
  <2>6. Parsed(read)[f] = IF ItemsOf(listed, f) = {} THEN Zero(f)
                          ELSE Reading(f, listed[Max(ItemsOf(listed, f))].value)
    BY <1>1, <2>2, ParsedByItems
  <2>7. DOMAIN listed = DOMAIN items /\ DOMAIN items = 1 .. Len(items) /\ Len(items) \in Nat
    BY <2>2, <2>4
  <2> HIDE DEF listed
  <2>8. ItemsOf(listed, f) = ItemsOf(items, f)
    BY <2>4, <2>7 DEF ItemsOf, SameField
  <2>9. ASSUME ItemsOf(items, f) # {}
        PROVE  items[Max(ItemsOf(items, f))].value = listed[Max(ItemsOf(items, f))].value
    <3>1. ItemsOf(items, f) \in SUBSET (1 .. Len(items))
      BY <2>7 DEF ItemsOf
    <3>2. Max(ItemsOf(items, f)) \in ItemsOf(items, f)
      BY <2>7, <2>9, <3>1, MaxIsLast
    <3> QED BY <2>4, <3>2 DEF ItemsOf
  <2> QED BY <2>5, <2>6, <2>8, <2>9
<1>2. ASSUME [Next]_vars, saving, ~saving', ~torn' PROVE SaveEnd
  <2>1. CASE LoadConfig
    BY <1>2, <2>1 DEF LoadConfig, managerVars, histVars
  <2>2. CASE SaveCut
    BY <1>2, <2>2 DEF SaveCut
  <2>3. CASE Stop
    BY <1>2, <2>3 DEF Stop
  <2>4. CASE UNCHANGED vars
    BY <1>2, <2>4 DEF vars, managerVars, histVars
  <2> QED BY <1>2, <2>1, <2>2, <2>3, <2>4
        DEF Next, Load, SaveBegin, SaveConfig, Edit, Foreign, Ready
<1>3. SInv /\ [Next]_vars
      => [saving /\ ~saving' /\ ~torn' /\ Plain => Same]_vars
  BY <1>1, <1>2
<1> QED BY <1>3, SettingsInvariant, PTL DEF Spec, SaveKeepsTheOthers
=============================================================================
