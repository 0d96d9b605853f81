------------------------- MODULE FileManagerProofs -------------------------
(***************************************************************************)
(* For every tree, name and content: a move of the file manager loses no   *)
(* file, wherever its copy and its delete end and whoever writes meanwhile,*)
(* but for the exceptions that FileManager names; and what is copied,      *)
(* moved, renamed and removed stays a tree.                                *)
(***************************************************************************)
EXTENDS Dialogs, WellFoundedInduction, SequenceTheorems, TLAPS

-----------------------------------------------------------------------------
(* Paths and their prefixes.                                               *)
LEMMA PrefixMeans ==
    ASSUME NEW S, NEW s \in Seq(S), NEW t \in Seq(S)
    PROVE  IsPrefix(s, t) <=> Len(s) <= Len(t) /\ \A i \in 1 .. Len(s) : s[i] = t[i]
<1>1. Len(s) \in Nat /\ Len(t) \in Nat
  OBVIOUS
<1>2. \A i \in 1 .. Len(s) : s[i] \in S
  OBVIOUS
<1>3. SubSeq(s, 1, Len(s)) = s
  BY <1>1
<1>4. CASE Len(s) <= Len(t)
  <2>1. \A i \in 1 .. Len(s) : t[i] \in S
    BY <1>1, <1>4
  <2>2. /\ SubSeq(t, 1, Len(s)) \in Seq(S)
        /\ Len(SubSeq(t, 1, Len(s))) = Len(s)
        /\ \A i \in 1 .. Len(s) : SubSeq(t, 1, Len(s))[i] = t[i]
    BY <1>1, <2>1
  <2>3. (\A i \in 1 .. Len(s) : s[i] = t[i]) => s = SubSeq(t, 1, Len(s))
    BY <2>2, SeqEqual, Zenon
  <2> QED BY <1>3, <1>4, <2>2, <2>3 DEF IsPrefix
<1>5. CASE ~(Len(s) <= Len(t))
  BY <1>5 DEF IsPrefix
<1> QED BY <1>4, <1>5

(* A prefix of a prefix. *)
LEMMA PrefixOfPrefix ==
    ASSUME NEW S, NEW s \in Seq(S), NEW t \in Seq(S), NEW p \in Seq(S),
           IsPrefix(s, t), IsPrefix(t, p)
    PROVE  IsPrefix(s, p)
<1>1. /\ Len(s) \in Nat /\ Len(t) \in Nat /\ Len(p) \in Nat /\ Len(s) <= Len(t) /\ Len(t) <= Len(p)
      /\ \A i \in 1 .. Len(s) : s[i] = t[i]
      /\ \A i \in 1 .. Len(t) : t[i] = p[i]
  BY PrefixMeans
<1> QED BY <1>1, PrefixMeans

(* What cp -r s t makes of a path beneath s is beneath t and comes from it. *)
LEMMA CopyOfPath ==
    ASSUME NEW S, NEW s \in Seq(S), NEW t \in Seq(S), NEW p \in Seq(S), IsPrefix(s, p)
    PROVE  /\ From(t, s, p) \in Seq(S) /\ IsPrefix(t, From(t, s, p))
           /\ From(s, t, From(t, s, p)) = p
<1> DEFINE rest == SubSeq(p, Len(s) + 1, Len(p))
           q == t \o rest
           back == SubSeq(q, Len(t) + 1, Len(q))
<1>1. /\ Len(s) \in Nat /\ Len(t) \in Nat /\ Len(p) \in Nat /\ Len(s) <= Len(p)
      /\ \A i \in 1 .. Len(s) : s[i] = p[i]
  BY PrefixMeans
<1>2. \A i \in Len(s) + 1 .. Len(p) : p[i] \in S
  BY <1>1
<1>3. /\ rest \in Seq(S) /\ Len(rest) = Len(p) - Len(s)
      /\ \A i \in 1 .. Len(p) - Len(s) : rest[i] = p[Len(s) + i]
  BY <1>1, <1>2
<1> HIDE DEF rest
<1>4. /\ q \in Seq(S) /\ Len(q) = Len(t) + Len(rest)
      /\ \A i \in 1 .. Len(t) + Len(rest) :
            q[i] = IF i <= Len(t) THEN t[i] ELSE rest[i - Len(t)]
  BY <1>3, ConcatProperties, Zenon
<1> HIDE DEF q
<1>5. IsPrefix(t, q)
  <2>1. Len(rest) \in Nat
    BY <1>3
  <2>2. \A i \in 1 .. Len(t) : i \in 1 .. Len(t) + Len(rest) /\ i <= Len(t)
    BY <1>1, <2>1
  <2>3. Len(t) <= Len(q) /\ \A i \in 1 .. Len(t) : t[i] = q[i]
    BY <1>1, <1>4, <2>1, <2>2
  <2> QED BY <1>4, <2>3, PrefixMeans
<1>6. \A i \in Len(t) + 1 .. Len(q) : q[i] \in S
  BY <1>1, <1>4
<1>7. /\ back \in Seq(S) /\ Len(back) = Len(rest)
      /\ \A i \in 1 .. Len(rest) : back[i] = q[Len(t) + i]
  BY <1>1, <1>3, <1>4, <1>6
<1> HIDE DEF back
<1>8. /\ s \o back \in Seq(S) /\ Len(s \o back) = Len(s) + Len(back)
      /\ \A i \in 1 .. Len(s) + Len(back) :
            (s \o back)[i] = IF i <= Len(s) THEN s[i] ELSE back[i - Len(s)]
  BY <1>7, ConcatProperties, Zenon
<1>9. Len(s \o back) = Len(p)
  BY <1>1, <1>3, <1>7, <1>8
<1>10. ASSUME NEW i \in 1 .. Len(p) PROVE (s \o back)[i] = p[i]
  <2>1. CASE i <= Len(s)
    BY <1>1, <1>8, <1>9, <2>1
  <2>2. CASE i > Len(s)
    <3>1. i - Len(s) \in 1 .. Len(rest) /\ Len(s) + (i - Len(s)) = i
      BY <1>1, <1>3, <2>2
    <3>2. (s \o back)[i] = back[i - Len(s)]
      BY <1>1, <1>7, <1>8, <1>9, <2>2
    <3>3. back[i - Len(s)] = q[Len(t) + (i - Len(s))]
      BY <1>7, <3>1
    <3>4. /\ Len(t) + (i - Len(s)) \in 1 .. Len(t) + Len(rest)
          /\ ~(Len(t) + (i - Len(s)) <= Len(t))
          /\ (Len(t) + (i - Len(s))) - Len(t) = i - Len(s)
      BY <1>1, <1>3, <3>1
    <3>5. q[Len(t) + (i - Len(s))] = rest[i - Len(s)]
      BY <1>4, <3>4
    <3>6. rest[i - Len(s)] = p[i]
      BY <1>3, <3>1
    <3> QED BY <3>2, <3>3, <3>5, <3>6
  <2>3. i <= Len(s) \/ i > Len(s)
    BY <1>1
  <2> QED BY <2>1, <2>2, <2>3
<1>11. s \o back = p
  BY <1>8, <1>9, <1>10, SeqEqual
<1> QED BY <1>4, <1>5, <1>11 DEF From, rest, q, back

(* What the assumption says of paths.                                      *)
LEMMA RootIsPath == Root \in Paths /\ Paths \subseteq Seq(Names)
BY FileManagerAssumption DEF Root

-----------------------------------------------------------------------------
(* The tree: everything stands in a directory, and "/" is one.             *)

(* The path without its last name. *)
LEMMA FrontMeans ==
    ASSUME NEW S, NEW p \in Seq(S), p # <<>>
    PROVE  /\ Front(p) \in Seq(S) /\ Len(p) \in Nat \ {0} /\ Len(Front(p)) = Len(p) - 1
           /\ \A i \in 1 .. Len(p) - 1 : Front(p)[i] = p[i]
<1>1. Len(p) \in Nat \ {0} /\ Len(p) - 1 \in Nat /\ \A i \in 1 .. Len(p) - 1 : p[i] \in S
  OBVIOUS
<1>2. /\ SubSeq(p, 1, Len(p) - 1) \in Seq(S) /\ Len(SubSeq(p, 1, Len(p) - 1)) = Len(p) - 1
      /\ \A i \in 1 .. Len(p) - 1 : SubSeq(p, 1, Len(p) - 1)[i] = p[i]
  <2>1. Len(SubSeq(p, 1, Len(p) - 1)) = Len(p) - 1
    <3>1. \A i \in 1 .. Len(p) - 1 : p[i] \in S
      BY <1>1
    <3>2. Len(SubSeq(p, 1, Len(p) - 1)) =
             IF 1 <= Len(p) - 1 THEN (Len(p) - 1) - 1 + 1 ELSE 0
      BY <1>1, <3>1, SubSeqProperties
    <3>3. \A k \in Nat : (IF 1 <= k THEN k - 1 + 1 ELSE 0) = k
      OBVIOUS
    <3> QED BY <1>1, <3>2, <3>3, Zenon
  <2>2. SubSeq(p, 1, Len(p) - 1) \in Seq(S)
    BY <1>1
  <2>3. \A i \in 1 .. Len(p) - 1 : SubSeq(p, 1, Len(p) - 1)[i] = p[i]
    BY <1>1
  <2> QED BY <2>1, <2>2, <2>3
<1> QED BY <1>1, <1>2 DEF Front

(* What is above a path that is beneath another one is beneath it as well; *)
(* what is beneath the parent is beneath nothing less; and no parent is    *)
(* beneath its child.                                                      *)
LEMMA ParentsAndPrefixes ==
    ASSUME NEW S, NEW a \in Seq(S), NEW q \in Seq(S)
    PROVE  /\ IsPrefix(a, q) /\ q # a => q # <<>> /\ IsPrefix(a, Front(q)) /\ Len(a) < Len(q)
           /\ q # <<>> /\ IsPrefix(a, Front(q)) => IsPrefix(a, q) /\ q # a
           /\ q # <<>> => ~IsPrefix(q, Front(q))
           /\ IsPrefix(a, a)
           /\ IsPrefix(a, <<>>) => a = <<>>
<1>1. Len(a) \in Nat /\ Len(q) \in Nat
  OBVIOUS
<1>2. ASSUME IsPrefix(a, q), q # a
      PROVE  q # <<>> /\ IsPrefix(a, Front(q)) /\ Len(a) < Len(q)
  <2>1. Len(a) <= Len(q) /\ \A i \in 1 .. Len(a) : a[i] = q[i]
    BY <1>2, PrefixMeans
  <2>2. Len(a) # Len(q)
    BY <1>2, <2>1, SeqEqual
  <2>3. q # <<>> /\ Len(a) < Len(q)
    BY <1>1, <2>1, <2>2
  <2>4. /\ Front(q) \in Seq(S) /\ Len(Front(q)) = Len(q) - 1
        /\ \A i \in 1 .. Len(q) - 1 : Front(q)[i] = q[i]
    BY <2>3, FrontMeans
  <2>5. Len(a) <= Len(Front(q)) /\ \A i \in 1 .. Len(a) : a[i] = Front(q)[i]
    BY <1>1, <2>1, <2>3, <2>4
  <2> QED BY <2>3, <2>4, <2>5, PrefixMeans
<1>3. ASSUME q # <<>>, IsPrefix(a, Front(q)) PROVE IsPrefix(a, q) /\ q # a
  <2>1. /\ Front(q) \in Seq(S) /\ Len(Front(q)) = Len(q) - 1
        /\ \A i \in 1 .. Len(q) - 1 : Front(q)[i] = q[i]
    BY <1>3, FrontMeans
  <2>2. Len(a) <= Len(q) - 1 /\ \A i \in 1 .. Len(a) : a[i] = Front(q)[i]
    BY <1>3, <2>1, PrefixMeans
  <2>3. Len(a) <= Len(q) /\ Len(a) # Len(q) /\ \A i \in 1 .. Len(a) : a[i] = q[i]
    BY <1>1, <2>1, <2>2
  <2> QED BY <2>3, PrefixMeans
<1>4. ASSUME q # <<>> PROVE ~IsPrefix(q, Front(q))
  <2>1. Front(q) \in Seq(S) /\ Len(Front(q)) = Len(q) - 1
    BY <1>4, FrontMeans
  <2>2. ~(Len(q) <= Len(Front(q)))
    BY <1>1, <2>1
  <2> QED BY <2>1, <2>2, PrefixMeans
<1>5. IsPrefix(a, a)
  BY <1>1, PrefixMeans
<1>6. ASSUME IsPrefix(a, <<>>) PROVE a = <<>>
  <2>1. <<>> \in Seq(S) /\ Len(<<>>) = 0
    OBVIOUS
  <2>2. Len(a) <= 0
    BY <1>6, <2>1, PrefixMeans
  <2> QED BY <1>1, <2>2, EmptySeq
<1> QED BY <1>2, <1>3, <1>4, <1>5, <1>6

(* A copy takes parents to parents. *)
LEMMA CopyOfParent ==
    ASSUME NEW S, NEW s \in Seq(S), NEW t \in Seq(S), NEW q \in Seq(S), IsPrefix(t, q)
    PROVE  /\ From(s, t, q) \in Seq(S) /\ IsPrefix(s, From(s, t, q))
           /\ q = t => From(s, t, q) = s
           /\ q # t => /\ From(s, t, q) # s /\ From(s, t, q) # <<>>
                       /\ From(s, t, Front(q)) = Front(From(s, t, q))
<1>1. From(s, t, q) \in Seq(S) /\ IsPrefix(s, From(s, t, q)) /\ From(t, s, From(s, t, q)) = q
  BY CopyOfPath
<1>2. ASSUME q = t PROVE From(s, t, q) = s
  <2>1. /\ SubSeq(q, Len(q) + 1, Len(q)) \in Seq(S)
        /\ Len(SubSeq(q, Len(q) + 1, Len(q))) = 0
    OBVIOUS
  <2>2. SubSeq(q, Len(q) + 1, Len(q)) = <<>>
    BY <2>1, EmptySeq
  <2>3. s \o <<>> = s
    BY ConcatEmptySeq
  <2> QED BY <1>2, <2>2, <2>3 DEF From
<1>3. ASSUME q # t
      PROVE  /\ From(s, t, q) # s /\ From(s, t, q) # <<>>
             /\ From(s, t, Front(q)) = Front(From(s, t, q))
  <2> DEFINE f == From(s, t, q)
             g == From(s, t, Front(q))
             rest(p) == SubSeq(p, Len(t) + 1, Len(p))
  <2>1. /\ q # <<>> /\ IsPrefix(t, Front(q)) /\ Len(t) < Len(q)
        /\ Front(q) \in Seq(S) /\ Len(Front(q)) = Len(q) - 1
        /\ \A i \in 1 .. Len(q) - 1 : Front(q)[i] = q[i]
    BY <1>3, ParentsAndPrefixes, FrontMeans
  <2>2. Len(s) \in Nat /\ Len(t) \in Nat /\ Len(q) \in Nat
    OBVIOUS
  <2>3. /\ rest(q) \in Seq(S) /\ Len(rest(q)) = Len(q) - Len(t)
        /\ \A i \in 1 .. Len(q) - Len(t) : rest(q)[i] = q[Len(t) + i]
    <3>1. \A i \in Len(t) + 1 .. Len(q) : q[i] \in S
      BY <2>2
    <3> QED BY <2>1, <2>2, <3>1
  <2>4. /\ rest(Front(q)) \in Seq(S) /\ Len(rest(Front(q))) = Len(q) - 1 - Len(t)
        /\ \A i \in 1 .. Len(q) - 1 - Len(t) : rest(Front(q))[i] = q[Len(t) + i]
    <3>1. \A i \in Len(t) + 1 .. Len(q) - 1 : Front(q)[i] \in S
      BY <2>1, <2>2
    <3> QED BY <2>1, <2>2, <3>1
  <2>5. f = s \o rest(q) /\ g = s \o rest(Front(q))
    BY DEF From
  <2> HIDE DEF rest
  <2>a. /\ s \o rest(q) \in Seq(S) /\ Len(s \o rest(q)) = Len(s) + Len(rest(q))
        /\ \A i \in 1 .. Len(s) + Len(rest(q)) :
              (s \o rest(q))[i] = IF i <= Len(s) THEN s[i] ELSE rest(q)[i - Len(s)]
    BY <2>3, ConcatProperties, Zenon
  <2>b. /\ s \o rest(Front(q)) \in Seq(S)
        /\ Len(s \o rest(Front(q))) = Len(s) + Len(rest(Front(q)))
        /\ \A i \in 1 .. Len(s) + Len(rest(Front(q))) :
              (s \o rest(Front(q)))[i] =
                 IF i <= Len(s) THEN s[i] ELSE rest(Front(q))[i - Len(s)]
    BY <2>4, ConcatProperties, Zenon
  <2> HIDE DEF f, g
  <2>6. /\ f \in Seq(S) /\ Len(f) = Len(s) + Len(rest(q))
        /\ \A i \in 1 .. Len(s) + Len(rest(q)) :
              f[i] = IF i <= Len(s) THEN s[i] ELSE rest(q)[i - Len(s)]
    BY <2>5, <2>a
  <2>7. /\ g \in Seq(S) /\ Len(g) = Len(s) + Len(rest(Front(q)))
        /\ \A i \in 1 .. Len(s) + Len(rest(Front(q))) :
              g[i] = IF i <= Len(s) THEN s[i] ELSE rest(Front(q))[i - Len(s)]
    BY <2>5, <2>b
  <2>8. Len(f) = Len(s) + Len(q) - Len(t) /\ Len(f) > Len(s) /\ f # <<>> /\ f # s
    BY <2>1, <2>2, <2>3, <2>6
  <2>9. /\ Front(f) \in Seq(S) /\ Len(Front(f)) = Len(f) - 1
        /\ \A i \in 1 .. Len(f) - 1 : Front(f)[i] = f[i]
    BY <2>6, <2>8, FrontMeans
  <2>10. Len(g) = Len(f) - 1
    BY <2>2, <2>4, <2>7, <2>8
  <2>c. 1 .. Len(g) \subseteq 1 .. Len(s) + Len(rest(q))
        /\ 1 .. Len(g) \subseteq 1 .. Len(s) + Len(rest(Front(q)))
    BY <2>2, <2>3, <2>4, <2>7, <2>8, <2>10
  <2>11. ASSUME NEW i \in 1 .. Len(g) PROVE g[i] = f[i]
    <3>1. CASE i <= Len(s)
      BY <2>6, <2>7, <2>c, <3>1
    <3>2. CASE ~(i <= Len(s))
      <4>1. i - Len(s) \in 1 .. Len(q) - 1 - Len(t) /\ i - Len(s) \in 1 .. Len(q) - Len(t)
        BY <2>2, <2>8, <2>10, <3>2
      <4>2. g[i] = rest(Front(q))[i - Len(s)] /\ f[i] = rest(q)[i - Len(s)]
        BY <2>6, <2>7, <2>c, <3>2
      <4> QED BY <2>3, <2>4, <4>1, <4>2
    <3> QED BY <3>1, <3>2
  <2>12. g = Front(f)
    BY <2>7, <2>8, <2>9, <2>10, <2>11, SeqEqual
  <2> QED BY <2>8, <2>12 DEF f, g
<1> QED BY <1>1, <1>2, <1>3

(* Of a path other than "/": where its parent is.                          *)
LEMMA ParentOf ==
    ASSUME NEW q \in Paths, q # Root
    PROVE  /\ Parent(q) \in Paths /\ q \in Beneath(q) /\ q \in Beneath(Parent(q))
           /\ Parent(q) \notin Beneath(q)
           /\ \A a \in Seq(Names) : /\ Parent(q) \in Beneath(a) => q \in Beneath(a) /\ q # a
                                    /\ q \in Beneath(a) /\ q # a => Parent(q) \in Beneath(a)
<1>1. q \in Seq(Names) /\ q # <<>> /\ Parent(q) = Front(q)
  BY RootIsPath DEF Root, Parent
<1>2. Parent(q) \in Paths /\ Parent(q) \in Seq(Names)
  BY <1>1, FileManagerAssumption
<1>3. \A a \in Seq(Names) : /\ IsPrefix(a, Parent(q)) => IsPrefix(a, q) /\ q # a
                            /\ IsPrefix(a, q) /\ q # a => IsPrefix(a, Parent(q))
  BY <1>1, ParentsAndPrefixes
<1>4. IsPrefix(Parent(q), Parent(q)) /\ IsPrefix(q, q) /\ ~IsPrefix(q, Parent(q))
  BY <1>1, <1>2, ParentsAndPrefixes
<1>5. IsPrefix(Parent(q), q)
  BY <1>2, <1>3, <1>4
<1> QED BY <1>2, <1>3, <1>4, <1>5 DEF Beneath

(* "/" is beneath no other path.                                           *)
LEMMA RootIsTop ==
    ASSUME NEW a \in Seq(Names), a # Root
    PROVE  Root \notin Beneath(a)
<1>1. <<>> \in Seq(Names)
  OBVIOUS
<1> QED BY <1>1, ParentsAndPrefixes DEF Root, Beneath

(* A place in an interval that has a property: there is a first one, for   *)
(* the order of the numbers is well-founded.                               *)
LEMMA FirstPlace ==
    ASSUME NEW n \in Nat, NEW P \in SUBSET (1 .. n), P # {}
    PROVE  \E i \in P : \A j \in 1 .. i - 1 : j \notin P
<1> DEFINE Order == {r \in Nat \X Nat : r[1] < r[2]}
<1>1. \A i, j \in Nat : i < j => <<i, j>> \in Order
  OBVIOUS
<1>2. IsWellFoundedOn(Order, Nat)
  BY NatLessThanWellFounded, Zenon DEF OpToRel
<1> HIDE DEF Order
<1>3. P \subseteq Nat
  OBVIOUS
<1>4. PICK i \in P : \A j \in P : ~(<<j, i>> \in Order)
  BY <1>2, <1>3, WFMin
<1>5. \A j \in P : ~(j < i)
  BY <1>1, <1>3, <1>4
<1> QED BY <1>3, <1>5

(* What a tree is.                                                         *)
Tree(f) ==
    /\ f[Root] = DIR
    /\ \A p \in Paths : f[p] # ABSENT => p = Root \/ f[Parent(p)] = DIR

(* Of some paths beneath another there is one whose parent is none of them. *)
LEMMA TopmostOf ==
    ASSUME NEW P \in SUBSET (Paths \ {Root}), P # {}
    PROVE  \E p \in P : Parent(p) \notin P
<1> DEFINE Lengths(n) == {i \in 1 .. n : \E p \in P : Len(p) = i}
<1>1. \A p \in P : p \in Seq(Names) /\ p # <<>> /\ Len(p) \in Nat \ {0}
  BY RootIsPath, EmptySeq DEF Root
<1>2. PICK q \in P : TRUE
  OBVIOUS
<1>3. Len(q) \in Nat /\ Lengths(Len(q)) \in SUBSET (1 .. Len(q)) /\ Len(q) \in Lengths(Len(q))
  BY <1>1
<1>4. PICK i \in Lengths(Len(q)) : \A j \in 1 .. i - 1 : j \notin Lengths(Len(q))
  <2> HIDE DEF Lengths
  <2> QED BY <1>3, FirstPlace
<1>5. PICK p \in P : Len(p) = i
  OBVIOUS
<1>6. SUFFICES ASSUME Parent(p) \in P PROVE FALSE
  OBVIOUS
<1>7. Len(Parent(p)) = i - 1
  BY <1>1, <1>5, FrontMeans DEF Parent
<1>8. i - 1 \in Lengths(Len(q)) /\ i - 1 \in 1 .. i - 1
  BY <1>1, <1>3, <1>6, <1>7
<1> QED BY <1>4, <1>8

(* Towards what stands beneath a path there is something next below it.    *)
LEMMA NextBelow ==
    ASSUME NEW f, Tree(f), NEW a \in Paths, NEW q \in Beneath(a), q # a, f[q] # ABSENT
    PROVE  f[a] = DIR /\ \E p \in Below(f, a) : IsPrefix(p, q)
<1> DEFINE Standing == {p \in Beneath(a) : p # a /\ f[p] # ABSENT /\ IsPrefix(p, q)}
<1>1. a \in Seq(Names) /\ q \in Seq(Names) /\ q \in Paths
  BY RootIsPath DEF Beneath
<1>2. \A p \in Standing : p \in Paths /\ p \in Seq(Names) /\ IsPrefix(a, p) /\ p # a
  BY RootIsPath DEF Beneath
<1>3. \A p \in Standing : p # Root
  BY <1>1, <1>2, ParentsAndPrefixes DEF Root
<1>4. q \in Standing
  <2>1. IsPrefix(q, q)
    BY <1>1, ParentsAndPrefixes
  <2> QED BY <2>1
<1>5. PICK p \in Standing : Parent(p) \notin Standing
  <2>1. Standing \in SUBSET (Paths \ {Root}) /\ Standing # {}
    BY <1>2, <1>3, <1>4
  <2> HIDE DEF Standing
  <2> QED BY <2>1, TopmostOf
<1>6. p \in Paths /\ p # Root /\ p \in Beneath(a) /\ p # a /\ f[p] # ABSENT /\ IsPrefix(p, q)
  BY <1>2, <1>3
<1>7. f[Parent(p)] = DIR /\ Parent(p) \in Beneath(a)
  BY <1>1, <1>6, ParentOf DEF Tree
<1>8. IsPrefix(Parent(p), q)
  <2>1. p \in Seq(Names) /\ p # <<>> /\ Parent(p) = Front(p) /\ Parent(p) \in Seq(Names)
    BY <1>6, RootIsPath, ParentOf DEF Root, Parent
  <2>2. Parent(p) \in Seq(Names) /\ IsPrefix(Parent(p), p)
    BY <1>6, <2>1, RootIsPath, ParentOf DEF Beneath
  <2> QED BY <1>1, <1>6, <2>1, <2>2, PrefixOfPrefix
<1>9. Parent(p) = a
  BY <1>5, <1>7, <1>8, FileManagerAssumption
<1> QED BY <1>6, <1>7, <1>9 DEF Below

(* What is beneath something that is no directory, or an empty one, is not *)
(* there.                                                                  *)
LEMMA NothingBelow ==
    ASSUME NEW f, Tree(f), NEW a \in Paths, f[a] # DIR \/ Below(f, a) = {},
           NEW q \in Beneath(a), q # a
    PROVE  f[q] = ABSENT
BY NextBelow

-----------------------------------------------------------------------------
(* The inductive invariant. Until cp has ended, what a move has to keep is *)
(* at the source; what cp has not failed to copy is at the target, or cp   *)
(* still has it to do, itself or a directory above it; and before rm       *)
(* begins, it is at the target and there out of rm's reach.                *)
FmTypes ==
    /\ fs \in [Paths -> Data \union {TORN, DIR, ABSENT}]
    /\ fm_job \in {"none", "copy", "move", "delete"}
    /\ fm_source \in Paths /\ fm_target \in Seq(Names) /\ failed \in BOOLEAN
    /\ todo \subseteq Beneath(fm_source)
    /\ carried \subseteq Beneath(fm_source) \X Data

AtSource(c) == fs[c[1]] = c[2]
AtTarget(c) == To(c[1]) \in Paths /\ fs[To(c[1])] = c[2]
ToDo(c)     == \E p \in todo : IsPrefix(p, c[1])

FmInv ==
    /\ FmTypes /\ Tree(fs)
    /\ fm_job = "none" => todo = {} /\ carried = {}
    /\ fm_job # "none" => fm_source # Root
    /\ Copying => \A c \in carried : AtSource(c) /\ (~failed => AtTarget(c) \/ ToDo(c))
    /\ fm_job = "delete" =>
          \A c \in carried : AtTarget(c) /\ To(c[1]) \notin Beneath(fm_source)

(* The parts of what a move has to keep, and where cp puts them: no two    *)
(* paths go to the same place.                                             *)
LEMMA CarriedTypes ==
    ASSUME FmTypes
    PROVE  /\ \A c \in carried : c[1] \in Beneath(fm_source) /\ c[1] \in Paths /\ c[2] \in Data
                                 /\ c[2] \notin {TORN, DIR, ABSENT}
           /\ \A p \in Beneath(fm_source) : p \in Paths /\ To(p) \in Seq(Names)
           /\ \A p, q \in Beneath(fm_source) : To(p) = To(q) => p = q
<1>1. \A c \in carried : c[1] \in Beneath(fm_source) /\ c[2] \in Data
  BY DEF FmTypes
<1>2. \A p \in Beneath(fm_source) : p \in Paths /\ p \in Seq(Names) /\ IsPrefix(fm_source, p)
  BY RootIsPath DEF Beneath
<1>3. fm_source \in Seq(Names) /\ fm_target \in Seq(Names)
  BY RootIsPath DEF FmTypes
<1>4. \A p \in Beneath(fm_source) : /\ To(p) \in Seq(Names)
                                    /\ From(fm_source, fm_target, To(p)) = p
  BY <1>2, <1>3, CopyOfPath DEF To
<1>5. \A d \in Data : d \notin {TORN, DIR, ABSENT}
  BY FileManagerAssumption
<1> QED BY <1>1, <1>2, <1>4, <1>5

(* A file or a directory is made or written in a directory, no file over a *)
(* directory.                                                              *)
LEMMA WrittenIsTree ==
    ASSUME FmTypes, Tree(fs), NEW p, CanStand(p),
           NEW what \in Data \union {TORN, DIR}, fs[p] = DIR => what = DIR,
           fs' = [fs EXCEPT ![p] = what]
    PROVE  /\ fs' \in [Paths -> Data \union {TORN, DIR, ABSENT}] /\ Tree(fs')
           /\ p \in Paths /\ fs'[p] = what /\ \A q \in Paths \ {p} : fs'[q] = fs[q]
<1>1. p \in Paths /\ p # Root /\ fs[Parent(p)] = DIR
  BY DEF CanStand
<1>2. /\ fs' \in [Paths -> Data \union {TORN, DIR, ABSENT}]
      /\ fs'[p] = what /\ \A q \in Paths \ {p} : fs'[q] = fs[q]
  BY <1>1 DEF FmTypes
<1>3. fs'[Root] = DIR
  BY <1>1, <1>2, RootIsPath DEF Tree
<1>4. ASSUME NEW q \in Paths, q # Root, fs'[q] # ABSENT PROVE fs'[Parent(q)] = DIR
  <2>1. Parent(q) \in Paths /\ Parent(q) # q
    BY <1>4, ParentOf
  <2>2. fs[Parent(q)] = DIR
    BY <1>1, <1>2, <1>4 DEF Tree
  <2>3. CASE Parent(q) = p
    BY <1>2, <2>2, <2>3
  <2>4. CASE Parent(q) # p
    BY <1>2, <2>1, <2>2, <2>4
  <2> QED BY <2>3, <2>4
<1> QED BY <1>1, <1>2, <1>3, <1>4 DEF Tree

(* rename(2) takes what is below along, to where nothing else is.          *)
LEMMA RenameIsTree ==
    ASSUME FmTypes, Tree(fs), NEW old, NEW new, CanRename(old, new), fs' = Renamed(old, new)
    PROVE  /\ fs' \in [Paths -> Data \union {TORN, DIR, ABSENT}] /\ Tree(fs')
           /\ \A q \in Paths \ (Beneath(old) \union Beneath(new)) : fs'[q] = fs[q]
<1> DEFINE Lands(q) == q \in Beneath(new) /\ From(old, new, q) \in Paths
<1>1. /\ old \in Paths /\ old # Root /\ new \in Paths /\ new # Root /\ ~IsPrefix(old, new)
      /\ fs[old] # ABSENT /\ fs[Parent(new)] = DIR
      /\ fs[new] # ABSENT => Below(fs, new) = {}
      /\ fs' = [p \in Paths |->
                    IF p \in Beneath(old) THEN ABSENT
                    ELSE IF Lands(p) THEN fs[From(old, new, p)] ELSE fs[p]]
  BY DEF CanRename, Renamed
<1>2. old \in Seq(Names) /\ new \in Seq(Names)
  BY <1>1, RootIsPath
<1>3. \A q \in Paths : /\ q \in Beneath(old) => fs'[q] = ABSENT
                       /\ q \notin Beneath(old) /\ Lands(q) => fs'[q] = fs[From(old, new, q)]
                       /\ q \notin Beneath(old) /\ ~Lands(q) => fs'[q] = fs[q]
  BY <1>1
<1>4. fs' \in [Paths -> Data \union {TORN, DIR, ABSENT}]
  <2>1. \A p \in Paths : (IF p \in Beneath(old) THEN ABSENT
                          ELSE IF Lands(p) THEN fs[From(old, new, p)] ELSE fs[p])
                         \in Data \union {TORN, DIR, ABSENT}
    BY DEF FmTypes
  <2> HIDE DEF Lands
  <2> QED BY <1>1, <2>1
<1>5. \A q \in Beneath(new) \ {new} : fs[q] = ABSENT
  <2>1. fs[new] # DIR \/ Below(fs, new) = {}
    BY <1>1, FileManagerAssumption
  <2> QED BY <1>1, <2>1, NothingBelow
<1>6. Parent(new) \in Paths /\ Parent(new) \notin Beneath(old) /\ Parent(new) \notin Beneath(new)
  BY <1>1, <1>2, ParentOf DEF Beneath
<1>7. fs'[Root] = DIR
  BY <1>1, <1>2, <1>3, RootIsPath, RootIsTop DEF Tree
<1>8. ASSUME NEW q \in Paths, fs'[q] # ABSENT, q # Root PROVE fs'[Parent(q)] = DIR
  <2>1. q \notin Beneath(old) /\ Parent(q) \in Paths /\ Parent(q) \notin Beneath(old)
    BY <1>2, <1>3, <1>8, ParentOf
  <2>2. CASE q = new
    BY <1>1, <1>3, <1>6, <2>2
  <2>3. CASE Lands(q) /\ q # new
    <3>1. q \in Seq(Names) /\ IsPrefix(new, q) /\ From(old, new, q) \in Paths
      BY <2>3, RootIsPath DEF Beneath
    <3>2. /\ From(old, new, q) # Root
          /\ From(old, new, Parent(q)) = Parent(From(old, new, q))
      BY <1>2, <2>3, <3>1, CopyOfParent DEF Root, Parent
    <3>3. Parent(From(old, new, q)) \in Paths
      BY <3>1, <3>2, ParentOf
    <3>4. Parent(q) \in Beneath(new)
      BY <1>2, <1>8, <2>3, ParentOf
    <3>5. fs'[Parent(q)] = fs[Parent(From(old, new, q))]
      BY <1>3, <2>1, <3>2, <3>3, <3>4
    <3>6. fs[From(old, new, q)] # ABSENT
      BY <1>3, <1>8, <2>1, <2>3
    <3> QED BY <3>1, <3>2, <3>5, <3>6 DEF Tree
  <2>4. CASE ~Lands(q) /\ q # new
    <3>1. fs[q] # ABSENT
      BY <1>3, <1>8, <2>1, <2>4
    <3>2. q \notin Beneath(new) /\ fs[Parent(q)] = DIR
      BY <1>5, <1>8, <2>4, <3>1 DEF Tree
    <3>3. Parent(q) \notin Beneath(new)
      BY <1>2, <1>8, <3>2, ParentOf
    <3> QED BY <1>3, <2>1, <3>2, <3>3
  <2> QED BY <2>2, <2>3, <2>4
<1> QED BY <1>3, <1>4, <1>7, <1>8 DEF Tree

(* Another program writes beneath a directory, and not over one, or takes  *)
(* something away with all there is beneath it.                            *)
LEMMA ForeignIsTree ==
    ASSUME FmTypes, Tree(fs), NEW p \in Paths, NEW what \in Data \union {DIR, ABSENT},
           FmForeign(p, what)
    PROVE  /\ fs' \in [Paths -> Data \union {TORN, DIR, ABSENT}] /\ Tree(fs')
           /\ \A q \in Paths \ Beneath(p) : fs'[q] = fs[q]
<1>1. /\ p # Root /\ (what # ABSENT => fs[Parent(p)] = DIR)
      /\ fs' = [Without(Beneath(p)) EXCEPT ![p] = what]
  BY DEF FmForeign, CanStand
<1>2. /\ p \in Beneath(p) /\ p \in Seq(Names)
      /\ Parent(p) \in Paths /\ Parent(p) \notin Beneath(p)
  BY <1>1, RootIsPath, ParentOf
<1>3. /\ \A q \in Paths \ Beneath(p) : fs'[q] = fs[q]
      /\ \A q \in Beneath(p) \ {p} : fs'[q] = ABSENT
      /\ fs'[p] = what
      /\ fs' \in [Paths -> Data \union {TORN, DIR, ABSENT}]
  BY <1>1, <1>2 DEF Without, Beneath, FmTypes
<1>4. fs'[Root] = DIR
  BY <1>1, <1>2, <1>3, RootIsPath, RootIsTop DEF Tree
<1>5. ASSUME NEW q \in Paths, fs'[q] # ABSENT, q # Root PROVE fs'[Parent(q)] = DIR
  <2>1. CASE q = p
    BY <1>1, <1>2, <1>3, <1>5, <2>1
  <2>2. CASE q # p
    <3>1. q \notin Beneath(p)
      BY <1>3, <1>5, <2>2
    <3>2. fs[Parent(q)] = DIR
      BY <1>3, <1>5, <3>1 DEF Tree
    <3>3. Parent(q) \in Paths /\ Parent(q) \notin Beneath(p)
      BY <1>2, <1>5, <3>1, ParentOf
    <3> QED BY <1>3, <3>2, <3>3
  <2> QED BY <2>1, <2>2
<1> QED BY <1>3, <1>4, <1>5 DEF Tree

-----------------------------------------------------------------------------
(* The steps of cp.                                                        *)
LEMMA CopyFileKeeps == ASSUME FmInv, NEW p \in todo, CopyFile(p) PROVE FmInv'
<1> DEFINE q == To(p)
<1>1. /\ FmTypes /\ Tree(fs) /\ fm_source # Root /\ Copying
      /\ \A c \in carried : AtSource(c) /\ (~failed => AtTarget(c) \/ ToDo(c))
  BY DEF FmInv, CopyFile, Copying
<1>2. /\ fs[p] \in Data \union {TORN} /\ CanStand(q) /\ fs[q] # DIR /\ todo' = todo \ {p}
      /\ carried' = {c \in carried : c[1] # q}
      /\ fm_job' = fm_job /\ fm_source' = fm_source /\ fm_target' = fm_target
  BY DEF CopyFile
<1>3. PICK what \in Data \union {TORN} :
          /\ fs' = [fs EXCEPT ![q] = what] /\ failed' \in BOOLEAN
          /\ ~failed' => ~failed /\ what = fs[p]
  BY <1>1, <1>2 DEF CopyFile, FmTypes
<1>4. p \in Beneath(fm_source) /\ p \in Paths
  BY <1>1 DEF FmTypes, Beneath
<1> HIDE DEF q
<1>5. /\ fs' \in [Paths -> Data \union {TORN, DIR, ABSENT}] /\ Tree(fs')
      /\ q \in Paths /\ fs'[q] = what /\ \A r \in Paths \ {q} : fs'[r] = fs[r]
  BY <1>1, <1>2, <1>3, WrittenIsTree
<1>6. \A c \in carried : /\ c[1] \in Beneath(fm_source) /\ c[1] \in Paths
                         /\ c[2] \notin {TORN, DIR, ABSENT}
                         /\ To(c[1]) = q => c[1] = p
  BY <1>1, <1>4, CarriedTypes DEF q
<1>7. ASSUME NEW c \in carried' PROVE AtSource(c)' /\ (~failed' => AtTarget(c)' \/ ToDo(c)')
  <2>1. c \in carried /\ c[1] # q /\ AtSource(c)
    BY <1>1, <1>2
  <2>2. fs'[c[1]] = c[2] /\ fs[c[1]] = c[2]
    BY <1>5, <1>6, <2>1 DEF AtSource
  <2>3. ASSUME ~failed' PROVE AtTarget(c)' \/ ToDo(c)'
    <3>1. ~failed /\ what = fs[p] /\ (AtTarget(c) \/ ToDo(c))
      BY <1>1, <1>3, <2>1, <2>3
    <3>2. CASE c[1] = p
      <4>1. q \in Paths /\ fs'[q] = c[2]
        BY <1>5, <2>2, <3>1, <3>2
      <4> QED BY <1>2, <3>2, <4>1 DEF AtTarget, To, q
    <3>3. CASE c[1] # p /\ AtTarget(c)
      <4>1. To(c[1]) \in Paths /\ To(c[1]) # q /\ fs[To(c[1])] = c[2]
        BY <1>6, <2>1, <3>3 DEF AtTarget
      <4>2. To(c[1]) \in Paths /\ fs'[To(c[1])] = c[2]
        BY <1>5, <4>1
      <4> QED BY <1>2, <4>2 DEF AtTarget, To
    <3>4. CASE c[1] # p /\ ToDo(c)
      <4>1. PICK r \in todo : IsPrefix(r, c[1])
        BY <3>4 DEF ToDo
      <4>2. r # p
        <5>1. SUFFICES ASSUME c[1] \in Beneath(p) PROVE FALSE
          BY <1>6, <2>1, <4>1 DEF Beneath
        <5>2. fs[p] # DIR
          BY <1>2, FileManagerAssumption
        <5>3. fs[c[1]] = ABSENT
          BY <1>1, <1>4, <3>4, <5>1, <5>2, NothingBelow
        <5> QED BY <1>6, <2>1, <2>2, <5>3
      <4> QED BY <1>2, <4>1, <4>2 DEF ToDo
    <3> QED BY <3>1, <3>2, <3>3, <3>4
  <2> QED BY <2>2, <2>3 DEF AtSource
<1>8. FmTypes'
  BY <1>1, <1>2, <1>3, <1>5 DEF FmTypes
<1> QED BY <1>1, <1>2, <1>5, <1>7, <1>8 DEF FmInv, Copying

LEMMA CopyDirectoryKeeps == ASSUME FmInv, NEW p \in todo, CopyDirectory(p) PROVE FmInv'
<1> DEFINE q == To(p)
<1>1. /\ FmTypes /\ Tree(fs) /\ fm_source # Root /\ Copying
      /\ \A c \in carried : AtSource(c) /\ (~failed => AtTarget(c) \/ ToDo(c))
  BY DEF FmInv, CopyDirectory, Copying
<1>2. /\ fs[p] = DIR /\ CanStand(q) /\ fs[q] \in {DIR, ABSENT}
      /\ fs' = [fs EXCEPT ![q] = DIR] /\ todo' = (todo \ {p}) \union Below(fs', p)
      /\ carried' = carried /\ failed' = failed
      /\ fm_job' = fm_job /\ fm_source' = fm_source /\ fm_target' = fm_target
  BY DEF CopyDirectory
<1>3. p \in Beneath(fm_source) /\ p \in Paths /\ fm_source \in Seq(Names)
  BY <1>1, RootIsPath DEF FmTypes, Beneath
<1> HIDE DEF q
<1>4. /\ fs' \in [Paths -> Data \union {TORN, DIR, ABSENT}] /\ Tree(fs')
      /\ q \in Paths /\ \A r \in Paths \ {q} : fs'[r] = fs[r]
  BY <1>1, <1>2, WrittenIsTree
<1>5. Below(fs', p) \subseteq Beneath(fm_source)
  <2> SUFFICES ASSUME NEW r \in Below(fs', p) PROVE r \in Beneath(fm_source)
    OBVIOUS
  <2>1. r \in Paths /\ r # Root /\ Parent(r) = p
    BY DEF Below
  <2> QED BY <1>3, <2>1, ParentOf
<1>6. FmTypes'
  BY <1>1, <1>2, <1>4, <1>5 DEF FmTypes
<1>7. \A c \in carried : /\ c[1] \in Beneath(fm_source) /\ c[1] \in Paths
                         /\ c[2] \notin {TORN, DIR, ABSENT}
  BY <1>1, CarriedTypes
<1>8. ASSUME NEW c \in carried PROVE AtSource(c)' /\ (~failed' => AtTarget(c)' \/ ToDo(c)')
  <2>1. fs[c[1]] = c[2] /\ c[1] # q /\ fs'[c[1]] = c[2]
    BY <1>1, <1>2, <1>4, <1>7 DEF AtSource
  <2>2. ASSUME AtTarget(c) PROVE AtTarget(c)'
    <3>1. To(c[1]) \in Paths /\ fs[To(c[1])] = c[2] /\ To(c[1]) # q
      BY <1>2, <1>7, <2>2 DEF AtTarget
    <3>2. To(c[1]) \in Paths /\ fs'[To(c[1])] = c[2]
      BY <1>4, <3>1
    <3> QED BY <1>2, <3>2 DEF AtTarget, To
  <2>3. ASSUME ToDo(c) PROVE ToDo(c)'
    <3>1. PICK r \in todo : IsPrefix(r, c[1])
      BY <2>3 DEF ToDo
    <3>2. CASE r # p
      BY <1>2, <3>1, <3>2 DEF ToDo
    <3>3. CASE r = p
      <4>1. c[1] \in Beneath(p) /\ c[1] # p
        BY <1>2, <1>7, <2>1, <3>1, <3>3 DEF Beneath
      <4>2. fs'[c[1]] # ABSENT
        BY <1>7, <2>1
      <4>3. \E r2 \in Below(fs', p) : IsPrefix(r2, c[1])
        BY <1>3, <1>4, <4>1, <4>2, NextBelow
      <4> QED BY <1>2, <4>3 DEF ToDo
    <3> QED BY <3>2, <3>3
  <2> QED BY <1>1, <1>2, <2>1, <2>2, <2>3 DEF AtSource
<1> QED BY <1>1, <1>2, <1>4, <1>6, <1>8 DEF FmInv, Copying

(* What keeps the invariant when nothing is to be kept, or the operation   *)
(* ends.                                                                   *)
LEMMA OverKeeps ==
    ASSUME fs' \in [Paths -> Data \union {TORN, DIR, ABSENT}], Tree(fs'), Over
    PROVE  FmInv'
<1>1. <<>> \in Seq(Names)
  OBVIOUS
<1> QED BY <1>1, RootIsPath DEF Over, FmInv, FmTypes, Copying, Root

LEMMA IdleKeeps ==
    ASSUME FmInv, fm_job = "none", UNCHANGED fmJobVars,
           fs' \in [Paths -> Data \union {TORN, DIR, ABSENT}], Tree(fs')
    PROVE  FmInv'
BY DEF FmInv, FmTypes, Copying, fmJobVars

LEMMA BeginKeeps ==
    ASSUME FmInv, NEW job \in {"copy", "move"}, NEW s \in Paths, NEW d \in Paths,
           FmBegin(job, s, d)
    PROVE  FmInv'
<1>1. /\ s # Root /\ fm_job' = job /\ fm_source' = s /\ todo' = {s} /\ failed' = FALSE
      /\ fm_target' = IF fs[d] = DIR THEN Append(d, Last(s)) ELSE d
      /\ carried' = IF job # "move" THEN {}
                    ELSE {<<p, fs[p]>> : p \in {q \in Beneath(s) : fs[q] \in Data}}
      /\ fs' = fs
  BY DEF FmBegin
<1>2. s \in Seq(Names) /\ d \in Seq(Names) /\ s \in Beneath(s)
  BY <1>1, RootIsPath, ParentOf
<1>3. fm_target' \in Seq(Names)
  <2>1. Last(s) \in Names
    BY <1>1, <1>2 DEF Last, Root
  <2> QED BY <1>1, <1>2, <2>1
<1>4. \A c \in carried' : /\ c \in Beneath(s) \X Data /\ fs[c[1]] = c[2] /\ IsPrefix(s, c[1])
  BY <1>1 DEF Beneath
<1>5. FmTypes'
  BY <1>1, <1>2, <1>3, <1>4 DEF FmInv, FmTypes
<1>6. \A c \in carried' : AtSource(c)' /\ ToDo(c)'
  BY <1>1, <1>4 DEF AtSource, ToDo
<1>7. Tree(fs')
  BY <1>1 DEF FmInv
<1> QED BY <1>1, <1>5, <1>6, <1>7 DEF FmInv, Copying

LEMMA CopyEndsKeeps == ASSUME FmInv, FmCopyEnds PROVE FmInv'
<1>1. /\ FmTypes /\ Tree(fs) /\ fm_source # Root /\ fs' = fs /\ Copying /\ todo = {} /\ ~failed
      /\ \A c \in carried : AtTarget(c)
  BY DEF FmInv, FmCopyEnds, Copying, ToDo
<1>2. CASE Over
  BY <1>1, <1>2, OverKeeps DEF FmTypes
<1>3. CASE /\ fm_job' = "delete"
           /\ carried' = {c \in carried : To(c[1]) \notin Beneath(fm_source)}
           /\ UNCHANGED <<fm_source, fm_target, todo, failed>>
  <2>1. FmTypes'
    BY <1>1, <1>3 DEF FmTypes
  <2>2. \A c \in carried' : AtTarget(c)' /\ To(c[1])' \notin Beneath(fm_source')
    BY <1>1, <1>3 DEF AtTarget, To
  <2> QED BY <1>1, <1>3, <2>1, <2>2 DEF FmInv, Copying
<1> QED BY <1>2, <1>3 DEF FmCopyEnds, GoOn

-----------------------------------------------------------------------------
(* The steps of rm and of others.                                          *)
LEMMA RemoveKeeps == ASSUME FmInv, NEW p \in Paths, RemoveOne(p) PROVE FmInv'
<1>1. /\ FmTypes /\ Tree(fs) /\ fm_source # Root /\ fm_job = "delete"
      /\ \A c \in carried : AtTarget(c) /\ To(c[1]) \notin Beneath(fm_source)
      /\ p \in Beneath(fm_source) /\ Below(fs, p) = {} /\ fs' = Without({p})
      /\ UNCHANGED <<fm_job, fm_source, fm_target, todo, failed, carried>>
  BY DEF FmInv, RemoveOne, fmJobVars
<1>2. p # Root
  BY <1>1, RootIsTop, RootIsPath DEF FmTypes
<1>3. /\ fs' \in [Paths -> Data \union {TORN, DIR, ABSENT}]
      /\ fs'[p] = ABSENT /\ \A q \in Paths \ {p} : fs'[q] = fs[q]
  BY <1>1 DEF Without, FmTypes
<1>4. Tree(fs')
  <2>1. fs'[Root] = DIR
    BY <1>1, <1>2, <1>3, RootIsPath DEF Tree
  <2>2. ASSUME NEW q \in Paths, fs'[q] # ABSENT, q # Root PROVE fs'[Parent(q)] = DIR
    <3>1. fs[q] # ABSENT /\ fs[Parent(q)] = DIR /\ Parent(q) \in Paths
      BY <1>1, <1>3, <2>2, ParentOf DEF Tree
    <3>2. Parent(q) # p
      BY <1>1, <2>2, <3>1 DEF Below
    <3> QED BY <1>3, <3>1, <3>2
  <2> QED BY <2>1, <2>2 DEF Tree
<1>5. FmTypes'
  BY <1>1, <1>3 DEF FmTypes
<1>6. \A c \in carried' : AtTarget(c)' /\ To(c[1])' \notin Beneath(fm_source')
  <2> SUFFICES ASSUME NEW c \in carried
               PROVE  /\ To(c[1]) \in Paths /\ fs'[To(c[1])] = c[2]
                      /\ To(c[1]) \notin Beneath(fm_source)
    BY <1>1 DEF AtTarget, To
  <2>1. To(c[1]) \in Paths /\ fs[To(c[1])] = c[2] /\ To(c[1]) \notin Beneath(fm_source)
    BY <1>1 DEF AtTarget
  <2> QED BY <1>1, <1>3, <2>1
<1> QED BY <1>1, <1>4, <1>5, <1>6 DEF FmInv, Copying

(* What nobody touches stays where it is.                                  *)
LEMMA UntouchedKeeps ==
    ASSUME FmInv, NEW places, carried' = Untouched(places),
           fs' \in [Paths -> Data \union {TORN, DIR, ABSENT}], Tree(fs'),
           \A q \in Paths \ places : fs'[q] = fs[q],
           UNCHANGED <<fm_job, fm_source, fm_target, todo, failed>>
    PROVE  FmInv'
<1>1. /\ FmTypes
      /\ fm_job = "none" => todo = {} /\ carried = {}
      /\ fm_job # "none" => fm_source # Root
      /\ Copying => \A c \in carried : AtSource(c) /\ (~failed => AtTarget(c) \/ ToDo(c))
      /\ fm_job = "delete" =>
            \A c \in carried : AtTarget(c) /\ To(c[1]) \notin Beneath(fm_source)
  BY DEF FmInv
<1>2. ASSUME NEW c \in carried' PROVE c \in carried /\ c[1] \notin places /\ To(c[1]) \notin places
  BY DEF Untouched
<1>3. FmTypes'
  BY <1>1, <1>2 DEF FmTypes
<1>4. ASSUME NEW c \in carried'
      PROVE  /\ AtSource(c) => AtSource(c)'
             /\ AtTarget(c) => AtTarget(c)'
             /\ ToDo(c) => ToDo(c)'
             /\ To(c[1])' = To(c[1])
  <2>1. c[1] \in Paths
    BY <1>1, <1>2, CarriedTypes
  <2>2. AtSource(c) => AtSource(c)'
    BY <1>2, <2>1 DEF AtSource
  <2>3. To(c[1])' = To(c[1])
    BY DEF To
  <2>4. AtTarget(c) => To(c[1]) \in Paths /\ fs'[To(c[1])] = c[2]
    BY <1>2 DEF AtTarget
  <2>5. AtTarget(c) => AtTarget(c)'
    BY <2>3, <2>4 DEF AtTarget
  <2> QED BY <2>2, <2>3, <2>5 DEF ToDo
<1>5. Copying' => \A c \in carried' : AtSource(c)' /\ (~failed' => AtTarget(c)' \/ ToDo(c)')
  BY <1>1, <1>2, <1>4 DEF Copying
<1>6. fm_job' = "delete" =>
          \A c \in carried' : AtTarget(c)' /\ To(c[1])' \notin Beneath(fm_source')
  BY <1>1, <1>2, <1>4
<1>7. fm_job' = "none" => todo' = {} /\ carried' = {}
  BY <1>1, <1>2
<1> QED BY <1>1, <1>3, <1>5, <1>6, <1>7 DEF FmInv

(* Every step of the file manager and of other programs.                   *)
LEMMA FileManagerStep == ASSUME FmInv, FmNext PROVE FmInv'
<1>a. FmTypes /\ Tree(fs)
  BY DEF FmInv
<1>1. CASE \E job \in {"copy", "move"}, s \in Paths, d \in Paths : FmBegin(job, s, d)
  BY <1>1, BeginKeeps
<1>2. ASSUME NEW p \in todo, CopyFile(p) \/ CopyDirectory(p) PROVE FmInv'
  BY <1>2, CopyFileKeeps, CopyDirectoryKeeps
<1>3. ASSUME NEW p \in todo, CopyFails(p) PROVE FmInv'
  <2>1. /\ todo' = todo \ {p} /\ failed' = TRUE /\ fm_job \in {"copy", "move"}
        /\ UNCHANGED <<fs, fm_job, fm_source, fm_target, carried>>
    BY <1>3 DEF CopyFails, Copying
  <2>2. FmTypes'
    BY <1>a, <2>1 DEF FmTypes
  <2>3. \A c \in carried' : AtSource(c)'
    BY <2>1 DEF FmInv, AtSource, Copying
  <2> QED BY <2>1, <2>2, <2>3 DEF FmInv, Copying
<1>4. CASE FmCopyEnds
  BY <1>4, CopyEndsKeeps
<1>5. CASE FmCopyFailed \/ FmDeleteEnds
  BY <1>a, <1>5, OverKeeps DEF FmCopyFailed, FmDeleteEnds, FmTypes
<1>6. CASE FmEnds
  <2>1. /\ fm_job = "move" /\ fm_job' = "copy"
        /\ UNCHANGED <<fs, fm_source, fm_target, todo, failed, carried>>
    BY <1>6 DEF FmEnds
  <2>2. FmTypes'
    BY <1>a, <2>1 DEF FmTypes
  <2>3. \A c \in carried' : AtSource(c)' /\ (~failed' => AtTarget(c)' \/ ToDo(c)')
    BY <2>1 DEF FmInv, AtSource, AtTarget, ToDo, To, Copying
  <2> QED BY <2>1, <2>2, <2>3 DEF FmInv, Copying
<1>7. ASSUME NEW p \in Paths, RemoveOne(p) PROVE FmInv'
  BY <1>7, RemoveKeeps
<1>8. ASSUME NEW p \in Paths, FmDeleteCurrent(p) PROVE FmInv'
  <2>1. /\ fm_job = "none" /\ p # Root /\ fm_job' = "delete" /\ fm_source' = p
        /\ UNCHANGED <<fs, fm_target, todo, failed, carried>>
    BY <1>8 DEF FmDeleteCurrent
  <2>2. todo' = {} /\ carried' = {}
    BY <2>1 DEF FmInv
  <2>3. FmTypes'
    BY <1>a, <2>1, <2>2 DEF FmTypes
  <2> QED BY <1>a, <2>1, <2>2, <2>3 DEF FmInv, Copying
<1>9. ASSUME NEW p \in Paths, FmMkdir(p) PROVE FmInv'
  <2>1. fm_job = "none" /\ CanStand(p) /\ fs' = [fs EXCEPT ![p] = DIR] /\ UNCHANGED fmJobVars
    BY <1>9 DEF FmMkdir
  <2>2. fs' \in [Paths -> Data \union {TORN, DIR, ABSENT}] /\ Tree(fs')
    BY <1>a, <2>1, WrittenIsTree
  <2> QED BY <2>1, <2>2, IdleKeeps
<1>10. ASSUME NEW p \in Paths, NEW name \in Names, FmRename(p, name) PROVE FmInv'
  <2>1. PICK old, new : /\ CanRename(old, new) /\ fs' = Renamed(old, new)
                        /\ fm_job = "none" /\ UNCHANGED fmJobVars
    BY <1>10 DEF FmRename
  <2>2. fs' \in [Paths -> Data \union {TORN, DIR, ABSENT}] /\ Tree(fs')
    BY <1>a, <2>1, RenameIsTree
  <2> QED BY <2>1, <2>2, IdleKeeps
<1>11. ASSUME NEW p \in Paths, NEW what \in Data \union {DIR, ABSENT}, FmForeign(p, what)
       PROVE  FmInv'
  <2>1. /\ carried' = Untouched(Beneath(p))
        /\ UNCHANGED <<fm_job, fm_source, fm_target, todo, failed>>
    BY <1>11 DEF FmForeign
  <2> QED BY <1>a, <1>11, <2>1, ForeignIsTree, UntouchedKeeps
<1>12. ASSUME NEW old \in Paths, NEW new \in Paths, FmForeignRename(old, new) PROVE FmInv'
  <2>1. /\ CanRename(old, new) /\ fs' = Renamed(old, new)
        /\ carried' = Untouched(Beneath(old) \union Beneath(new))
        /\ UNCHANGED <<fm_job, fm_source, fm_target, todo, failed>>
    BY <1>12 DEF FmForeignRename
  <2>2. /\ fs' \in [Paths -> Data \union {TORN, DIR, ABSENT}] /\ Tree(fs')
        /\ \A q \in Paths \ (Beneath(old) \union Beneath(new)) : fs'[q] = fs[q]
    BY <1>a, <2>1, RenameIsTree
  <2> QED BY <2>1, <2>2, UntouchedKeeps
<1> QED BY <1>1, <1>2, <1>3, <1>4, <1>5, <1>6, <1>7, <1>8, <1>9, <1>10, <1>11, <1>12 DEF FmNext

(* The invariant holds in every session.                                   *)
LEMMA FileManagerInvariant == Spec => []FmInv
<1>1. Init => FmInv
  <2> SUFFICES ASSUME Init PROVE FmInv
    OBVIOUS
  <2>1. <<>> \in Seq(Names)
    OBVIOUS
  <2>2. FmTypes
    BY <2>1, RootIsPath DEF Init, FmInit, FmTypes, Root
  <2>3. Tree(fs)
    BY RootIsPath, FileManagerAssumption DEF Init, FmInit, Tree
  <2> QED BY <2>2, <2>3 DEF Init, FmInit, FmInv, Copying
<1>2. FmInv /\ [Next]_vars => FmInv'
  <2> SUFFICES ASSUME FmInv, [Next]_vars PROVE FmInv'
    OBVIOUS
  <2>1. FmNext \/ UNCHANGED fmVars
    BY DEF Next, vars, LogViewerMoves, FileManagerMoves, FeedbackMoves, ThemesMove,
           LayoutMoves, LanguageMoves, ProcessMoves
  <2>2. CASE UNCHANGED fmVars
    <3>1. UNCHANGED <<fs, fm_job, fm_source, fm_target, todo, failed, carried>>
      BY <2>2 DEF fmVars, fmJobVars
    <3>2. FmTypes'
      BY <3>1 DEF FmInv, FmTypes
    <3>3. Tree(fs')
      BY <3>1 DEF FmInv
    <3>4. \A p : To(p)' = To(p)
      BY <3>1 DEF To
    <3>5. \A c \in carried : (AtSource(c)' <=> AtSource(c)) /\ (AtTarget(c)' <=> AtTarget(c))
      BY <3>1, <3>4 DEF AtSource, AtTarget
    <3>6. \A c \in carried : ToDo(c)' <=> ToDo(c)
      BY <3>1, <3>4 DEF ToDo
    <3> QED BY <3>1, <3>2, <3>3, <3>4, <3>5, <3>6 DEF FmInv, Copying
  <2> QED BY <2>1, <2>2, FileManagerStep
<1> QED BY <1>1, <1>2, PTL DEF Spec

(* A move loses no file: what was in the source of show_move_dialog when   *)
(* it began is at the source or at the target, at whatever file cp or rm   *)
(* stops, and but for what others touch, what cp itself writes over in its *)
(* own source, and what a move upwards leaves in it.                       *)
THEOREM MoveKeepsData == Spec => []MoveLosesNothing
<1>1. FmInv => MoveLosesNothing
  <2> SUFFICES ASSUME FmInv, NEW c \in carried PROVE AtSource(c) \/ AtTarget(c)
    BY DEF MoveLosesNothing, AtSource, AtTarget
  <2>1. fm_job \in {"copy", "move"} \/ fm_job = "delete"
    BY DEF FmInv, FmTypes
  <2> QED BY <2>1 DEF FmInv, Copying
<1> QED BY <1>1, FileManagerInvariant, PTL

(* Whatever was copied, moved, renamed or removed, and however it ended,   *)
(* everything stands in a directory, the root among them.                  *)
LEMMA FileManagerTypes == FmInv => FmTypeOK
BY DEF FmInv, FmTypes, Tree, FmTypeOK
=============================================================================
