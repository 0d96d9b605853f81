--------------------------- MODULE PluginsProofs ---------------------------
(***************************************************************************)
(* For every directory, set of plugins and number of loads: the counters   *)
(* and the dlopen references of plugin_system.c match its list, a plugin   *)
(* still listed was cleaned up only if its object was opened twice, and a  *)
(* plugin that is off stays off.                                           *)
(***************************************************************************)
EXTENDS Plugins, FiniteSetTheorems, TLAPS

(* The nodes of the list, and those that a cleanup has given up. *)
All == plugins \union abandoned
Enabled == {p \in plugins : p.enabled}
Users(i) == {p \in All : p.inode = i}

(* The list and all that is counted of it. *)
ListType ==
    /\ plugins \subseteq Nodes /\ abandoned \subseteq Nodes /\ loads \in 0 .. MaxLoads
    /\ refs \in [Inodes -> Nat] /\ known \in [Files -> Inodes \union {NONE}]
    /\ cleaned \subseteq Inodes /\ written \subseteq Inodes /\ doubled \subseteq Inodes
    /\ off \subseteq Names

(* A node's load tells its place. *)
ListOrder ==
    /\ IsFiniteSet(All)
    /\ \A p \in All : p.load <= loads
    /\ \A p, q \in All : p.load = q.load => p = q
    /\ plugins \intersect abandoned = {}
    /\ Cardinality(All) <= loads

(* An object with more than one reference was opened twice, and only such  *)
(* an object is mapped after its cleanup.                                  *)
Doubling ==
    /\ cleaned \subseteq doubled
    /\ \A i \in Inodes : refs[i] > 1 => i \in doubled

ListInv == ListType /\ ListOrder /\ CountsMatch /\ HandlesMatch /\ Doubling /\ OffMeansOff

(* Everything else has its type only. *)
RestType ==
    /\ opened \in BOOLEAN
    /\ dir \in [Files -> Inodes \union {NONE}]
    /\ content \in [Inodes -> Libs \union {Broken}]
    /\ pc \in {"menu", "scan", "load", "unlink", "crashed"}
    /\ file \in Files \union {NONE} /\ pending \subseteq Files
    /\ pc \in {"load", "unlink"} => file \in Files

IInv == ListInv /\ RestType

-----------------------------------------------------------------------------
(* No list, no counts. *)
LEMMA EmptyKeeps ==
    ASSUME plugins = {}, plugin_count = 0, enabled_count = 0,
           refs = [i \in Inodes |-> 0], known = [f \in Files |-> NONE],
           cleaned = {}, written = {}, doubled = {}, abandoned = {}, off = {},
           loads \in 0 .. MaxLoads
    PROVE  ListInv
<1>1. IsFiniteSet({}) /\ Cardinality({}) = 0
  BY FS_EmptySet
<1>2. ListType /\ Doubling /\ OffMeansOff
  BY DEF ListType, Doubling, OffMeansOff
<1>3. ListOrder
  BY <1>1, PluginAssumption DEF ListOrder, All
<1>4. Enabled = {} /\ \A i \in Inodes : Users(i) = {}
  BY DEF Enabled, Users, All
<1>5. CountsMatch /\ HandlesMatch
  BY <1>1, <1>4 DEF CountsMatch, HandlesMatch, Enabled, Users, All
<1> QED BY <1>2, <1>3, <1>5 DEF ListInv

(* The same after a new start. *)
LEMMA RestartKeeps ==
    ASSUME Restart
    PROVE  ListInv'
<1> USE PluginAssumption
<1>1. IsFiniteSet({}) /\ Cardinality({}) = 0
  BY FS_EmptySet
<1>2. ListType' /\ Doubling' /\ OffMeansOff'
  BY DEF Restart, ListType, Doubling, OffMeansOff
<1>3. ListOrder'
  BY <1>1 DEF Restart, ListOrder, All
<1>4. Enabled' = {} /\ \A i \in Inodes : Users(i)' = {}
  BY DEF Restart, Enabled, Users, All
<1>5. CountsMatch' /\ HandlesMatch'
  BY <1>1, <1>4 DEF Restart, CountsMatch, HandlesMatch, Enabled, Users, All
<1> QED BY <1>2, <1>3, <1>5 DEF ListInv

(* What a node of the list looks like. *)
LEMMA NodeFields ==
    ASSUME NEW p \in Nodes
    PROVE  /\ p.load \in Int /\ p.name \in Names /\ p.file \in Files
           /\ p.inode \in Inodes /\ p.enabled \in BOOLEAN
  BY PluginAssumption DEF Nodes

(* The parts of a finite list are finite. *)
LEMMA PartsFinite ==
    ASSUME ListInv
    PROVE  /\ IsFiniteSet(plugins) /\ IsFiniteSet(Enabled) /\ \A i : IsFiniteSet(Users(i))
           /\ Cardinality(All) \in Nat
           /\ Cardinality(plugins) \in Nat /\ Cardinality(plugins) <= Cardinality(All)
           /\ Cardinality(Enabled) \in Nat /\ Cardinality(Enabled) <= Cardinality(All)
           /\ \A i : Cardinality(Users(i)) \in Nat /\ Cardinality(Users(i)) <= Cardinality(All)
<1>1. /\ IsFiniteSet(All) /\ plugins \subseteq All /\ Enabled \subseteq All
      /\ \A i : Users(i) \subseteq All
  BY DEF ListInv, ListOrder, Enabled, Users, All
<1> QED BY <1>1, FS_Subset, FS_CardinalityType

(* A new node in front keeps the list's invariant. *)
LEMMA ListedKeeps ==
    ASSUME ListInv, NEW f \in Files, NEW i \in Inodes, NEW name \in Names, Listed(f, i, name)
    PROVE  ListInv'
<1> DEFINE new == [load |-> loads + 1, name |-> name, file |-> f, inode |-> i, enabled |-> TRUE]
<1>1. /\ loads \in Nat /\ loads + 1 <= MaxLoads /\ loads' = loads + 1
      /\ plugins' = plugins \union {new}
      /\ plugin_count' = plugin_count + 1 /\ enabled_count' = enabled_count + 1
      /\ refs' = [refs EXCEPT ![i] = @ + 1] /\ known' = [known EXCEPT ![f] = i]
      /\ abandoned' = abandoned
      /\ doubled' = IF refs[i] > 0 THEN doubled \union {i} ELSE doubled
      /\ off' = off \ {name} /\ cleaned' = cleaned /\ written' = written
  BY PluginAssumption DEF Listed, ListInv, ListType
<1>2. new \in Nodes /\ new.load = loads + 1 /\ new.name = name /\ new.inode = i /\ new.enabled
  BY <1>1, PluginAssumption DEF Nodes
<1> HIDE DEF new
<1>3. \A p \in All : p \in Nodes /\ p.load \in Int /\ p.load <= loads
  <2> SUFFICES ASSUME NEW p \in All PROVE p \in Nodes /\ p.load \in Int /\ p.load <= loads
    OBVIOUS
  <2>1. p \in Nodes
    BY DEF ListInv, ListType, All
  <2> QED BY <2>1, NodeFields DEF ListInv, ListOrder
<1>4. new \notin All /\ new \notin plugins /\ All' = All \union {new}
  BY <1>1, <1>2, <1>3 DEF All
<1>5. ListType'
  BY <1>1, <1>2, PluginAssumption DEF ListInv, ListType
<1>6. ListOrder'
  <2>1. IsFiniteSet(All') /\ Cardinality(All') = Cardinality(All) + 1
    BY <1>4, FS_AddElement DEF ListInv, ListOrder
  <2>2. \A p \in All' : p.load <= loads'
    BY <1>1, <1>2, <1>3, <1>4
  <2>3. ASSUME NEW p \in All', NEW q \in All', p.load = q.load PROVE p = q
    <3>1. CASE p \in All /\ q \in All
      BY <2>3, <3>1 DEF ListInv, ListOrder
    <3>2. CASE p = new \/ q = new
      BY <1>1, <1>2, <1>3, <1>4, <2>3, <3>2
    <3> QED BY <1>4, <3>1, <3>2
  <2>4. Cardinality(All') <= loads'
    BY <1>1, <2>1, PartsFinite DEF ListInv, ListOrder
  <2>5. plugins' \intersect abandoned' = {}
    BY <1>1, <1>4 DEF ListInv, ListOrder, All
  <2> QED BY <2>1, <2>2, <2>3, <2>4, <2>5 DEF ListOrder
<1>7. CountsMatch'
  <2>1. Enabled' = Enabled \union {new} /\ new \notin Enabled
    BY <1>1, <1>2, <1>4 DEF Enabled
  <2>2. Cardinality(Enabled') = Cardinality(Enabled) + 1
    BY <2>1, PartsFinite, FS_AddElement
  <2>3. Cardinality(plugins') = Cardinality(plugins) + 1
    BY <1>1, <1>4, PartsFinite, FS_AddElement
  <2> QED BY <1>1, <2>2, <2>3 DEF ListInv, CountsMatch, Enabled
<1>8. HandlesMatch'
  <2> SUFFICES ASSUME NEW j \in Inodes PROVE refs'[j] = Cardinality(Users(j)')
    BY DEF HandlesMatch, Users, All
  <2>1. refs[j] = Cardinality(Users(j)) /\ refs \in [Inodes -> Nat]
    BY DEF ListInv, HandlesMatch, Users, All, ListType
  <2>2. CASE j = i
    <3>1. Users(j)' = Users(j) \union {new} /\ new \notin Users(j)
      BY <1>1, <1>2, <1>4, <2>2 DEF Users
    <3>2. Cardinality(Users(j)') = Cardinality(Users(j)) + 1
      BY <3>1, PartsFinite, FS_AddElement
    <3> QED BY <1>1, <2>1, <2>2, <3>2
  <2>3. CASE j # i
    <3>1. Users(j)' = Users(j)
      BY <1>1, <1>2, <1>4, <2>3 DEF Users
    <3> QED BY <1>1, <2>1, <2>3, <3>1
  <2> QED BY <2>2, <2>3
<1>9. Doubling'
  <2>1. refs \in [Inodes -> Nat]
    BY DEF ListInv, ListType
  <2>2. cleaned' \subseteq doubled'
    BY <1>1 DEF ListInv, Doubling
  <2>3. ASSUME NEW j \in Inodes, refs'[j] > 1 PROVE j \in doubled'
    BY <1>1, <2>1, <2>3 DEF ListInv, Doubling
  <2> QED BY <2>2, <2>3 DEF Doubling
<1>10. OffMeansOff'
  <2> SUFFICES ASSUME NEW n \in off', NEW p \in First(n)' PROVE ~p.enabled
    BY DEF OffMeansOff
  <2>1. n \in off /\ n # name
    BY <1>1
  <2>2. Named(n)' = Named(n)
    BY <1>1, <1>2, <2>1 DEF Named
  <2>3. First(n)' = First(n)
    BY <2>2 DEF First
  <2> QED BY <2>1, <2>3 DEF ListInv, OffMeansOff
<1> QED BY <1>5, <1>6, <1>7, <1>8, <1>9, <1>10 DEF ListInv

(* Unloading a node keeps it, whichever node it is. *)
LEMMA UnlistedKeeps ==
    ASSUME ListInv, NEW q \in plugins, Unlisted(q), loads' = loads
    PROVE  ListInv'
<1> DEFINE i == q.inode
           references == [refs EXCEPT ![i] = refs[i] - 1]
           gone == {j \in Inodes : references[j] = 0}
<1>1. /\ plugins' = plugins \ {q}
      /\ plugin_count' = plugin_count - 1
      /\ enabled_count' = enabled_count - (IF q.enabled THEN 1 ELSE 0)
      /\ refs' = references
      /\ known' = [f \in Files |-> IF known[f] \in gone THEN NONE ELSE known[f]]
      /\ cleaned' = (cleaned \union {i}) \ gone
      /\ written' = written \ gone /\ doubled' = doubled \ gone
      /\ off' = off \ {q.name} /\ abandoned' = abandoned
  BY DEF Unlisted, UnlistedBy, Closed
<1>2. q \in Nodes /\ i \in Inodes /\ q.enabled \in BOOLEAN /\ q.name \in Names
  BY NodeFields DEF ListInv, ListType
<1>3. /\ refs \in [Inodes -> Nat] /\ plugin_count \in Nat /\ enabled_count \in Nat
      /\ refs[i] = Cardinality(Users(i)) /\ q \in Users(i) /\ loads \in Int
  BY <1>2, PartsFinite, PluginAssumption
     DEF ListInv, ListType, HandlesMatch, CountsMatch, Users, All, Enabled
<1>4. refs[i] >= 1
  <2>1. Users(i) # {}
    BY <1>3
  <2>2. Cardinality(Users(i)) # 0
    BY <2>1, PartsFinite, FS_EmptySet
  <2> QED BY <1>2, <1>3, <2>2
<1>0. All' = All \ {q} /\ q \in All
  BY <1>1 DEF ListInv, ListOrder, All
<1> HIDE DEF i
<1>11. references \in [Inodes -> Nat] /\ references = [refs EXCEPT ![i] = refs[i] - 1]
  BY <1>2, <1>3, <1>4 DEF references
<1>12. \A j \in Inodes : references[j] = IF j = i THEN refs[i] - 1 ELSE refs[j]
  BY <1>3, <1>11
<1> HIDE DEF references
<1>5. ListType'
  <2>1. refs' \in [Inodes -> Nat] /\ known' \in [Files -> Inodes \union {NONE}]
    BY <1>1, <1>11 DEF ListInv, ListType
  <2> QED BY <1>1, <1>2, <2>1 DEF ListInv, ListType
<1> HIDE DEF gone
<1>6. ListOrder'
  <2>1. IsFiniteSet(All') /\ Cardinality(All') = Cardinality(All) - 1
    BY <1>0, FS_RemoveElement DEF ListInv, ListOrder
  <2>2. /\ \A p \in All' : p.load <= loads'
        /\ \A p, r \in All' : p.load = r.load => p = r
        /\ plugins' \intersect abandoned' = {}
    BY <1>0, <1>1 DEF ListInv, ListOrder
  <2>3. Cardinality(All') <= loads'
    BY <1>3, <2>1, PartsFinite DEF ListInv, ListOrder
  <2> QED BY <2>1, <2>2, <2>3 DEF ListOrder
<1>7. CountsMatch'
  <2>1. Enabled' = Enabled \ {q} /\ (q \in Enabled <=> q.enabled)
    BY <1>1 DEF Enabled
  <2>2. Cardinality(Enabled') =
          IF q \in Enabled THEN Cardinality(Enabled) - 1 ELSE Cardinality(Enabled)
    BY <2>1, PartsFinite, FS_RemoveElement
  <2>3. Cardinality(plugins') = Cardinality(plugins) - 1
    BY <1>1, PartsFinite, FS_RemoveElement
  <2>4. enabled_count = Cardinality(Enabled) /\ plugin_count = Cardinality(plugins)
    BY DEF ListInv, CountsMatch, Enabled
  <2>5. enabled_count' = Cardinality(Enabled')
    BY <1>1, <1>3, <2>1, <2>2, <2>4
  <2> QED BY <1>1, <2>3, <2>4, <2>5 DEF CountsMatch, Enabled
<1>8. HandlesMatch'
  <2> SUFFICES ASSUME NEW j \in Inodes PROVE refs'[j] = Cardinality(Users(j)')
    BY DEF HandlesMatch, Users, All
  <2>1. refs[j] = Cardinality(Users(j))
    BY DEF ListInv, HandlesMatch, Users, All
  <2>2. CASE j = i
    <3>1. Users(j)' = Users(j) \ {q}
      BY <1>0 DEF Users
    <3>2. Cardinality(Users(j)') = Cardinality(Users(j)) - 1
      BY <1>3, <2>2, <3>1, PartsFinite, FS_RemoveElement
    <3> QED BY <1>1, <1>12, <2>1, <2>2, <3>2
  <2>3. CASE j # i
    <3>1. Users(j)' = Users(j)
      BY <1>0, <2>3 DEF Users, i
    <3> QED BY <1>1, <1>12, <2>1, <2>3, <3>1
  <2> QED BY <2>2, <2>3
<1>9. Doubling'
  <2>1. cleaned' \subseteq doubled'
    <3>1. i \notin gone => refs[i] > 1
      BY <1>2, <1>3, <1>4, <1>12 DEF gone
    <3>2. i \notin gone => i \in doubled
      BY <1>2, <3>1 DEF ListInv, Doubling
    <3> QED BY <1>1, <3>2 DEF ListInv, Doubling
  <2>2. ASSUME NEW j \in Inodes, refs'[j] > 1 PROVE j \in doubled'
    <3>1. refs[j] > 1 /\ references[j] # 0
      BY <1>1, <1>3, <1>12, <2>2
    <3>2. j \in doubled /\ j \notin gone
      BY <3>1 DEF ListInv, Doubling, gone
    <3> QED BY <1>1, <3>2
  <2> QED BY <2>1, <2>2 DEF Doubling
<1>10. OffMeansOff'
  <2> SUFFICES ASSUME NEW n \in off', NEW p \in First(n)' PROVE ~p.enabled
    BY DEF OffMeansOff
  <2>1. n \in off /\ n # q.name
    BY <1>1
  <2>2. Named(n)' = Named(n)
    BY <1>1, <2>1 DEF Named
  <2>3. First(n)' = First(n)
    BY <2>2 DEF First
  <2> QED BY <2>1, <2>3 DEF ListInv, OffMeansOff
<1> QED BY <1>5, <1>6, <1>7, <1>8, <1>9, <1>10 DEF ListInv

(* So does the dialog's toggle: the first node of the chosen one's name    *)
(* gets the other state than the chosen one has.                           *)
LEMMA ToggleKeeps ==
    ASSUME ListInv, NEW p \in plugins, Toggle(p)
    PROVE  ListInv'
<1>1. PICK q \in First(p.name) :
         ToggleOn(p, q, p.enabled = q.enabled) /\ UNCHANGED cleaned
  BY DEF Toggle
<1> DEFINE r == [q EXCEPT !.enabled = ~p.enabled]
<1>2. /\ plugins' = (plugins \ {q}) \union {r}
      /\ enabled_count' = IF p.enabled # q.enabled THEN enabled_count
                          ELSE IF p.enabled THEN enabled_count - 1 ELSE enabled_count + 1
      /\ off' = IF p.enabled THEN off \union {p.name} ELSE off \ {p.name}
      /\ UNCHANGED <<plugin_count, refs, known, cleaned, written, doubled, abandoned, loads>>
  BY <1>1 DEF ToggleOn
<1>3. q \in plugins /\ q.name = p.name /\ \A s \in Named(p.name) : s.load <= q.load
  BY <1>1 DEF First, Named
<1>4. \A s \in plugins : /\ s \in Nodes /\ s.load \in Int /\ s.name \in Names
                         /\ s.inode \in Inodes /\ s.enabled \in BOOLEAN
  BY NodeFields DEF ListInv, ListType
<1>5. /\ r \in Nodes /\ r.load = q.load /\ r.name = q.name /\ r.inode = q.inode
      /\ r.enabled = ~p.enabled
  BY <1>3, <1>4 DEF Nodes
<1>6. r \in All => r = q
  BY <1>3, <1>5 DEF ListInv, ListOrder, All
<1> HIDE DEF r
<1>7. /\ r \notin plugins \ {q} /\ r \notin All \ {q} /\ q \in All
      /\ All' = (All \ {q}) \union {r}
  BY <1>2, <1>3, <1>6 DEF ListInv, ListOrder, All
<1>8. ListType'
  BY <1>2, <1>4, <1>5 DEF ListInv, ListType
<1>9. ListOrder'
  <2>1. IsFiniteSet(All) /\ Cardinality(All) \in Nat /\ Cardinality(All) <= loads
    BY PartsFinite DEF ListInv, ListOrder
  <2>2. IsFiniteSet(All \ {q}) /\ Cardinality(All \ {q}) = Cardinality(All) - 1
    BY <1>7, <2>1, FS_RemoveElement
  <2>3. IsFiniteSet(All') /\ Cardinality(All') = Cardinality(All) - 1 + 1
    BY <1>7, <2>2, FS_AddElement
  <2>4. \A s \in All' : s.load <= loads'
    BY <1>2, <1>5, <1>7 DEF ListInv, ListOrder
  <2>5. \A s, t \in All' : s.load = t.load => s = t
    BY <1>5, <1>7 DEF ListInv, ListOrder
  <2>6. plugins' \intersect abandoned' = {}
    BY <1>2, <1>3, <1>6 DEF ListInv, ListOrder, All
  <2> QED BY <1>2, <2>1, <2>3, <2>4, <2>5, <2>6 DEF ListOrder
<1>10. CountsMatch'
  <2>1. Cardinality(plugins') = Cardinality(plugins)
    <3>1. IsFiniteSet(plugins) /\ Cardinality(plugins) \in Nat
      BY PartsFinite
    <3>2. /\ IsFiniteSet(plugins \ {q})
          /\ Cardinality(plugins \ {q}) = Cardinality(plugins) - 1
      BY <1>3, <3>1, FS_RemoveElement
    <3>3. Cardinality((plugins \ {q}) \union {r}) = Cardinality(plugins) - 1 + 1
      BY <1>7, <3>2, FS_AddElement
    <3> QED BY <1>2, <3>1, <3>3
  <2>2. /\ enabled_count = Cardinality(Enabled) /\ plugin_count = Cardinality(plugins)
        /\ Cardinality(Enabled) \in Nat /\ IsFiniteSet(Enabled)
    BY PartsFinite DEF ListInv, CountsMatch, Enabled
  <2>3. CASE p.enabled # q.enabled
    <3>1. r.enabled = q.enabled
      BY <1>3, <1>4, <1>5, <2>3
    <3>2. r = q
      <4>1. (~p.enabled) = q.enabled
        BY <1>5, <3>1
      <4>2. q \in [load : 1 .. MaxLoads, name : Names, file : Files, inode : Inodes,
                   enabled : BOOLEAN]
        BY <1>3, <1>4 DEF Nodes
      <4>3. [q EXCEPT !.enabled = q.enabled] = q
        BY <4>2
      <4> QED BY <4>1, <4>3 DEF r
    <3>3. Enabled' = Enabled
      BY <1>2, <1>3, <3>2 DEF Enabled
    <3> QED BY <1>2, <2>1, <2>2, <2>3, <3>3 DEF CountsMatch, Enabled
  <2>4. CASE p.enabled = q.enabled /\ q.enabled
    <3>1. Enabled' = Enabled \ {q} /\ q \in Enabled
      BY <1>2, <1>3, <1>5, <2>4 DEF Enabled
    <3>2. Cardinality(Enabled') = Cardinality(Enabled) - 1
      BY <2>2, <3>1, FS_RemoveElement
    <3> QED BY <1>2, <2>1, <2>2, <2>4, <3>2 DEF CountsMatch, Enabled
  <2>5. CASE p.enabled = q.enabled /\ ~q.enabled
    <3>1. Enabled' = Enabled \union {r} /\ r \notin Enabled
      BY <1>2, <1>3, <1>5, <1>7, <2>5 DEF Enabled
    <3>2. Cardinality(Enabled') = Cardinality(Enabled) + 1
      BY <2>2, <3>1, FS_AddElement
    <3> QED BY <1>2, <2>1, <2>2, <2>5, <3>2 DEF CountsMatch, Enabled
  <2> QED BY <2>3, <2>4, <2>5
<1>11. HandlesMatch'
  <2> SUFFICES ASSUME NEW j \in Inodes PROVE refs'[j] = Cardinality(Users(j)')
    BY DEF HandlesMatch, Users, All
  <2>1. refs[j] = Cardinality(Users(j)) /\ Cardinality(Users(j)) \in Nat /\ IsFiniteSet(Users(j))
    BY PartsFinite DEF ListInv, HandlesMatch, Users, All
  <2>2. CASE q.inode = j
    <3>1. Users(j)' = (Users(j) \ {q}) \union {r}
      BY <1>5, <1>7, <2>2 DEF Users
    <3>2. q \in Users(j) /\ r \notin Users(j) \ {q}
      BY <1>7, <2>2 DEF Users
    <3>3. /\ IsFiniteSet(Users(j) \ {q})
          /\ Cardinality(Users(j) \ {q}) = Cardinality(Users(j)) - 1
      BY <2>1, <3>2, FS_RemoveElement
    <3>4. Cardinality(Users(j)') = Cardinality(Users(j)) - 1 + 1
      BY <3>1, <3>2, <3>3, FS_AddElement
    <3> QED BY <1>2, <2>1, <3>4
  <2>3. CASE q.inode # j
    <3>1. Users(j)' = Users(j)
      BY <1>5, <1>7, <2>3 DEF Users
    <3> QED BY <1>2, <2>1, <3>1
  <2> QED BY <2>2, <2>3
<1>12. Doubling'
  BY <1>2 DEF ListInv, Doubling
<1>13. OffMeansOff'
  <2> SUFFICES ASSUME NEW n \in off', NEW s \in First(n)' PROVE ~s.enabled
    BY DEF OffMeansOff
  <2>1. CASE n = p.name
    <3>1. p.enabled
      BY <1>2, <2>1
    <3>2. s \in plugins' /\ s.name = n /\ \A t \in Named(n)' : t.load <= s.load
      BY DEF First, Named
    <3>3. r \in Named(n)'
      BY <1>2, <1>3, <1>5, <2>1 DEF Named
    <3>4. CASE s = r
      BY <1>5, <3>1, <3>4
    <3>5. CASE s # r
      <4>1. s \in plugins /\ s # q /\ s.name = p.name
        BY <1>2, <2>1, <3>2, <3>5
      <4>2. q.load <= s.load /\ s.load <= q.load
        BY <1>3, <1>5, <2>1, <3>2, <3>3, <4>1 DEF Named
      <4>3. s = q
        BY <1>3, <1>4, <4>1, <4>2 DEF ListInv, ListOrder, All
      <4> QED BY <4>1, <4>3
    <3> QED BY <3>4, <3>5
  <2>2. CASE n # p.name
    <3>1. n \in off
      BY <1>2, <2>2
    <3>2. Named(n)' = Named(n)
      BY <1>2, <1>3, <1>5, <2>2 DEF Named
    <3>3. First(n)' = First(n)
      BY <3>2 DEF First
    <3> QED BY <3>1, <3>3 DEF ListInv, OffMeansOff
  <2> QED BY <2>1, <2>2
<1> QED BY <1>8, <1>9, <1>10, <1>11, <1>12, <1>13 DEF ListInv

-----------------------------------------------------------------------------
(* Steps that leave the list and what is counted of it alone.              *)
LEMMA SameListKeeps ==
    ASSUME ListInv, UNCHANGED <<listVars, refs, cleaned, doubled, abandoned, off, loads>>,
           known' \in [Files -> Inodes \union {NONE}], written' \subseteq Inodes
    PROVE  ListInv'
<1> USE DEF listVars
<1>1. ListType' /\ Doubling'
  BY DEF ListInv, ListType, Doubling
<1>2. ListOrder' /\ HandlesMatch'
  BY DEF ListInv, ListOrder, HandlesMatch, All
<1>3. CountsMatch' /\ OffMeansOff'
  BY DEF ListInv, CountsMatch, OffMeansOff, First, Named
<1> QED BY <1>1, <1>2, <1>3 DEF ListInv

(* A cleanup that unloads some nodes and gives the others up keeps it too. *)
LEMMA CleanedUpKeeps ==
    ASSUME ListInv, NEW unloaded \in SUBSET plugins, CleanedUp(unloaded), loads' = loads
    PROVE  ListInv'
<1> DEFINE on(i) == {p \in unloaded : p.inode = i}
           references == [i \in Inodes |-> refs[i] - Cardinality(on(i))]
           gone == {i \in Inodes : references[i] = 0}
<1>1. /\ plugins' = {} /\ plugin_count' = 0 /\ enabled_count' = 0 /\ off' = {}
      /\ refs' = references
      /\ known' = [f \in Files |-> IF known[f] \in gone THEN NONE ELSE known[f]]
      /\ cleaned' = (cleaned \union {p.inode : p \in unloaded}) \ gone
      /\ written' = written \ gone /\ doubled' = doubled \ gone
      /\ abandoned' = abandoned \union (plugins \ unloaded)
  BY DEF CleanedUp, CleanedUpBy, Closed
<1>2. All' = All \ unloaded /\ unloaded \subseteq All
  BY <1>1 DEF ListInv, ListOrder, All
<1>3. ASSUME NEW i \in Inodes
      PROVE  /\ on(i) \subseteq Users(i) /\ Users(i)' = Users(i) \ on(i)
             /\ IsFiniteSet(Users(i)) /\ IsFiniteSet(on(i))
             /\ Cardinality(on(i)) \in Nat /\ Cardinality(on(i)) <= Cardinality(Users(i))
             /\ refs[i] \in Nat /\ refs[i] = Cardinality(Users(i))
             /\ Cardinality(Users(i)') = refs[i] - Cardinality(on(i))
  <2>1. on(i) \subseteq Users(i) /\ Users(i)' = Users(i) \ on(i)
    BY <1>2 DEF Users
  <2>2. IsFiniteSet(Users(i))
    BY PartsFinite
  <2>3. /\ IsFiniteSet(on(i)) /\ Cardinality(on(i)) \in Nat
        /\ Cardinality(on(i)) <= Cardinality(Users(i))
    BY <2>1, <2>2, FS_Subset, FS_CardinalityType
  <2>4. refs[i] \in Nat /\ refs[i] = Cardinality(Users(i))
    BY DEF ListInv, ListType, HandlesMatch, Users, All
  <2>5. Cardinality(Users(i) \ on(i)) = Cardinality(Users(i)) - Cardinality(Users(i) \intersect on(i))
    BY <2>2, FS_Difference
  <2>6. Users(i) \intersect on(i) = on(i)
    BY <2>1
  <2> QED BY <2>1, <2>2, <2>3, <2>4, <2>5, <2>6
<1>4. \A i \in Inodes : references[i] \in Nat /\ references[i] <= refs[i]
  BY <1>3
<1>5. \A p \in unloaded : p.inode \in Inodes
  BY NodeFields DEF ListInv, ListType
<1>6. ASSUME NEW p \in unloaded PROVE Cardinality(on(p.inode)) >= 1
  <2>1. p \in on(p.inode) /\ p.inode \in Inodes
    BY <1>5
  <2>2. IsFiniteSet(on(p.inode)) /\ Cardinality(on(p.inode)) \in Nat
    BY <1>3, <2>1
  <2>3. Cardinality(on(p.inode)) # 0
    BY <2>1, <2>2, FS_EmptySet
  <2> QED BY <2>2, <2>3
<1>7. references \in [Inodes -> Nat]
  BY <1>4
<1>8. \A i \in Inodes : references[i] = refs[i] - Cardinality(on(i))
  OBVIOUS
<1> HIDE DEF references, on
<1>9. ListType'
  <2>1. known' \in [Files -> Inodes \union {NONE}]
    BY <1>1 DEF ListInv, ListType
  <2>2. cleaned' \subseteq Inodes
    BY <1>1, <1>5 DEF ListInv, ListType
  <2> QED BY <1>1, <1>7, <2>1, <2>2 DEF ListInv, ListType
<1>10. ListOrder'
  <2>1. IsFiniteSet(All') /\ Cardinality(All') \in Nat /\ Cardinality(All') <= Cardinality(All)
    BY <1>2, FS_Subset, FS_CardinalityType DEF ListInv, ListOrder
  <2>2. loads \in Int /\ Cardinality(All) \in Nat
    BY PartsFinite, PluginAssumption DEF ListInv, ListType
  <2>3. Cardinality(All') <= loads'
    BY <2>1, <2>2 DEF ListInv, ListOrder
  <2>4. plugins' \intersect abandoned' = {}
    BY <1>1
  <2>5. /\ \A p \in All' : p.load <= loads'
        /\ \A p, q \in All' : p.load = q.load => p = q
    BY <1>2 DEF ListInv, ListOrder
  <2> QED BY <2>1, <2>3, <2>4, <2>5 DEF ListOrder
<1>11. CountsMatch'
  <2>1. Enabled' = {} /\ Cardinality({}) = 0
    BY <1>1, FS_EmptySet DEF Enabled
  <2> QED BY <1>1, <2>1 DEF CountsMatch, Enabled
<1>12. HandlesMatch'
  <2> SUFFICES ASSUME NEW i \in Inodes PROVE refs'[i] = Cardinality(Users(i)')
    BY DEF HandlesMatch, Users, All
  <2> QED BY <1>1, <1>3, <1>8
<1>13. Doubling'
  <2>1. ASSUME NEW p \in unloaded, p.inode \notin gone PROVE p.inode \in doubled
    <3>1. p.inode \in Inodes /\ references[p.inode] # 0
      BY <1>5, <2>1
    <3>2. /\ references[p.inode] = refs[p.inode] - Cardinality(on(p.inode))
          /\ references[p.inode] \in Nat /\ refs[p.inode] \in Nat
          /\ Cardinality(on(p.inode)) \in Nat
      BY <1>3, <1>4, <1>8, <3>1
    <3>3. refs[p.inode] > 1
      BY <1>6, <3>1, <3>2
    <3> QED BY <3>1, <3>3 DEF ListInv, Doubling
  <2>2. cleaned' \subseteq doubled'
    BY <1>1, <2>1 DEF ListInv, Doubling
  <2>3. ASSUME NEW i \in Inodes, refs'[i] > 1 PROVE i \in doubled'
    <3>1. /\ references[i] \in Nat /\ references[i] <= refs[i] /\ refs[i] \in Nat
          /\ references[i] > 1
      BY <1>1, <1>3, <1>4, <2>3
    <3>2. references[i] # 0 /\ refs[i] > 1
      BY <3>1
    <3>3. i \in doubled /\ i \notin gone
      BY <3>2 DEF ListInv, Doubling
    <3> QED BY <1>1, <3>3
  <2> QED BY <2>2, <2>3 DEF Doubling
<1>14. OffMeansOff'
  BY <1>1 DEF OffMeansOff
<1> QED BY <1>9, <1>10, <1>11, <1>12, <1>13, <1>14 DEF ListInv

(* A crash stops the program as it is. *)
LEMMA CrashKeeps == ASSUME IInv, NEW i, MayCrash(i) PROVE IInv'
<1>1. ListInv'
  BY SameListKeeps DEF MayCrash, objVars, IInv, ListInv, ListType
<1>2. RestType'
  BY DEF MayCrash, diskVars, IInv, RestType
<1> QED BY <1>1, <1>2 DEF IInv

(* A load that fails changes nothing but the paths of an object. *)
LEMMA LoadKeeps == ASSUME IInv, NEW f \in Files, LoadFile(f) PROVE ListInv'
<1> DEFINE i == Object(f)
<1>0. known \in [Files -> Inodes \union {NONE}]
  BY DEF IInv, ListInv, ListType
<1>1. ASSUME \/ UNCHANGED known
             \/ i \in Inodes /\ refs[i] > 0 /\ known' = [known EXCEPT ![f] = i],
             UNCHANGED <<listVars, refs, cleaned, written, doubled, abandoned, off, loads>>
      PROVE  ListInv'
  <2>1. known' \in [Files -> Inodes \union {NONE}]
    BY <1>0, <1>1
  <2> QED BY <1>1, <2>1, SameListKeeps DEF IInv, ListInv, ListType
<1>2. ASSUME NEW name \in Names, i \in Inodes, Listed(f, i, name) PROVE ListInv'
  BY <1>2, ListedKeeps DEF IInv
<1>3. ASSUME i \in Inodes, content[i] \in Libs PROVE NameOf[content[i]] \in Names
  BY <1>3, PluginAssumption
<1> HIDE DEF i
<1> QED BY <1>1, <1>2, <1>3 DEF LoadFile, i

(* cp changes the disk only, and what is mapped from it. *)
LEMMA CopyKeeps ==
    ASSUME IInv, NEW f \in Files, NEW bytes \in Libs \union {Broken}, Copy(f, bytes)
    PROVE  /\ ListInv' /\ dir' \in [Files -> Inodes \union {NONE}]
           /\ content' \in [Inodes -> Libs \union {Broken}]
           /\ UNCHANGED <<opened, pending>>
<1>1. written' \subseteq Inodes
  BY DEF Copy, IInv, ListInv, ListType
<1>2. ListInv'
  BY <1>1, SameListKeeps DEF Copy, IInv, ListInv, ListType
<1> QED BY <1>2 DEF Copy, IInv, RestType

(* Every action keeps the invariant. *)
LEMMA StepKeeps == ASSUME IInv, [Next]_vars PROVE IInv'
<1>1. ListInv /\ RestType
  BY DEF IInv
<1>2. ASSUME UNCHANGED <<listVars, objVars, off, loads>> PROVE ListInv'
  BY <1>1, <1>2, SameListKeeps DEF objVars, ListInv, ListType
<1>3. CASE Open \/ Scan \/ ScanEnd \/ Unlink
  <2>1. ListInv'
    BY <1>2, <1>3 DEF Open, Scan, ScanEnd, Unlink
  <2>2. RestType'
    BY <1>1, <1>3 DEF Open, Scan, ScanEnd, Unlink, Menu, RestType, diskVars
  <2> QED BY <2>1, <2>2 DEF IInv
<1>4. CASE ScanFile
  <2>1. PICK f \in pending :
           \/ /\ IF dir[f] = NONE THEN UNCHANGED <<listVars, objVars, off, loads>> ELSE LoadFile(f)
              /\ pending' = pending \ {f} /\ UNCHANGED <<diskVars, opened, pc, file>>
           \/ MayCrash(Object(f))
    BY <1>4 DEF ScanFile
  <2>2. CASE MayCrash(Object(f))
    BY <2>2, CrashKeeps
  <2>3. CASE /\ IF dir[f] = NONE THEN UNCHANGED <<listVars, objVars, off, loads>> ELSE LoadFile(f)
             /\ pending' = pending \ {f} /\ UNCHANGED <<diskVars, opened, pc, file>>
    <3>1. ListInv'
      BY <1>1, <1>2, <2>3, LoadKeeps DEF RestType
    <3>2. RestType'
      BY <1>1, <2>3 DEF RestType, diskVars
    <3> QED BY <3>1, <3>2 DEF IInv
  <2> QED BY <2>1, <2>2, <2>3
<1>5. CASE InstallLoads
  <2>1. file \in Files
    BY <1>1, <1>5 DEF InstallLoads, RestType
  <2>2. CASE MayCrash(Object(file))
    BY <2>2, CrashKeeps
  <2>3. CASE LoadFile(file) /\ pc' = "menu" /\ UNCHANGED <<diskVars, opened, file, pending>>
    <3>1. ListInv'
      BY <2>1, <2>3, LoadKeeps
    <3>2. RestType'
      BY <1>1, <2>3 DEF RestType, diskVars
    <3> QED BY <3>1, <3>2 DEF IInv
  <2> QED BY <1>5, <2>2, <2>3 DEF InstallLoads
<1>6. ASSUME NEW f \in Files, InstallFails(f) PROVE IInv'
  <2>1. Copy(f, Broken) /\ UNCHANGED <<pc, file>>
    BY <1>6 DEF InstallFails
  <2> QED BY <1>1, <2>1, CopyKeeps DEF IInv, RestType
<1>7. ASSUME NEW f \in Files, NEW lib \in Libs, InstallCopies(f, lib) PROVE IInv'
  <2>1. Copy(f, lib) /\ pc' = "load" /\ file' = f
    BY <1>7 DEF InstallCopies
  <2> QED BY <1>1, <2>1, CopyKeeps DEF IInv, RestType
<1>8. ASSUME NEW p \in plugins, Toggle(p) PROVE IInv'
  <2>1. ListInv'
    BY <1>1, <1>8, ToggleKeeps
  <2>2. RestType'
    BY <1>1, <1>8 DEF Toggle, ToggleOn, RestType, diskVars, ctlVars
  <2> QED BY <2>1, <2>2 DEF IInv
<1>9. ASSUME NEW p \in plugins, Remove(p) PROVE IInv'
  <2>1. PICK q \in First(p.name) :
           \/ /\ Unlisted(q) /\ pc' = "unlink" /\ file' = q.file
              /\ UNCHANGED <<diskVars, opened, pending, loads>>
           \/ MayCrash(q.inode)
    BY <1>9 DEF Remove
  <2>2. q \in plugins /\ q.file \in Files
    BY <1>1, NodeFields DEF First, Named, ListInv, ListType
  <2>3. CASE MayCrash(q.inode)
    BY <2>3, CrashKeeps
  <2>4. CASE /\ Unlisted(q) /\ pc' = "unlink" /\ file' = q.file
             /\ UNCHANGED <<diskVars, opened, pending, loads>>
    <3>1. ListInv'
      BY <1>1, <2>2, <2>4, UnlistedKeeps
    <3>2. RestType'
      BY <1>1, <2>2, <2>4 DEF RestType, diskVars
    <3> QED BY <3>1, <3>2 DEF IInv
  <2> QED BY <2>1, <2>3, <2>4
<1>10. ASSUME NEW n \in Names, Execute(n) PROVE IInv'
  <2>1. PICK q \in First(n) : UNCHANGED vars \/ MayCrash(q.inode)
    BY <1>10 DEF Execute
  <2>2. CASE UNCHANGED vars
    <3>1. ListInv'
      BY <1>2, <2>2 DEF vars
    <3>2. RestType'
      BY <1>1, <2>2 DEF vars, RestType, diskVars, ctlVars
    <3> QED BY <3>1, <3>2 DEF IInv
  <2> QED BY <2>1, <2>2, CrashKeeps
<1>12. CASE Cleanup
  <2>1. ASSUME NEW unloaded \in SUBSET plugins, CleanedUp(unloaded),
               UNCHANGED <<diskVars, ctlVars, loads>>
        PROVE  IInv'
    <3>1. ListInv'
      BY <1>1, <2>1, CleanedUpKeeps
    <3>2. RestType'
      BY <1>1, <2>1 DEF RestType, diskVars, ctlVars
    <3> QED BY <3>1, <3>2 DEF IInv
  <2>2. CASE /\ pc' = "crashed"
             /\ UNCHANGED <<listVars, objVars, diskVars, opened, file, pending, off, loads>>
    <3>1. ListInv'
      BY <1>2, <2>2
    <3>2. RestType'
      BY <1>1, <2>2 DEF RestType, diskVars
    <3> QED BY <3>1, <3>2 DEF IInv
  <2> QED BY <1>12, <2>1, <2>2 DEF Cleanup
<1>13. CASE Restart
  <2>1. ListInv'
    BY <1>13, RestartKeeps
  <2>2. RestType'
    BY <1>1, <1>13 DEF Restart, RestType, diskVars
  <2> QED BY <2>1, <2>2 DEF IInv
<1>14. ASSUME NEW f \in Files, Delete(f) PROVE IInv'
  <2>1. ListInv'
    BY <1>2, <1>14 DEF Delete
  <2>2. RestType'
    BY <1>1, <1>14 DEF Delete, RestType, ctlVars
  <2> QED BY <2>1, <2>2 DEF IInv
<1>15. ASSUME NEW f \in Files, NEW bytes \in Libs \union {Broken}, Put(f, bytes) PROVE IInv'
  <2>1. ListInv'
    BY <1>2, <1>15 DEF Put
  <2>2. RestType'
    BY <1>1, <1>15 DEF Put, RestType, ctlVars
  <2> QED BY <2>1, <2>2 DEF IInv
<1>16. CASE UNCHANGED vars
  <2>1. ListInv'
    BY <1>2, <1>16 DEF vars
  <2>2. RestType'
    BY <1>1, <1>16 DEF vars, RestType, diskVars, ctlVars
  <2> QED BY <2>1, <2>2 DEF IInv
<1> QED BY <1>3, <1>4, <1>5, <1>6, <1>7, <1>8, <1>9, <1>10, <1>12, <1>13, <1>14, <1>15, <1>16
        DEF Next

(* The empty list and directory satisfy the invariant. *)
LEMMA InitIInv == Init => IInv
<1> SUFFICES ASSUME Init PROVE IInv
  OBVIOUS
<1>1. ListInv
  BY EmptyKeeps, PluginAssumption DEF Init, Empty
<1>2. RestType
  BY DEF Init, RestType
<1> QED BY <1>1, <1>2 DEF IInv

(* The inductive invariant of plugin_system.c. *)
THEOREM PluginInvariant == Spec => []IInv
<1>1. IInv /\ [Next]_vars => IInv'
  BY StepKeeps
<1> QED BY <1>1, InitIInv, PTL DEF Spec

(* Types; the counters never pass the number of loads nor fall below 0.    *)
THEOREM PluginTypes == Spec => []TypeOK
<1>1. IInv => TypeOK
  <2> SUFFICES ASSUME IInv PROVE TypeOK
    OBVIOUS
  <2>1. /\ ListInv /\ ListType /\ RestType /\ loads \in 0 .. MaxLoads
        /\ Cardinality(All) <= loads
    BY DEF IInv, ListInv, ListType, ListOrder
  <2>2. plugin_count \in 0 .. MaxLoads /\ enabled_count \in 0 .. MaxLoads
    BY <2>1, PartsFinite, PluginAssumption DEF ListInv, CountsMatch, Enabled
  <2>3. refs \in [Inodes -> 0 .. MaxLoads]
    <3>1. \A i \in Inodes : refs[i] \in 0 .. MaxLoads
      <4> TAKE i \in Inodes
      <4>1. refs[i] = Cardinality(Users(i))
        BY <2>1 DEF ListInv, HandlesMatch, Users, All
      <4>2. Cardinality(Users(i)) \in Nat /\ Cardinality(Users(i)) <= Cardinality(All)
        BY <2>1, PartsFinite
      <4> QED BY <2>1, <4>1, <4>2, PartsFinite, PluginAssumption
    <3> QED BY <2>1, <3>1 DEF ListType
  <2> QED BY <2>1, <2>2, <2>3 DEF TypeOK, ListType, RestType
<1> QED BY <1>1, PluginInvariant, PTL

(* The dialog's two counters are those of the list.                        *)
THEOREM CountersRight == Spec => []CountsMatch
<1>1. IInv => CountsMatch
  BY DEF IInv, ListInv
<1> QED BY <1>1, PluginInvariant, PTL

(* Every listed plugin's object is mapped, and no other object is but      *)
(* those of nodes that a cleanup gave up.                                  *)
THEOREM HandlesBalanced == Spec => []HandlesMatch
<1>1. IInv => HandlesMatch
  BY DEF IInv, ListInv
<1> QED BY <1>1, PluginInvariant, PTL

(* A plugin still listed was cleaned up only if its object was opened      *)
(* twice.                                                                  *)
THEOREM CleanupNeedsDoubleLoad == Spec => []CleanedOnlyIfDoubled
<1>1. IInv => CleanedOnlyIfDoubled
  BY DEF IInv, ListInv, Doubling, CleanedOnlyIfDoubled
<1> QED BY <1>1, PluginInvariant, PTL

(* What was turned off is not executed by its name.                        *)
THEOREM OffStaysOff == Spec => []OffMeansOff
<1>1. IInv => OffMeansOff
  BY DEF IInv, ListInv
<1> QED BY <1>1, PluginInvariant, PTL
=============================================================================
