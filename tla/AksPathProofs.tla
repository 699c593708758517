--------------------------- MODULE AksPathProofs ---------------------------
(***************************************************************************)
(* Proofs about AksPath, for every tree of names of whatever depth: the    *)
(* paths that handles give, cached or not, lead to where they stand, and   *)
(* the child got by listing a directory is the one that was listed.        *)
(***************************************************************************)
EXTENDS AksPath, AksFileProofs, FiniteSetTheorems

(***************************************************************************)
(* Going up.  BringupPath is a recursion that nothing but the depth of a   *)
(* path bounds; that there is a function as it defines is to be shown.     *)
(***************************************************************************)
Depth(p) == Cardinality(Lineage[p])

(* A path is one deeper than the one above it. *)
LEMMA Depths ==
  /\ \A p \in Path : Depth(p) \in Nat
  /\ \A p \in Path \ {Root} :
       ParentOf[p] \in Path /\ Depth(p) = Depth(ParentOf[p]) + 1
<1>1. \A p \in Path : Depth(p) \in Nat
  BY DepthAssumption, FS_CardinalityType DEF Depth
<1>2. ASSUME NEW p \in Path \ {Root}
      PROVE  ParentOf[p] \in Path /\ Depth(p) = Depth(ParentOf[p]) + 1
  <2>1. /\ ParentOf[p] \in Path
        /\ Lineage[p] = Lineage[ParentOf[p]] \cup {p} /\ p \notin Lineage[ParentOf[p]]
    BY PathAssumption
  <2>2. Cardinality(Lineage[ParentOf[p]] \cup {p}) = Cardinality(Lineage[ParentOf[p]]) + 1
    BY <2>1, DepthAssumption, FS_AddElement
  <2> QED
    BY <2>1, <2>2 DEF Depth
<1> QED
  BY <1>1, <1>2

(* Paths that a property does not hold of include one of least depth. *)
LEMMA LeastDepth ==
  ASSUME NEW S, S \subseteq Path, S # {}
  PROVE  \E p \in S : p # Root => ParentOf[p] \notin S
<1> DEFINE D == {Depth(p) : p \in S}
<1>1. D \subseteq Nat /\ D # {}
  BY Depths
<1>2. PICK d \in D : \A e \in D : d <= e
  BY <1>1, LeastElement
<1>3. PICK p \in S : d = Depth(p)
  BY <1>2
<1>4. ASSUME p # Root, ParentOf[p] \in S PROVE FALSE
  <2>1. Depth(p) = Depth(ParentOf[p]) + 1 /\ Depth(ParentOf[p]) \in Nat
    BY <1>4, Depths
  <2>2. Depth(p) <= Depth(ParentOf[p])
    BY <1>2, <1>3, <1>4
  <2> QED
    BY <2>1, <2>2
<1> QED
  BY <1>4

(* The names down from the root, for paths no deeper than n. *)
UpTo(n) == {p \in Path : Depth(p) <= n}

Step(f, p) == IF p = Root THEN << >> ELSE Append(f[ParentOf[p]], LeafOf[p])

Climbs(n, f) == f = [p \in UpTo(n) |-> Step(f, p)]

(* Such a function is the only one: for each depth there is one at most. *)
LEMMA ClimbsOnce ==
  ASSUME NEW m \in Nat, NEW n \in Nat, NEW f, NEW g,
         Climbs(m, f), Climbs(n, g)
  PROVE  \A p \in UpTo(m) \cap UpTo(n) : f[p] = g[p]
<1> DEFINE S == {p \in UpTo(m) \cap UpTo(n) : f[p] # g[p]}
<1> SUFFICES ASSUME S # {} PROVE FALSE
  OBVIOUS
<1>1. S \subseteq Path
  BY DEF UpTo
<1>2. PICK p \in S : p # Root => ParentOf[p] \notin S
  BY <1>1, LeastDepth
<1>3. f[p] = Step(f, p) /\ g[p] = Step(g, p)
  BY <1>2 DEF Climbs
<1>4. p # Root
  BY <1>2, <1>3 DEF Step
<1>5. f[ParentOf[p]] # g[ParentOf[p]]
  BY <1>2, <1>3, <1>4 DEF Step
<1>6. ParentOf[p] \in UpTo(m) \cap UpTo(n)
  BY <1>2, <1>4, Depths DEF UpTo
<1> QED
  BY <1>2, <1>4, <1>5, <1>6

(* And there is one. *)
LEMMA ClimbsExists ==
  \A n \in Nat : \E f : Climbs(n, f)
<1> DEFINE S == {n \in Nat : ~ \E f : Climbs(n, f)}
<1> SUFFICES ASSUME S # {} PROVE FALSE
  OBVIOUS
<1>1. PICK n \in S : \A k \in S : n <= k
  BY LeastElement
<1>2. n \in Nat /\ ~ \E f : Climbs(n, f)
  BY <1>1
<1>3. CASE n = 0
  <2> DEFINE f == [p \in UpTo(0) |-> << >>]
  <2>1. \A p \in UpTo(0) : p = Root
    <3>1. \A p \in Path \ {Root} : ~ Depth(p) <= 0
      BY Depths
    <3> QED
      BY <3>1 DEF UpTo
  <2>2. f = [p \in UpTo(0) |-> Step(f, p)]
    BY <2>1 DEF Step
  <2> QED
    BY <1>2, <1>3, <2>2 DEF Climbs
<1>4. CASE n # 0
  <2>1. n - 1 \in Nat /\ n - 1 \notin S
    BY <1>1, <1>2, <1>4
  <2>2. PICK f : Climbs(n - 1, f)
    BY <2>1
  <2> DEFINE g == [p \in UpTo(n) |-> Step(f, p)]
  <2>3. ASSUME NEW p \in UpTo(n) PROVE Step(f, p) = Step(g, p)
    <3>1. CASE p = Root
      BY <3>1 DEF Step
    <3>2. CASE p # Root
      <4>1. ParentOf[p] \in UpTo(n - 1) /\ ParentOf[p] \in UpTo(n)
        BY <1>2, <3>2, Depths DEF UpTo
      <4>2. f[ParentOf[p]] = Step(f, ParentOf[p])
        BY <2>2, <4>1 DEF Climbs
      <4>3. g[ParentOf[p]] = f[ParentOf[p]]
        BY <4>1, <4>2
      <4> QED
        BY <3>2, <4>3 DEF Step
    <3> QED
      BY <3>1, <3>2
  <2>4. g = [p \in UpTo(n) |-> Step(g, p)]
    BY <2>3
  <2> QED
    BY <1>2, <2>4 DEF Climbs
<1> QED
  BY <1>3, <1>4

(* So there is one for all depths at once. *)
LEMMA ClimbExists ==
  \E f : f = [p \in Path |-> Step(f, p)]
<1> DEFINE some(n) == CHOOSE f : Climbs(n, f)
           f == [p \in Path |-> some(Depth(p))[p]]
<1>1. \A n \in Nat : Climbs(n, some(n))
  BY ClimbsExists
<1> HIDE DEF some
<1>2. ASSUME NEW p \in Path PROVE f[p] = Step(f, p)
  <2>1. Depth(p) \in Nat /\ p \in UpTo(Depth(p))
    BY Depths DEF UpTo
  <2>2. f[p] = Step(some(Depth(p)), p)
    BY <1>1, <2>1 DEF Climbs
  <2>3. CASE p = Root
    BY <2>2, <2>3 DEF Step
  <2>4. CASE p # Root
    <3> DEFINE q == ParentOf[p]
    <3>1. q \in Path /\ Depth(q) \in Nat /\ q \in UpTo(Depth(q)) \cap UpTo(Depth(p))
      BY <2>1, <2>4, Depths DEF UpTo
    <3>2. some(Depth(q))[q] = some(Depth(p))[q]
      BY <1>1, <2>1, <3>1, ClimbsOnce
    <3>3. f[q] = some(Depth(p))[q]
      BY <3>1, <3>2
    <3> QED
      BY <2>2, <2>4, <3>3 DEF Step
  <2> QED
    BY <2>3, <2>4
<1>3. f = [p \in Path |-> Step(f, p)]
  BY <1>2
<1> QED
  BY <1>3

(***************************************************************************)
(* What bringup_path gives: nothing at the root, and one name more for     *)
(* every path below it.                                                    *)
(***************************************************************************)
LEMMA BringupPathIs ==
  ASSUME NEW n \in Path
  PROVE  BringupPath(n) = IF n = Root THEN << >>
                          ELSE Append(BringupPath(ParentOf[n]), LeafOf[n])
<1> DEFINE up == CHOOSE f : f = [p \in Path |->
                   IF p = Root THEN << >> ELSE Append(f[ParentOf[p]], LeafOf[p])]
<1>1. PICK f : f = [p \in Path |-> Step(f, p)]
  BY ClimbExists
<1>2. f = [p \in Path |-> IF p = Root THEN << >> ELSE Append(f[ParentOf[p]], LeafOf[p])]
  BY <1>1 DEF Step
<1>3. up = [p \in Path |-> IF p = Root THEN << >> ELSE Append(up[ParentOf[p]], LeafOf[p])]
  BY <1>2, Zenon
<1>4. \A p : BringupPath(p) = up[p]
  BY DEF BringupPath
<1> HIDE DEF up
<1> QED
  BY <1>3, <1>4

(***************************************************************************)
(* Going down again: w is the walk from c along the names s to q.          *)
(***************************************************************************)
Walk(c, s, w) == w = [i \in 0 .. Len(s) |-> IF i = 0 THEN c ELSE Under[w[i - 1]][s[i]]]

Leads(c, s, q) == \E w : Walk(c, s, w) /\ w[Len(s)] = q

(* There is one walk along some names: where it ends is what Follow says. *)
LEMMA LeadsThere ==
  ASSUME NEW c, NEW s \in Seq(Name), NEW q, Leads(c, s, q)
  PROVE  Follow(c, s) = q
<1> DEFINE at == CHOOSE w : Walk(c, s, w)
<1>1. PICK w : Walk(c, s, w) /\ w[Len(s)] = q
  BY DEF Leads
<1>2. Walk(c, s, at)
  BY <1>1
<1>3. Follow(c, s) = at[Len(s)]
  BY DEF Follow, Walk
<1> HIDE DEF at
<1> DEFINE S == {i \in 0 .. Len(s) : at[i] # w[i]}
<1>4. S = {}
  <2> SUFFICES ASSUME S # {} PROVE FALSE
    OBVIOUS
  <2>1. S \subseteq Nat
    OBVIOUS
  <2>2. PICK i \in S : \A j \in S : i <= j
    BY <2>1, LeastElement
  <2>3. i # 0
    BY <1>1, <1>2, <2>2 DEF Walk
  <2>4. i - 1 \in 0 .. Len(s) /\ i - 1 \notin S
    BY <2>2, <2>3
  <2> QED
    BY <1>1, <1>2, <2>2, <2>3, <2>4 DEF Walk
<1> QED
  BY <1>1, <1>3, <1>4

(* No names lead nowhere else. *)
LEMMA StayPut ==
  ASSUME NEW c
  PROVE  Leads(c, << >>, c)
<1> DEFINE w == [i \in 0 .. 0 |-> c]
<1>1. Len(<< >>) = 0
  OBVIOUS
<1>2. w = [i \in 0 .. 0 |-> IF i = 0 THEN c ELSE Under[w[i - 1]][<< >>[i]]]
  OBVIOUS
<1>3. w[Len(<< >>)] = c
  BY <1>1
<1> HIDE DEF w
<1>4. Walk(c, << >>, w)
  BY <1>1, <1>2, Zenon DEF Walk
<1> QED
  BY <1>3, <1>4 DEF Leads

(* One name more leads one step further. *)
LEMMA OneMore ==
  ASSUME NEW c, NEW s \in Seq(Name), NEW q, Leads(c, s, q), NEW x \in Name
  PROVE  Leads(c, Append(s, x), Under[q][x])
<1> DEFINE n == Len(s)
           t == Append(s, x)
<1>1. n \in Nat /\ Len(t) = n + 1 /\ t[n + 1] = x /\ \A i \in 1 .. n : t[i] = s[i]
  OBVIOUS
<1>2. PICK w : Walk(c, s, w) /\ w[n] = q
  BY DEF Leads
<1> HIDE DEF n, t
<1> DEFINE v == [i \in 0 .. n + 1 |-> IF i = n + 1 THEN Under[q][x] ELSE w[i]]
<1>3. \A i \in 0 .. n : w[i] = IF i = 0 THEN c ELSE Under[w[i - 1]][s[i]]
  BY <1>2 DEF Walk, n
<1>4. ASSUME NEW i \in 0 .. n + 1
      PROVE  v[i] = IF i = 0 THEN c ELSE Under[v[i - 1]][t[i]]
  <2>1. CASE i = n + 1
    <3>1. v[i - 1] = q /\ t[i] = x /\ i # 0
      BY <1>1, <1>2, <2>1
    <3> QED
      BY <1>1, <2>1, <3>1
  <2>2. CASE i = 0
    BY <1>1, <1>3, <2>2
  <2>3. CASE i \in 1 .. n
    <3>1. v[i] = w[i] /\ v[i - 1] = w[i - 1] /\ t[i] = s[i]
      BY <1>1, <2>3
    <3> QED
      BY <1>1, <1>3, <2>3, <3>1
  <2> QED
    BY <1>1, <2>1, <2>2, <2>3
<1>5. v = [i \in 0 .. Len(t) |-> IF i = 0 THEN c ELSE Under[v[i - 1]][t[i]]]
  BY <1>1, <1>4
<1>6. v[Len(t)] = Under[q][x]
  BY <1>1
<1> QED
  BY <1>5, <1>6 DEF Leads, Walk, t

(* The names that bringup_path gives lead down again from the root. *)
LEMMA BringupPathLeads ==
  ASSUME NEW n \in Path
  PROVE  BringupPath(n) \in Seq(Name) /\ Follow(Root, BringupPath(n)) = n
<1> DEFINE Right(p) == BringupPath(p) \in Seq(Name) /\ Leads(Root, BringupPath(p), p)
           S == {p \in Path : ~ Right(p)}
<1>1. S = {}
  <2> SUFFICES ASSUME S # {} PROVE FALSE
    OBVIOUS
  <2>1. PICK p \in S : p # Root => ParentOf[p] \notin S
    BY LeastDepth
  <2>2. p \in Path /\ ~ Right(p)
    BY <2>1
  <2>3. CASE p = Root
    <3>1. BringupPath(p) = << >>
      BY <2>2, <2>3, BringupPathIs
    <3>2. << >> \in Seq(Name)
      OBVIOUS
    <3> QED
      BY <2>2, <2>3, <3>1, <3>2, StayPut
  <2>4. CASE p # Root
    <3> DEFINE q == ParentOf[p]
    <3>1. q \in Path /\ BringupPath(q) \in Seq(Name) /\ Leads(Root, BringupPath(q), q)
      BY <2>1, <2>2, <2>4, PathAssumption
    <3>2. LeafOf[p] \in Name /\ Under[q][LeafOf[p]] = p
      BY <2>2, <2>4, NamesAssumption
    <3>3. BringupPath(p) = Append(BringupPath(q), LeafOf[p])
      BY <2>2, <2>4, BringupPathIs
    <3>4. Leads(Root, Append(BringupPath(q), LeafOf[p]), p)
      BY <3>1, <3>2, OneMore
    <3>5. Append(BringupPath(q), LeafOf[p]) \in Seq(Name)
      BY <3>1, <3>2
    <3> QED
      BY <2>2, <3>3, <3>4, <3>5
  <2> QED
    BY <2>3, <2>4
<1>2. BringupPath(n) \in Seq(Name) /\ Leads(Root, BringupPath(n), n)
  BY <1>1
<1> QED
  BY <1>2, LeadsThere

(***************************************************************************)
(* The inductive invariant.                                                *)
(***************************************************************************)
(* A handle stands on a node that its tree has. *)
Placed == \A h \in 1 .. made : current[h] # NULL => InTree(PathOf(current[h]))

(* Nothing is known yet of a handle that is not made yet. *)
Unknown == \A h \in Handle : h > made => peeked[h] = NULL /\ offered[h] = NULL

(* What is cached is the path of the node, but for what is called anew. *)
Remembered ==
  \A h \in 1 .. made : peeked[h] # NULL /\ ~ stale[h] =>
    current[h] # NULL /\ peeked[h] = BringupPath(PathOf(current[h]))

PathInv ==
  /\ FileInv
  /\ PathTypeOK
  /\ Placed /\ Unknown /\ Remembered
  /\ ListedChildFound

(* What lies above a path of the tree is in the tree. *)
LEMMA AboveInTree ==
  ASSUME TypeOK, NEW p \in Path, InTree(p), NEW q \in Lineage[p]
  PROVE  InTree(q)
<1>1. CASE p = Root
  BY <1>1, PathAssumption DEF InTree
<1>2. CASE p # Root
  <2>1. PICK i \in 1 .. Len(archive) : p \in Lineage[Canon[archive[i]]]
    BY <1>2 DEF InTree, NodesAfter
  <2>2. Canon[archive[i]] \in Path
    BY ArchiveIs, NameAssumption
  <2>3. q \in Lineage[Canon[archive[i]]]
    BY <2>1, <2>2, LineageAssumption
  <2> QED
    BY <2>3 DEF InTree, NodesAfter
<1> QED
  BY <1>1, <1>2

(* The node of a handle is a node. *)
LEMMA NodeOfHandle ==
  ASSUME PathInv, NEW h \in 1 .. made
  PROVE  /\ h \in Handle /\ current[h] \in Nodes \cup {NULL}
         /\ climbed[h] \in BOOLEAN /\ filename[h] \in Path
         /\ current[h] # NULL => PathOf(current[h]) \in Path /\ InTree(PathOf(current[h]))
<1>1. h \in Handle
  BY HandleAssumption DEF PathInv, FileInv, TypeOK, Handle
<1> QED
  BY <1>1 DEF PathInv, FileInv, TypeOK, Placed, Nodes, PathOf

(* The spelling of names does not change. *)
LEMMA SameNames ==
  ASSUME archive' = archive
  PROVE  \A q : NameOf(q)' = NameOf(q)
BY SameTrees DEF NameOf, RawOf

(* A handle is made that stands on n. *)
NewHandle(n, c) ==
  /\ made < MaxHandles
  /\ made' = made + 1
  /\ current' = [current EXCEPT ![made + 1] = n]
  /\ climbed' = [climbed EXCEPT ![made + 1] = c]

(***************************************************************************)
(* A new handle at a node n, climbed to or not, keeps the invariant if n   *)
(* is of the tree and, where a name was looked up, it was looked up right. *)
(***************************************************************************)
LEMMA HandleMade ==
  ASSUME PathInv, FileInv', archive' = archive, UNCHANGED <<peeked, stale>>,
         NEW n \in Nodes \cup {NULL}, NEW c \in BOOLEAN, NewHandle(n, c),
         n # NULL => InTree(PathOf(n)),
         NEW q \in Path \cup {NULL}, offered' = [offered EXCEPT ![made + 1] = q],
         q # NULL /\ ~ c /\ NameOf(q) = LeafOf[q] => n # NULL /\ PathOf(n) = q
  PROVE  PathInv'
<1> USE HandleAssumption DEF NewHandle, Handle
<1>1. /\ made \in Nat /\ made + 1 \in Handle
      /\ current \in [Handle -> Nodes \cup {NULL}] /\ climbed \in [Handle -> BOOLEAN]
      /\ offered \in [Handle -> Path \cup {NULL}]
  BY DEF PathInv, FileInv, TypeOK, PathTypeOK
<1>2. current'[made + 1] = n /\ climbed'[made + 1] = c /\ offered'[made + 1] = q
  BY <1>1
<1>3. \A h \in Handle \ {made + 1} :
        current'[h] = current[h] /\ climbed'[h] = climbed[h] /\ offered'[h] = offered[h]
  BY <1>1
<1>4. \A h \in 1 .. made' : h = made + 1 \/ (h \in 1 .. made /\ h \in Handle \ {made + 1})
  BY <1>1
<1>5. PathTypeOK'
  <2>1. offered' \in [Handle -> Path \cup {NULL}]
    BY <1>1
  <2> QED
    BY <2>1 DEF FileInv, PathInv, PathTypeOK
<1>6. Placed'
  BY <1>2, <1>3, <1>4, SameTrees DEF PathInv, Placed
<1>7. Unknown'
  BY <1>1, <1>3 DEF PathInv, Unknown
<1>8. Remembered'
  <2>1. peeked[made + 1] = NULL
    BY <1>1 DEF PathInv, Unknown
  <2> QED
    BY <1>3, <1>4, <2>1 DEF PathInv, Remembered
<1>9. ListedChildFound'
  BY <1>2, <1>3, <1>4, SameNames DEF PathInv, ListedChildFound
<1> QED
  BY <1>5, <1>6, <1>7, <1>8, <1>9 DEF PathInv

(* Nothing is made, and no handle moves. *)
LEMMA HandlesStay ==
  ASSUME PathInv, FileInv', PathTypeOK', Unknown', Remembered',
         UNCHANGED <<archive, made, current, climbed, offered>>
  PROVE  PathInv'
<1>1. Placed'
  BY SameTrees DEF PathInv, Placed
<1>2. ListedChildFound'
  BY SameNames DEF PathInv, ListedChildFound
<1> QED
  BY <1>1, <1>2 DEF PathInv

(* Nor is anything learnt. *)
LEMMA NothingLearnt ==
  ASSUME PathInv, FileInv', UNCHANGED known, UNCHANGED <<archive, made, current, climbed>>
  PROVE  PathInv'
<1> USE DEF known
<1>1. PathTypeOK'
  BY DEF PathInv, FileInv, PathTypeOK
<1>2. Unknown' /\ Remembered'
  BY DEF PathInv, Unknown, Remembered
<1> QED
  BY <1>1, <1>2, HandlesStay

(* A copy, or a path that is resolved: a handle is made, unless the process dies. *)
LEMMA ResolveMakes ==
  ASSUME PathInv, NEW h \in 1 .. made, NEW p \in Path, ResolveFrom(h, p)
  PROVE  /\ archive' = archive
         /\ \/ UNCHANGED <<made, current, climbed>>
            \/ \E n \in Nodes \cup {NULL}, c \in BOOLEAN :
                 /\ NewHandle(n, c)
                 /\ n # NULL => InTree(PathOf(n))
                 /\ ~ c /\ InTree(p) => n # NULL /\ PathOf(n) = p
<1>1. CASE Dangling(current[h])
  BY <1>1 DEF ResolveFrom, Die, handles
<1>2. CASE Copy(h, Lookup(made + 1, p), p, FALSE)
  <2>1. made + 1 \in Handle
    BY <1>2, HandleAssumption DEF Copy, PathInv, FileInv, TypeOK, Handle
  <2>2. /\ Lookup(made + 1, p) \in Nodes \cup {NULL}
        /\ Lookup(made + 1, p) # NULL => InTree(PathOf(Lookup(made + 1, p)))
        /\ InTree(p) => Lookup(made + 1, p) # NULL /\ PathOf(Lookup(made + 1, p)) = p
    BY <2>1, NodeAssumption DEF Lookup, Nodes, PathOf
  <2> QED
    BY <1>2, <2>2 DEF Copy, NewHandle
<1>3. CASE /\ current[h] # NULL /\ p = filename[h]
           /\ PathOf(current[h]) \in Lineage[p] \ {p}
           /\ Copy(h, current[h], p, climbed[h])
  <2>1. climbed[h]
    BY <1>3 DEF PathInv, FileInv, FilenameTells
  <2> QED
    BY <1>3, <2>1, NodeOfHandle DEF Copy, NewHandle
<1> QED
  BY <1>1, <1>2, <1>3 DEF ResolveFrom

(* Any other call makes a handle that stands on a node, or moves none. *)
LEMMA CallsMake ==
  ASSUME PathInv, Calls
  PROVE  /\ archive' = archive
         /\ \/ UNCHANGED <<made, current, climbed>>
            \/ \E n \in Nodes \cup {NULL}, c \in BOOLEAN :
                 NewHandle(n, c) /\ (n # NULL => InTree(PathOf(n)))
<1> DEFINE Made1 == \E n \in Nodes \cup {NULL}, c \in BOOLEAN :
                      NewHandle(n, c) /\ (n # NULL => InTree(PathOf(n)))
           Goal == archive' = archive /\ (UNCHANGED <<made, current, climbed>> \/ Made1)
<1>1. ASSUME NEW how, Die(how) PROVE Goal
  BY <1>1 DEF Die, handles
<1>2. \A h \in held : h \in 1 .. made
  BY DEF PathInv, FileInv, TypeOK
<1>3. ASSUME NEW h \in held, Dup(h) PROVE Goal
  BY <1>2, <1>3, NodeOfHandle DEF Dup, Copy, NewHandle
<1>4. ASSUME NEW h \in held, GetParent(h), ~ Dangling(current[h]) PROVE Goal
  <2> DEFINE n == <<Owner(current[h]), ParentOf[PathOf(current[h])]>>
  <2>1. /\ current[h] # NULL /\ PathOf(current[h]) # Root
        /\ Copy(h, n, filename[h], TRUE)
    BY <1>4 DEF GetParent
  <2>2. /\ h \in Handle /\ current[h] \in Nodes /\ PathOf(current[h]) \in Path
        /\ InTree(PathOf(current[h]))
    BY <1>2, <2>1, NodeOfHandle
  <2>3. PathOf(n) = ParentOf[PathOf(current[h])]
        /\ ParentOf[PathOf(current[h])] \in Path
        /\ ParentOf[PathOf(current[h])] \in Lineage[PathOf(current[h])]
    BY <2>1, <2>2, PathAssumption, OwnLineage DEF PathOf
  <2>4. n \in Nodes /\ InTree(PathOf(n))
    <3>1. Owner(current[h]) \in Handle
      BY <2>2 DEF Nodes, Owner
    <3>2. InTree(PathOf(n))
      BY <2>2, <2>3, AboveInTree DEF PathInv, FileInv
    <3> QED
      BY <2>3, <3>1, <3>2 DEF Nodes
  <2>5. NewHandle(n, TRUE) /\ archive' = archive
    BY <2>1 DEF Copy, NewHandle
  <2> QED
    BY <2>4, <2>5
<1>5. ASSUME NEW h \in held, NEW p \in Path, Resolve(h, p) PROVE Goal
  BY <1>2, <1>5, ResolveMakes DEF Resolve
<1>6. ASSUME NEW h \in held, GetParent(h), Dangling(current[h]) PROVE Goal
  BY <1>1, <1>6 DEF GetParent
<1>7. ASSUME NEW h \in held, InspectFreed(h) \/ Unref(h) PROVE Goal
  BY <1>1, <1>7 DEF InspectFreed, Unref, handles
<1>8. ASSUME NEW h \in held, NEW g \in held, CompareFails(h, g) \/ RelativePathFails(h, g)
      PROVE  Goal
  BY <1>1, <1>8 DEF CompareFails, RelativePathFails
<1>9. ASSUME NEW e \in Enum, \/ \E h \in held : Enumerate(h, e)
                             \/ NextFile(e) \/ CloseEnumerator(e)
      PROVE  Goal
  BY <1>1, <1>9 DEF Enumerate, NextFile, CloseEnumerator, handles
<1> HIDE DEF Goal
<1>10. Goal
  BY <1>3, <1>4, <1>5, <1>6, <1>7, <1>8, <1>9 DEF Calls
<1> QED
  BY <1>10 DEF Goal

(* So nothing that is known is disturbed. *)
LEMMA CallsKeepKnown ==
  ASSUME PathInv, fault = "none", Calls, UNCHANGED known
  PROVE  PathInv'
<1>1. FileInv' /\ archive' = archive
  BY CallsKeep, CallsMake DEF PathInv
<1>2. CASE UNCHANGED <<made, current, climbed>>
  BY <1>1, <1>2, NothingLearnt
<1>3. ASSUME NEW n \in Nodes \cup {NULL}, NEW c \in BOOLEAN,
             NewHandle(n, c), n # NULL => InTree(PathOf(n))
      PROVE  PathInv'
  <2>1. made + 1 \in Handle /\ made + 1 > made
    BY <1>3, HandleAssumption DEF NewHandle, PathInv, FileInv, TypeOK, Handle
  <2>2. offered' = [offered EXCEPT ![made + 1] = NULL]
    BY <2>1 DEF PathInv, PathTypeOK, Unknown, known
  <2> QED
    BY <1>1, <1>3, <2>2, HandleMade DEF known
<1> QED
  BY <1>2, <1>3, CallsMake

(* What is cached first is the path of the node. *)
LEMMA PeekKeeps ==
  ASSUME PathInv, fault = "none", NEW h \in held, PeekPath(h)
  PROVE  PathInv'
<1>1. h \in 1 .. made
  BY DEF PathInv, FileInv, TypeOK
<1>2. CASE /\ UNCHANGED known
           /\ \/ Die("null")
              \/ Die("freed") /\ current[h] # NULL /\ Dangling(current[h])
  <2>1. FileInv'
    BY <1>2, HeldDangles, DeathKeeps DEF PathInv
  <2> QED
    BY <1>2, <2>1, NothingLearnt DEF Die, handles
<1>3. CASE /\ peeked[h] # NULL \/ current[h] # NULL
           /\ peeked' = [peeked EXCEPT ![h] = IF @ = NULL THEN GetPath(h) ELSE @]
           /\ UNCHANGED <<vars, stale, offered>>
  <2> USE <1>3 DEF vars, handles, enumerators
  <2>1. FileInv'
    BY FileNext DEF PathInv
  <2>2. h \in Handle /\ (PathOf(current[h]) \in Path \/ peeked[h] # NULL)
    BY <1>1, NodeOfHandle
  <2>3. /\ peeked'[h] = IF peeked[h] = NULL THEN BringupPath(PathOf(current[h]))
                        ELSE peeked[h]
        /\ \A g \in Handle \ {h} : peeked'[g] = peeked[g]
    BY <1>1, NodeOfHandle DEF PathInv, PathTypeOK, GetPath
  <2>4. PathTypeOK'
    BY <2>1, <2>2, <2>3 DEF FileInv, PathInv, PathTypeOK
  <2>5. Unknown'
    BY <1>1, <2>3, HandleAssumption DEF PathInv, FileInv, TypeOK, Unknown, Handle
  <2>6. Remembered'
    BY <1>1, <2>3, NodeOfHandle DEF PathInv, Remembered
  <2> QED
    BY <2>1, <2>4, <2>5, <2>6, HandlesStay
<1> QED
  BY <1>2, <1>3 DEF PeekPath

(* A handle that is called anew keeps what is cached, which is stale then. *)
LEMMA RenameKeeps ==
  ASSUME PathInv, fault = "none", NEW h \in held, NEW p \in Path, Rename(h, p)
  PROVE  PathInv'
<1> USE HandleAssumption DEF Rename, SetFilename, Handle
<1>1. FileInv'
  BY SetFilenameKeeps DEF PathInv
<1>2. /\ h \in Handle /\ h \in 1 .. made /\ made \in Nat
      /\ current \in [Handle -> Nodes \cup {NULL}] /\ climbed \in [Handle -> BOOLEAN]
      /\ offered \in [Handle -> Path \cup {NULL}] /\ stale \in [Handle -> BOOLEAN]
  BY DEF PathInv, FileInv, TypeOK, PathTypeOK
<1>3. /\ current'[h] = Lookup(h, p) /\ offered'[h] = NULL
      /\ stale'[h] = (peeked[h] # NULL)
  BY <1>2
<1>4. \A g \in Handle \ {h} :
        /\ current'[g] = current[g] /\ climbed'[g] = climbed[g]
        /\ offered'[g] = offered[g] /\ stale'[g] = stale[g]
  BY <1>2
<1>5. \A g \in 1 .. made : g \in Handle
  BY NodeOfHandle
<1>6. PathTypeOK'
  BY <1>1, <1>2 DEF FileInv, PathInv, PathTypeOK
<1>7. Placed'
  <2>1. Lookup(h, p) # NULL => InTree(PathOf(Lookup(h, p)))
    BY DEF Lookup, PathOf
  <2> QED
    BY <1>3, <1>4, <1>5, <2>1, SameTrees DEF PathInv, Placed
<1>8. Unknown'
  BY <1>2, <1>3, <1>4 DEF PathInv, Unknown
<1>9. Remembered'
  BY <1>3, <1>4, <1>5 DEF PathInv, Remembered
<1>10. ListedChildFound'
  BY <1>3, <1>4, <1>5, SameNames DEF PathInv, ListedChildFound
<1> QED
  BY <1>1, <1>6, <1>7, <1>8, <1>9, <1>10 DEF PathInv

(***************************************************************************)
(* The handle of a child stands on that child if the enumerator's handle   *)
(* stands where the enumerator was made and the child is called by its     *)
(* name: the name resolved from there is the child's path.                 *)
(***************************************************************************)
LEMMA GetChildKeeps ==
  ASSUME PathInv, fault = "none", NEW e \in Enum, NEW q \in yielded[e], GetChild(e, q)
  PROVE  PathInv'
<1> DEFINE h == container[e]
           p == Under[PathOf(current[h])][NameOf(q)]
           o == IF PathOf(current[h]) = PathOf(listing[e]) THEN q ELSE NULL
<1>1. /\ current[h] # NULL /\ p # NULL /\ ResolveFrom(h, p)
      /\ offered' = IF made' = made THEN offered ELSE [offered EXCEPT ![made + 1] = o]
      /\ UNCHANGED <<peeked, stale>>
  BY DEF GetChild
<1>2. /\ h \in 1 .. made /\ Alive(h)
      /\ q \in Kids(PathOf(listing[e])) /\ EntryOf(q) # NULL
  <2>1. listing[e] # NULL /\ h # NULL /\ q \in Passed(e)
    BY DEF PathInv, FileInv, Enumerating
  <2>2. h \in 1 .. made
    BY <2>1 DEF PathInv, FileInv, TypeOK, Made, Handle
  <2> QED
    BY <2>1, <2>2 DEF Passed, Alive
<1>3. q \in Path /\ q # Root /\ InTree(q) /\ ParentOf[q] = PathOf(listing[e])
  BY <1>2 DEF Kids
<1>4. NameOf(q) \in Name
  <2>1. archive \in Seq(Raw) /\ Len(archive) \in 0 .. Len(archive)
    BY ArchiveIs DEF PathInv, FileInv
  <2>2. EntryOf(q) \in {RootEntry} \cup (1 .. Len(archive))
    BY <1>2, <1>3, <2>1, LastEntryType DEF EntryOf
  <2>3. RawOf(archive, EntryOf(q)) \in Raw
    BY <2>1, <2>2, NameAssumption DEF RawOf
  <2> QED
    BY <2>3, NamesAssumption DEF NameOf
<1>5. p \in Path
  <2>1. PathOf(current[h]) \in Path
    BY <1>1, <1>2, NodeOfHandle
  <2> QED
    BY <1>1, <1>4, <2>1, NamesAssumption
<1>6. FileInv'
  BY <1>1, <1>2, <1>5, ResolveKeeps DEF PathInv
<1>7. archive' = archive
  BY <1>1, <1>2, <1>5, ResolveMakes
<1>8. CASE UNCHANGED <<made, current, climbed>>
  BY <1>1, <1>6, <1>7, <1>8, NothingLearnt DEF known
<1>9. ASSUME NEW n \in Nodes \cup {NULL}, NEW c \in BOOLEAN,
             NewHandle(n, c), n # NULL => InTree(PathOf(n)),
             ~ c /\ InTree(p) => n # NULL /\ PathOf(n) = p
      PROVE  PathInv'
  <2>1. offered' = [offered EXCEPT ![made + 1] = o] /\ o \in Path \cup {NULL}
    <3>1. made' # made
      BY <1>9, HandleAssumption DEF NewHandle, PathInv, FileInv, TypeOK, Handle
    <3> QED
      BY <1>1, <1>3, <3>1
  <2>2. ASSUME o # NULL, ~ c, NameOf(o) = LeafOf[o]
        PROVE  n # NULL /\ PathOf(n) = o
    <3>1. o = q /\ PathOf(current[h]) = ParentOf[q]
      BY <1>3, <2>2
    <3>2. p = q
      BY <1>3, <2>2, <3>1, NamesAssumption
    <3> QED
      BY <1>3, <1>9, <2>2, <3>1, <3>2
  <2> HIDE DEF o
  <2> QED
    BY <1>1, <1>6, <1>7, <1>9, <2>1, <2>2, HandleMade
<1> QED
  BY <1>1, <1>2, <1>5, <1>8, <1>9, ResolveMakes

(* The invariant holds at first, when nothing is known. *)
LEMMA PathInitKnows == PathInit => PathInv
<1> SUFFICES ASSUME PathInit PROVE PathInv
  OBVIOUS
<1> USE DEF PathInit
<1>1. FileInv
  BY FileInit
<1>2. PathTypeOK
  BY <1>1 DEF FileInv, PathTypeOK
<1>3. Placed
  <2>1. PICK p \in Path : current = [h \in Handle |-> IF h = 1 THEN Lookup(1, p) ELSE NULL]
    BY DEF Init
  <2>2. made = 1 /\ 1 \in Handle
    BY HandleAssumption DEF Init, Handle
  <2>3. current[1] = Lookup(1, p) /\ \A h \in 1 .. made : h = 1
    BY <2>1, <2>2
  <2>4. Lookup(1, p) # NULL => InTree(PathOf(Lookup(1, p)))
    BY DEF Lookup, PathOf
  <2> QED
    BY <2>3, <2>4 DEF Placed
<1>4. Unknown
  BY DEF Unknown
<1>5. Remembered
  BY HandleAssumption DEF Init, Remembered, Handle
<1>6. ListedChildFound
  BY HandleAssumption DEF Init, ListedChildFound, Handle
<1> QED
  BY <1>1, <1>2, <1>3, <1>4, <1>5, <1>6 DEF PathInv

(* And every step keeps it. *)
LEMMA PathNextKeeps == PathInv /\ [PathNext]_pathVars => PathInv'
<1> SUFFICES ASSUME PathInv, [PathNext]_pathVars PROVE PathInv'
  OBVIOUS
<1>1. ASSUME fault = "none", NEW h \in held, QueryInfoInvalid(h) PROVE PathInv'
  <2>1. FileInv'
    BY <1>1, DeathKeeps DEF QueryInfoInvalid, PathInv
  <2> QED
    BY <1>1, <2>1, NothingLearnt DEF QueryInfoInvalid, Die, handles
<1>2. CASE UNCHANGED pathVars
  <2>1. FileInv'
    BY <1>2, FileNext DEF pathVars, PathInv
  <2> QED
    BY <1>2, <2>1, NothingLearnt DEF pathVars, vars, handles
<1>3. CASE PathNext
  BY <1>1, <1>3, CallsKeepKnown, PeekKeeps, RenameKeeps, GetChildKeeps DEF PathNext
<1> QED
  BY <1>2, <1>3

(* So it holds throughout. *)
LEMMA PathInvHolds == PathSpec => []PathInv
<1> QED
  BY PathInitKnows, PathNextKeeps, PTL DEF PathSpec

(***************************************************************************)
(* What a client learns.                                                   *)
(***************************************************************************)
(* The state has its types. *)
THEOREM PathsHaveTypes == PathSpec => []PathTypeOK
<1>1. PathInv => PathTypeOK
  BY DEF PathInv
<1> QED
  BY PathInvHolds, <1>1, PTL

(***************************************************************************)
(* The path that g_file_get_path gives, and the one that is cached and     *)
(* hashed, lead from the root to the node that the handle stands on, until *)
(* the handle is called anew: the names bringup_path collects on its way   *)
(* up are those of the way down.                                           *)
(***************************************************************************)
THEOREM PathsLeadHome == PathSpec => []PeekTells
<1>1. ASSUME PathInv PROVE PeekTells
  <2> SUFFICES ASSUME NEW h \in held, Intact(h), ~ stale[h]
               PROVE  Follow(Root, Shown(h)) = PathOf(current[h])
    BY DEF PeekTells
  <2>1. current[h] # NULL /\ h \in 1 .. made
    BY <1>1 DEF Intact, PathInv, FileInv, TypeOK
  <2>2. PathOf(current[h]) \in Path
    BY <1>1, <2>1, NodeOfHandle
  <2>3. Shown(h) = BringupPath(PathOf(current[h]))
    BY <1>1, <2>1 DEF Shown, GetPath, PathInv, Remembered
  <2> QED
    BY <2>2, <2>3, BringupPathLeads
<1> QED
  BY PathInvHolds, <1>1, PTL

(***************************************************************************)
(* g_file_enumerator_get_child leads to the child that was listed, through *)
(* whichever handle of the same tree the name is resolved.                 *)
(***************************************************************************)
THEOREM ListedChildrenAreFound == PathSpec => []ListedChildFound
<1>1. PathInv => ListedChildFound
  BY DEF PathInv
<1> QED
  BY PathInvHolds, <1>1, PTL

============================================================================
