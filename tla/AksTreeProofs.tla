--------------------------- MODULE AksTreeProofs ---------------------------
(***************************************************************************)
(* Proofs about AksTree.  The tree is exact at every step of the           *)
(* exploration (TreeIsExact), hence what aks_file_new hands out is the     *)
(* catalogue of the whole archive (ShowsTheCatalogue), with the children   *)
(* of a node in the archive's order (SiblingsStandInOrder); and scanning   *)
(* again for a node's entry finds data of its path (LazyFindsTheSame).     *)
(***************************************************************************)
EXTENDS AksTree, AksListingProofs

(***************************************************************************)
(* The tree as search_node_for_file leaves it: a listed node stands under  *)
(* its parent, and the way down to it is complete.                         *)
(***************************************************************************)
Grown(c) ==
  \A q \in Path : \A x \in Listed(c, q) :
    x \in Path \ {Root} /\ ParentOf[x] = q /\ Found(c, x)

(* Grafting a path lists what was missing of its lineage and nothing else. *)
LEMMA GraftLists ==
  ASSUME NEW c \in [Path -> Seq(Path)], NEW p \in Path, NEW q \in Path
  PROVE  /\ Graft(c, p) \in [Path -> Seq(Path)]
         /\ Listed(Graft(c, p), q) = Listed(c, q) \cup Missing(c, p, q)
<1>1. Lineage[p] \subseteq Path
  BY OwnLineage
<1>2. \A r \in Path : \A m, n \in Missing(c, p, r) : m = n
  BY LineageAssumption DEF Missing
<1>3. \A r \in Path : Missing(c, p, r) \subseteq Path
  BY <1>1 DEF Missing
<1>4. Graft(c, p) \in [Path -> Seq(Path)]
  <2> SUFFICES ASSUME NEW r \in Path
               PROVE  (IF Missing(c, p, r) = {} THEN c[r]
                       ELSE Append(c[r], CHOOSE m \in Missing(c, p, r) : TRUE)) \in Seq(Path)
    BY DEF Graft
  <2>1. CASE Missing(c, p, r) = {}
    BY <2>1
  <2>2. CASE Missing(c, p, r) # {}
    <3>1. (CHOOSE m \in Missing(c, p, r) : TRUE) \in Path
      BY <2>2, <1>3
    <3> QED
      BY <2>2, <3>1
  <2> QED
    BY <2>1, <2>2
<1>5. CASE Missing(c, p, q) = {}
  BY <1>4, <1>5 DEF Graft, Listed
<1>6. CASE Missing(c, p, q) # {}
  <2> DEFINE m == CHOOSE x \in Missing(c, p, q) : TRUE
  <2>1. m \in Missing(c, p, q) /\ Missing(c, p, q) = {m}
    BY <1>6, <1>2
  <2>2. Graft(c, p)[q] = Append(c[q], m)
    BY <1>6 DEF Graft
  <2>3. m \in Path /\ c[q] \in Seq(Path)
    BY <2>1, <1>3
  <2> HIDE DEF m
  <2>4. Len(Append(c[q], m)) = Len(c[q]) + 1
    BY <2>3
  <2>5. \A i \in 1 .. Len(c[q]) + 1 :
          Append(c[q], m)[i] = IF i <= Len(c[q]) THEN c[q][i] ELSE m
    BY <2>3
  <2>6. Listed(Graft(c, p), q) = {Append(c[q], m)[i] : i \in 1 .. Len(c[q]) + 1}
    BY <2>2, <2>4 DEF Listed
  <2>7. Len(c[q]) \in Nat
    BY <2>3
  <2>8. {Append(c[q], m)[i] : i \in 1 .. Len(c[q]) + 1}
          = {c[q][i] : i \in 1 .. Len(c[q])} \cup {m}
    <3> DEFINE d == Append(c[q], m)
               n == Len(c[q])
    <3> HIDE DEF d, n
    <3>1. n \in Nat /\ \A i \in 1 .. n + 1 : d[i] = IF i <= n THEN c[q][i] ELSE m
      BY <2>5, <2>7 DEF d, n
    <3>2. 1 .. n + 1 = (1 .. n) \cup {n + 1}
      BY <3>1
    <3>3. \A i \in 1 .. n : d[i] = c[q][i]
      BY <3>1
    <3>4. d[n + 1] = m
      BY <3>1
    <3>5. {d[i] : i \in (1 .. n) \cup {n + 1}} = {d[i] : i \in 1 .. n} \cup {d[n + 1]}
      OBVIOUS
    <3>6. {d[i] : i \in 1 .. n} = {c[q][i] : i \in 1 .. n}
      BY <3>3
    <3> QED
      BY <3>2, <3>4, <3>5, <3>6 DEF d, n
  <2> QED
    BY <1>4, <2>1, <2>6, <2>8 DEF Listed
<1> QED
  BY <1>5, <1>6

(* After a graft exactly the nodes found before, and the new lineage, are found. *)
LEMMA GraftFinds ==
  ASSUME NEW c \in [Path -> Seq(Path)], Grown(c), NEW p \in Path, NEW x \in Path
  PROVE  Found(Graft(c, p), x) <=> Found(c, x) \/ x \in Lineage[p]
<1> DEFINE d == Graft(c, p)
<1>1. \A q \in Path : Listed(d, q) = Listed(c, q) \cup Missing(c, p, q)
  BY GraftLists
<1> HIDE DEF d
<1>2. \A m \in Path \ {Root} : ParentOf[m] \in Path
  BY PathAssumption
<1>3. \A m \in Lineage[x] : m \in Path
  BY OwnLineage
<1>4. ASSUME Found(c, x) PROVE Found(d, x)
  BY <1>1, <1>2, <1>3, <1>4 DEF Found
<1>5. ASSUME x \in Lineage[p] PROVE Found(d, x)
  <2> SUFFICES ASSUME NEW m \in Lineage[x] \ {Root}
               PROVE  m \in Listed(d, ParentOf[m])
    BY DEF Found
  <2>1. m \in Lineage[p] \ {Root} /\ m \in Path
    BY <1>3, <1>5, LineageAssumption
  <2>2. CASE Found(c, m)
    <3>1. m \in Listed(c, ParentOf[m])
      BY <2>1, <2>2, OwnLineage DEF Found
    <3> QED
      BY <1>1, <1>2, <2>1, <3>1
  <2>3. CASE ~ Found(c, m)
    <3>1. m \in Missing(c, p, ParentOf[m])
      BY <2>1, <2>3 DEF Missing
    <3> QED
      BY <1>1, <1>2, <2>1, <3>1
  <2> QED
    BY <2>2, <2>3
<1>6. ASSUME Found(d, x), ~ Found(c, x) PROVE x \in Lineage[p]
  <2>1. x # Root
    BY <1>6, PathAssumption DEF Found
  <2>2. x \in Listed(d, ParentOf[x])
    BY <1>6, <2>1, OwnLineage DEF Found
  <2>3. x \notin Listed(c, ParentOf[x])
    BY <1>2, <1>6, <2>1 DEF Grown
  <2>4. x \in Missing(c, p, ParentOf[x])
    BY <1>1, <1>2, <2>1, <2>2, <2>3
  <2> QED
    BY <2>4 DEF Missing
<1> QED
  BY <1>4, <1>5, <1>6 DEF d

(* A graft leaves a tree in which the way to every listed node is complete. *)
LEMMA GraftGrows ==
  ASSUME NEW c \in [Path -> Seq(Path)], Grown(c), NEW p \in Path
  PROVE  Grown(Graft(c, p))
<1> SUFFICES ASSUME NEW q \in Path, NEW x \in Listed(Graft(c, p), q)
             PROVE  /\ x \in Path \ {Root} /\ ParentOf[x] = q
                    /\ Found(Graft(c, p), x)
  BY DEF Grown
<1>1. x \in Listed(c, q) \/ x \in Missing(c, p, q)
  <2>1. Listed(Graft(c, p), q) = Listed(c, q) \cup Missing(c, p, q)
    BY GraftLists
  <2> QED
    BY <2>1
<1>2. CASE x \in Listed(c, q)
  <2>1. x \in Path \ {Root} /\ ParentOf[x] = q /\ Found(c, x)
    BY <1>2 DEF Grown
  <2> QED
    BY <2>1, GraftFinds
<1>3. CASE x \in Missing(c, p, q)
  <2>1. x \in Lineage[p] /\ x \in Path \ {Root} /\ ParentOf[x] = q
    BY <1>3, OwnLineage DEF Missing
  <2> QED
    BY <2>1, GraftFinds
<1> QED
  BY <1>1, <1>2, <1>3

(***************************************************************************)
(* The state is well typed.                                                *)
(***************************************************************************)
(* The header that is read next names a path. *)
LEMMA HeaderPath ==
  ASSUME TypeOK, cursor < Len(archive)
  PROVE  /\ archive \in Seq(Raw) /\ cursor \in Nat
         /\ cursor + 1 \in 1 .. Len(archive)
         /\ Canon[archive[cursor + 1]] \in Path
<1>1. archive \in Seq(Raw) /\ cursor \in Nat
  BY ArchiveAssumption DEF TypeOK
<1>2. Len(archive) \in Nat /\ cursor + 1 \in 1 .. Len(archive)
  BY <1>1
<1>3. archive[cursor + 1] \in Raw
  BY <1>1, <1>2
<1> QED
  BY <1>1, <1>2, <1>3, NameAssumption

(* Init establishes the types. *)
LEMMA InitTypes == Init => TypeOK
<1> SUFFICES ASSUME Init PROVE TypeOK
  OBVIOUS
<1>1. archive \in Seq(Raw)
  BY ArchiveAssumption DEF Init
<1>2. 0 \in 0 .. Len(archive)
  BY <1>1
<1>3. << >> \in Seq(Path)
  OBVIOUS
<1> QED
  BY <1>2, <1>3 DEF Init, TypeOK, EntriesOf

(* Filing an entry keeps the types of the tree. *)
LEMMA FileEntryTypes ==
  ASSUME TypeOK, NEW p \in Path, FileEntry(p)
  PROVE  /\ cursor' \in 0 .. Len(archive)
         /\ cursor + 1 \in 1 .. Len(archive)
         /\ children' \in [Path -> Seq(Path)]
         /\ entry' \in [Path -> EntriesOf(archive)]
<1>1. cursor + 1 \in 1 .. Len(archive) /\ cursor \in Nat
  BY HeaderPath DEF FileEntry
<1>2. cursor' \in 0 .. Len(archive)
  BY <1>1 DEF FileEntry
<1>3. children' \in [Path -> Seq(Path)]
  BY GraftLists DEF FileEntry, TypeOK
<1>4. cursor + 1 \in EntriesOf(archive)
  BY <1>1 DEF EntriesOf
<1>5. entry' \in [Path -> EntriesOf(archive)]
  BY <1>4 DEF FileEntry, TypeOK
<1> QED
  BY <1>1, <1>2, <1>3, <1>5

(* Every step keeps the types. *)
LEMMA StepTypes == TypeOK /\ [Next]_vars => TypeOK'
<1> SUFFICES ASSUME TypeOK, [Next]_vars PROVE TypeOK'
  OBVIOUS
<1> USE DEF given, tree
<1>1. CASE Prepare
  <2>1. RootEntry \in EntriesOf(archive)
    BY DEF EntriesOf
  <2> QED
    BY <1>1, <2>1 DEF Prepare, TypeOK
<1>2. CASE OpenInUse \/ OpenArchive \/ OpenFails \/ OpenReturnsPositive \/ OpenReturnsNegative
  BY <1>2 DEF OpenInUse, OpenArchive, OpenFails, OpenReturnsPositive, OpenReturnsNegative, TypeOK
<1>3. CASE ReadHeader
  <2>1. PICK p \in Path :
          /\ FileEntry(p)
          /\ cache' = IF level = "FULL"
                        THEN [cache EXCEPT ![p] = Dumped(archive, cursor + 1)]
                        ELSE cache
          /\ UNCHANGED <<given, pc, current, ar, tag, data, outcome, result>>
    BY <1>3 DEF ReadHeader
  <2>2. Dumped(archive, cursor + 1) \in BytesOf(archive)
    BY <2>1, ArchiveAssumption, DumpedBytes DEF FileEntry, TypeOK
  <2>3. cache' \in [Path -> {NULL} \cup BytesOf(archive)]
    BY <2>1, <2>2 DEF TypeOK
  <2> QED
    BY <2>1, <2>3, FileEntryTypes DEF TypeOK
<1>4. CASE DumpFails
  <2>1. PICK p \in Path :
          /\ FileEntry(p)
          /\ cache' = [cache EXCEPT ![p] = NULL]
          /\ pc' = "cleanup"
          /\ outcome' = "error"
          /\ UNCHANGED <<given, current, ar, tag, data, result>>
    BY <1>4 DEF DumpFails
  <2>2. cache' \in [Path -> {NULL} \cup BytesOf(archive)]
    BY <2>1 DEF TypeOK
  <2> QED
    BY <2>1, <2>2, FileEntryTypes DEF TypeOK
<1>5. CASE HeaderFails
  BY <1>5 DEF HeaderFails, TypeOK
<1>6. CASE EndOfArchive
  BY <1>6 DEF EndOfArchive, Lookup, TypeOK
<1>7. CASE FreeArchive \/ NothingToFree \/ FreeGarbage
  BY <1>7 DEF FreeArchive, NothingToFree, FreeGarbage, TypeOK
<1>8. CASE Answer
  BY <1>8 DEF Answer, TypeOK
<1>9. CASE UNCHANGED vars
  BY <1>9 DEF vars, TypeOK
<1> QED
  BY <1>1, <1>2, <1>3, <1>4, <1>5, <1>6, <1>7, <1>8, <1>9 DEF Next

(* The types hold throughout. *)
THEOREM TypesHold == Spec => []TypeOK
<1> QED
  BY InitTypes, StepTypes, PTL DEF Spec

(***************************************************************************)
(* The inductive invariant.  TreeExact alone is not inductive: that a      *)
(* graft adds no more than it should rests on Grown, what is lost with it  *)
(* being the ancestors of listed nodes.                                    *)
(***************************************************************************)
TreeInv ==
  /\ TypeOK
  /\ Grown(children)
  /\ NodesExact
  /\ EntriesExact
  /\ pc = "start" => cursor = 0 /\ entry = [p \in Path |-> NULL]

(* The empty tree is exact. *)
LEMMA InitTree == Init => TreeInv
<1> SUFFICES ASSUME Init PROVE TreeInv
  OBVIOUS
<1>1. archive \in Seq(Raw)
  BY ArchiveAssumption DEF Init
<1>2. \A q \in Path : Listed(children, q) = {}
  BY DEF Init, Listed
<1>3. Grown(children)
  BY <1>2 DEF Grown
<1>4. \A p \in Path : Found(children, p) <=> p = Root
  <2> SUFFICES ASSUME NEW p \in Path PROVE Found(children, p) <=> p = Root
    OBVIOUS
  <2>1. CASE p = Root
    BY <2>1, PathAssumption DEF Found
  <2>2. CASE p # Root
    <3>1. p \in Lineage[p] \ {Root} /\ ParentOf[p] \in Path
      BY <2>2, OwnLineage, PathAssumption
    <3> QED
      BY <2>2, <3>1, <1>2 DEF Found
  <2> QED
    BY <2>1, <2>2
<1>5. NodesExact
  BY <1>1, <1>4, OnlyRoot DEF NodesExact, Init
<1> QED
  BY <1>3, <1>5, InitTypes DEF TreeInv, EntriesExact, Init

(* Reading one more header keeps the tree exact. *)
LEMMA FileEntryTree ==
  ASSUME TreeInv, NEW p \in Path, FileEntry(p), archive' = archive
  PROVE  /\ Grown(children') /\ NodesExact'
         /\ \A q \in Path : entry'[q] = LastEntry(archive, cursor', q)
<1>1. /\ archive \in Seq(Raw) /\ cursor \in Nat /\ cursor < Len(archive)
      /\ children \in [Path -> Seq(Path)] /\ entry \in [Path -> EntriesOf(archive)]
  BY HeaderPath DEF TreeInv, TypeOK, FileEntry
<1>2. p = Canon[archive[cursor + 1]] /\ cursor' = cursor + 1
      /\ children' = Graft(children, p)
  BY DEF FileEntry
<1>3. Grown(children')
  BY <1>1, <1>2, GraftGrows DEF TreeInv
<1>4. NodesAfter(archive, cursor') = NodesAfter(archive, cursor) \cup Lineage[p]
  BY <1>1, <1>2, NodesAfterStep
<1>5. \A x \in Path : Found(children', x) <=> Found(children, x) \/ x \in Lineage[p]
  BY <1>1, <1>2, GraftFinds DEF TreeInv
<1>6. NodesExact'
  BY <1>4, <1>5 DEF NodesExact, TreeInv
<1>7. ASSUME NEW q \in Path PROVE entry'[q] = LastEntry(archive, cursor', q)
  <2>1. entry[q] = LastEntry(archive, cursor, q)
    BY DEF TreeInv, EntriesExact, FileEntry
  <2>2. entry'[q] = IF q = p THEN cursor + 1 ELSE entry[q]
    BY <1>1 DEF FileEntry
  <2> QED
    BY <1>1, <1>2, <2>1, <2>2, LastEntryStep
<1> QED
  BY <1>3, <1>6, <1>7

(* Every step keeps the tree exact. *)
LEMMA StepTree == TreeInv /\ [Next]_vars => TreeInv'
<1> SUFFICES ASSUME TreeInv, [Next]_vars PROVE TreeInv'
  OBVIOUS
<1> USE DEF given, tree
<1>1. TypeOK'
  BY StepTypes DEF TreeInv
<1>2. CASE Prepare
  <2>1. cursor' = 0 /\ archive' = archive /\ children' = children /\ pc' # "start"
    BY <1>2 DEF Prepare, TreeInv
  <2>2. entry' = [q \in Path |-> IF q = Root THEN RootEntry ELSE NULL]
    BY <1>2 DEF Prepare, TreeInv
  <2>3. archive \in Seq(Raw)
    BY ArchiveAssumption DEF TreeInv, TypeOK
  <2>4. \A q \in Path : entry'[q] = LastEntry(archive', cursor', q)
    BY <2>1, <2>2, <2>3, NoEntryYet
  <2>5. NodesExact'
    BY <1>2, <2>1 DEF Prepare, TreeInv, NodesExact
  <2> QED
    BY <1>1, <2>1, <2>4, <2>5 DEF TreeInv, EntriesExact
<1>3. CASE ReadHeader \/ DumpFails
  <2>1. PICK p \in Path : FileEntry(p)
    BY <1>3 DEF ReadHeader, DumpFails
  <2>2. archive' = archive /\ pc' # "start"
    BY <1>3 DEF ReadHeader, DumpFails, FileEntry
  <2>3. Grown(children') /\ NodesExact'
        /\ \A q \in Path : entry'[q] = LastEntry(archive, cursor', q)
    BY <2>1, <2>2, FileEntryTree
  <2> QED
    BY <1>1, <2>2, <2>3 DEF TreeInv, EntriesExact
<1>4. ASSUME UNCHANGED <<archive, cursor, tree>>,
             pc' = "start" => pc = "start",
             pc = "start" => pc' = "start"
      PROVE  TreeInv'
  BY <1>1, <1>4 DEF TreeInv, NodesExact, EntriesExact
<1>5. CASE OpenInUse \/ OpenArchive \/ OpenFails \/ OpenReturnsPositive \/ OpenReturnsNegative
  BY <1>4, <1>5 DEF OpenInUse, OpenArchive, OpenFails, OpenReturnsPositive, OpenReturnsNegative
<1>6. CASE HeaderFails \/ EndOfArchive
  BY <1>4, <1>6 DEF HeaderFails, EndOfArchive
<1>7. CASE FreeArchive \/ NothingToFree \/ FreeGarbage
  BY <1>4, <1>7 DEF FreeArchive, NothingToFree, FreeGarbage
<1>8. CASE Answer
  BY <1>4, <1>8 DEF Answer
<1>9. CASE UNCHANGED vars
  BY <1>4, <1>9 DEF vars
<1> QED
  BY <1>2, <1>3, <1>5, <1>6, <1>7, <1>8, <1>9 DEF Next

(* TreeInv holds throughout. *)
LEMMA TreeInvHolds == Spec => []TreeInv
<1> QED
  BY InitTree, StepTree, PTL DEF Spec

(***************************************************************************)
(* Whatever the archive, and however far the exploration has come, the     *)
(* tree holds exactly the paths the headers read so far name or imply,     *)
(* each with the last entry filed under it.                                *)
(***************************************************************************)
THEOREM TreeIsExact == Spec => []TreeExact
<1>1. TreeInv => TreeExact
  BY DEF TreeInv, TreeExact
<1> QED
  BY <1>1, TreeInvHolds, PTL

(***************************************************************************)
(* The order of siblings.                                                  *)
(***************************************************************************)
(* Header i of a is the first whose path lies at or below p. *)
FirstAt(a, p, i) ==
  /\ p \in Lineage[Canon[a[i]]]
  /\ \A j \in 1 .. i - 1 : p \notin Lineage[Canon[a[j]]]

FirstOf(a, k, p) == CHOOSE i \in 1 .. k : FirstAt(a, p, i)

(* SiblingsInOrder of the children c of q, once k headers of a are read. *)
InOrder(a, k, c, q) ==
  \A i \in 1 .. Len(c) :
    /\ c[i] # Root /\ ParentOf[c[i]] = q
    /\ \A j \in 1 .. i - 1 : FirstOf(a, k, c[j]) < FirstOf(a, k, c[i])

(* There is one such header, however many more are read. *)
LEMMA FirstOfIs ==
  ASSUME NEW a, NEW p, NEW k \in Nat, NEW i \in 1 .. k, FirstAt(a, p, i)
  PROVE  FirstOf(a, k, p) = i
<1>1. ASSUME NEW x \in 1 .. k, FirstAt(a, p, x) PROVE x = i
  <2>1. ~ x < i
    BY <1>1 DEF FirstAt
  <2>2. ~ i < x
    BY <1>1 DEF FirstAt
  <2> QED
    BY <2>1, <2>2
<1> QED
  BY <1>1, Zenon DEF FirstOf

(* Every node but the root is there because of a header, and stays its own. *)
LEMMA MentionStands ==
  ASSUME NEW a, NEW k \in Nat, NEW p \in NodesAfter(a, k), p # Root
  PROVE  FirstOf(a, k, p) \in 1 .. k /\ FirstOf(a, k + 1, p) = FirstOf(a, k, p)
<1> DEFINE S == {i \in 1 .. k : p \in Lineage[Canon[a[i]]]}
<1>1. S \subseteq Nat /\ S # {}
  BY DEF NodesAfter
<1>2. PICK i \in S : \A j \in S : i <= j
  BY <1>1, LeastElement
<1>3. \A j \in 1 .. i - 1 : j \in 1 .. k /\ ~ i <= j
  OBVIOUS
<1>4. FirstAt(a, p, i)
  BY <1>2, <1>3 DEF FirstAt
<1>5. FirstOf(a, k, p) = i
  BY <1>4, FirstOfIs
<1>6. FirstOf(a, k + 1, p) = i
  <2>1. i \in 1 .. k + 1 /\ k + 1 \in Nat
    OBVIOUS
  <2> QED
    BY <1>4, <2>1, FirstOfIs
<1> QED
  BY <1>5, <1>6

(* A node that was missing is mentioned first by the header just read. *)
LEMMA MissingMentioned ==
  ASSUME NEW a, NEW k \in Nat, NEW m, m \notin NodesAfter(a, k),
         m \in Lineage[Canon[a[k + 1]]]
  PROVE  FirstOf(a, k + 1, m) = k + 1
<1>1. \A j \in 1 .. k : m \notin Lineage[Canon[a[j]]]
  BY DEF NodesAfter
<1>2. FirstAt(a, m, k + 1) /\ k + 1 \in 1 .. k + 1 /\ k + 1 \in Nat
  BY <1>1 DEF FirstAt
<1> QED
  BY <1>2, FirstOfIs

(* Siblings that are in order stay so while one more header is read. *)
LEMMA OrderStands ==
  ASSUME NEW a, NEW k \in Nat, NEW c \in Seq(Path), NEW q, InOrder(a, k, c, q),
         \A i \in 1 .. Len(c) : c[i] \in NodesAfter(a, k)
  PROVE  /\ InOrder(a, k + 1, c, q)
         /\ \A i \in 1 .. Len(c) : FirstOf(a, k + 1, c[i]) \in 1 .. k
<1>1. \A i \in 1 .. Len(c) :
        /\ FirstOf(a, k, c[i]) \in 1 .. k
        /\ FirstOf(a, k + 1, c[i]) = FirstOf(a, k, c[i])
  BY MentionStands DEF InOrder
<1>2. \A i \in 1 .. Len(c) : \A j \in 1 .. i - 1 : j \in 1 .. Len(c)
  OBVIOUS
<1> QED
  BY <1>1, <1>2 DEF InOrder

(* They stay so, too, when a node that was missing is appended to them. *)
LEMMA AppendInOrder ==
  ASSUME NEW a, NEW k \in Nat, NEW c \in Seq(Path), NEW q, InOrder(a, k, c, q),
         \A i \in 1 .. Len(c) : c[i] \in NodesAfter(a, k),
         NEW m \in Path \ {Root}, ParentOf[m] = q, m \notin NodesAfter(a, k),
         m \in Lineage[Canon[a[k + 1]]]
  PROVE  InOrder(a, k + 1, Append(c, m), q)
<1> DEFINE n == Len(c)
           d == Append(c, m)
<1>1. n \in Nat /\ Len(d) = n + 1 /\ d[n + 1] = m /\ \A i \in 1 .. n : d[i] = c[i]
  OBVIOUS
<1>2. FirstOf(a, k + 1, m) = k + 1
  BY MissingMentioned
<1>3. InOrder(a, k + 1, c, q) /\ \A i \in 1 .. n : FirstOf(a, k + 1, c[i]) \in 1 .. k
  BY OrderStands
<1> HIDE DEF n, d
<1> SUFFICES ASSUME NEW i \in 1 .. n + 1
             PROVE  /\ d[i] # Root /\ ParentOf[d[i]] = q
                    /\ \A j \in 1 .. i - 1 :
                         FirstOf(a, k + 1, d[j]) < FirstOf(a, k + 1, d[i])
  BY <1>1 DEF InOrder, d
<1>4. CASE i = n + 1
  <2>1. \A j \in 1 .. i - 1 : j \in 1 .. n
    BY <1>1, <1>4
  <2>2. \A j \in 1 .. i - 1 : FirstOf(a, k + 1, d[j]) \in 1 .. k
    BY <1>1, <1>3, <2>1
  <2> QED
    BY <1>1, <1>2, <1>4, <2>2
<1>5. CASE i \in 1 .. n
  <2>1. \A j \in 1 .. i - 1 : j \in 1 .. n
    BY <1>1, <1>5
  <2> QED
    BY <1>1, <1>3, <1>5, <2>1 DEF InOrder, n
<1> QED
  BY <1>1, <1>4, <1>5

(* What a header grafts comes last among its siblings. *)
LEMMA FileEntryOrder ==
  ASSUME TreeInv, NEW p \in Path, FileEntry(p), NEW q \in Path,
         InOrder(archive, cursor, children[q], q)
  PROVE  InOrder(archive, cursor', children'[q], q)
<1>1. /\ cursor \in Nat /\ cursor < Len(archive) /\ cursor' = cursor + 1
      /\ p = Canon[archive[cursor + 1]] /\ children[q] \in Seq(Path)
  BY HeaderPath DEF TreeInv, TypeOK, FileEntry
<1>2. \A i \in 1 .. Len(children[q]) : children[q][i] \in NodesAfter(archive, cursor)
  BY DEF TreeInv, Grown, Listed, NodesExact
<1>3. CASE Missing(children, p, q) = {}
  <2>1. children'[q] = children[q]
    BY <1>3 DEF FileEntry, Graft
  <2> QED
    BY <1>1, <1>2, <2>1, OrderStands
<1>4. CASE Missing(children, p, q) # {}
  <2> DEFINE m == CHOOSE x \in Missing(children, p, q) : TRUE
  <2>1. children'[q] = Append(children[q], m)
    BY <1>4 DEF FileEntry, Graft
  <2>2. m \in Missing(children, p, q)
    BY <1>4
  <2> HIDE DEF m
  <2>3. /\ m \in Path \ {Root} /\ ParentOf[m] = q /\ m \in Lineage[p]
        /\ m \notin NodesAfter(archive, cursor)
    BY <2>2, OwnLineage DEF Missing, TreeInv, NodesExact
  <2> QED
    BY <1>1, <1>2, <2>1, <2>3, AppendInOrder
<1> QED
  BY <1>3, <1>4

(***************************************************************************)
(* Siblings stand in the order in which the archive first mentions them,   *)
(* each once and under its own parent: search_node_for_file appends what   *)
(* it misses, and it misses only what no earlier header has mentioned.     *)
(***************************************************************************)
THEOREM SiblingsStandInOrder == Spec => []SiblingsInOrder
<1> DEFINE Order == \A q \in Path : InOrder(archive, cursor, children[q], q)
<1>1. Init => Order
  BY DEF Init, InOrder
<1>2. TreeInv /\ Order /\ [Next]_vars => Order'
  <2> SUFFICES ASSUME TreeInv, Order, [Next]_vars PROVE Order'
    OBVIOUS
  <2> USE DEF given, tree
  <2>1. CASE ReadHeader \/ DumpFails
    <3>1. archive' = archive /\ \E p \in Path : FileEntry(p)
      BY <2>1 DEF ReadHeader, DumpFails
    <3> QED
      BY <3>1, FileEntryOrder
  <2>2. ASSUME UNCHANGED <<archive, cursor, children>> PROVE Order'
    BY <2>2
  <2>3. CASE \/ Prepare \/ OpenInUse \/ OpenArchive \/ OpenFails
             \/ OpenReturnsPositive \/ OpenReturnsNegative
    BY <2>2, <2>3 DEF Prepare, OpenInUse, OpenArchive, OpenFails, OpenReturnsPositive,
                      OpenReturnsNegative
  <2>4. CASE HeaderFails \/ EndOfArchive \/ FreeArchive \/ NothingToFree \/ FreeGarbage
    BY <2>2, <2>4 DEF HeaderFails, EndOfArchive, FreeArchive, NothingToFree, FreeGarbage
  <2>5. CASE Answer \/ UNCHANGED vars
    BY <2>2, <2>5 DEF Answer, vars
  <2> QED
    BY <2>1, <2>3, <2>4, <2>5 DEF Next
<1>3. Order => SiblingsInOrder
  BY DEF SiblingsInOrder, InOrder, FirstMention, FirstOf, FirstAt
<1> HIDE DEF Order
<1> QED
  BY <1>1, <1>2, <1>3, TreeInvHolds, PTL DEF Spec

(***************************************************************************)
(* The course of init_fn: who still holds the archive, and what is known   *)
(* once the task was told to succeed.                                      *)
(***************************************************************************)
Working == {"start", "open", "explore"}

HoldsArchive ==
  /\ ar # "open" => (tag <=> busy)
  /\ ar \in {"open", "unopened"} => ~ busy
  /\ data => ar \in {"open", "unopened"} \/ pc = "inuse"
  /\ pc \in {"start", "open"} => ar = "uninitialised"
  /\ pc \in {"return", "done"} => ar \notin {"open", "unopened"}

Answers ==
  /\ pc \in Working => outcome = "none"
  /\ pc = "return" => outcome # "none"
  /\ pc = "cleanup" => outcome # "none"
  /\ pc = "done" <=> result # "none"
  /\ result = "ok" => outcome = "ok"

Complete ==
  outcome = "ok" => cursor = Len(archive) /\ current = Lookup(children, filename)

CourseInv == TreeInv /\ HoldsArchive /\ Answers /\ Complete

(* It holds at the start. *)
LEMMA InitCourse == Init => CourseInv
  BY InitTree DEF Init, CourseInv, HoldsArchive, Answers, Complete, Working

(* No step loses track of the archive. *)
LEMMA StepHolds == CourseInv /\ [Next]_vars => HoldsArchive'
<1> SUFFICES ASSUME CourseInv, [Next]_vars PROVE HoldsArchive'
  OBVIOUS
<1> USE DEF CourseInv, HoldsArchive, given
<1>1. CASE \/ Prepare \/ OpenInUse \/ OpenArchive \/ OpenFails
         \/ OpenReturnsPositive \/ OpenReturnsNegative
  BY <1>1 DEF Prepare, OpenInUse, OpenArchive, OpenFails, OpenReturnsPositive, OpenReturnsNegative
<1>2. CASE ReadHeader \/ DumpFails \/ HeaderFails \/ EndOfArchive
  BY <1>2 DEF ReadHeader, DumpFails, HeaderFails, EndOfArchive, FileEntry
<1>3. CASE FreeArchive \/ NothingToFree \/ FreeGarbage \/ Answer
  BY <1>3 DEF FreeArchive, NothingToFree, FreeGarbage, Answer
<1>4. CASE UNCHANGED vars
  BY <1>4 DEF vars
<1> QED
  BY <1>1, <1>2, <1>3, <1>4 DEF Next

(* The task is answered once, at the end, and only upwards of its outcome. *)
LEMMA StepAnswers == CourseInv /\ [Next]_vars => Answers'
<1> SUFFICES ASSUME CourseInv, [Next]_vars PROVE Answers'
  OBVIOUS
<1> USE DEF CourseInv, Answers, Working
<1>1. CASE \/ Prepare \/ OpenInUse \/ OpenArchive \/ OpenFails
         \/ OpenReturnsPositive \/ OpenReturnsNegative
  BY <1>1 DEF Prepare, OpenInUse, OpenArchive, OpenFails, OpenReturnsPositive, OpenReturnsNegative
<1>2. CASE ReadHeader \/ DumpFails \/ HeaderFails \/ EndOfArchive
  BY <1>2 DEF ReadHeader, DumpFails, HeaderFails, EndOfArchive, FileEntry
<1>3. CASE FreeArchive \/ NothingToFree \/ FreeGarbage \/ Answer
  BY <1>3 DEF FreeArchive, NothingToFree, FreeGarbage, Answer
<1>4. CASE UNCHANGED vars
  BY <1>4 DEF vars
<1> QED
  BY <1>1, <1>2, <1>3, <1>4 DEF Next

(* Success is only announced on the complete tree, which then stays as it is. *)
LEMMA StepComplete == CourseInv /\ [Next]_vars => Complete'
<1> SUFFICES ASSUME CourseInv, [Next]_vars PROVE Complete'
  OBVIOUS
<1> USE DEF CourseInv, Answers, Working, Complete, given, tree
<1>1. CASE \/ Prepare \/ OpenInUse \/ OpenArchive \/ OpenFails
         \/ OpenReturnsPositive \/ OpenReturnsNegative
  BY <1>1 DEF Prepare, OpenInUse, OpenArchive, OpenFails, OpenReturnsPositive, OpenReturnsNegative
<1>2. CASE ReadHeader
  BY <1>2 DEF ReadHeader, FileEntry
<1>3. CASE DumpFails \/ HeaderFails
  BY <1>3 DEF DumpFails, HeaderFails
<1>4. CASE EndOfArchive
  BY <1>4 DEF EndOfArchive
<1>5. CASE FreeArchive \/ NothingToFree \/ FreeGarbage \/ Answer
  BY <1>5 DEF FreeArchive, NothingToFree, FreeGarbage, Answer
<1>6. CASE UNCHANGED vars
  BY <1>6 DEF vars
<1> QED
  BY <1>1, <1>2, <1>3, <1>4, <1>5, <1>6 DEF Next

(* CourseInv holds throughout. *)
LEMMA CourseInvHolds == Spec => []CourseInv
<1>1. CourseInv /\ [Next]_vars => CourseInv'
  BY StepTree, StepHolds, StepAnswers, StepComplete DEF CourseInv
<1> QED
  BY <1>1, InitCourse, PTL DEF Spec

(***************************************************************************)
(* On every path through init_fn, the failing ones included, the base      *)
(* stream is released before the caller hears of the result.               *)
(***************************************************************************)
THEOREM StreamIsReleased == Spec => []StreamReleased
<1>1. CourseInv => StreamReleased
  BY DEF CourseInv, HoldsArchive, StreamReleased
<1> QED
  BY <1>1, CourseInvHolds, PTL

(***************************************************************************)
(* Unless something failed, the cache goes with the entries at every       *)
(* header: ReadHeader replaces both or, when caching is lazy, neither.     *)
(***************************************************************************)
CacheTells ==
  outcome # "error" => \A p \in Path :
    cache[p] = IF level = "FULL" /\ entry[p] # RootEntry
                 THEN Dumped(archive, entry[p]) ELSE NULL

(* No step parts the cache from the entries. *)
LEMMA StepCache == CourseInv /\ CacheTells /\ [Next]_vars => CacheTells'
<1> SUFFICES ASSUME CourseInv, CacheTells, [Next]_vars PROVE CacheTells'
  OBVIOUS
<1> USE DEF given, tree
<1>1. TypeOK /\ Answers
  BY DEF CourseInv, TreeInv
<1>2. CASE Prepare
  <2>1. entry = [p \in Path |-> NULL] /\ Root \in Path
    BY <1>2, PathAssumption DEF Prepare, CourseInv, TreeInv
  <2>2. outcome # "error"
    BY <1>1, <1>2 DEF Prepare, Answers, Working
  <2>3. \A p \in Path : cache[p] = NULL
    BY <2>1, <2>2, NullAssumption, DumpedNothing DEF CacheTells, RootEntry
  <2>4. \A p \in Path : entry'[p] = IF p = Root THEN RootEntry ELSE NULL
    BY <1>2, <2>1 DEF Prepare
  <2> QED
    BY <1>2, <2>3, <2>4, DumpedNothing DEF Prepare, CacheTells
<1>3. CASE ReadHeader
  <2>1. PICK p \in Path :
          /\ FileEntry(p)
          /\ cache' = IF level = "FULL"
                        THEN [cache EXCEPT ![p] = Dumped(archive, cursor + 1)]
                        ELSE cache
          /\ UNCHANGED <<given, pc, current, ar, tag, data, outcome, result>>
    BY <1>3 DEF ReadHeader
  <2>2. entry' = [entry EXCEPT ![p] = cursor + 1] /\ pc = "explore"
    BY <2>1 DEF FileEntry
  <2>3. cursor + 1 # RootEntry
    BY <1>1 DEF TypeOK, RootEntry
  <2>4. outcome # "error"
    BY <1>1, <2>2 DEF Answers, Working
  <2>5. \A q \in Path :
          cache[q] = IF level = "FULL" /\ entry[q] # RootEntry
                       THEN Dumped(archive, entry[q]) ELSE NULL
    BY <2>4 DEF CacheTells
  <2> QED
    BY <1>1, <2>1, <2>2, <2>3, <2>5 DEF CacheTells, TypeOK
<1>4. CASE DumpFails \/ HeaderFails
  BY <1>4 DEF DumpFails, HeaderFails, CacheTells
<1>5. CASE EndOfArchive
  <2>1. outcome # "error"
    BY <1>1, <1>5 DEF EndOfArchive, Answers, Working
  <2> QED
    BY <1>5, <2>1 DEF EndOfArchive, CacheTells
<1>6. CASE OpenInUse \/ OpenArchive \/ OpenFails \/ OpenReturnsPositive \/ OpenReturnsNegative
  BY <1>6 DEF OpenInUse, OpenArchive, OpenFails, OpenReturnsPositive, OpenReturnsNegative, CacheTells
<1>7. CASE FreeArchive \/ NothingToFree \/ FreeGarbage \/ Answer
  BY <1>7 DEF FreeArchive, NothingToFree, FreeGarbage, Answer, CacheTells
<1>8. CASE UNCHANGED vars
  BY <1>8 DEF vars, CacheTells
<1> QED
  BY <1>2, <1>3, <1>4, <1>5, <1>6, <1>7, <1>8 DEF Next

(***************************************************************************)
(* A handle opened with full caching holds, for every path, the bytes of   *)
(* the very entry its node describes, however often the path occurs in the *)
(* archive; one opened lazily holds none.                                  *)
(***************************************************************************)
THEOREM CacheFollowsEntry == Spec => []CacheMatchesEntry
<1>1. Init => CacheTells
  BY DumpedNothing DEF Init, CacheTells
<1>2. CacheTells => CacheMatchesEntry
  BY DEF CacheTells, CacheMatchesEntry
<1> QED
  BY <1>1, <1>2, StepCache, CourseInvHolds, PTL DEF Spec

(***************************************************************************)
(* What a lazy reader looks for by name, in an archive that may have more  *)
(* entries of that name, is an entry of the same path; and the very one    *)
(* the node holds, if the archive has no name twice.                       *)
(***************************************************************************)
THEOREM LazyFindsTheSame == Spec => []LazyMatchesEager
<1>1. ASSUME CourseInv PROVE LazyMatchesEager
  <2> SUFFICES ASSUME result = "ok", NEW p \in Path, entry[p] \notin {NULL, RootEntry}
               PROVE  LET found == FirstNamed(archive, RawOf(archive, entry[p]))
                      IN  /\ found # NULL
                          /\ Canon[archive[found]] = p
                          /\ DistinctNames(archive) => found = entry[p]
    BY DEF LazyMatchesEager
  <2> DEFINE e == entry[p]
             named == Named(archive, archive[e])
  <2>1. archive \in Seq(Raw) /\ cursor = Len(archive) /\ e = LastEntry(archive, cursor, p)
    BY <1>1, ArchiveAssumption
       DEF CourseInv, TreeInv, TypeOK, EntriesExact, Answers, Complete
  <2>2. e \in 1 .. Len(archive) /\ Canon[archive[e]] = p
    <3>1. FiledUnder(archive, cursor, p) \subseteq 1 .. cursor
      BY DEF FiledUnder
    <3>2. e \in FiledUnder(archive, cursor, p)
      BY <2>1, <3>1, MaxIsGreatest DEF LastEntry
    <3> QED
      BY <2>1, <3>2 DEF FiledUnder
  <2>3. RawOf(archive, e) = archive[e]
    BY DEF RawOf
  <2>4. named \subseteq Nat /\ e \in named
    BY <2>2 DEF Named
  <2>5. FirstNamed(archive, archive[e]) \in named
    BY <2>4, MinIsLeast DEF FirstNamed
  <2> QED
    BY <2>2, <2>3, <2>5, NullAssumption DEF Named, DistinctNames
<1> QED
  BY <1>1, CourseInvHolds, PTL

(* At the end of the exploration the node looked up is the right one. *)
LEMMA LookupExact ==
  ASSUME CourseInv, outcome = "ok"
  PROVE  current = IF filename \in NodesAfter(archive, Len(archive)) THEN filename ELSE NULL
<1>1. cursor = Len(archive) /\ current = Lookup(children, filename)
  BY DEF CourseInv, Complete
<1>2. filename \in Path \cup {NULL}
  BY DEF CourseInv, TreeInv, TypeOK
<1>3. \A p \in Path : Found(children, p) <=> p \in NodesAfter(archive, Len(archive))
  BY <1>1 DEF CourseInv, TreeInv, NodesExact
<1>4. NodesAfter(archive, Len(archive)) \subseteq Path
  <2>1. archive \in Seq(Raw)
    BY ArchiveAssumption DEF CourseInv, TreeInv, TypeOK
  <2>2. \A i \in 1 .. Len(archive) : Lineage[Canon[archive[i]]] \subseteq Path
    BY <2>1, NameAssumption, OwnLineage
  <2> QED
    BY <2>2, PathAssumption DEF NodesAfter
<1>5. CASE filename = NULL
  BY <1>1, <1>4, <1>5 DEF Lookup
<1>6. CASE filename # NULL
  BY <1>1, <1>2, <1>3, <1>6 DEF Lookup
<1> QED
  BY <1>5, <1>6

(* A handle that is given out stands on the node of its filename. *)
THEOREM HandleIsExact == Spec => []HandleExact
<1>1. CourseInv => HandleExact
  BY LookupExact DEF HandleExact, CourseInv, Answers
<1> QED
  BY <1>1, CourseInvHolds, PTL

(***************************************************************************)
(* Refinement: the step that answers the caller is the abstract step that  *)
(* publishes the catalogue or refuses; every other step shows nothing.     *)
(***************************************************************************)
(* The abstract module reads archives and paths the way this one does. *)
LEMMA SameListing ==
  ASSUME NEW a, NEW k, NEW p
  PROVE  /\ Shown!NodesAfter(a, k) = NodesAfter(a, k)
         /\ Shown!LastEntry(a, k, p) = LastEntry(a, k, p)
<1>1. Shown!NodesAfter(a, k) = NodesAfter(a, k)
  BY DEF NodesAfter, Shown!NodesAfter
<1>2. Shown!FiledUnder(a, k, p) = FiledUnder(a, k, p)
  BY DEF FiledUnder, Shown!FiledUnder
<1>3. Shown!Max(FiledUnder(a, k, p)) = Max(FiledUnder(a, k, p))
  BY DEF Max, Shown!Max
<1>4. Shown!RootEntry = RootEntry
  BY DEF RootEntry, Shown!RootEntry
<1>5. Shown!LastEntry(a, k, p) = LastEntry(a, k, p)
  BY <1>2, <1>3, <1>4 DEF LastEntry, Shown!LastEntry
<1> QED
  BY <1>1, <1>5

(* What a successful answer shows is the catalogue. *)
LEMMA AnswerPublishes ==
  ASSUME CourseInv, outcome = "ok"
  PROVE  [nodes   |-> {p \in Path : Found(children, p)},
          entry   |-> entry,
          current |-> current] = Shown!CatalogueOf(archive, filename)
<1>1. cursor = Len(archive) /\ pc # "start"
  BY DEF CourseInv, Complete, Answers, Working
<1>2. archive \in Seq(Raw) /\ entry \in [Path -> EntriesOf(archive)]
  BY ArchiveAssumption DEF CourseInv, TreeInv, TypeOK
<1>3. NodesAfter(archive, Len(archive)) \subseteq Path
  <2>1. \A i \in 1 .. Len(archive) : Lineage[Canon[archive[i]]] \subseteq Path
    BY <1>2, NameAssumption, OwnLineage
  <2> QED
    BY <2>1, PathAssumption DEF NodesAfter
<1>4. {p \in Path : Found(children, p)} = NodesAfter(archive, Len(archive))
  BY <1>1, <1>3 DEF CourseInv, TreeInv, NodesExact
<1>5. entry = [p \in Path |-> LastEntry(archive, Len(archive), p)]
  BY <1>1, <1>2 DEF CourseInv, TreeInv, EntriesExact
<1>6. current = Shown!NodeAt(archive, filename)
  BY LookupExact, SameListing DEF Shown!NodeAt
<1>7. Shown!NodesAfter(archive, Len(archive)) = NodesAfter(archive, Len(archive))
  BY SameListing
<1>8. \A p \in Path : Shown!LastEntry(archive, Len(archive), p)
                        = LastEntry(archive, Len(archive), p)
  BY SameListing
<1>9. [p \in Path |-> Shown!LastEntry(archive, Len(archive), p)] = entry
  BY <1>5, <1>8
<1> QED
  BY <1>4, <1>6, <1>7, <1>9 DEF Shown!CatalogueOf

(* The initial states show nothing. *)
LEMMA InitShows == Init => Shown!Init
  BY DEF Init, Shown!Init, ShownView

(* Every step shows the catalogue, a refusal, or nothing new. *)
LEMMA StepShows == CourseInv /\ CourseInv' /\ [Next]_vars => [Shown!Next]_Shown!vars
<1> SUFFICES ASSUME CourseInv, CourseInv', [Next]_vars
             PROVE  [Shown!Next]_Shown!vars
  OBVIOUS
<1> USE DEF given, tree
<1>1. ASSUME UNCHANGED <<archive, filename>>, result = "none", result' = "none"
      PROVE  UNCHANGED Shown!vars
  BY <1>1 DEF Shown!vars, ShownView
<1>2. CASE \/ Prepare \/ OpenInUse \/ OpenArchive \/ OpenFails
         \/ OpenReturnsPositive \/ OpenReturnsNegative
  BY <1>1, <1>2 DEF Prepare, OpenInUse, OpenArchive, OpenFails, OpenReturnsPositive,
                    OpenReturnsNegative, CourseInv, Answers
<1>3. CASE ReadHeader \/ DumpFails \/ HeaderFails \/ EndOfArchive
  BY <1>1, <1>3 DEF ReadHeader, DumpFails, HeaderFails, EndOfArchive, FileEntry,
                    CourseInv, Answers
<1>4. CASE FreeArchive \/ NothingToFree \/ FreeGarbage
  BY <1>1, <1>4 DEF FreeArchive, NothingToFree, FreeGarbage, CourseInv, Answers
<1>5. CASE Answer
  <2>1. /\ result = "none" /\ ShownView = NULL
        /\ result' \in {"ok", "error"}
        /\ UNCHANGED <<archive, filename, children, entry, current, outcome>>
    BY <1>5 DEF Answer, CourseInv, Answers, ShownView, TreeInv, TypeOK
  <2>2. CASE result' = "error"
    <3>1. ShownView' = Refused
      BY <2>2 DEF ShownView
    <3> QED
      BY <2>1, <3>1 DEF Shown!Next, Shown!Refuse
  <2>3. CASE result' = "ok"
    <3>1. outcome = "ok"
      BY <2>1, <2>3 DEF CourseInv, Answers
    <3>2. ShownView' = [nodes   |-> {p \in Path : Found(children, p)},
                        entry   |-> entry,
                        current |-> current]
      BY <2>1, <2>3 DEF ShownView, Found, Listed
    <3>3. ShownView' = Shown!CatalogueOf(archive, filename)
      BY <3>1, <3>2, AnswerPublishes
    <3> QED
      BY <2>1, <3>3 DEF Shown!Next, Shown!Publish
  <2> QED
    BY <2>1, <2>2, <2>3
<1>6. CASE UNCHANGED vars
  <2>1. UNCHANGED <<archive, filename, children, entry, current, result>>
    BY <1>6 DEF vars
  <2>2. UNCHANGED ShownView
    BY <2>1 DEF ShownView, Found, Listed
  <2> QED
    BY <2>1, <2>2 DEF Shown!vars
<1> QED
  BY <1>2, <1>3, <1>4, <1>5, <1>6 DEF Next

(***************************************************************************)
(* aks_file_new implements the abstract opening of an archive: its caller  *)
(* is shown the complete catalogue, in one step, or an error.              *)
(***************************************************************************)
THEOREM ShowsTheCatalogue == Spec => ShowsCatalogue
<1> QED
  BY InitShows, StepShows, CourseInvHolds, PTL DEF Spec, ShowsCatalogue, Shown!Spec
=============================================================================
