------------------------- MODULE AksListingProofs -------------------------
(***************************************************************************)
(* Facts about archives and paths that the proofs about other modules rest *)
(* on: what the extremes of a set of numbers are and that there are such,  *)
(* and what one more header does to the nodes and entries of a tree.       *)
(***************************************************************************)
EXTENDS AksListing, WellFoundedInduction, TLAPS

(* A set of numbers has a least element; induction by least counterexample. *)
LEMMA LeastElement ==
  ASSUME NEW S, S \subseteq Nat, S # {}
  PROVE  \E x \in S : \A y \in S : x <= y
<1> DEFINE R == {ss \in Nat \X Nat : ss[1] < ss[2]}
<1>1. IsWellFoundedOn(R, Nat)
  BY NatLessThanWellFounded DEF OpToRel
<1>2. PICK x \in S : \A y \in S : ~ (<<y, x>> \in R)
  BY <1>1, WFMin
<1>3. ASSUME NEW y \in S PROVE x <= y
  <2>1. ~ (<<y, x>> \in R)
    BY <1>2
  <2>2. <<y, x>> \in Nat \X Nat
    OBVIOUS
  <2> QED
    BY <2>1, <2>2
<1> QED
  BY <1>3

(* The least element is the minimum. *)
LEMMA MinIsLeast ==
  ASSUME NEW S, S \subseteq Nat, S # {}
  PROVE  Min(S) \in S /\ \A y \in S : Min(S) <= y
<1>1. \E x \in S : \A y \in S : x =< y
  BY LeastElement
<1> QED
  BY <1>1, Zenon DEF Min

(* A set of numbers that are all within a bound has a maximum. *)
LEMMA MaxIsGreatest ==
  ASSUME NEW n \in Nat, NEW S, S \subseteq 1 .. n, S # {}
  PROVE  Max(S) \in S /\ \A y \in S : Max(S) >= y
<1> DEFINE T == {n - x : x \in S}
<1>1. T \subseteq Nat /\ T # {}
  OBVIOUS
<1>2. PICK t \in T : \A u \in T : t <= u
  BY <1>1, LeastElement
<1>3. PICK x \in S : t = n - x
  OBVIOUS
<1>4. \A y \in S : n - x <= n - y
  BY <1>2, <1>3
<1>5. \A y \in S : x >= y
  BY <1>4
<1>6. \E z \in S : \A y \in S : z >= y
  BY <1>5
<1> QED
  BY <1>6, Zenon DEF Max

(* A member that no other one exceeds is the maximum. *)
LEMMA GreatestElement ==
  ASSUME NEW S, NEW x \in S, S \subseteq Nat, \A y \in S : y <= x
  PROVE  Max(S) = x
<1>1. \A z \in S : (\A y \in S : z >= y) <=> z = x
  OBVIOUS
<1>2. Max(S) \in S /\ \A y \in S : Max(S) >= y
  BY <1>1, Zenon DEF Max
<1> QED
  BY <1>1, <1>2

(***************************************************************************)
(* Facts about paths.                                                      *)
(***************************************************************************)
(* A path belongs to its own lineage, and so does the root. *)
LEMMA OwnLineage ==
  ASSUME NEW p \in Path
  PROVE  p \in Lineage[p] /\ Lineage[p] \subseteq Path
BY PathAssumption

(* The nodes after one more header: those of its lineage join the others. *)
LEMMA NodesAfterStep ==
  ASSUME NEW a \in Seq(Raw), NEW k \in Nat, k < Len(a)
  PROVE  NodesAfter(a, k + 1) = NodesAfter(a, k) \cup Lineage[Canon[a[k + 1]]]
<1>1. 1 .. (k + 1) = (1 .. k) \cup {k + 1}
  OBVIOUS
<1>2. UNION {Lineage[Canon[a[i]]] : i \in (1 .. k) \cup {k + 1}}
        = (UNION {Lineage[Canon[a[i]]] : i \in 1 .. k}) \cup Lineage[Canon[a[k + 1]]]
  OBVIOUS
<1> QED
  BY <1>1, <1>2 DEF NodesAfter

(* The entry kept for a path after one more header. *)
LEMMA LastEntryStep ==
  ASSUME NEW a \in Seq(Raw), NEW k \in Nat, k < Len(a), NEW p \in Path
  PROVE  LastEntry(a, k + 1, p) =
           IF Canon[a[k + 1]] = p THEN k + 1 ELSE LastEntry(a, k, p)
<1>1. CASE Canon[a[k + 1]] = p
  <2>1. k + 1 \in FiledUnder(a, k + 1, p)
    BY <1>1 DEF FiledUnder
  <2>2. FiledUnder(a, k + 1, p) \subseteq Nat
        /\ \A i \in FiledUnder(a, k + 1, p) : i <= k + 1
    BY DEF FiledUnder
  <2>4. Max(FiledUnder(a, k + 1, p)) = k + 1
    BY <2>1, <2>2, GreatestElement
  <2> QED
    BY <1>1, <2>1, <2>4 DEF LastEntry
<1>2. CASE Canon[a[k + 1]] # p
  <2>1. FiledUnder(a, k + 1, p) = FiledUnder(a, k, p)
    BY <1>2 DEF FiledUnder
  <2> QED
    BY <1>2, <2>1 DEF LastEntry
<1> QED
  BY <1>1, <1>2

(* Before the first header the root has an entry of its own, and nobody else. *)
LEMMA NoEntryYet ==
  ASSUME NEW a \in Seq(Raw), NEW p \in Path
  PROVE  LastEntry(a, 0, p) = IF p = Root THEN RootEntry ELSE NULL
<1>1. FiledUnder(a, 0, p) = {}
  BY DEF FiledUnder
<1> QED
  BY <1>1 DEF LastEntry

(* Before the first header the root is the only node. *)
LEMMA OnlyRoot ==
  ASSUME NEW a \in Seq(Raw)
  PROVE  NodesAfter(a, 0) = {Root}
<1>1. 1 .. 0 = {}
  OBVIOUS
<1>2. UNION {Lineage[Canon[a[i]]] : i \in {}} = {}
  OBVIOUS
<1> QED
  BY <1>1, <1>2 DEF NodesAfter

(* What a tree keeps for a path is an entry of the archive, if any. *)
LEMMA LastEntryType ==
  ASSUME NEW a \in Seq(Raw), NEW k \in 0 .. Len(a), NEW p \in Path
  PROVE  LastEntry(a, k, p) \in {NULL, RootEntry} \cup (1 .. k)
<1>1. FiledUnder(a, k, p) \subseteq 1 .. k
  BY DEF FiledUnder
<1>2. CASE FiledUnder(a, k, p) # {}
  BY <1>1, <1>2, MaxIsGreatest DEF LastEntry
<1>3. CASE FiledUnder(a, k, p) = {}
  BY <1>3 DEF LastEntry
<1> QED
  BY <1>2, <1>3

(* A path that has an entry has a node. *)
LEMMA EntryHasNode ==
  ASSUME NEW a \in Seq(Raw), NEW k \in 0 .. Len(a), NEW p \in Path,
         LastEntry(a, k, p) # NULL
  PROVE  p \in NodesAfter(a, k)
<1>1. CASE p = Root
  BY <1>1 DEF NodesAfter
<1>2. CASE p # Root
  <2>1. PICK i \in 1 .. k : Canon[a[i]] = p
    BY <1>2 DEF LastEntry, FiledUnder
  <2>2. p \in Lineage[Canon[a[i]]]
    BY <2>1, OwnLineage
  <2> QED
    BY <2>2 DEF NodesAfter
<1> QED
  BY <1>1, <1>2

(* A search that met no header of the name before this one ends at it. *)
LEMMA FirstNamedFound ==
  ASSUME NEW a \in Seq(Raw), NEW r, NEW h \in 1 .. Len(a), a[h] = r,
         \A i \in 1 .. h - 1 : a[i] # r
  PROVE  FirstNamed(a, r) = h
<1>1. h \in Named(a, r) /\ Named(a, r) \subseteq Nat
  BY DEF Named
<1>2. \A i \in Named(a, r) : h <= i
  BY DEF Named
<1>3. Min(Named(a, r)) = h
  BY <1>1, <1>2, MinIsLeast
<1> QED
  BY <1>1, <1>3 DEF FirstNamed

(* A search that met no header of the name at all ends at the end. *)
LEMMA FirstNamedMissing ==
  ASSUME NEW a \in Seq(Raw), NEW r, \A i \in 1 .. Len(a) : a[i] # r
  PROVE  FirstNamed(a, r) = NULL
BY DEF FirstNamed, Named

(***************************************************************************)
(* What is dumped is bytes, of an entry; without an entry it is nothing.   *)
(***************************************************************************)
LEMMA DumpedBytes ==
  ASSUME NEW a \in Seq(Raw), NEW i \in 1 .. Len(a)
  PROVE  Dumped(a, i) \in BytesOf(a)
BY DEF Dumped, BytesOf

LEMMA DumpedNothing ==
  ASSUME NEW a
  PROVE  Dumped(a, NULL) = NULL /\ Dumped(a, RootEntry) = RootEntry
<1>1. NULL \notin 1 .. Len(a) /\ RootEntry \notin 1 .. Len(a)
  BY NullAssumption DEF RootEntry
<1> QED
  BY <1>1 DEF Dumped

(* What is dumped of an entry is something exactly if the entry is there. *)
LEMMA DumpedEntry ==
  ASSUME NEW a \in Seq(Raw), NEW e \in {NULL, RootEntry} \cup (1 .. Len(a))
  PROVE  Dumped(a, e) = NULL <=> e = NULL
<1>1. Len(a) \in Nat /\ BytesOf(a) \subseteq Int
  BY DEF BytesOf
<1>2. e \in 1 .. Len(a) => Dumped(a, e) # NULL /\ e # NULL
  BY <1>1, DumpedBytes, NullAssumption
<1> QED
  BY <1>2, DumpedNothing, NullAssumption DEF RootEntry

=============================================================================
