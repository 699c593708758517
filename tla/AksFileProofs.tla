--------------------------- MODULE AksFileProofs ---------------------------
(***************************************************************************)
(* Proofs about AksFile, for every archive and any number of handles and   *)
(* enumerators: what a filename tells of a handle, that nothing that is    *)
(* freed is met while originals are kept, and that enumerators implement   *)
(* Enumeration.                                                            *)
(***************************************************************************)
EXTENDS AksFile, AksListingProofs

(* A handle is a copy of one made earlier; enumerators hold handles made. *)
Made ==
  /\ \A h \in Handle : source[h] # NULL => h <= made /\ source[h] <= made
  /\ \A e \in Enum : container[e] # NULL => container[e] <= made

(* Handles that are there together with the handles they were copied from. *)
Closed(A) == \A h \in A : source[h] # NULL => source[h] \in A

(***************************************************************************)
(* Following copies back to their originals leads to every tree a handle   *)
(* or an enumerator may stand in: whatever set of handles is closed under  *)
(* going back holds the owners of the nodes that its members stand on.     *)
(***************************************************************************)
Rooted ==
  \A A \in SUBSET (1 .. made) : Closed(A) =>
    /\ \A h \in A : current[h] # NULL => Owner(current[h]) \in A
    /\ \A e \in Enum :
         container[e] \in A /\ node[e] # NULL => Owner(node[e]) \in A

(* The children with an entry that an enumerator has passed. *)
Passed(e) ==
  {q \in Kids(PathOf(listing[e])) :
     /\ EntryOf(q) # NULL
     /\ node[e] = NULL \/ Mention(q) < Mention(PathOf(node[e]))}

(* Where an enumerator stands, and that it yielded all it has passed. *)
Enumerating(e) ==
  /\ container[e] = NULL <=> listing[e] = NULL
  /\ listing[e] = NULL => node[e] = NULL /\ yielded[e] = {}
  /\ node[e] # NULL => PathOf(node[e]) \in Kids(PathOf(listing[e]))
  /\ listing[e] # NULL => yielded[e] = Passed(e)

(* The inductive invariant. *)
FileInv ==
  /\ TypeOK
  /\ Made
  /\ Rooted
  /\ FilenameTells
  /\ NoFreedNode
  /\ \A e \in Enum : Enumerating(e)

(***************************************************************************)
(* Siblings.                                                               *)
(***************************************************************************)
(* A child is mentioned first by one of the entries of the archive. *)
LEMMA MentionedByEntry ==
  ASSUME archive \in Seq(Raw), NEW q \in Path, InTree(q), q # Root
  PROVE  /\ Mention(q) \in 1 .. Len(archive)
         /\ q \in Lineage[Canon[archive[Mention(q)]]]
<1> DEFINE S == {i \in 1 .. Len(archive) : q \in Lineage[Canon[archive[i]]]}
<1>1. S # {}
  BY DEF InTree, NodesAfter
<1>2. Min(S) \in S
  <2>1. S \subseteq Nat
    OBVIOUS
  <2> QED
    BY <1>1, <2>1, MinIsLeast
<1>3. Mention(q) = Min(S)
  BY DEF Mention
<1> QED
  BY <1>2, <1>3

(* No two siblings are mentioned first by the same one. *)
LEMMA SiblingsDiffer ==
  ASSUME archive \in Seq(Raw), NEW d, NEW q \in Kids(d), NEW r \in Kids(d),
         Mention(q) = Mention(r)
  PROVE  q = r
<1>1. q \in Path /\ r \in Path /\ InTree(q) /\ InTree(r) /\ q # Root /\ r # Root
      /\ ParentOf[q] = d /\ ParentOf[r] = d
  BY DEF Kids
<1>2. PICK i \in 1 .. Len(archive) :
        q \in Lineage[Canon[archive[i]]] /\ r \in Lineage[Canon[archive[i]]]
  BY <1>1, MentionedByEntry
<1>3. Canon[archive[i]] \in Path
  BY <1>2, NameAssumption
<1> QED
  BY <1>1, <1>2, <1>3, LineageAssumption

(* The first of some siblings is one of them, and is mentioned first. *)
LEMMA FirstIsLeast ==
  ASSUME archive \in Seq(Raw), NEW d, NEW S, S \subseteq Kids(d), S # {}, NEW h
  PROVE  \E q \in S : FirstOf(h, S) = <<h, q>> /\ \A r \in S : Mention(q) <= Mention(r)
<1>1. \A q \in S : Mention(q) \in Nat
  BY MentionedByEntry DEF Kids
<1> DEFINE M == {Mention(q) : q \in S}
<1>2. M \subseteq Nat /\ M # {}
  BY <1>1
<1>3. PICK m \in M : \A n \in M : m <= n
  BY <1>2, LeastElement
<1>4. \E q \in S : \A r \in S : Mention(q) <= Mention(r)
  BY <1>3
<1> DEFINE first == CHOOSE q \in S : \A r \in S : Mention(q) <= Mention(r)
<1>5. first \in S /\ \A r \in S : Mention(first) <= Mention(r)
  BY <1>4, Zenon
<1>6. FirstOf(h, S) = <<h, first>>
  BY DEF FirstOf
<1> QED
  BY <1>5, <1>6

(* What is known of the archive in every state. *)
LEMMA ArchiveIs ==
  ASSUME TypeOK
  PROVE  archive \in Seq(Raw) /\ Len(archive) \in Nat
<1>1. archive \in Seq(Raw)
  BY ArchiveAssumption DEF TypeOK
<1> QED
  BY <1>1

(***************************************************************************)
(* The steps.                                                              *)
(***************************************************************************)
(* Trees do not change while the archive is the same. *)
LEMMA SameTrees ==
  ASSUME archive' = archive
  PROVE  /\ \A p : InTree(p)' <=> InTree(p)
         /\ \A d : Kids(d)' = Kids(d)
         /\ \A p : EntryOf(p)' = EntryOf(p)
         /\ \A p : Mention(p)' = Mention(p)
<1>1. \A p : InTree(p)' <=> InTree(p)
  BY DEF InTree
<1>2. \A d : Kids(d)' = Kids(d)
  BY <1>1 DEF Kids
<1>3. \A p : EntryOf(p)' = EntryOf(p)
  BY DEF EntryOf
<1>4. \A p : Mention(p)' = Mention(p)
  BY DEF Mention
<1> QED
  BY <1>1, <1>2, <1>3, <1>4

(* What is said of an enumerator that is left alone goes on to hold. *)
LEMMA EnumeratorKept ==
  ASSUME archive' = archive, NEW e, Enumerating(e),
         container'[e] = container[e], node'[e] = node[e],
         listing'[e] = listing[e], yielded'[e] = yielded[e]
  PROVE  Enumerating(e)'
<1>1. /\ \A d : Kids(d)' = Kids(d)
      /\ \A p : EntryOf(p)' = EntryOf(p)
      /\ \A p : Mention(p)' = Mention(p)
  BY SameTrees
<1>2. Passed(e)' = Passed(e)
  BY <1>1 DEF Passed
<1> QED
  BY <1>1, <1>2 DEF Enumerating

(* What is said of filenames goes on to hold of handles that are left alone. *)
LEMMA FilenamesKept ==
  ASSUME FilenameTells, UNCHANGED <<archive, handles>>
  PROVE  FilenameTells'
BY SameTrees DEF FilenameTells, handles

(* Following copies back is not disturbed when nothing is made. *)
LEMMA RootedKept ==
  ASSUME Rooted, UNCHANGED <<made, current, source, container, node>>
  PROVE  Rooted'
BY DEF Rooted, Closed

(* The invariant holds at first. *)
LEMMA FileInit == Init => FileInv
<1> SUFFICES ASSUME Init PROVE FileInv
  OBVIOUS
<1> USE HandleAssumption, NullAssumption, NodeAssumption DEF Init, Handle
<1>1. PICK p \in Path :
        /\ filename = [h \in Handle |-> p]
        /\ current = [h \in Handle |-> IF h = 1 THEN Lookup(1, p) ELSE NULL]
  OBVIOUS
<1>2. TypeOK
  <2>1. Lookup(1, p) \in Nodes \cup {NULL}
    BY DEF Lookup, Nodes
  <2>2. current \in [Handle -> Nodes \cup {NULL}]
    BY <1>1, <2>1
  <2> QED
    BY <1>1, <2>2 DEF TypeOK
<1>3. Made
  BY DEF Made
<1>4. Rooted
  BY <1>1 DEF Rooted, Lookup, Owner
<1>5. FilenameTells
  BY <1>1 DEF FilenameTells, Lookup, PathOf
<1>6. NoFreedNode
  BY DEF NoFreedNode
<1>7. \A e \in Enum : Enumerating(e)
  BY DEF Enumerating
<1> QED
  BY <1>2, <1>3, <1>4, <1>5, <1>6, <1>7 DEF FileInv

(* With originals kept, what a live handle or an enumerator stands on is live. *)
LEMMA StandsOnLive ==
  ASSUME FileInv, OriginalsKept
  PROVE  /\ \A h \in 1 .. made : Alive(h) /\ current[h] # NULL => ~ Dangling(current[h])
         /\ \A e \in Enum : node[e] # NULL => ~ Dangling(node[e])
<1> DEFINE A == {g \in 1 .. made : Alive(g)}
<1>1. Closed(A)
  <2>1. ASSUME NEW g \in A, source[g] # NULL PROVE source[g] \in 1 .. made
    <3>1. made \in Nat /\ g \in Handle
      BY HandleAssumption DEF FileInv, TypeOK, Handle
    <3>2. source[g] \in Handle /\ source[g] <= made
      BY <2>1, <3>1 DEF FileInv, TypeOK, Made
    <3> QED
      BY <3>1, <3>2 DEF Handle
  <2> QED
    BY <2>1 DEF Closed, OriginalsKept
<1>2. /\ \A h \in A : current[h] # NULL => Owner(current[h]) \in A
      /\ \A e \in Enum : container[e] \in A /\ node[e] # NULL => Owner(node[e]) \in A
  BY <1>1 DEF FileInv, Rooted
<1>3. \A e \in Enum : node[e] # NULL => container[e] \in A
  <2> SUFFICES ASSUME NEW e \in Enum, node[e] # NULL
               PROVE  container[e] \in A
    OBVIOUS
  <2>1. container[e] # NULL
    BY DEF FileInv, Enumerating
  <2>2. container[e] \in 1 .. made
    BY <2>1 DEF FileInv, Made, TypeOK, Handle
  <2> QED
    BY <2>2 DEF Alive
<1> QED
  BY <1>2, <1>3 DEF Dangling

(* A process dies without anything else changing. *)
LEMMA DeathKeeps ==
  ASSUME FileInv, NEW how \in {"null", "freed", "assert", "garbage"}, Die(how),
         how = "freed" => ~ OriginalsKept
  PROVE  FileInv'
<1> USE DEF Die, handles, enumerators
<1>1. TypeOK'
  BY DEF FileInv, TypeOK
<1>2. Made'
  BY DEF FileInv, Made
<1>3. Rooted'
  BY RootedKept DEF FileInv
<1>4. FilenameTells'
  BY FilenamesKept DEF FileInv
<1>5. NoFreedNode'
  <2>1. OriginalsKept' <=> OriginalsKept
    BY DEF OriginalsKept, Alive
  <2> QED
    BY <2>1 DEF NoFreedNode
<1>6. ASSUME NEW e \in Enum PROVE Enumerating(e)'
  BY EnumeratorKept DEF FileInv
<1> QED
  BY <1>1, <1>2, <1>3, <1>4, <1>5, <1>6 DEF FileInv

(* A live handle meets a freed node only if an original was dropped. *)
LEMMA LiveDangles ==
  ASSUME FileInv, NEW h \in 1 .. made, Alive(h), current[h] # NULL, Dangling(current[h])
  PROVE  ~ OriginalsKept
BY StandsOnLive

(* So does one that the client holds. *)
LEMMA HeldDangles ==
  ASSUME FileInv, NEW h \in held, current[h] # NULL, Dangling(current[h])
  PROVE  ~ OriginalsKept
<1>1. h \in 1 .. made /\ Alive(h)
  BY DEF FileInv, TypeOK, Alive
<1> QED
  BY <1>1, LiveDangles

(***************************************************************************)
(* A copy stands in the tree of its original, or in its own, and is where  *)
(* its filename says unless it climbed.                                    *)
(***************************************************************************)
LEMMA CopyKeeps ==
  ASSUME FileInv, fault = "none", NEW h \in 1 .. made, NEW n \in Nodes \cup {NULL},
         NEW f \in Path, NEW c \in BOOLEAN, Copy(h, n, f, c),
         n # NULL => \/ Owner(n) = made + 1
                     \/ current[h] # NULL /\ Owner(n) = Owner(current[h]),
         ~ c => IF InTree(f) THEN n # NULL /\ PathOf(n) = f ELSE n = NULL
  PROVE  FileInv'
<1> USE HandleAssumption, NullAssumption DEF Copy, handles, enumerators, Handle
<1>1. made \in Nat /\ made + 1 \in Handle
  BY DEF FileInv, TypeOK
<1>2. TypeOK'
  <2>1. made' \in Handle /\ held' \subseteq 1 .. made'
    BY <1>1 DEF FileInv, TypeOK
  <2>2. current' \in [Handle -> Nodes \cup {NULL}] /\ filename' \in [Handle -> Path]
    BY <1>1 DEF FileInv, TypeOK, Nodes
  <2>3. source' \in [Handle -> Handle \cup {NULL}] /\ climbed' \in [Handle -> BOOLEAN]
    BY <1>1 DEF FileInv, TypeOK
  <2> QED
    BY <2>1, <2>2, <2>3 DEF FileInv, TypeOK, Nodes
<1>3. \A g \in Handle \ {made + 1} :
        /\ source'[g] = source[g] /\ current'[g] = current[g]
        /\ filename'[g] = filename[g] /\ climbed'[g] = climbed[g]
  BY <1>1 DEF FileInv, TypeOK
<1>4. /\ source'[made + 1] = h /\ current'[made + 1] = n
      /\ filename'[made + 1] = f /\ climbed'[made + 1] = c
  BY <1>1 DEF FileInv, TypeOK
<1>5. Made'
  BY <1>1, <1>3, <1>4 DEF FileInv, TypeOK, Made
<1>6. Rooted'
  <2> SUFFICES ASSUME NEW A \in SUBSET (1 .. made'), Closed(A)'
               PROVE  /\ \A g \in A : current'[g] # NULL => Owner(current'[g]) \in A
                      /\ \A e \in Enum : container'[e] \in A /\ node'[e] # NULL
                                           => Owner(node'[e]) \in A
    BY DEF Rooted
  <2> DEFINE B == A \ {made + 1}
  <2>1. B \in SUBSET (1 .. made)
    <3>1. \A g \in A : g \in 1 .. made + 1
      OBVIOUS
    <3>2. \A g \in 1 .. made + 1 : g # made + 1 => g \in 1 .. made
      BY <1>1
    <3> QED
      BY <3>1, <3>2, Zenon
  <2>2. Closed(B)
    <3> SUFFICES ASSUME NEW g \in B, source[g] # NULL
                 PROVE  source[g] \in B
      BY DEF Closed
    <3>1. g \in Handle /\ source'[g] = source[g]
      BY <1>1, <1>3, <2>1
    <3>2. source[g] \in A
      BY <3>1 DEF Closed
    <3>3. source[g] <= made /\ source[g] \in Nat
      BY <3>1 DEF FileInv, Made, TypeOK
    <3> QED
      BY <1>1, <3>2, <3>3
  <2>3. /\ \A g \in B : current[g] # NULL => Owner(current[g]) \in B
        /\ \A e \in Enum : container[e] \in B /\ node[e] # NULL => Owner(node[e]) \in B
    BY <2>1, <2>2 DEF FileInv, Rooted
  <2>4. ASSUME NEW g \in A, current'[g] # NULL PROVE Owner(current'[g]) \in A
    <3>1. CASE g = made + 1
      <4>1. h \in B
        BY <1>1, <1>4, <3>1 DEF Closed
      <4> QED
        BY <1>4, <2>3, <2>4, <3>1, <4>1
    <3>2. CASE g # made + 1
      BY <1>1, <1>3, <2>1, <2>3, <2>4, <3>2
    <3> QED
      BY <3>1, <3>2
  <2>5. ASSUME NEW e \in Enum, container'[e] \in A, node'[e] # NULL
        PROVE  Owner(node'[e]) \in A
    <3>1. container[e] # made + 1
      BY <1>1, <2>5 DEF FileInv, Made, TypeOK
    <3> QED
      BY <2>3, <2>5, <3>1
  <2> QED
    BY <2>4, <2>5
<1>7. FilenameTells'
  <2> SUFFICES ASSUME NEW g \in 1 .. made', ~ climbed'[g]
               PROVE  IF InTree(filename'[g])
                        THEN current'[g] # NULL /\ PathOf(current'[g]) = filename'[g]
                        ELSE current'[g] = NULL
    BY SameTrees DEF FilenameTells
  <2>1. CASE g = made + 1
    BY <1>4, <2>1
  <2>2. CASE g # made + 1
    <3>1. g \in 1 .. made /\ g \in Handle
      BY <1>1, <2>2
    <3> QED
      BY <1>3, <2>2, <3>1 DEF FileInv, FilenameTells
  <2> QED
    BY <2>1, <2>2
<1>8. NoFreedNode'
  BY DEF NoFreedNode
<1>9. ASSUME NEW e \in Enum PROVE Enumerating(e)'
  BY EnumeratorKept DEF FileInv
<1> QED
  BY <1>2, <1>5, <1>6, <1>7, <1>8, <1>9 DEF FileInv

(* The first child or the next sibling is a child, in the same tree. *)
LEMMA FirstOfType ==
  ASSUME TypeOK, NEW h \in Handle, NEW d, NEW S, S \subseteq Kids(d)
  PROVE  /\ FirstOf(h, S) \in Nodes \cup {NULL}
         /\ FirstOf(h, S) = NULL <=> S = {}
         /\ S # {} =>
              /\ Owner(FirstOf(h, S)) = h /\ PathOf(FirstOf(h, S)) \in S
              /\ \A r \in S : Mention(PathOf(FirstOf(h, S))) <= Mention(r)
<1>1. CASE S = {}
  BY <1>1 DEF FirstOf
<1>2. CASE S # {}
  <2>1. PICK q \in S : FirstOf(h, S) = <<h, q>> /\ \A r \in S : Mention(q) <= Mention(r)
    BY <1>2, ArchiveIs, FirstIsLeast
  <2>2. q \in Path
    BY DEF Kids
  <2>3. <<h, q>> \in Nodes /\ <<h, q>> # NULL
    BY <2>2, NodeAssumption DEF Nodes
  <2> QED
    BY <1>2, <2>1, <2>3 DEF Owner, PathOf
<1> QED
  BY <1>1, <1>2

(* A handle that is called anew stands in its own tree, where it is told. *)
LEMMA SetFilenameKeeps ==
  ASSUME FileInv, fault = "none", NEW h \in held, NEW p \in Path, SetFilename(h, p)
  PROVE  FileInv'
<1> USE HandleAssumption, NullAssumption, NodeAssumption DEF SetFilename, enumerators, Handle
<1>1. h \in Handle /\ h \in 1 .. made /\ <<h, p>> \in Nodes
  BY DEF FileInv, TypeOK, Nodes
<1>2. Lookup(h, p) \in Nodes \cup {NULL}
  BY <1>1 DEF Lookup
<1>3. TypeOK'
  BY <1>1, <1>2 DEF FileInv, TypeOK, Nodes
<1>4. /\ current'[h] = Lookup(h, p) /\ filename'[h] = p /\ climbed'[h] = FALSE
      /\ \A g \in Handle \ {h} :
           /\ current'[g] = current[g] /\ filename'[g] = filename[g]
           /\ climbed'[g] = climbed[g]
  BY <1>1 DEF FileInv, TypeOK
<1>5. Made'
  BY DEF FileInv, Made
<1>6. Rooted'
  <2> SUFFICES ASSUME NEW A \in SUBSET (1 .. made), Closed(A)
               PROVE  /\ \A g \in A : current'[g] # NULL => Owner(current'[g]) \in A
                      /\ \A e \in Enum : container[e] \in A /\ node[e] # NULL
                                           => Owner(node[e]) \in A
    BY DEF Rooted, Closed
  <2>1. /\ \A g \in A : current[g] # NULL => Owner(current[g]) \in A
        /\ \A e \in Enum : container[e] \in A /\ node[e] # NULL => Owner(node[e]) \in A
    BY DEF FileInv, Rooted
  <2>2. ASSUME NEW g \in A, current'[g] # NULL PROVE Owner(current'[g]) \in A
    <3>1. CASE g = h
      BY <1>4, <2>2, <3>1 DEF Lookup, Owner
    <3>2. CASE g # h
      <4>1. g \in Handle
        BY DEF FileInv, TypeOK
      <4> QED
        BY <1>4, <2>1, <2>2, <3>2, <4>1
    <3> QED
      BY <3>1, <3>2
  <2> QED
    BY <2>1, <2>2
<1>7. FilenameTells'
  <2> SUFFICES ASSUME NEW g \in 1 .. made, ~ climbed'[g]
               PROVE  IF InTree(filename'[g])
                        THEN current'[g] # NULL /\ PathOf(current'[g]) = filename'[g]
                        ELSE current'[g] = NULL
    BY SameTrees DEF FilenameTells
  <2>1. CASE g = h
    BY <1>1, <1>4, <2>1 DEF Lookup, PathOf, Nodes
  <2>2. CASE g # h
    <3>1. g \in Handle
      BY DEF FileInv, TypeOK
    <3> QED
      BY <1>4, <2>2, <3>1 DEF FileInv, FilenameTells
  <2> QED
    BY <2>1, <2>2
<1>8. NoFreedNode'
  BY DEF NoFreedNode
<1>9. ASSUME NEW e \in Enum PROVE Enumerating(e)'
  BY EnumeratorKept DEF FileInv
<1> QED
  BY <1>3, <1>5, <1>6, <1>7, <1>8, <1>9 DEF FileInv

(* A handle is dropped: nothing moves. *)
LEMMA UnrefKeeps ==
  ASSUME FileInv, fault = "none", NEW h \in held, Unref(h)
  PROVE  FileInv'
<1> USE DEF Unref, handles, enumerators
<1>1. TypeOK'
  BY DEF FileInv, TypeOK
<1>2. Made'
  BY DEF FileInv, Made
<1>3. Rooted'
  BY RootedKept DEF FileInv
<1>4. FilenameTells'
  BY FilenamesKept DEF FileInv
<1>5. NoFreedNode'
  BY DEF NoFreedNode
<1>6. ASSUME NEW e \in Enum PROVE Enumerating(e)'
  BY EnumeratorKept DEF FileInv
<1> QED
  BY <1>1, <1>2, <1>3, <1>4, <1>5, <1>6 DEF FileInv

(***************************************************************************)
(* An enumerator starts, moves on or is closed: nothing is said anew but   *)
(* of this one, which stands in the tree its handle leads to, if anywhere. *)
(***************************************************************************)
LEMMA EnumeratorMoves ==
  ASSUME FileInv, fault' = "none", UNCHANGED <<archive, handles, held>>, TypeOK',
         NEW e \in Enum, Enumerating(e)',
         \A d \in Enum \ {e} :
           /\ container'[d] = container[d] /\ node'[d] = node[d]
           /\ listing'[d] = listing[d] /\ yielded'[d] = yielded[d],
         container'[e] # NULL => container'[e] \in 1 .. made,
         node'[e] # NULL =>
           \/ /\ current[container'[e]] # NULL
              /\ Owner(node'[e]) = Owner(current[container'[e]])
           \/ /\ container'[e] = container[e] /\ node[e] # NULL
              /\ Owner(node'[e]) = Owner(node[e])
  PROVE  FileInv'
<1> USE DEF handles
<1>1. Made'
  BY HandleAssumption DEF FileInv, Made, TypeOK, Handle
<1>2. Rooted'
  <2> SUFFICES ASSUME NEW A \in SUBSET (1 .. made), Closed(A)
               PROVE  /\ \A g \in A : current[g] # NULL => Owner(current[g]) \in A
                      /\ \A d \in Enum : container'[d] \in A /\ node'[d] # NULL
                                           => Owner(node'[d]) \in A
    BY DEF Rooted, Closed
  <2>1. /\ \A g \in A : current[g] # NULL => Owner(current[g]) \in A
        /\ \A d \in Enum : container[d] \in A /\ node[d] # NULL => Owner(node[d]) \in A
    BY DEF FileInv, Rooted
  <2>2. container'[e] \in A /\ node'[e] # NULL => Owner(node'[e]) \in A
    BY <2>1
  <2> QED
    BY <2>1, <2>2
<1>3. FilenameTells'
  BY FilenamesKept DEF FileInv
<1>4. NoFreedNode'
  BY DEF NoFreedNode
<1>5. ASSUME NEW d \in Enum \ {e} PROVE Enumerating(d)'
  BY EnumeratorKept DEF FileInv
<1> QED
  BY <1>1, <1>2, <1>3, <1>4, <1>5 DEF FileInv

(* An enumerator starts at the first child: it has passed none. *)
LEMMA EnumerateKeeps ==
  ASSUME FileInv, fault = "none", NEW h \in held, NEW e \in Enum,
         ~ Dangling(current[h]), Enumerate(h, e)
  PROVE  FileInv'
<1> DEFINE first == FirstChild(current[h])
<1> USE DEF Enumerate
<1>1. h \in Handle /\ h \in 1 .. made /\ current[h] \in Nodes /\ current[h] # NULL
      /\ Owner(current[h]) \in Handle
  BY HandleAssumption DEF FileInv, TypeOK, Nodes, Owner, Handle
<1>2. /\ first \in Nodes \cup {NULL}
      /\ first = NULL <=> Kids(PathOf(current[h])) = {}
      /\ first # NULL =>
           /\ Owner(first) = Owner(current[h]) /\ PathOf(first) \in Kids(PathOf(current[h]))
           /\ \A r \in Kids(PathOf(current[h])) : Mention(PathOf(first)) <= Mention(r)
  BY <1>1, FirstOfType DEF FileInv, FirstChild
<1>3. /\ TypeOK'
      /\ container'[e] = h /\ node'[e] = first
      /\ listing'[e] = current[h] /\ yielded'[e] = {}
      /\ \A d \in Enum \ {e} :
           /\ container'[d] = container[d] /\ node'[d] = node[d]
           /\ listing'[d] = listing[d] /\ yielded'[d] = yielded[d]
  <2>1. /\ UNCHANGED <<archive, handles, held, fault>>
        /\ container' = [container EXCEPT ![e] = h] /\ node' = [node EXCEPT ![e] = first]
        /\ listing' = [listing EXCEPT ![e] = current[h]]
        /\ yielded' = [yielded EXCEPT ![e] = {}]
    OBVIOUS
  <2>2. {} \in SUBSET Path
    OBVIOUS
  <2> HIDE DEF first, Enumerate
  <2> QED
    BY <1>1, <1>2, <2>1, <2>2 DEF FileInv, TypeOK, handles, Nodes
<1>4. Enumerating(e)'
  <2>1. \A d : Kids(d)' = Kids(d)
    BY SameTrees
  <2>2. Passed(e)' = {}
    <3>1. \A q \in Kids(PathOf(current[h])) :
            ~ (first = NULL \/ Mention(q) < Mention(PathOf(first)))
      <4>1. \A q \in Kids(PathOf(current[h])) : Mention(q) \in Nat
        BY ArchiveIs, MentionedByEntry DEF Kids, FileInv
      <4> QED
        BY <1>2, <4>1
    <3>2. /\ \A p : Mention(p)' = Mention(p)
      BY SameTrees
    <3> QED
      BY <1>3, <2>1, <3>1, <3>2 DEF Passed
  <2> QED
    BY <1>1, <1>2, <1>3, <2>1, <2>2, NullAssumption DEF Enumerating, Handle
<1> QED
  BY <1>1, <1>2, <1>3, <1>4, EnumeratorMoves

(***************************************************************************)
(* An enumerator moves to the next sibling: it has passed the one it stood *)
(* on, and that one only.                                                  *)
(***************************************************************************)
LEMMA OnePassed ==
  ASSUME TypeOK, NEW e \in Enum, node[e] # NULL, Enumerating(e), ~ Dangling(node[e]),
         NextFile(e)
  PROVE  Passed(e)' = Passed(e) \cup
                        (IF EntryOf(PathOf(node[e])) = NULL THEN {} ELSE {PathOf(node[e])})
<1> DEFINE q == PathOf(node[e])
           d == PathOf(listing[e])
           S == {r \in Kids(d) : Mention(r) > Mention(q)}
<1>1. q \in Kids(d) /\ ParentOf[q] = d
  BY DEF Enumerating, Kids
<1>2. \A r \in Kids(d) : Mention(r) \in Nat
  BY ArchiveIs, MentionedByEntry DEF Kids
<1>3. node[e] \in Nodes /\ Owner(node[e]) \in Handle
  BY DEF TypeOK, Nodes, Owner
<1>4. NextSibling(node[e]) = FirstOf(Owner(node[e]), S)
  BY <1>1 DEF NextSibling
<1>5. node'[e] = FirstOf(Owner(node[e]), S) /\ listing' = listing /\ archive' = archive
  BY <1>4 DEF NextFile, TypeOK
<1>6. /\ node'[e] = NULL <=> S = {}
      /\ S # {} => PathOf(node'[e]) \in S
                   /\ \A r \in S : Mention(PathOf(node'[e])) <= Mention(r)
  <2>1. S \subseteq Kids(d)
    OBVIOUS
  <2> QED
    BY <1>3, <1>5, <2>1, FirstOfType
<1>7. \A r \in Kids(d) :
        (node'[e] = NULL \/ Mention(r) < Mention(PathOf(node'[e])))
          <=> Mention(r) < Mention(q) \/ r = q
  <2> SUFFICES ASSUME NEW r \in Kids(d)
               PROVE  (node'[e] = NULL \/ Mention(r) < Mention(PathOf(node'[e])))
                        <=> Mention(r) < Mention(q) \/ r = q
    OBVIOUS
  <2>1. Mention(r) = Mention(q) => r = q
    BY <1>1, ArchiveIs, SiblingsDiffer
  <2>2. CASE S = {}
    BY <1>1, <1>2, <1>6, <2>1, <2>2
  <2>3. CASE S # {}
    BY <1>1, <1>2, <1>6, <2>1, <2>3
  <2> QED
    BY <2>2, <2>3
<1>8. Passed(e)' = {r \in Kids(d) : EntryOf(r) # NULL
                      /\ (node'[e] = NULL \/ Mention(r) < Mention(PathOf(node'[e])))}
  BY <1>5, SameTrees DEF Passed
<1>9. Passed(e) = {r \in Kids(d) : EntryOf(r) # NULL /\ Mention(r) < Mention(q)}
  BY DEF Passed
<1> QED
  BY <1>1, <1>7, <1>8, <1>9

(* An enumerator moves on, or reaches the end. *)
LEMMA NextFileKeeps ==
  ASSUME FileInv, fault = "none", NEW e \in Enum, ~ Dangling(node[e]), NextFile(e)
  PROVE  FileInv'
<1> DEFINE next == NextSibling(node[e])
           q == PathOf(node[e])
           Y == IF EntryOf(q) = NULL THEN yielded[e] ELSE yielded[e] \cup {q}
<1> USE DEF NextFile
<1>1. /\ node[e] \in Nodes /\ node[e] # NULL /\ Owner(node[e]) \in Handle /\ q \in Path
      /\ listing[e] \in Nodes /\ listing[e] # NULL
      /\ container[e] \in Handle /\ container[e] \in 1 .. made
      /\ q \in Kids(PathOf(listing[e]))
  BY HandleAssumption DEF FileInv, TypeOK, Nodes, Owner, PathOf, Enumerating, Made, Handle
<1>2. /\ next \in Nodes \cup {NULL}
      /\ next # NULL => Owner(next) = Owner(node[e])
                        /\ PathOf(next) \in Kids(PathOf(listing[e]))
  <2> DEFINE S == {r \in Kids(PathOf(listing[e])) : Mention(r) > Mention(q)}
  <2>1. next = FirstOf(Owner(node[e]), S)
    BY <1>1 DEF NextSibling, Kids
  <2>2. S \subseteq Kids(PathOf(listing[e]))
    OBVIOUS
  <2> QED
    BY <1>1, <2>1, <2>2, FirstOfType DEF FileInv
<1>3. Y \in SUBSET Path
  BY <1>1 DEF FileInv, TypeOK
<1>4. /\ container' = [container EXCEPT ![e] = container[e]]
      /\ node' = [node EXCEPT ![e] = next]
      /\ listing' = [listing EXCEPT ![e] = listing[e]]
      /\ yielded' = [yielded EXCEPT ![e] = Y]
  BY DEF FileInv, TypeOK
<1>5. /\ TypeOK'
      /\ container'[e] = container[e] /\ node'[e] = next
      /\ listing'[e] = listing[e] /\ yielded'[e] = Y
      /\ \A d \in Enum \ {e} :
           /\ container'[d] = container[d] /\ node'[d] = node[d]
           /\ listing'[d] = listing[d] /\ yielded'[d] = yielded[d]
  <2>1. UNCHANGED <<archive, handles, held, fault>>
    OBVIOUS
  <2> HIDE DEF next, q, Y, NextFile
  <2> QED
    BY <1>1, <1>2, <1>3, <1>4, <2>1 DEF FileInv, TypeOK, handles, Nodes
<1>6. Enumerating(e)'
  <2>1. \A d : Kids(d)' = Kids(d)
    BY SameTrees
  <2>2. Passed(e)' = Passed(e) \cup (IF EntryOf(q) = NULL THEN {} ELSE {q})
    BY <1>1, OnePassed DEF FileInv
  <2>3. Passed(e)' = Y
    BY <1>1, <2>2 DEF FileInv, Enumerating
  <2> QED
    BY <1>1, <1>2, <1>5, <2>1, <2>3, NullAssumption DEF Enumerating, Handle
<1> QED
  BY <1>1, <1>2, <1>5, <1>6, EnumeratorMoves

(* A closed enumerator is as it was before it was opened. *)
LEMMA CloseKeeps ==
  ASSUME FileInv, fault = "none", NEW e \in Enum, CloseEnumerator(e)
  PROVE  FileInv'
<1> USE DEF CloseEnumerator
<1>1. /\ TypeOK'
      /\ container'[e] = NULL /\ node'[e] = NULL /\ listing'[e] = NULL /\ yielded'[e] = {}
      /\ \A d \in Enum \ {e} :
           /\ container'[d] = container[d] /\ node'[d] = node[d]
           /\ listing'[d] = listing[d] /\ yielded'[d] = yielded[d]
  BY DEF FileInv, TypeOK, handles, Nodes
<1>2. Enumerating(e)'
  BY <1>1 DEF Enumerating
<1> QED
  BY <1>1, <1>2, EnumeratorMoves

(* What is resolved is looked up, or stands where the climbed handle stands. *)
LEMMA ResolveKeeps ==
  ASSUME FileInv, fault = "none", NEW h \in 1 .. made, Alive(h), NEW p \in Path,
         ResolveFrom(h, p)
  PROVE  FileInv'
<1>1. CASE Dangling(current[h])
  BY <1>1, LiveDangles, DeathKeeps DEF ResolveFrom
<1>2. CASE ~ Dangling(current[h]) /\ Copy(h, Lookup(made + 1, p), p, FALSE)
  <2>1. made + 1 \in Handle
    BY <1>2, HandleAssumption DEF Copy, FileInv, TypeOK, Handle
  <2>2. /\ Lookup(made + 1, p) \in Nodes \cup {NULL}
        /\ Lookup(made + 1, p) # NULL => Owner(Lookup(made + 1, p)) = made + 1
        /\ IF InTree(p)
             THEN Lookup(made + 1, p) # NULL /\ PathOf(Lookup(made + 1, p)) = p
             ELSE Lookup(made + 1, p) = NULL
    BY <2>1, NodeAssumption DEF Lookup, Nodes, Owner, PathOf
  <2> QED
    BY <1>2, <2>2, CopyKeeps
<1>3. CASE /\ current[h] # NULL /\ p = filename[h]
           /\ PathOf(current[h]) \in Lineage[p] \ {p}
           /\ Copy(h, current[h], p, climbed[h])
  <2>1. h \in Handle
    BY HandleAssumption DEF FileInv, TypeOK, Handle
  <2>2. current[h] \in Nodes \cup {NULL} /\ climbed[h] \in BOOLEAN
    BY <2>1 DEF FileInv, TypeOK
  <2>3. climbed[h]
    BY <1>3, <2>1 DEF FileInv, FilenameTells
  <2> QED
    BY <1>3, <2>2, <2>3, CopyKeeps
<1> QED
  BY <1>1, <1>2, <1>3 DEF ResolveFrom

(* A call that meets a freed node is one that OriginalsKept does not allow. *)
LEMMA CallsKeep ==
  ASSUME FileInv, fault = "none", Calls
  PROVE  FileInv'
<1>1. ASSUME NEW h \in held, Dup(h) PROVE FileInv'
  <2>1. h \in Handle /\ h \in 1 .. made
    BY HandleAssumption DEF FileInv, TypeOK, Handle
  <2>2. /\ current[h] \in Nodes \cup {NULL} /\ filename[h] \in Path
        /\ climbed[h] \in BOOLEAN
        /\ ~ climbed[h] =>
             IF InTree(filename[h]) THEN current[h] # NULL /\ PathOf(current[h]) = filename[h]
             ELSE current[h] = NULL
    BY <2>1 DEF FileInv, TypeOK, FilenameTells
  <2> QED
    BY <1>1, <2>1, <2>2, CopyKeeps DEF Dup
<1>2. ASSUME NEW h \in held, GetParent(h) PROVE FileInv'
  <2>1. CASE Dangling(current[h])
    BY <1>2, <2>1, HeldDangles, DeathKeeps DEF GetParent
  <2>2. CASE ~ Dangling(current[h])
    <3> DEFINE n == <<Owner(current[h]), ParentOf[PathOf(current[h])]>>
    <3>1. /\ current[h] # NULL /\ PathOf(current[h]) # Root
          /\ Copy(h, n, filename[h], TRUE)
      BY <1>2, <2>2 DEF GetParent
    <3>2. h \in Handle /\ h \in 1 .. made
      BY HandleAssumption DEF FileInv, TypeOK, Handle
    <3>3. n \in Nodes /\ Owner(n) = Owner(current[h]) /\ filename[h] \in Path
      BY <3>1, <3>2, PathAssumption DEF FileInv, TypeOK, Nodes, Owner, PathOf
    <3> QED
      BY <3>1, <3>2, <3>3, CopyKeeps
  <2> QED
    BY <2>1, <2>2
<1>3. ASSUME NEW h \in held, InspectFreed(h) PROVE FileInv'
  BY <1>3, HeldDangles, DeathKeeps DEF InspectFreed
<1>4. ASSUME NEW h \in held, Unref(h) PROVE FileInv'
  BY <1>4, UnrefKeeps
<1>5. ASSUME NEW h \in held, NEW p \in Path, Resolve(h, p) PROVE FileInv'
  <2>1. h \in 1 .. made /\ Alive(h)
    BY DEF FileInv, TypeOK, Alive
  <2> QED
    BY <1>5, <2>1, ResolveKeeps DEF Resolve
<1>6. ASSUME NEW h \in held, NEW g \in held, CompareFails(h, g) PROVE FileInv'
  BY <1>6, HeldDangles, DeathKeeps DEF CompareFails
<1>7. ASSUME NEW h \in held, NEW g \in held, RelativePathFails(h, g) PROVE FileInv'
  BY <1>7, HeldDangles, DeathKeeps DEF RelativePathFails
<1>8. ASSUME NEW h \in held, NEW e \in Enum, Enumerate(h, e) PROVE FileInv'
  <2>1. CASE Dangling(current[h])
    BY <1>8, <2>1, HeldDangles, DeathKeeps DEF Enumerate
  <2>2. CASE ~ Dangling(current[h])
    BY <1>8, <2>2, EnumerateKeeps
  <2> QED
    BY <2>1, <2>2
<1>9. ASSUME NEW e \in Enum, NextFile(e) PROVE FileInv'
  <2>1. CASE Dangling(node[e])
    BY <1>9, <2>1, StandsOnLive, DeathKeeps DEF NextFile
  <2>2. CASE ~ Dangling(node[e])
    BY <1>9, <2>2, NextFileKeeps
  <2> QED
    BY <2>1, <2>2
<1>10. ASSUME NEW e \in Enum, CloseEnumerator(e) PROVE FileInv'
  BY <1>10, CloseKeeps
<1> QED
  BY <1>1, <1>2, <1>3, <1>4, <1>5, <1>6, <1>7, <1>8, <1>9, <1>10 DEF Calls

(* And so does every step. *)
LEMMA FileNext == FileInv /\ [Next]_vars => FileInv'
<1> SUFFICES ASSUME FileInv, [Next]_vars PROVE FileInv'
  OBVIOUS
<1>1. CASE fault = "none" /\ Calls
  BY <1>1, CallsKeep
<1>2. ASSUME fault = "none", NEW h \in held, NEW p \in Path, SetFilename(h, p)
      PROVE  FileInv'
  BY <1>2, SetFilenameKeeps
<1>3. CASE UNCHANGED vars
  <2> USE <1>3 DEF vars, handles, enumerators
  <2>1. TypeOK'
    BY DEF FileInv, TypeOK
  <2>2. Made'
    BY DEF FileInv, Made
  <2>3. Rooted'
    BY RootedKept DEF FileInv
  <2>4. FilenameTells'
    BY FilenamesKept DEF FileInv
  <2>5. NoFreedNode'
    BY DEF FileInv, NoFreedNode, OriginalsKept, Alive
  <2>6. ASSUME NEW e \in Enum PROVE Enumerating(e)'
    BY EnumeratorKept DEF FileInv
  <2> QED
    BY <2>1, <2>2, <2>3, <2>4, <2>5, <2>6 DEF FileInv
<1> QED
  BY <1>1, <1>2, <1>3 DEF Next

(* In every state reached, the invariant holds. *)
THEOREM FileInvHolds == Spec => []FileInv
<1> QED
  BY FileInit, FileNext, PTL DEF Spec

(* The state has its types. *)
THEOREM HandlesHaveTypes == Spec => []TypeOK
<1>1. FileInv => TypeOK
  BY DEF FileInv
<1> QED
  BY FileInvHolds, <1>1, PTL

(***************************************************************************)
(* A handle is where its filename says unless get_parent moved it, or the  *)
(* handle it was copied from: g_file_dup, resolve_relative_path and a new  *)
(* "filename" all keep the two together.                                   *)
(***************************************************************************)
THEOREM FilenameIsTold == Spec => []FilenameTells
<1>1. FileInv => FilenameTells
  BY DEF FileInv
<1> QED
  BY FileInvHolds, <1>1, PTL

(***************************************************************************)
(* No call meets a freed node before an original was dropped: going back   *)
(* along the copies, a handle that is held leads to the tree it stands in. *)
(***************************************************************************)
THEOREM OriginalsAreEnough == Spec => []NoFreedNode
<1>1. FileInv => NoFreedNode
  BY DEF FileInv
<1> QED
  BY FileInvHolds, <1>1, PTL

(* Nor does an enumerator stand on one. *)
THEOREM EnumeratorsAreSafe == Spec => []EnumeratorSafe
<1>1. FileInv => EnumeratorSafe
  BY StandsOnLive DEF EnumeratorSafe
<1> QED
  BY FileInvHolds, <1>1, PTL

(***************************************************************************)
(* Enumeration.                                                            *)
(***************************************************************************)
(* The state of Enumeration, as AksFile shows it. *)
Dir == [e \in Enum |-> IF listing[e] = NULL THEN NULL ELSE PathOf(listing[e])]
Ended == [e \in Enum |-> listing[e] # NULL /\ node[e] = NULL]

(* What Enumeration lists of a directory: its children that have an entry. *)
LEMMA ListedAre ==
  ASSUME TypeOK, NEW d
  PROVE  Listed!Listed(d) = {q \in Kids(d) : EntryOf(q) # NULL}
<1>1. Listed!NodesAfter(archive, Len(archive)) = NodesAfter(archive, Len(archive))
  BY DEF NodesAfter, Listed!NodesAfter
<1>2. ASSUME NEW q
      PROVE  Listed!LastEntry(archive, Len(archive), q) = EntryOf(q)
  <2>1. Listed!FiledUnder(archive, Len(archive), q) = FiledUnder(archive, Len(archive), q)
    BY DEF FiledUnder, Listed!FiledUnder
  <2>2. \A S : Listed!Max(S) = Max(S)
    BY DEF Max, Listed!Max
  <2> QED
    BY <2>1, <2>2 DEF EntryOf, LastEntry, RootEntry, Listed!LastEntry, Listed!RootEntry
<1>3. NodesAfter(archive, Len(archive)) \subseteq Path
  <2>1. \A i \in 1 .. Len(archive) : Canon[archive[i]] \in Path
    BY ArchiveIs, NameAssumption
  <2> QED
    BY <2>1, PathAssumption DEF NodesAfter
<1>4. Listed!Listed(d) = {q \in NodesAfter(archive, Len(archive)) \ {Root} :
                            ParentOf[q] = d /\ EntryOf(q) # NULL}
  BY <1>1, <1>2 DEF Listed!Listed
<1> QED
  BY <1>3, <1>4 DEF Kids, InTree

(* An enumerator that has come to the end has yielded all there is. *)
LEMMA AllAtTheEnd ==
  ASSUME FileInv, FileInv', archive' = archive, NEW e \in Enum,
         listing'[e] # NULL, node'[e] = NULL
  PROVE  yielded'[e] = Listed!Listed(PathOf(listing'[e]))
<1>1. yielded'[e] = Passed(e)'
  BY DEF FileInv, Enumerating
<1>2. Passed(e)' = {q \in Kids(PathOf(listing'[e])) : EntryOf(q) # NULL}
  BY SameTrees DEF Passed
<1> QED
  BY <1>1, <1>2, ListedAre DEF FileInv

(* The end is announced only if what was yielded is all. *)
LEMMA EndIsAnnounced ==
  ASSUME FileInv, FileInv', archive' = archive, NEW e \in Enum, listing'[e] # NULL,
         \A d \in Enum \ {e} : node'[d] = node[d] /\ listing'[d] = listing[d]
  PROVE  \E last \in {FALSE, yielded'[e] = Listed!Listed(Dir'[e])} :
           Ended' = [Ended EXCEPT ![e] = last]
<1>1. Dir'[e] = PathOf(listing'[e])
  BY DEF Dir
<1>2. CASE node'[e] # NULL
  <2>1. Ended' = [Ended EXCEPT ![e] = FALSE]
    BY <1>2 DEF Ended
  <2> QED
    BY <2>1
<1>3. CASE node'[e] = NULL
  <2>1. Ended' = [Ended EXCEPT ![e] = TRUE]
    BY <1>3 DEF Ended
  <2>2. (yielded'[e] = Listed!Listed(Dir'[e])) = TRUE
    BY <1>1, <1>3, AllAtTheEnd
  <2> QED
    BY <2>1, <2>2
<1> QED
  BY <1>2, <1>3

(* An enumerator that is made opens an enumeration of the node's path. *)
LEMMA EnumerateOpens ==
  ASSUME FileInv, FileInv', fault = "none", NEW h \in held, NEW e \in Enum,
         ~ Dangling(current[h]), Enumerate(h, e)
  PROVE  Listed!Open(e)
<1> USE DEF Enumerate
<1>1. current[h] \in Nodes /\ current[h] # NULL /\ listing[e] = NULL
      /\ PathOf(current[h]) \in Path
  BY HandleAssumption DEF FileInv, TypeOK, Nodes, PathOf, Handle, Enumerating
<1>2. Dir[e] = NULL /\ Dir' = [Dir EXCEPT ![e] = PathOf(current[h])]
  BY <1>1 DEF Dir, FileInv, TypeOK
<1>3. yielded[e] = {} /\ yielded' = yielded /\ yielded'[e] = {}
  <2>1. yielded[e] = {} /\ DOMAIN yielded = Enum /\ yielded = [d \in Enum |-> yielded[d]]
    BY <1>1 DEF FileInv, TypeOK, Enumerating
  <2>2. yielded' = [yielded EXCEPT ![e] = {}]
    BY <1>1
  <2>3. yielded' = yielded
    BY <2>1, <2>2, Zenon
  <2> QED
    BY <2>1, <2>3
<1>4. \E last \in {FALSE, yielded'[e] = Listed!Listed(Dir'[e])} :
        Ended' = [Ended EXCEPT ![e] = last]
  <2>1. /\ archive' = archive /\ listing'[e] # NULL
        /\ \A d \in Enum \ {e} : node'[d] = node[d] /\ listing'[d] = listing[d]
    BY <1>1 DEF FileInv, TypeOK
  <2> QED
    BY <2>1, EndIsAnnounced
<1> QED
  BY <1>1, <1>2, <1>3, <1>4 DEF Listed!Open, Listed!EndAt, Dir, Ended

(* next_file yields a child that has an entry and was not yielded, or fails. *)
LEMMA NextFileYields ==
  ASSUME FileInv, FileInv', fault = "none", NEW e \in Enum,
         ~ Dangling(node[e]), NextFile(e)
  PROVE  Listed!Yield(e) \/ Listed!Fail(e)
<1> DEFINE q == PathOf(node[e])
<1> USE DEF NextFile
<1>1. /\ node[e] # NULL /\ listing[e] # NULL /\ PathOf(listing[e]) \in Path
      /\ q \in Kids(PathOf(listing[e]))
  BY DEF FileInv, TypeOK, Nodes, PathOf, Enumerating
<1>2. Dir[e] = PathOf(listing[e]) /\ Dir[e] # NULL /\ Dir' = Dir /\ ~ Ended[e]
  BY <1>1, NodeAssumption DEF Dir, Ended
<1>3. \E last \in {FALSE, yielded'[e] = Listed!Listed(Dir'[e])} :
        Ended' = [Ended EXCEPT ![e] = last]
  <2>1. /\ archive' = archive /\ listing'[e] # NULL
        /\ \A d \in Enum \ {e} : node'[d] = node[d] /\ listing'[d] = listing[d]
    BY <1>1 DEF FileInv, TypeOK
  <2> QED
    BY <2>1, EndIsAnnounced
<1>4. CASE EntryOf(q) # NULL
  <2>1. q \notin yielded[e]
    <3>1. Mention(q) \in Nat
      BY <1>1, ArchiveIs, MentionedByEntry DEF FileInv, Kids
    <3> QED
      BY <1>1, <3>1 DEF FileInv, Enumerating, Passed
  <2>2. q \in Listed!Listed(Dir[e]) \ yielded[e]
    BY <1>1, <1>2, <1>4, <2>1, ListedAre DEF FileInv
  <2>3. yielded' = [yielded EXCEPT ![e] = @ \cup {q}]
    BY <1>4
  <2> QED
    BY <1>2, <1>3, <2>2, <2>3 DEF Listed!Yield, Listed!EndAt, Dir, Ended
<1>5. CASE EntryOf(q) = NULL
  <2>1. yielded' = yielded
    BY <1>5 DEF FileInv, TypeOK
  <2> QED
    BY <1>2, <1>3, <2>1 DEF Listed!Fail, Listed!EndAt, Dir, Ended
<1> QED
  BY <1>4, <1>5

(* Closing an enumerator closes the enumeration. *)
LEMMA CloseCloses ==
  ASSUME FileInv, NEW e \in Enum, CloseEnumerator(e)
  PROVE  Listed!Close(e)
<1> USE DEF CloseEnumerator
<1>1. listing[e] \in Nodes /\ listing[e] # NULL
  BY DEF FileInv, TypeOK, Enumerating
<1>2. Dir[e] # NULL /\ Dir' = [Dir EXCEPT ![e] = NULL]
  BY <1>1, NodeAssumption DEF FileInv, TypeOK, Dir, Nodes, PathOf
<1>3. Ended' = [Ended EXCEPT ![e] = FALSE]
  BY DEF FileInv, TypeOK, Ended
<1> QED
  BY <1>2, <1>3 DEF Listed!Close, Dir, Ended

(***************************************************************************)
(* Enumerators implement Enumeration: each child that has an entry is      *)
(* yielded once, in spite of what is done to the handles meanwhile.        *)
(***************************************************************************)
THEOREM EnumeratesEveryChild == Spec => EnumeratesAll
<1>1. Init => Listed!Init
  BY DEF Init, Listed!Init
<1>2. FileInv /\ FileInv' /\ [Next]_vars => [Listed!Next]_Listed!vars
  <2> SUFFICES ASSUME FileInv, FileInv', [Next]_vars
               PROVE  [Listed!Next]_Listed!vars
    OBVIOUS
  <2>1. ASSUME UNCHANGED <<archive, enumerators>> PROVE UNCHANGED Listed!vars
    BY <2>1 DEF enumerators, Listed!vars
  <2>2. ASSUME NEW how, Die(how) PROVE UNCHANGED Listed!vars
    BY <2>1, <2>2 DEF Die
  <2>3. ASSUME NEW h \in held, Dup(h) \/ GetParent(h) \/ InspectFreed(h) \/ Unref(h)
        PROVE  UNCHANGED Listed!vars
    BY <2>1, <2>2, <2>3 DEF Dup, GetParent, InspectFreed, Unref, Copy
  <2>4. ASSUME NEW h \in held, NEW p \in Path, Resolve(h, p) \/ SetFilename(h, p)
        PROVE  UNCHANGED Listed!vars
    BY <2>1, <2>2, <2>4 DEF Resolve, ResolveFrom, Copy, SetFilename
  <2>5. ASSUME NEW h \in held, NEW g \in held, CompareFails(h, g) \/ RelativePathFails(h, g)
        PROVE  UNCHANGED Listed!vars
    BY <2>2, <2>5 DEF CompareFails, RelativePathFails
  <2>6. ASSUME fault = "none", NEW h \in held, NEW e \in Enum, Enumerate(h, e)
        PROVE  UNCHANGED Listed!vars \/ Listed!Open(e)
    BY <2>2, <2>6, EnumerateOpens DEF Enumerate
  <2>7. ASSUME fault = "none", NEW e \in Enum, NextFile(e)
        PROVE  UNCHANGED Listed!vars \/ Listed!Yield(e) \/ Listed!Fail(e)
    BY <2>2, <2>7, NextFileYields DEF NextFile
  <2>8. CASE UNCHANGED vars
    BY <2>1, <2>8 DEF vars
  <2>9. CASE Next
    BY <2>3, <2>4, <2>5, <2>6, <2>7, <2>9, CloseCloses DEF Next, Calls, Listed!Next
  <2> QED
    BY <2>8, <2>9
<1> QED
  BY <1>1, <1>2, FileInvHolds, PTL DEF Spec, EnumeratesAll, Listed!Spec

=============================================================================
