------------------------------ MODULE AksFile ------------------------------
(***************************************************************************)
(* Handles: the GFile methods of aks_file_iface.c that make, compare and   *)
(* follow handles, the "filename" property of aks_file.c, and the          *)
(* enumerator of aks_file_enumerator.c.                                    *)
(*                                                                         *)
(* Every handle has a tree of nodes of its own, freed with it; the trees   *)
(* of copies share the data of their nodes.  A node is a pair: the handle  *)
(* in whose tree it is, and its path.  The pointer AksFile.current is the  *)
(* matter of this module: it need not point into the handle's own tree.    *)
(* One archive was opened; handle 1 is the handle aks_file_new gave.       *)
(***************************************************************************)
EXTENDS AksListing

CONSTANTS
  Archives,    (* the archives that may have been opened                   *)
  MaxHandles,  (* bound on the handles made in a run                       *)
  Enum         (* the enumerators                                          *)

ASSUME ArchiveAssumption == Archives \subseteq Seq(Raw)

ASSUME HandleAssumption == MaxHandles \in Nat \ {0}

VARIABLES
  archive,    (* the archive                                               *)
  made,       (* handles made so far: they are 1 .. made                   *)
  held,       (* the handles the client holds a reference to               *)
  filename,   (* AksFile.filename                                          *)
  current,    (* AksFile.current                                           *)
  container,  (* the handle an enumerator holds a reference to             *)
  node,       (* AksFileEnumerator.node                                    *)
  listing,    (* the node whose children the enumerator was made for       *)
  yielded,    (* the paths it has yielded                                  *)
  source,     (* the handle a handle was copied from                       *)
  climbed,    (* whether get_parent put it where its filename is not       *)
  fault       (* how the process died, if it did                           *)

handles     == <<made, filename, current, source, climbed>>
enumerators == <<container, node, listing, yielded>>
vars        == <<archive, handles, held, enumerators, fault>>

Handle == 1 .. MaxHandles

(* The null pointer is no path and no node. *)
ASSUME NodeAssumption == NULL \notin Path /\ NULL \notin Handle \X Path

(***************************************************************************)
(* Trees.  Every tree has the nodes of the archive's catalogue (AksTree),  *)
(* siblings in the order in which the archive mentions them.               *)
(***************************************************************************)
InTree(p) == p \in NodesAfter(archive, Len(archive))
EntryOf(p) == LastEntry(archive, Len(archive), p)
Mention(p) == Min({i \in 1 .. Len(archive) : p \in Lineage[Canon[archive[i]]]})
Kids(p) == {q \in Path \ {Root} : InTree(q) /\ ParentOf[q] = p}

Owner(n) == n[1]
PathOf(n) == n[2]

(* The first of a set of siblings, as a node of owner h. *)
FirstOf(h, S) ==
  IF S = {} THEN NULL
  ELSE <<h, CHOOSE q \in S : \A r \in S : Mention(q) <= Mention(r)>>

FirstChild(n) == FirstOf(Owner(n), Kids(PathOf(n)))

NextSibling(n) ==
  FirstOf(Owner(n), {q \in Kids(ParentOf[PathOf(n)]) : Mention(q) > Mention(PathOf(n))})

(* on_filename_notify: the handle's own node of that path. *)
Lookup(h, p) == IF InTree(p) THEN <<h, p>> ELSE NULL

(* Lives until the last reference goes: the client's or an enumerator's. *)
Alive(h) == h \in held \/ \E e \in Enum : container[e] = h

Dangling(n) == ~ Alive(Owner(n))

-----------------------------------------------------------------------------
Init ==
  /\ archive \in Archives
  /\ made = 1 /\ held = {1}
  /\ \E p \in Path :
       /\ filename = [h \in Handle |-> p]
       /\ current = [h \in Handle |-> IF h = 1 THEN Lookup(1, p) ELSE NULL]
  /\ container = [e \in Enum |-> NULL]
  /\ node = [e \in Enum |-> NULL]
  /\ listing = [e \in Enum |-> NULL]
  /\ yielded = [e \in Enum |-> {}]
  /\ source = [h \in Handle |-> NULL]
  /\ climbed = [h \in Handle |-> FALSE]
  /\ fault = "none"

Die(how) ==
  /\ fault' = how
  /\ UNCHANGED <<archive, handles, held, enumerators>>

(* Mutant of Copy: the copy is given no filename. *)
CopyUnnamed(h, n, f, c) ==
  /\ made < MaxHandles
  /\ made' = made + 1
  /\ held' = held \cup {made + 1}
  /\ filename' = [filename EXCEPT ![made + 1] = NULL]
  /\ current' = [current EXCEPT ![made + 1] = n]
  /\ source' = [source EXCEPT ![made + 1] = h]
  /\ climbed' = [climbed EXCEPT ![made + 1] = c]
  /\ UNCHANGED <<archive, enumerators, fault>>

(***************************************************************************)
(* A new handle g, a copy of h that stands on node n and is called f: the  *)
(* nodes of h's tree are copied, the pointer current is not redirected.    *)
(***************************************************************************)
Copy(h, n, f, c) ==
  /\ made < MaxHandles
  /\ made' = made + 1
  /\ held' = held \cup {made + 1}
  /\ filename' = [filename EXCEPT ![made + 1] = f]
  /\ current' = [current EXCEPT ![made + 1] = n]
  /\ source' = [source EXCEPT ![made + 1] = h]
  /\ climbed' = [climbed EXCEPT ![made + 1] = c]
  /\ UNCHANGED <<archive, enumerators, fault>>

Dup(h) == h \in held /\ Copy(h, current[h], filename[h], climbed[h])

(* get_parent, for a node that is there and has one; else NULL is returned. *)
GetParent(h) ==
  /\ h \in held /\ current[h] # NULL
  /\ IF Dangling(current[h]) THEN Die("freed")
     ELSE /\ PathOf(current[h]) # Root
          /\ Copy(h, <<Owner(current[h]), ParentOf[PathOf(current[h])]>>,
                  filename[h], TRUE)

(* Mutant of ResolveFrom: the copy is given its name unheard. *)
ResolveFromUnheard(h, p) ==
  /\ current[h] # NULL
  /\ IF Dangling(current[h]) THEN Die("freed") ELSE Copy(h, current[h], p, FALSE)

(***************************************************************************)
(* resolve_relative_path: the path of the node and the relative path, in   *)
(* one string, become the copy's filename.  Nothing is set, and nobody     *)
(* notified, when the copy is called so already; one path may be spelt in  *)
(* several ways, but a string that goes up by ".." is no such filename.    *)
(***************************************************************************)
ResolveFrom(h, p) ==
  /\ current[h] # NULL
  /\ IF Dangling(current[h]) THEN Die("freed")
     ELSE \/ Copy(h, Lookup(made + 1, p), p, FALSE)
          \/ /\ p = filename[h] /\ PathOf(current[h]) \in Lineage[p] \ {p}
             /\ Copy(h, current[h], p, climbed[h])

Resolve(h, p) == h \in held /\ ResolveFrom(h, p)

(* Mutant of SetFilename: nobody listens to the notification. *)
SetFilenameUnheard(h, p) ==
  /\ h \in held
  /\ filename' = [filename EXCEPT ![h] = p]
  /\ climbed' = [climbed EXCEPT ![h] = FALSE]
  /\ UNCHANGED <<archive, made, held, current, source, enumerators, fault>>

(***************************************************************************)
(* g_object_set(h, "filename", p, NULL).  (The string the handle has       *)
(* already changes nothing; the same path spelt otherwise does.)           *)
(***************************************************************************)
SetFilename(h, p) ==
  /\ h \in held
  /\ filename' = [filename EXCEPT ![h] = p]
  /\ current' = [current EXCEPT ![h] = Lookup(h, p)]
  /\ climbed' = [climbed EXCEPT ![h] = FALSE]
  /\ UNCHANGED <<archive, made, held, source, enumerators, fault>>

(* get_path, query_info and read_fn look at the node and its data. *)
InspectFreed(h) ==
  h \in held /\ current[h] # NULL /\ Dangling(current[h]) /\ Die("freed")

(* g_file_equal on two handles: only the first node is tested for NULL. *)
CompareFails(h, g) ==
  /\ h \in held /\ g \in held /\ current[h] # NULL
  /\ IF Dangling(current[h]) THEN Die("freed")
     ELSE IF current[g] = NULL THEN Die("null")
     ELSE Dangling(current[g]) /\ Die("freed")

(***************************************************************************)
(* get_relative_path climbs from g's node towards h's; bringup_path        *)
(* asserts that it meets it before it runs out of parents.                 *)
(***************************************************************************)
IsBelow(n, m) == Owner(n) = Owner(m) /\ PathOf(m) \in Lineage[PathOf(n)] \ {PathOf(n)}

RelativePathFails(h, g) ==
  /\ h \in held /\ g \in held /\ current[h] # NULL /\ current[g] # NULL
  /\ IF Dangling(current[g]) THEN Die("freed")
     ELSE ~ IsBelow(current[g], current[h]) /\ Die("assert")

(* g_object_unref by the client. *)
Unref(h) ==
  /\ h \in held
  /\ held' = held \ {h}
  /\ UNCHANGED <<archive, handles, enumerators, fault>>

(* Mutant of Enumerate: the enumerator holds no reference to the handle. *)
EnumerateUnheld(h, e) ==
  /\ h \in held /\ container[e] = NULL /\ current[h] # NULL
  /\ IF Dangling(current[h]) THEN Die("freed")
     ELSE /\ node' = [node EXCEPT ![e] = FirstChild(current[h])]
          /\ listing' = [listing EXCEPT ![e] = current[h]]
          /\ yielded' = [yielded EXCEPT ![e] = {}]
          /\ UNCHANGED <<archive, handles, held, container, fault>>

(* Mutant of Enumerate: the first child is one of the tree of the copy. *)
EnumerateCopy(h, e) ==
  /\ h \in held /\ container[e] = NULL /\ current[h] # NULL /\ made < MaxHandles
  /\ IF Dangling(current[h]) THEN Die("freed")
     ELSE /\ container' = [container EXCEPT ![e] = h]
          /\ node' = [node EXCEPT ![e] = FirstChild(<<made + 1, PathOf(current[h])>>)]
          /\ listing' = [listing EXCEPT ![e] = current[h]]
          /\ yielded' = [yielded EXCEPT ![e] = {}]
          /\ UNCHANGED <<archive, handles, held, fault>>

(***************************************************************************)
(* _aks_file_enumerator_new: a copy of h is made, the first child of the   *)
(* node it stands on is taken, and the copy is dropped.  The enumerator    *)
(* keeps a reference to h, not to the copy.                                *)
(***************************************************************************)
Enumerate(h, e) ==
  /\ h \in held /\ container[e] = NULL /\ current[h] # NULL
  /\ IF Dangling(current[h]) THEN Die("freed")
     ELSE /\ container' = [container EXCEPT ![e] = h]
          /\ node' = [node EXCEPT ![e] = FirstChild(current[h])]
          /\ listing' = [listing EXCEPT ![e] = current[h]]
          /\ yielded' = [yielded EXCEPT ![e] = {}]
          /\ UNCHANGED <<archive, handles, held, fault>>

(* Mutant of NextFile: the enumeration stops at a node without an entry. *)
NextFileStops(e) ==
  /\ node[e] # NULL
  /\ IF Dangling(node[e]) THEN Die("freed")
     ELSE /\ node' = [node EXCEPT ![e] =
               IF EntryOf(PathOf(@)) = NULL THEN NULL ELSE NextSibling(@)]
          /\ yielded' = [yielded EXCEPT ![e] =
               IF EntryOf(PathOf(node[e])) = NULL THEN @ ELSE @ \cup {PathOf(node[e])}]
          /\ UNCHANGED <<archive, handles, held, container, listing, fault>>

(* next_file moves on first; a node without an entry is then an error. *)
NextFile(e) ==
  /\ node[e] # NULL
  /\ IF Dangling(node[e]) THEN Die("freed")
     ELSE /\ node' = [node EXCEPT ![e] = NextSibling(node[e])]
          /\ yielded' = [yielded EXCEPT ![e] =
               IF EntryOf(PathOf(node[e])) = NULL THEN @ ELSE @ \cup {PathOf(node[e])}]
          /\ UNCHANGED <<archive, handles, held, container, listing, fault>>

CloseEnumerator(e) ==
  /\ container[e] # NULL
  /\ container' = [container EXCEPT ![e] = NULL]
  /\ node' = [node EXCEPT ![e] = NULL]
  /\ listing' = [listing EXCEPT ![e] = NULL]
  /\ yielded' = [yielded EXCEPT ![e] = {}]
  /\ UNCHANGED <<archive, handles, held, fault>>

-----------------------------------------------------------------------------
(* Any legal call but a renaming.  A client may drop its handles in any order. *)
Calls ==
  \/ \E h \in held :
       \/ Dup(h) \/ GetParent(h) \/ InspectFreed(h) \/ Unref(h)
       \/ \E p \in Path : Resolve(h, p)
       \/ \E g \in held : CompareFails(h, g) \/ RelativePathFails(h, g)
       \/ \E e \in Enum : Enumerate(h, e)
  \/ \E e \in Enum : NextFile(e) \/ CloseEnumerator(e)

Next ==
  /\ fault = "none"
  /\ Calls \/ \E h \in held, p \in Path : SetFilename(h, p)

Spec == Init /\ [][Next]_vars

-----------------------------------------------------------------------------
Nodes == Handle \X Path

(* Types of the state. *)
TypeOK ==
  /\ archive \in Archives
  /\ made \in Handle
  /\ held \subseteq 1 .. made
  /\ filename \in [Handle -> Path]
  /\ current \in [Handle -> Nodes \cup {NULL}]
  /\ container \in [Enum -> Handle \cup {NULL}]
  /\ node \in [Enum -> Nodes \cup {NULL}]
  /\ listing \in [Enum -> Nodes \cup {NULL}]
  /\ yielded \in [Enum -> SUBSET Path]
  /\ source \in [Handle -> Handle \cup {NULL}]
  /\ climbed \in [Handle -> BOOLEAN]
  /\ fault \in {"none", "null", "freed", "assert", "garbage"}

(***************************************************************************)
(* A handle stands on the node its filename names, or on none when the     *)
(* archive has none, unless it, or the handle it was copied from, comes    *)
(* from get_parent, which moves a copy to the parent and leaves its        *)
(* filename alone.                                                         *)
(***************************************************************************)
FilenameTells ==
  \A h \in 1 .. made : ~ climbed[h] =>
    IF InTree(filename[h]) THEN current[h] # NULL /\ PathOf(current[h]) = filename[h]
    ELSE current[h] = NULL

(* Every handle that lives was copied from one that lives still. *)
OriginalsKept ==
  \A g \in 1 .. made : Alive(g) /\ source[g] # NULL => Alive(source[g])

(***************************************************************************)
(* A call meets a freed node only if an original was dropped before a copy *)
(* made from it: keeping originals is all a client has to do, whatever it  *)
(* calls, on whatever copy of a copy, and in whatever order.               *)
(***************************************************************************)
NoFreedNode == OriginalsKept => fault # "freed"

(***************************************************************************)
(* With originals kept an enumerator never stands on a freed node, even    *)
(* after the client has dropped the handle it enumerates.  (Its first node *)
(* is taken through a copy that is gone by then: it is only because copies *)
(* get no current of their own that this is so.)                           *)
(***************************************************************************)
EnumeratorSafe ==
  OriginalsKept => \A e \in Enum : node[e] # NULL => ~ Dangling(node[e])

(***************************************************************************)
(* Enumerators keep the promise of Enumeration: they yield every child     *)
(* that has an entry, and each once, also when implicit directories among  *)
(* them make next_file fail on the way, and whatever is done to the handle *)
(* and its other copies meanwhile.                                         *)
(***************************************************************************)
Listed == INSTANCE Enumeration WITH
  dir   <- [e \in Enum |-> IF listing[e] = NULL THEN NULL ELSE PathOf(listing[e])],
  ended <- [e \in Enum |-> listing[e] # NULL /\ node[e] = NULL]

EnumeratesAll == Listed!Spec

(***************************************************************************)
(* aks_file_iface.c:43, "Copy entry tree": a copy has a tree of its own to *)
(* stand on, so a handle the client holds stands on a node that exists.    *)
(***************************************************************************)
StandsOnLiveNode == \A h \in held : current[h] # NULL => ~ Dangling(current[h])
=============================================================================
