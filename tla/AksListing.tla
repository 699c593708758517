---------------------------- MODULE AksListing ----------------------------
(***************************************************************************)
(* What the other modules say about archives and paths.                    *)
(*                                                                         *)
(* An archive is the sequence of the raw pathnames of its entries, as      *)
(* libarchive hands them out; entry i stands for the header and the data   *)
(* of the i-th entry, so bytes are named by the entry they come from.      *)
(* A path is a node of the file tree: raw pathnames are turned into paths  *)
(* by g_file_new_build_filename("/", name, NULL), which drops "." , ".."   *)
(* and doubled or trailing separators, so several raw pathnames may name   *)
(* one path ("a" and "./a").                                               *)
(***************************************************************************)
EXTENDS Integers, Sequences, FiniteSetsExt

CONSTANTS
  Path,      (* the paths under consideration                              *)
  Root,      (* the path "/"                                               *)
  ParentOf,  (* g_file_get_parent: a path without its last component       *)
  Lineage,   (* a path together with all the paths above it                *)
  Raw,       (* raw pathnames an archive may hold                          *)
  Canon,     (* the path a raw pathname is filed under                     *)
  RootRaw,   (* the raw pathname init_fn gives the root entry, "/"         *)
  Sparse,    (* the raw pathnames of entries that are files with holes     *)
  NULL       (* the C null pointer                                         *)

(* A lineage runs from a path up to the root and meets no path twice. *)
ASSUME PathAssumption ==
  /\ Root \in Path
  /\ ParentOf \in [Path \ {Root} -> Path]
  /\ Lineage \in [Path -> SUBSET Path]
  /\ Lineage[Root] = {Root}
  /\ \A p \in Path \ {Root} :
       /\ Lineage[p] = {p} \cup Lineage[ParentOf[p]]
       /\ p \notin Lineage[ParentOf[p]]

(* Lineages are nested, and no two paths of one have the same parent. *)
ASSUME LineageAssumption ==
  \A p \in Path :
    /\ \A m \in Lineage[p] : Lineage[m] \subseteq Lineage[p]
    /\ \A m, n \in Lineage[p] \ {Root} : ParentOf[m] = ParentOf[n] => m = n

ASSUME NameAssumption ==
  /\ Canon \in [Raw -> Path]
  /\ RootRaw \in Raw
  /\ Canon[RootRaw] = Root

ASSUME SparseAssumption == Sparse \subseteq Raw

ASSUME NullAssumption == NULL \notin Int

(***************************************************************************)
(* Entries.  FileNodeData.entry is NULL, or RootEntry (the directory entry *)
(* init_fn makes for "/"), or a clone of an entry of the archive.          *)
(***************************************************************************)
RootEntry == 0

EntriesOf(a) == {NULL, RootEntry} \cup (1 .. Len(a))

(* The raw pathname stored in entry e: what the lazy reader looks for. *)
RawOf(a, e) == IF e = RootEntry THEN RootRaw ELSE a[e]

(* The entries among the first k that are filed under path p. *)
FiledUnder(a, k, p) == {i \in 1 .. k : Canon[a[i]] = p}

(***************************************************************************)
(* The entry a tree that read the first k headers keeps for path p: the    *)
(* last one filed under p.                                                 *)
(***************************************************************************)
LastEntry(a, k, p) ==
  IF FiledUnder(a, k, p) # {}
    THEN Max(FiledUnder(a, k, p))
    ELSE IF p = Root THEN RootEntry ELSE NULL

(* The paths that have a node once the first k headers are read. *)
NodesAfter(a, k) == {Root} \cup UNION {Lineage[Canon[a[i]]] : i \in 1 .. k}

(***************************************************************************)
(* The entry _aks_archive_read_skip_til_entry stops at when it looks for   *)
(* raw pathname r from the first header on: the first one of that name, or *)
(* NULL when it reaches the end of the archive.                            *)
(***************************************************************************)
Named(a, r) == {i \in 1 .. Len(a) : a[i] = r}

FirstNamed(a, r) ==
  IF Named(a, r) # {}
    THEN Min(Named(a, r))
    ELSE NULL

(***************************************************************************)
(* Bytes are named by the entry they come from, as archive_read_data reads *)
(* it.  dump_to_stream, which copies block after block and passes over the *)
(* offsets, loses the holes of a sparse entry e; -e names what it makes.   *)
(***************************************************************************)
Dumped(a, e) == IF e \in 1 .. Len(a) /\ a[e] \in Sparse THEN -e ELSE e

BytesOf(a) == (-Len(a) .. Len(a)) \ {0}

(* No raw pathname occurs twice. *)
DistinctNames(a) == \A i, j \in 1 .. Len(a) : a[i] = a[j] => i = j
===========================================================================
