------------------------------ MODULE AksTree ------------------------------
(***************************************************************************)
(* aks_file.c: how a handle comes to be.  init_fn runs in a worker thread; *)
(* it reads every header of the archive and files the entries in a tree of *)
(* nodes, thaws the notification of "filename" (which looks the handle's   *)
(* own node up), frees the archive object and lets the GTask answer the    *)
(* caller.  One module instance is one call of aks_file_new[_async].       *)
(***************************************************************************)
EXTENDS AksListing

CONSTANTS
  Archives,     (* the archives that may lie under the base stream         *)
  Refused,      (* the caller's view of an error                           *)
  OpenReturns   (* what archive_open may return: it has no return statement *)

ASSUME ArchiveAssumption == Archives \subseteq Seq(Raw)

ASSUME OpenAssumption == OpenReturns \subseteq {"zero", "positive", "negative"}

VARIABLES
  archive,   (* the archive under the base stream                          *)
  level,     (* AksFile.cache_level                                        *)
  seekable,  (* g_seekable_can_seek(base_stream)                           *)
  filename,  (* AksFile.filename                                           *)
  busy,      (* somebody else has the base stream open all the while       *)
  pc,        (* where init_fn stands                                       *)
  cursor,    (* headers read so far                                        *)
  children,  (* GNode.children: the nodes below a node, in sibling order   *)
  entry,     (* FileNodeData.entry                                         *)
  cache,     (* FileNodeData.cache, named by the entry its bytes are of    *)
  current,   (* AksFile.current                                            *)
  ar,        (* the local variable ar                                      *)
  tag,       (* the "in use" tag on the base stream                        *)
  data,      (* whether the handle owns an ArchiveData                     *)
  outcome,   (* what the GTask was told to return                          *)
  result     (* what the caller of aks_file_new got                        *)

given == <<archive, level, seekable, filename, busy>>
tree  == <<children, entry, cache>>
vars  == <<given, pc, cursor, tree, current, ar, tag, data, outcome, result>>

Levels == {"NONE", "OTF", "FULL"}

(***************************************************************************)
(* search_node_for_file.  A path is found when every node of its lineage   *)
(* is listed among the children of the node above it; with make, the       *)
(* missing nodes of the lineage are appended, top down, each to the        *)
(* children of its parent.                                                 *)
(***************************************************************************)
Listed(c, q) == {c[q][i] : i \in 1 .. Len(c[q])}

Found(c, p) == \A m \in Lineage[p] \ {Root} : m \in Listed(c, ParentOf[m])

Missing(c, p, q) ==
  {m \in Lineage[p] \ {Root} : ParentOf[m] = q /\ ~ Found(c, m)}

(* Mutant of Graft: a missing node is put before its siblings. *)
GraftInFront(c, p) ==
  [q \in Path |-> IF Missing(c, p, q) = {} THEN c[q]
                  ELSE <<CHOOSE m \in Missing(c, p, q) : TRUE>> \o c[q]]

Graft(c, p) ==
  [q \in Path |-> IF Missing(c, p, q) = {} THEN c[q]
                  ELSE Append(c[q], CHOOSE m \in Missing(c, p, q) : TRUE)]

(* on_filename_notify: the node of the filename, if there is one. *)
Lookup(c, f) == IF f # NULL /\ Found(c, f) THEN f ELSE NULL

-----------------------------------------------------------------------------
Init ==
  /\ archive \in Archives
  /\ level \in Levels
  /\ seekable \in BOOLEAN
  /\ filename \in Path \cup {NULL}
  /\ busy \in BOOLEAN
  /\ pc = "start"
  /\ cursor = 0
  /\ children = [q \in Path |-> << >>]
  /\ entry = [p \in Path |-> NULL]
  /\ cache = [p \in Path |-> NULL]
  /\ current = NULL
  /\ ar = "uninitialised"
  /\ tag = busy
  /\ data = FALSE
  /\ outcome = "none"
  /\ result = "none"

(* The root node, and the check that lazy reading will be able to seek. *)
Prepare ==
  /\ pc = "start"
  /\ entry' = [entry EXCEPT ![Root] = RootEntry]
  /\ IF level = "FULL" \/ seekable
       THEN pc' = "open" /\ outcome' = outcome
       ELSE pc' = "cleanup" /\ outcome' = "error"
  /\ UNCHANGED <<given, cursor, children, cache, current, ar, tag, data, result>>

(* archive_open finds that the base stream is in use: the process dies. *)
OpenInUse ==
  /\ pc = "open" /\ tag
  /\ pc' = "inuse"
  /\ ar' = "NULL" /\ data' = TRUE
  /\ UNCHANGED <<given, cursor, tree, current, tag, outcome, result>>

(* _aks_archive_read_make succeeds. *)
OpenArchive ==
  /\ pc = "open" /\ ~ tag
  /\ "zero" \in OpenReturns
  /\ pc' = "explore"
  /\ ar' = "open" /\ tag' = TRUE /\ data' = TRUE
  /\ UNCHANGED <<given, cursor, tree, current, outcome, result>>

(* libarchive cannot open it: read_make cleans up and reports. *)
OpenFails ==
  /\ pc = "open" /\ ~ tag
  /\ pc' = "cleanup"
  /\ ar' = "NULL"
  /\ outcome' = "error"
  /\ UNCHANGED <<given, cursor, tree, current, tag, data, result>>

(***************************************************************************)
(* archive_open falls off its end with something other than 0 in the       *)
(* return register: libarchive calls archive_close and hands the value     *)
(* back.  A positive one passes for success, a negative one makes          *)
(* read_make return NULL without an error, and the assertion fails.        *)
(***************************************************************************)
OpenReturnsPositive ==
  /\ pc = "open" /\ ~ tag
  /\ "positive" \in OpenReturns
  /\ pc' = "explore"
  /\ ar' = "unopened" /\ data' = TRUE
  /\ UNCHANGED <<given, cursor, tree, current, tag, outcome, result>>

OpenReturnsNegative ==
  /\ pc = "open" /\ ~ tag
  /\ "negative" \in OpenReturns
  /\ pc' = "aborted"
  /\ ar' = "NULL"
  /\ UNCHANGED <<given, cursor, tree, current, tag, data, outcome, result>>

(* Mutant of FileEntry: a node that has an entry keeps it. *)
FileEntryOnce(p) ==
  /\ pc = "explore" /\ ar = "open"
  /\ cursor < Len(archive)
  /\ p = Canon[archive[cursor + 1]]
  /\ cursor' = cursor + 1
  /\ children' = Graft(children, p)
  /\ entry' = IF entry[p] = NULL THEN [entry EXCEPT ![p] = cursor + 1] ELSE entry

(* Mutant of FileEntry: the entry is not cloned, and becomes the next one. *)
FileEntryUncloned(p) ==
  /\ pc = "explore" /\ ar = "open"
  /\ cursor < Len(archive)
  /\ p = Canon[archive[cursor + 1]]
  /\ cursor' = cursor + 1
  /\ children' = Graft(children, p)
  /\ entry' = [entry EXCEPT ![p] = cursor + 2]

(* Mutant of FileEntry: the node gets the entry read before its own. *)
FileEntryBefore(p) ==
  /\ pc = "explore" /\ ar = "open"
  /\ cursor < Len(archive)
  /\ p = Canon[archive[cursor + 1]]
  /\ cursor' = cursor + 1
  /\ children' = Graft(children, p)
  /\ entry' = [entry EXCEPT ![p] = cursor]

(* A header is read and its entry filed; the FULL level reads the data too. *)
FileEntry(p) ==
  /\ pc = "explore" /\ ar = "open"
  /\ cursor < Len(archive)
  /\ p = Canon[archive[cursor + 1]]
  /\ cursor' = cursor + 1
  /\ children' = Graft(children, p)
  /\ entry' = [entry EXCEPT ![p] = cursor + 1]

(* Mutant of ReadHeader: bytes that are cached for the path are kept. *)
ReadHeaderCachesOnce ==
  \E p \in Path :
    /\ FileEntry(p)
    /\ cache' = IF level = "FULL" /\ cache[p] = NULL
                  THEN [cache EXCEPT ![p] = Dumped(archive, cursor + 1)]
                  ELSE cache
    /\ UNCHANGED <<given, pc, current, ar, tag, data, outcome, result>>

ReadHeader ==
  \E p \in Path :
    /\ FileEntry(p)
    /\ cache' = IF level = "FULL"
                  THEN [cache EXCEPT ![p] = Dumped(archive, cursor + 1)]
                  ELSE cache
    /\ UNCHANGED <<given, pc, current, ar, tag, data, outcome, result>>

(* _aks_archive_dump_to_bytes fails (or is cancelled) and returns NULL. *)
DumpFails ==
  \E p \in Path :
    /\ level = "FULL"
    /\ FileEntry(p)
    /\ cache' = [cache EXCEPT ![p] = NULL]
    /\ pc' = "cleanup"
    /\ outcome' = "error"
    /\ UNCHANGED <<given, current, ar, tag, data, result>>

(* Mutant of HeaderFails: an error is taken for the end of the archive. *)
HeaderFailsSilently ==
  /\ pc = "explore"
  /\ pc' = "cleanup"
  /\ outcome' = "ok"
  /\ UNCHANGED <<given, cursor, tree, current, ar, tag, data, result>>

(* Mutant of HeaderFails: an error is taken for ARCHIVE_RETRY. *)
HeaderFailsForever ==
  /\ pc = "explore"
  /\ UNCHANGED vars

(* archive_read_next_header fails; on an archive never opened it must. *)
HeaderFails ==
  /\ pc = "explore"
  /\ pc' = "cleanup"
  /\ outcome' = "error"
  /\ UNCHANGED <<given, cursor, tree, current, ar, tag, data, result>>

(* Mutant of EndOfArchive: the notification is never thawed. *)
EndOfArchiveFrozen ==
  /\ pc = "explore" /\ ar = "open"
  /\ cursor = Len(archive)
  /\ pc' = "cleanup"
  /\ outcome' = "ok"
  /\ UNCHANGED <<given, cursor, tree, current, ar, tag, data, result>>

(* ARCHIVE_EOF: the notification held back since construction goes out. *)
EndOfArchive ==
  /\ pc = "explore" /\ ar = "open"
  /\ cursor = Len(archive)
  /\ current' = Lookup(children, filename)
  /\ pc' = "cleanup"
  /\ outcome' = "ok"
  /\ UNCHANGED <<given, cursor, tree, ar, tag, data, result>>

(* Mutant of FreeArchive: archive_close leaves the base stream tagged. *)
FreeArchiveTagged ==
  /\ pc = "cleanup"
  /\ ar \in {"open", "unopened"}
  /\ ar' = "freed" /\ data' = FALSE
  /\ pc' = "return"
  /\ UNCHANGED <<given, cursor, tree, current, tag, outcome, result>>

(* _error_: whatever ar holds is freed unless it is NULL. *)
FreeArchive ==
  /\ pc = "cleanup"
  /\ ar \in {"open", "unopened"}
  /\ ar' = "freed" /\ tag' = FALSE /\ data' = FALSE
  /\ pc' = "return"
  /\ UNCHANGED <<given, cursor, tree, current, outcome, result>>

(* The jump over the initialiser of ar may happen to find a NULL there. *)
NothingToFree ==
  /\ pc = "cleanup"
  /\ ar \in {"NULL", "uninitialised"}
  /\ pc' = "return"
  /\ UNCHANGED <<given, cursor, tree, current, ar, tag, data, outcome, result>>

(* Or it finds garbage, which archive_read_close is called on. *)
FreeGarbage ==
  /\ pc = "cleanup"
  /\ ar = "uninitialised"
  /\ pc' = "crashed"
  /\ UNCHANGED <<given, cursor, tree, current, ar, tag, data, outcome, result>>

(***************************************************************************)
(* g_task_propagate_boolean.  A cancellable that is cancelled by now turns *)
(* a success into an error; the handle is then dropped by its constructor. *)
(***************************************************************************)
Answer ==
  /\ pc = "return"
  /\ pc' = "done"
  /\ result' \in {outcome, "error"}
  /\ UNCHANGED <<given, cursor, tree, current, ar, tag, data, outcome>>

Next ==
  \/ Prepare
  \/ OpenInUse \/ OpenArchive \/ OpenFails
  \/ OpenReturnsPositive \/ OpenReturnsNegative
  \/ ReadHeader \/ DumpFails \/ HeaderFails \/ EndOfArchive
  \/ FreeArchive \/ NothingToFree \/ FreeGarbage
  \/ Answer

Spec == Init /\ [][Next]_vars

(* The worker thread runs on: some step of init_fn is taken while one can be. *)
FairSpec == Spec /\ WF_vars(Next)

-----------------------------------------------------------------------------
(* Types of the state. *)
TypeOK ==
  /\ archive \in Archives
  /\ level \in Levels
  /\ seekable \in BOOLEAN
  /\ filename \in Path \cup {NULL}
  /\ busy \in BOOLEAN
  /\ pc \in {"start", "open", "explore", "cleanup", "return", "done",
             "inuse", "aborted", "crashed"}
  /\ cursor \in 0 .. Len(archive)
  /\ children \in [Path -> Seq(Path)]
  /\ entry \in [Path -> EntriesOf(archive)]
  /\ cache \in [Path -> {NULL} \cup BytesOf(archive)]
  /\ current \in Path \cup {NULL}
  /\ ar \in {"uninitialised", "NULL", "unopened", "open", "freed"}
  /\ tag \in BOOLEAN
  /\ data \in BOOLEAN
  /\ outcome \in {"none", "ok", "error"}
  /\ result \in {"none", "ok", "error"}

(***************************************************************************)
(* At every moment of the exploration the tree has exactly the nodes the   *)
(* headers read so far call for, the implicit directories above them       *)
(* included, and each node holds the last entry filed under its path:      *)
(* search_node_for_file neither loses a node, nor makes one twice, nor     *)
(* files an entry under another path.                                      *)
(***************************************************************************)
NodesExact == \A p \in Path : Found(children, p) <=> p \in NodesAfter(archive, cursor)

EntriesExact ==
  pc # "start" => \A p \in Path : entry[p] = LastEntry(archive, cursor, p)

TreeExact == NodesExact /\ EntriesExact

(* The number of the first header whose path lies at or below p. *)
FirstMention(p) ==
  CHOOSE i \in 1 .. cursor :
    /\ p \in Lineage[Canon[archive[i]]]
    /\ \A j \in 1 .. i - 1 : p \notin Lineage[Canon[archive[j]]]

(***************************************************************************)
(* No node is listed twice, none is listed under a node that is not its    *)
(* parent, and siblings stand in the order in which the archive first      *)
(* mentions them: what an enumerator of the tree will yield.               *)
(***************************************************************************)
SiblingsInOrder ==
  \A q \in Path : \A i \in 1 .. Len(children[q]) :
    /\ children[q][i] # Root /\ ParentOf[children[q][i]] = q
    /\ \A j \in 1 .. i - 1 :
         FirstMention(children[q][j]) < FirstMention(children[q][i])

(***************************************************************************)
(* With full caching every node whose entry came from the archive holds    *)
(* the bytes of that very entry, also when the path occurs several times   *)
(* in the archive; with lazy caching nothing is cached yet.                *)
(***************************************************************************)
CacheMatchesEntry ==
  outcome = "ok" => \A p \in Path :
    cache[p] = IF level = "FULL" /\ entry[p] # RootEntry
                 THEN Dumped(archive, entry[p]) ELSE NULL

(***************************************************************************)
(* What a lazy reader will find for a node, by scanning the archive again  *)
(* for the raw pathname of the node's entry, is data of the same path; and *)
(* it is the data the FULL level would have kept, provided no raw pathname *)
(* occurs twice.                                                           *)
(***************************************************************************)
LazyMatchesEager ==
  result = "ok" => \A p \in Path : entry[p] \notin {NULL, RootEntry} =>
    LET found == FirstNamed(archive, RawOf(archive, entry[p]))
    IN  /\ found # NULL
        /\ Canon[archive[found]] = p
        /\ DistinctNames(archive) => found = entry[p]

(***************************************************************************)
(* Once the caller is answered, whether by a handle or by an error, the    *)
(* exploration has let go of the base stream: the handle owns no           *)
(* ArchiveData, and the stream is tagged as in use only if somebody else   *)
(* uses it, whose tag is never taken off.                                  *)
(***************************************************************************)
StreamReleased == pc \in {"return", "done"} => (tag <=> busy) /\ ~ data

(***************************************************************************)
(* The handle's own node is looked up in the complete tree and not before: *)
(* a handle that was given out stands on the node of its filename exactly  *)
(* when the archive has one.                                               *)
(***************************************************************************)
HandleExact ==
  result = "ok" =>
    current = IF filename \in NodesAfter(archive, Len(archive)) THEN filename ELSE NULL

(***************************************************************************)
(* aks_file_new shows its caller a complete catalogue or an error.         *)
(***************************************************************************)
ShownView ==
  CASE result = "ok"    -> [nodes   |-> {p \in Path : Found(children, p)},
                            entry   |-> entry,
                            current |-> current]
    [] result = "error" -> Refused
    [] OTHER            -> NULL

Shown == INSTANCE Catalogue WITH view <- ShownView

ShowsCatalogue == Shown!Spec

(* Initialisation comes to an end, be it the answer or the end of the process. *)
InitEnds == <>(pc \in {"done", "inuse", "aborted", "crashed"})

(***************************************************************************)
(* aks_file.c:311, g_assert(ar != NULL): after _aks_archive_read_make set  *)
(* no error there is an archive to explore.                                *)
(***************************************************************************)
ArchiveMade == pc # "aborted"

(***************************************************************************)
(* aks_file.h:34: a base stream that cannot seek is answered with          *)
(* AKS_FILE_ERROR_UNSEEKABLE_INPUT when full caching is off.               *)
(***************************************************************************)
UnseekableAnswered ==
  ~ seekable /\ level # "FULL" /\ pc \in {"done", "aborted", "crashed"}
    => pc = "done" /\ result = "error"
=============================================================================
