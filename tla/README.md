# libakashic in TLA+

libakashic lets a program look into an archive as if it were a directory: it
puts GIO's `GFile` interface in front of libarchive.  This directory holds a
model of the library, the model-checking runs, and machine-checked proofs.
File names below are those of `src/src/`.

## 1. Inventory

| component | files | state | operations |
|---|---|---|---|
| `AksFile`, construction and node tree | `aks_file.c`, `aks_file_private.h`, `aks_file_node.c` | `root` (a `GNode` tree of `FileNodeData`: name, entry, cache, reference count), `current`, `filename`, `cache_level`, `start_position` | `init_fn` in a worker thread, `search_node_for_file`, the notification of `filename`, the `GTask` answer, dispose and finalize |
| archive glue | `aks_archive.c` | one `ArchiveData` per open archive, owned by a `GObject` through a qdata slot; the "in use" tag on the base stream | `read_make`, `read_free`, `set_cancellable`, `get_gerror`, `switch_source_object`, `skip_til_entry`, `dump_to_bytes`; the callbacks open, close, read, seek, skip |
| reading | `aks_file_iface.c` (`read_fn`, `peek_stream`, `peek_bytes`) | `FileNodeData.cache`, shared by all copies of a handle | `g_file_read` at the levels NONE, OTF ("on the fly") and FULL |
| handles | rest of `aks_file_iface.c` | `current`: a pointer into some handle's tree; the path GFile caches | dup, equal, hash, get_path, basename, get_parent, get_relative_path, resolve_relative_path, enumerate_children, query_info, `filename` |
| `AksFileEnumerator` | `aks_file_enumerator.c` | `node`, the next one to yield; a reference to its container | creation, next_file, dispose |
| `AksStream` | `aks_stream.c` | the archive object it took over | read, skip (both also asynchronous), dispose |
| node data | `aks_file_node.c` | a reference count that is not atomic | ref (by copying a tree), unref (by disposing of one) |
| `AksFileInfo` | `aks_file_info.c` | none | an entry's `stat` data turned into a `GFileInfo` |

How they interact.  `aks_file_new` starts `init_fn` in a thread; it opens the
base stream through the archive glue, reads all headers (with FULL caching all
data) and builds the tree.  `g_file_read` rewinds the *same* base stream, opens
a new archive object on it and scans for the entry; at level NONE the archive
object then belongs to an `AksStream` until that is disposed of, at level OTF
its data is dumped into the node's cache.  All handles made from one another
share the base stream (hence its position and its tag) and the data of the
nodes, but each has a tree of nodes of its own.

What is hard here: one base stream under many handles, whose position and tag
every read changes; an `ArchiveData` that changes owner in the middle of a read
and must be freed once on each of some ten ways out; a worker thread that
builds what another thread is given; cancellation at any moment; archives in
which names repeat, differ in spelling, or leave directories out; pointers
(`current`, the enumerator's `node`) into a tree whose lifetime is another
object's; a position and an error that the glue and libarchive each keep for
themselves; counts that threads share; and C: a callback without a return statement, jumps over
initialisers.  `PROJECT.json` lists these hazards with their lines and the
properties that cover them.

What makes each part correct: the tree and the handle that is given out are
those of the whole archive; the tag is on exactly while an archive object is
open, an `ArchiveData` has exactly one owner while it lives; a reader gets the
bytes of the path it asked for; the position libarchive believes in is that of
the base stream, and the error that is reported is the one that struck; a handle
stands on the node its filename names, and its path leads there; an enumeration
yields every child; a stream reports every byte it consumes; node data is counted
exactly and goes with the last tree that uses it.

## 2. Modules

```
AksListing          archives, paths, entries: pure operators
  Catalogue         abstract: what opening an archive promises
  AksTree           init_fn
  Reading           abstract: what a read promises
  AksRead           reading, ownership in the archive glue
  Enumeration       abstract: what an enumeration promises
  AksFile           handles and enumerators
    AksPath         cached paths, names, walks
AksArchive          the callbacks of the archive glue, and its pending error
  AksStream         life of an archive object; reads and skips on a stream
AksNode             reference counts of node data
MC_AksTree, MC_AksRead, MC_AksFile, MC_AksPath     constants for TLC

AksListingProofs    lemmas about least elements, lineages and entries
  AksTreeProofs  AksReadProofs  AksFileProofs    theorems about each module
                                  AksPathProofs
AksStreamProofs     theorems about AksArchive and AksStream
AksNodeProofs       theorems about AksNode
```

**AksListing.**  An archive is the sequence of its raw pathnames; entry `i`
stands for the i-th header and its data, so that bytes are named by the entry
they belong to.  `Canon` is what `g_file_new_build_filename("/", name)` makes of
a raw name; it need not be injective (`a`, `./a`).  `LastEntry` is the entry a
tree keeps for a path, `FirstNamed` the one a lazy reader finds again, and
`NodesAfter` the nodes the first `k` headers call for.  `Dumped` names what
`dump_to_stream` makes of an entry: its bytes, but for a sparse file (`Sparse`),
whose holes it loses.  Paths are abstract
(`Root`, `ParentOf`, `Lineage`); the assumptions say that they form a tree.

**AksTree.**  One call of `aks_file_new` or `_new_async`.

| action | code |
|---|---|
| `Prepare` | root node; unseekable base stream refused unless caching is FULL (`aks_file.c` 230-286) |
| `OpenArchive`, `OpenInUse`, `OpenFails`, `OpenReturnsPositive`, `OpenReturnsNegative` | `_aks_archive_read_make`; the second where the base stream is in use already (`busy`) and the assertion of `archive_open` fails, the last two are what follows when `archive_open` leaves something other than 0 in the return register |
| `ReadHeader`, `DumpFails`, `HeaderFails`, `EndOfArchive` | the loop of 318-388, and the thaw that makes `on_filename_notify` run |
| `FreeArchive`, `NothingToFree`, `FreeGarbage` | `_error_`; the last when `ar` was never initialised and is not NULL by chance |
| `Answer` | `g_task_propagate_boolean`, which a cancelled cancellable turns into an error |

`children` holds the child lists as the `GNode`s do, in order; `Graft` is
`search_node_for_file(..., TRUE)`: the missing nodes of a lineage are appended,
each to its parent's list.  A name is looked up among the children by hash and
then by string: as one comparison.

**Catalogue.**  The caller's view goes, in one step, from nothing to the complete
catalogue of the archive or to a refusal.  `ShownView` of `AksTree` maps the
concrete state to it, and `ShowsCatalogue` (`Shown!Spec`) says that `AksTree`
implements it.

**AksRead.**  `Begin` is `read_fn` up to the point where the cache decides;
`Seek`, `Make`, `Check`, `OpenArchive` and its siblings, `NextHeader`,
`EndOfArchive`, `ReadBody`, `Wrap`, `Release`, `Store` follow `peek_stream` and
`peek_bytes` call by call, because between any two of these calls another thread
may run.  `Check` (the tag is tested) and `OpenArchive` (the tag is set) are two
steps as in `archive_open`.  `qdata` says whose `ArchiveData` an object owns and
`live` which are allocated: replacing or clearing a slot frees what was in it,
as `g_object_set_qdata_full` does, and `g_object_steal_qdata` does not.  The base
stream is a position in units of headers and bodies; an archive object reads on
from where the stream *is*, and finds garbage unless that is where it left it.
`fault` records how the process dies ("in use" and "no data" are the assertions
of `aks_archive.c` 124 and 220, "freed" and "null" invalid accesses).
What reaches the cache was dumped, what an `AksStream` yields was not (`Body`).
Three client disciplines: `Spec` (reads at any time), `OneThreadSpec` (a read
begins when no `g_file_read` is in progress, but streams may be open),
`TurnsSpec` (nor is a stream open, unless everything is cached).

**Reading.**  A question has one answer: the contents of the path, or the error
that fits (INVAL for what is no file of the archive, NOT_FOUND when a new scan
does not find the entry, IO otherwise).  `Asked` of `AksRead` maps a client's
program counter to "waits for its answer or has a stream open" and shows its reply
when `g_file_read` has returned; `AnswersQuestions` (`Asked!Spec`) says that
`AksRead` under `TurnsSpec` implements it: all that happens on the shared stream
in between is a stutter.  `Answers` knows what is cached by level only, so that
e.g. at the level FULL no read can fail.

**AksFile.**  A node is a pair of the handle whose tree it is in and its path.
`Copy` is `dup`: the tree is copied, the pointer `current` is taken over, so it
points into the *original's* tree.  `Dangling` says that this tree is gone.
`GetParent`, `Resolve`, `SetFilename`, `Enumerate`, `NextFile`,
`CloseEnumerator` and `Unref` change state; `CompareFails`,
`RelativePathFails` and `InspectFreed` are the calls that only look, and matter
by how they can die.  `Resolve` takes any relative path, of several components or
with "..": what counts is the path it leads to, and whether the string is the one
the handle has as filename already, in which case nobody is notified.
A client may drop handles in any order; `OriginalsKept` says that none was
dropped before the copies made from it, and is what `NoFreedNode` and
`EnumeratorSafe` ask of a client.

**Enumeration.**  An enumerator yields, in some order, each child that has an
entry once, may fail in between, and ends only when it has yielded them all.
`Listed` of `AksFile` forgets nodes and handles; `EnumeratesAll` says that
`AksFile` implements it, whatever is done meanwhile to the handle enumerated.

**AksPath.**  What a client reads off handles.  `peeked` is the path that GFile
caches with the first `g_file_peek_path` and never refreshes (`PeekPath`; hash,
basename, parse name and the property `filename` come from it); `stale` remembers
that the handle was renamed since.  `BringupPath` gives the names from the root
down to a node, as `bringup_path` does.  `GetChild` is GIO's
`g_file_enumerator_get_child`, by which `test/test.c` walks a tree: the name that
the information of a child carries is resolved from the enumerator's container;
`Under` says where a path and a name come to ("." stays).  `QueryInfoInvalid` is
the way out of `query_info` that frees a matcher that was never made.

**AksNode.**  `dup` takes a reference to each datum of a tree, `dispose` gives each
back (the pointer in the node is cleared first).  A `grefcount` is no atomic
counter: `LoadRef` and `LoadUnref` load it, `StoreRef` and `StoreUnref` store it,
which frees the datum if 1 was loaded.  `raced` collects the data on which two
threads counted at once, `hurt` those that were touched after they were freed.
No client can keep handles of one archive apart by thread: copies share the data.

**AksArchive.**  One `ArchiveData`.  During a call of libarchive any sequence of
callbacks may come: `ReadCallback`, `SkipCallback`, `SeekCallback`, and `ReadFails`,
`SeekFails`, which store a `GError` (`StoreError`).  `pos` is the position of the
base stream, `at` what libarchive makes of the values the callbacks return.  A call
succeeds (`Succeed`) or fails (`GiveUp`), and then `GetGError` says what is
reported: the pending error if there is one, else libarchive's own.  `error` tells
an error stored in this call ("own") from one that an earlier call left ("stale").
libarchive goes on after a failed seek while formats bid for the archive
(`swallowed`), and after no other failed callback.

**AksStream.**  The archive object is opened and explored; either it ends there, or
an `AksStream` takes it over (`Wrap`).  On that an operation is started, its thread
function works (`read_fn` in one call of libarchive, `skip_fn` in one call per turn
of its loop, `SkipBlock` and `SkipAgain`), and its task is answered; callbacks,
`Cancel` and `Fail` may come in between.

What is taken for granted about GLib and libarchive, from how the code uses
them: a `GTask` run in a thread answers after its thread function has returned;
`g_task_propagate_*` gives CANCELLED when the cancellable is cancelled by then;
`GInputStream` admits one operation at a time on a stream; libarchive calls the
close callback when its open callback does not return 0 or when no format
recognises the stream; it does not recover from a read callback that fails.

## 3. Runs

Deadlock checking is off where the system may stop: a construction that was
answered, a client that reads no more, a process that died.  `stream` checks it.

| run | question | bounds |
|---|---|---|
| `tree` | is the tree exact at every header, is nothing left behind, do lazy and eager reading agree, does `aks_file_new` implement `Catalogue`, does it end | all archives of up to 3 of 5 raw names, one of them sparse, on a base stream free or in use |
| `read` | tag, owner, position, cache, how a process may die, and the abstract `Reading`, with clients that take turns; does a read come back | 2 clients, 1 handle, all archives of up to 2 of 5 raw names |
| `read_free` | what holds with clients that do not take turns: nothing is freed twice, the cache settles, FULL is safe | 2 clients, 2 handles, 1 archive |
| `file` | where handles stand, the abstract `Enumeration`, what a client must do never to meet a freed node | 3 handles, 1 enumerator, 2 archives |
| `path` | do cached paths and children got by listing tell the truth | 2 handles, 1 enumerator, 4 paths, 2 archives |
| `node` | what the counts are worth | 2 data, 2 threads, 4 handles |
| `stream` | positions agree, the right error is reported, bytes accounted for, cancellables disarmed, operations end | archive of up to 3 bytes that begins at 0 or 1, blocks of 2; entry of up to 3 bytes, at most 3 asked for, skips by 2 |

The raw names of `tree` give an implicit directory (`a/b` without `a`), a
directory that comes before or after its contents, a name that repeats, two
spellings of one path and the root itself; three entries are enough for a
repeated path with another entry between, and for siblings out of order.  Two
clients are enough for a race on the tag, on a handle's slot and on the stream
position; `read_free` has two handles, so that clients meet on one or only on
the base stream, and can miss one cache together, which is all `CacheSettles` is
about.  In `read` one handle suffices: `OwnerExact` speaks of the slot
of the handle a client reads through, and clients that take turns never have two
slots filled.  Three handles give a copy of a copy.  In `path` a second handle is
enough: every property is about one handle, or one and its child, and a
handle that was renamed, copied or found stands for any.  In `node` two threads race
on one count while two data keep one that is raced on apart from one that is not;
with four handles a copy of a copy is made while the first is dropped.  In
`stream`, both blocks are smaller than what they are taken from, so that reading
and the skip loop make several turns and a short last one; archives of no bytes,
and of which nothing is left, occur; `start` is 0 or not, which is all `Aligned`
tells apart.

Runs that find a disagreement (each checks one claim that the code or its
documentation makes):

| run | claim | what the code does |
|---|---|---|
| `tree_assert` | `g_assert(ar != NULL)`, `aks_file.c:311` | `archive_open` returns whatever is in the register; a negative value yields NULL without an error |
| `tree_unseekable` | UNSEEKABLE_INPUT is reported, `aks_file.h:34` | `ar` is read uninitialised on that path |
| `read_inuse` | `g_assert_not_reached()`, `aks_archive.c:124` | reached by one thread with one `AksStream` open |
| `read_race` | "Ensure stream is not in use", `aks_archive.c:111` | test and set are two steps |
| `file_dup` | "Copy entry tree", `aks_file_iface.c:43` | the copy stands in the original's tree |

More disagreements, which the models show without a run of their own:

- At the level NONE `read_fn` does not ask whether the node has an entry: reading a
  directory that the archive mentions only above another entry takes the name of a
  NULL entry (`aks_archive.c:441`) and crashes, where the other levels answer INVAL.
  It needs one client and no failure (`ScanForNothing` of `AksRead`; `NoMisuse`
  excepts just this and what comes of the undefined return of `archive_open`).
- `dump_to_stream` ignores the offsets of the blocks it writes
  (`aks_archive.c:520-538`): what is cached of a sparse file, at the levels OTF and
  FULL, lacks the holes that the level NONE reads (`Dumped`).
- `aks_file_new` on a base stream that is in use, by an `AksStream` say, does not
  return an error but meets the assertion of `archive_open` (`OpenInUse` of `AksTree`).
- Two reads on one handle in two threads share its one qdata slot.  The one that
  fails clears it, so that the other's hand-over fails `g_assert(data != NULL)`
  (`aks_archive.c:220`, the fault "no data" of `AksRead` under `Spec`), or goes on
  with an `ArchiveData` that was freed (the fault "freed").
- `g_file_get_relative_path` fails `g_assert(parent != NULL)`
  (`aks_file_iface.c:110`, the fault "assert" of `AksFile`) for files that do not
  lie one below the other.  For those that do it leaves out the first name, since `bringup_path` ends one node early (`aks_file_iface.c:108-131`):
  from `/d` to `/d/f/g` it gives what leads to `g` from `/d/f`.  The string is not
  modelled.
- The handle `get_parent` gives keeps the child's filename, so that resolving this
  child from it changes nothing and gives the parent again (the case of `Resolve`
  with an unchanged filename, and the reason for `climbed` in `FilenameTells`).
- A directory whose raw name ends in a dot (`d/.`) is listed as `.`; the child got
  from the enumerator is then the directory listed, and a recursive walk like that
  of `test/test.c` does not end (the exception in `ListedChildFound`).
- `is-symlink` is set for regular files and sockets too, since the mode is masked
  and not compared (`aks_file_info.c:133`; a constant expression of the mode, which
  is not modelled), and no file is ever SPECIAL, since its
  mode would have to have four formats at once (48-52).
- `equal` compares its first argument's node with itself (`aks_file_iface.c:84`):
  a first handle without a node equals any other on the same stream, and a second
  one without a node is dereferenced (the fault "null"), as by `hash` on a handle
  without a node.
- A seek that fails while formats bid leaves its error pending: it is reported for
  whatever fails next (`CauseReported` without `swallowed` does not hold).
- `archive_seek` takes offsets from the beginning of the base stream although the
  archive may begin elsewhere (`aks_archive.c:293`; `Aligned` excepts this).
- The interface claims `supports_thread_contexts` (`aks_file_iface.c:566`), but two
  threads that count on one datum lose counts (`raced` in `AksNode`).
- `query_info` on a handle without an entry frees an uninitialised matcher
  (`aks_file_iface.c:548`, the fault "garbage" of `AksPath`).
- AKS_FILE_ERROR_INVALID_FILE, which `aks_file.h:40` documents for folders, is
  raised nowhere.

Fairness.  `AksTree` and `AksStream` assume weak fairness of the thread that
runs `init_fn` or the operation, `AksRead` of each thread that runs a read:
once started, GLib's thread pool runs a thread function to its end.  Nobody is
obliged to begin a read, to cancel, or to drop a stream; an archive need not
fail, but one that failed for good goes on failing.  A skip that asks for more
than the entry has left turns for ever (`archive_read_data` gives 0, the count
stays): `OperationsEnd` therefore claims the end of reads and of skips that fit.

Every property has a mutant, an operator marked "Mutant of ..." in the modules,
under which TLC finds the property violated.

## 4. Proofs

Every invariant that a passing run checks is a theorem, and so are `CacheSettles` and
the three refinements: for every archive, every tree of names, any number of
clients, handles, enumerators, threads and bytes.

| module | theorem | property |
|---|---|---|
| `AksTreeProofs` | `TypesHold` | `TypeOK` |
| | `TreeIsExact` | `TreeExact` |
| | `SiblingsStandInOrder` | `SiblingsInOrder` |
| | `StreamIsReleased` | `StreamReleased` |
| | `HandleIsExact` | `HandleExact` |
| | `CacheFollowsEntry` | `CacheMatchesEntry` |
| | `LazyFindsTheSame` | `LazyMatchesEager` |
| | `ShowsTheCatalogue` | `ShowsCatalogue`: `AksTree` implements `Catalogue` |
| `AksReadProofs`, clients taking turns | `ReadsHaveTypes` | `TypeOK` |
| | `TagIsExact` | `TagExact` |
| | `OwnerIsExact` | `OwnerExact` |
| | `StreamIsUndisturbed` | `NeverDisturbed` |
| | `AssertionsHold` | `NoMisuse` |
| | `QuestionsAreAnswered` | `AnswersQuestions`: `AksRead` implements `Reading` |
| the same, clients reading at any time | `NothingIsFreedTwice` | `FreedOnce` |
| | `CacheIsSettled` | `CacheSettles` |
| | `FullLevelIsSafe` | `FullIsSafe` |
| `AksFileProofs` | `HandlesHaveTypes` | `TypeOK` |
| | `FilenameIsTold` | `FilenameTells` |
| | `OriginalsAreEnough` | `NoFreedNode` |
| | `EnumeratorsAreSafe` | `EnumeratorSafe` |
| | `EnumeratesEveryChild` | `EnumeratesAll`: `AksFile` implements `Enumeration` |
| `AksPathProofs` | `PathsHaveTypes` | `PathTypeOK` |
| | `PathsLeadHome` | `PeekTells` |
| | `ListedChildrenAreFound` | `ListedChildFound` |
| `AksStreamProofs` | `StreamHasTypes` | `TypeOK` |
| | `PositionsAgree` | `Aligned` |
| | `RightErrorReported` | `CauseReported` |
| | `NoErrorLeft` | `NothingPending` |
| | `NoByteUnreported` | `NoGap` |
| | `CancellablesDisarmed` | `Disarmed` |
| `AksNodeProofs` | `CountsHaveTypes` | `TypeOK` |
| | `ReferencesAreExact` | `RefsExact` |
| | `FreedDataIsLeftAlone` | `FreedOnlyByRace` |

Assumptions.  The paths form a tree (`PathAssumption`, `LineageAssumption`; for
`AksPath` also of finite depth, `DepthAssumption`), a raw name has a path and a
path's last name leads to it from its parent (`NameAssumption`, `NamesAssumption`),
archives are sequences of raw names, bounds and sizes are numbers, blocks are not
empty, a process has finitely many threads and handles (`FiniteAssumption`), and
NULL and the error codes are none of the values they stand beside
(`NullAssumption`, `ReplyAssumption`, `ClientAssumption`, `NodeAssumption`,
`ErrorAssumption`, `CancellableAssumption`).  TLC evaluates all of them.

**AksListingProofs.**  Induction over data is out of reach (below); what it would
give for numbers is `LeastElement`: a set of numbers that is not empty has a least
element.  From it come what `Min`, `Max`, `LastEntry` and `FirstNamed` return.

**The tree.**  `TreeExact` alone is not inductive: that grafting a lineage adds
just the nodes missing from it needs that every listed node stands under its
parent and that the way down to it is complete (`Grown`).  `TreeInv` is the
conjunction of both with the types; `GraftLists`, `GraftFinds` and `GraftGrows`
say what `Graft` does to the lists, to what is found, and to `Grown`, and
`NodesAfterStep` and `LastEntryStep` what one more header does to the catalogue.
For `SiblingsInOrder` the invariant adds that what stands earlier in a list was
first mentioned by an earlier header (`InOrder`): one header mentions at most one
child of a node, and appends it to the list if no header mentioned it before.
`CourseInv` adds
who still holds the archive (`HoldsArchive`), how the answer follows the outcome
(`Answers`) and that a success was recorded only at the end of the archive, with
`current` looked up in the tree of that moment (`Complete`).  From it the answer
publishes exactly `CatalogueOf`, and every other step leaves the view alone.
`CacheTells` is what `CacheMatchesEntry` says, claimed of every moment before a
failure, and is inductive given `CourseInv`.

**Reading.**  None of the properties of `AksRead` is inductive alone: that the tag
is exact needs that one archive object is open at most, that a position is not
disturbed needs that nobody else reads, and both that a client's program counter,
its archive object, its slot and its reply belong together.  `TurnsInv` says so, part
by part: one read at a time, and at which level which phases occur (`OneRead`); a
slot holds the ArchiveData of the read that put it there, and of no other (`Owned`);
where archive object and base stream stand in each phase (`ObjectStands`); how far
the search has come without a match (`Searching`); what a read has to say in each
phase (`Replying`); and what is cached is the contents of the path (`Cached`).  It
has a lemma per action.  Under it, `ProgressTells` maps each step to an answer or
a stutter of `Reading`.  Clients that read at any time break nearly all of this.
What is left is `SlotInv`: a client has no ArchiveData before it makes one, hence no
slot ever holds one that is gone or that another slot holds; `AllCached`: with
everything cached no read leaves the idle state at all; and `SettleInv`, for
`CacheSettles`: what is about to be stored is neither NULL nor an error, and at the
level NONE nothing is.  `NoMisuse` is about steps: `WaysToDie` goes through all that
look into a slot, finds it filled by `TurnsInv`, and leaves two actions.

**Handles.**  The trees a handle may come to stand in are found by following
copies back to their originals, over any number of copies.  Instead of that
recursion, `Rooted` quantifies over the sets of handles that are closed under going
back: each holds the owners of all the nodes its members stand on.  The handles
that live while originals are kept are such a set, which gives `NoFreedNode` and
`EnumeratorSafe`.  `Enumerating` says that an enumerator has yielded just the
children with an entry that come before the node it stands on (`Passed`), so that
a step to the next sibling adds one, and the end is reached with all of them.

**Paths.**  `BringupPath` recurses up the tree with nothing but the depth of a path
to bound it: that a function as it defines exists is proved first, by the least
depth at which it would not.  It then leads back down (`BringupPathLeads`), by the
same argument.  `PathInv` adds to the invariant of `AksFile` that handles stand on
nodes their tree has (`Placed`), that nothing is known of handles not made yet
(`Unknown`) and that a cached path is the one of the node the handle still stands on
unless it was renamed since (`Remembered`).

**Archive and stream.**  `Aligned`, `CauseReported` and `NothingPending` need to know,
within a call, that the pending error is of this call exactly if a callback failed in
it (`Pending`), and that a failure is fatal unless it was swallowed (`Struck`).
`NoGap` needs who may call libarchive in each phase and under whose cancellable
(`Turn`), and that what is left, what was got and what was consumed add up
(`Account`), for blocks of any size.

**Node data.**  `RefsExact` counts trees and threads that are leaving one.  That one
step changes such a sum by one needs to know which handle each thread is at work on,
alone (`Roles`), what it has still to count (`Work`), and that where nobody raced the
count a thread has loaded is the one in memory (`Alone`); that counts stay
non-negative where threads *did* race needs `Positive`, claimed until freed data is
touched.

Only model-checked: liveness (`InitEnds`, `ReadEnds`, `OperationsEnd`; fairness and
ENABLED are out of the prover's reach), `CacheStable`, which speaks of clients that
take turns only and is plain for them, and the disagreements of section 3, which are
counterexamples.  Induction over data is out of its reach as well, and was avoided
as described: by least counterexamples, and by quantifying over closed sets.

## 5. Not modelled, and why

- What `_aks_file_info_get` makes of an entry, but for its name: type, flags, sizes
  and times are functions of the entry alone, and no step of anybody changes them.
- The string `get_relative_path` returns, beyond the assertion it may fail.
- Memory that is leaked without consequence for the state (an entry replaced by
  a later one of its path, the archive of a negative open).
- Messages of errors; encodings of names; printing under `DEBUG`.
- Type registration, the public headers and the build: nothing changes state there.

## 6. Plan

Done: all components above, the abstract specifications `Catalogue`, `Reading` and
`Enumeration` with their refinements, and a theorem for every invariant, the action
property of clients that do not take turns and the refinements.

Left: what a client may rely on that neither takes turns nor caches everything, beyond
`FreedOnce` and `CacheSettles` (two handles, say, that are read one after the other while a stream of
the first is open), and lemmas that relate the three models of a handle's tree
(`AksTree`'s lists, `AksFile`'s catalogue and the data of `AksNode`), which agree by
`TreeExact` and `SiblingsInOrder` so far without a theorem that says so.
