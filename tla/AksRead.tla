------------------------------ MODULE AksRead ------------------------------
(***************************************************************************)
(* Reading the contents of files: g_file_read on a handle (read_fn,        *)
(* peek_stream and peek_bytes of aks_file_iface.c), the archive object it  *)
(* opens over the shared base stream (aks_archive.c), and the AksStream a  *)
(* reader of level NONE is left with (aks_stream.c).                       *)
(*                                                                         *)
(* A client is one activity that reads one file after the other; the ar of *)
(* a client is the archive object of its current read and is named, like   *)
(* the ArchiveData that goes with it, by the client.  Handles are copies   *)
(* of one another: they share the base stream and the data of the nodes.   *)
(***************************************************************************)
EXTENDS AksListing

CONSTANTS
  Client,       (* the activities that read                                *)
  File,         (* the handles they read through                           *)
  Archives,     (* the archives that may lie under the base stream         *)
  INVAL,        (* G_IO_ERROR_INVAL                                        *)
  NOT_FOUND,    (* AKS_FILE_ERROR_FILE_NOT_FOUND                           *)
  IO,           (* any error of the base stream, of libarchive, or CANCELLED *)
  Garbage,      (* bytes that are not those of an entry                    *)
  OpenReturns   (* what archive_open may return: it has no return statement *)

ASSUME ArchiveAssumption == Archives \subseteq Seq(Raw)

ASSUME OpenAssumption == OpenReturns \subseteq {"zero", "positive", "negative"}

ASSUME ReplyAssumption ==
  /\ {INVAL, NOT_FOUND, IO, Garbage, NULL} \cap Int = {}
  /\ NULL \notin {INVAL, NOT_FOUND, IO, Garbage}

ASSUME ClientAssumption == NULL \notin Client /\ Client \cap File = {}

VARIABLES
  archive,  (* the archive under the base stream                           *)
  level,    (* cache_level                                                 *)
  pos,      (* the position of the base stream, in units (below)           *)
  tag,      (* its "in use" tag                                            *)
  cache,    (* FileNodeData.cache, named by the entry its bytes are of     *)
  qdata,    (* whose ArchiveData an object (handle or stream) owns         *)
  fault,    (* how the process died, if it did                             *)
  pc,       (* where the client's read stands                              *)
  file,     (* the handle it reads through                                 *)
  want,     (* the path that handle stands on                              *)
  ar,       (* the client's archive object                                 *)
  at,       (* the base stream position that object believes in            *)
  live,     (* the clients whose ArchiveData is allocated                  *)
  reply     (* what the client got: an entry's bytes, or an error          *)

given  == <<archive, level>>
stream == <<pos, tag>>
local  == <<file, want>>
vars   == <<given, stream, cache, qdata, fault, pc, local, ar, at, live, reply>>

Levels == {"NONE", "OTF", "FULL"}
Errors == {INVAL, NOT_FOUND, IO}

(***************************************************************************)
(* The base stream: a block that identifies the format, then a header and  *)
(* a body for each entry, then the end mark.  After the header of entry h  *)
(* the stream stands at 2h, after its body at 2h + 1.                      *)
(***************************************************************************)
Last == 2 * Len(archive) + 2
HeadersSeen(c) == at[c] \div 2

(* The node tree of a handle (AksTree), in which the handles stand. *)
Node == NodesAfter(archive, Len(archive))
Entry(p) == LastEntry(archive, Len(archive), p)

(* The handle a client's ArchiveData hangs on; its stream, once wrapped. *)
Holder(c) == IF pc[c] = "stream" THEN c ELSE file[c]

-----------------------------------------------------------------------------
Init ==
  /\ archive \in Archives
  /\ level \in Levels
  /\ pos = Last
  /\ tag = FALSE
  /\ cache = [p \in Path |-> IF level = "FULL" /\ Entry(p) # RootEntry
                               THEN Dumped(archive, Entry(p)) ELSE NULL]
  /\ qdata = [o \in File \cup Client |-> NULL]
  /\ fault = "none"
  /\ pc = [c \in Client |-> "idle"]
  /\ file \in [Client -> File]
  /\ want = [c \in Client |-> NULL]
  /\ ar = [c \in Client |-> "none"]
  /\ at = [c \in Client |-> 0]
  /\ live = {}
  /\ reply = [c \in Client |-> NULL]

(* The process dies. *)
Die(how) ==
  /\ fault' = how
  /\ UNCHANGED <<given, stream, cache, qdata, pc, local, ar, at, live, reply>>

(* The read moves on without touching anything but its own stand and reply. *)
Goto(c, next, answer) ==
  /\ pc' = [pc EXCEPT ![c] = next]
  /\ reply' = [reply EXCEPT ![c] = answer]

(***************************************************************************)
(* archive_read: libarchive reads on from where it believes the stream to  *)
(* be (at) up to position n; the stream moves on from where it is (pos).   *)
(***************************************************************************)
Undisturbed(c) == at[c] = pos

ReadOn(c, n) ==
  /\ at' = [at EXCEPT ![c] = n]
  /\ pos' = IF pos + (n - at[c]) <= Last THEN pos + (n - at[c]) ELSE Last

(* Replacing what object o owns frees the ArchiveData it owned before. *)
AfterFreeing(o) == live \ {qdata[o]}

(* _aks_archive_get_gerror: the error is fetched through the source object. *)
ReportError(c, next) ==
  IF qdata[Holder(c)] = NULL
    THEN Die("null")
    ELSE /\ Goto(c, next, IO)
         /\ UNCHANGED <<given, stream, cache, qdata, fault, local, ar, at, live>>

-----------------------------------------------------------------------------
(* Mutant of Begin: the FULL level reads what it has not cached, like OTF. *)
BeginUncached(c, f, p) ==
  /\ pc[c] = "idle" /\ c \notin live
  /\ file' = [file EXCEPT ![c] = f]
  /\ want' = [want EXCEPT ![c] = p]
  /\ \/ /\ p \notin Node \/ (level # "NONE" /\ cache[p] = NULL /\ Entry(p) = NULL)
        /\ Goto(c, "idle", INVAL)
     \/ /\ p \in Node /\ level # "NONE" /\ cache[p] # NULL
        /\ Goto(c, "idle", cache[p])
     \/ /\ p \in Node
        /\ level = "NONE" \/ (cache[p] = NULL /\ Entry(p) # NULL)
        /\ Goto(c, "seek", NULL)
  /\ UNCHANGED <<given, stream, cache, qdata, fault, ar, at, live>>

(* Mutant of Begin: only the FULL level looks at the cache. *)
BeginCacheIgnored(c, f, p) ==
  /\ pc[c] = "idle" /\ c \notin live
  /\ file' = [file EXCEPT ![c] = f]
  /\ want' = [want EXCEPT ![c] = p]
  /\ \/ /\ p \notin Node \/ (level # "NONE" /\ cache[p] = NULL /\ Entry(p) = NULL)
        /\ Goto(c, "idle", INVAL)
     \/ /\ p \in Node /\ level = "FULL"
        /\ Goto(c, "idle", IF cache[p] = NULL THEN INVAL ELSE cache[p])
     \/ /\ p \in Node
        /\ level = "NONE" \/ (level = "OTF" /\ Entry(p) # NULL)
        /\ Goto(c, "seek", NULL)
  /\ UNCHANGED <<given, stream, cache, qdata, fault, ar, at, live>>

(***************************************************************************)
(* aks_file_g_file_iface_read_fn, up to the point where the cache decides. *)
(* (A client whose last ArchiveData is still owned by somebody else's      *)
(* object is not used again: its name is taken.)                           *)
(***************************************************************************)
Begin(c, f, p) ==
  /\ pc[c] = "idle" /\ c \notin live
  /\ file' = [file EXCEPT ![c] = f]
  /\ want' = [want EXCEPT ![c] = p]
  /\ \/ /\ p \notin Node
        /\ Goto(c, "idle", INVAL)
     \/ /\ p \in Node /\ level # "NONE" /\ cache[p] # NULL
        /\ Goto(c, "idle", cache[p])
     \/ /\ p \in Node /\ level # "NONE" /\ cache[p] = NULL
        /\ level = "FULL" \/ Entry(p) = NULL
        /\ Goto(c, "idle", INVAL)
     \/ /\ p \in Node
        /\ level = "NONE" \/ (level = "OTF" /\ cache[p] = NULL /\ Entry(p) # NULL)
        /\ Goto(c, "seek", NULL)
  /\ UNCHANGED <<given, stream, cache, qdata, fault, ar, at, live>>

(* Mutant of Seek: the stream is not rewound. *)
SeekNowhere(c) ==
  /\ pc[c] = "seek"
  /\ Goto(c, "make", NULL) \/ Goto(c, "idle", IO)
  /\ UNCHANGED <<given, stream, cache, qdata, fault, local, ar, at, live>>

(* g_seekable_seek to start_position. *)
Seek(c) ==
  /\ pc[c] = "seek"
  /\ \/ Goto(c, "make", NULL) /\ pos' = 0
     \/ Goto(c, "idle", IO) /\ pos' = pos
  /\ UNCHANGED <<given, tag, cache, qdata, fault, local, ar, at, live>>

(* _aks_archive_read_make: a new ArchiveData takes the place of any other. *)
Make(c) ==
  /\ pc[c] = "make"
  /\ qdata' = [qdata EXCEPT ![file[c]] = c]
  /\ live' = AfterFreeing(file[c]) \cup {c}
  /\ ar' = [ar EXCEPT ![c] = "unopened"]
  /\ at' = [at EXCEPT ![c] = 0]
  /\ Goto(c, "check", NULL)
  /\ UNCHANGED <<given, stream, cache, fault, local>>

(* _aks_archive_set_cancellable, then the test at the top of archive_open. *)
Check(c) ==
  /\ pc[c] = "check"
  /\ CASE qdata[file[c]] = NULL -> Die("null")
       [] qdata[file[c]] # NULL /\ c \notin live -> Die("freed")
       [] qdata[file[c]] # NULL /\ c \in live /\ tag -> Die("in use")
       [] OTHER ->
            /\ Goto(c, "open", NULL)
            /\ UNCHANGED <<given, stream, cache, qdata, fault, local, ar, at, live>>

(* The rest of archive_open and of archive_read_open1. *)
OpenArchive(c) ==
  /\ pc[c] = "open" /\ c \in live
  /\ "zero" \in OpenReturns
  /\ tag' = TRUE
  /\ ar' = [ar EXCEPT ![c] = "open"]
  /\ ReadOn(c, 1)
  /\ Goto(c, "scan", NULL)
  /\ UNCHANGED <<given, cache, qdata, fault, local, live>>

(***************************************************************************)
(* libarchive does not recognise the stream, or a positive value was left  *)
(* in the return register: either way it has called archive_close already. *)
(***************************************************************************)
OpenFails(c) ==
  /\ pc[c] = "open" /\ c \in live
  /\ IF qdata[file[c]] = NULL THEN Die("null")
     ELSE /\ tag' = FALSE
          /\ Goto(c, "release", IO)
          /\ UNCHANGED <<given, pos, cache, qdata, fault, local, ar, at, live>>

OpenReturnsPositive(c) ==
  /\ pc[c] = "open" /\ c \in live
  /\ "positive" \in OpenReturns
  /\ tag' = FALSE
  /\ Goto(c, "scan", NULL)
  /\ UNCHANGED <<given, pos, cache, qdata, fault, local, ar, at, live>>

(* read_make gives back NULL without an error, and NULL is scanned. *)
OpenReturnsNegative(c) ==
  /\ pc[c] = "open" /\ c \in live
  /\ "negative" \in OpenReturns
  /\ Die("null")

(* The ArchiveData was freed under the archive object that goes on using it. *)
UseFreed(c) ==
  /\ \/ pc[c] = "open"
     \/ pc[c] \in {"scan", "dump", "release", "stream"} /\ ar[c] = "open"
  /\ c \notin live
  /\ Die("freed")

(* Reading fails, or finds bytes libarchive can make no sense of. *)
ReadFails(c) ==
  /\ pc[c] \in {"scan", "dump"} \/ (pc[c] = "stream" /\ reply[c] = NULL)
  /\ ar[c] = "open" => c \in live
  /\ pc[c] = "scan" => Entry(want[c]) # NULL
  /\ ReportError(c, IF pc[c] = "stream" THEN "stream" ELSE "release")

(* _aks_archive_read_skip_til_entry looks at the name of a NULL entry. *)
ScanForNothing(c) ==
  /\ pc[c] = "scan"
  /\ Entry(want[c]) = NULL
  /\ Die("null")

(* Mutant of NextHeader: entries are compared by the path they stand for. *)
NextHeaderByPath(c) ==
  /\ pc[c] = "scan" /\ ar[c] = "open" /\ c \in live
  /\ Entry(want[c]) # NULL
  /\ Undisturbed(c) /\ HeadersSeen(c) < Len(archive)
  /\ ReadOn(c, 2 * (HeadersSeen(c) + 1))
  /\ Goto(c, IF Canon[archive[HeadersSeen(c) + 1]] # want[c] THEN "scan"
             ELSE IF level = "NONE" THEN "wrap" ELSE "dump", NULL)
  /\ UNCHANGED <<given, tag, cache, qdata, fault, local, ar, live>>

(* One header further; the first entry of the wanted name ends the search. *)
NextHeader(c) ==
  /\ pc[c] = "scan" /\ ar[c] = "open" /\ c \in live
  /\ Entry(want[c]) # NULL
  /\ Undisturbed(c) /\ HeadersSeen(c) < Len(archive)
  /\ ReadOn(c, 2 * (HeadersSeen(c) + 1))
  /\ Goto(c, IF archive[HeadersSeen(c) + 1] # RawOf(archive, Entry(want[c])) THEN "scan"
             ELSE IF level = "NONE" THEN "wrap" ELSE "dump", NULL)
  /\ UNCHANGED <<given, tag, cache, qdata, fault, local, ar, live>>

EndOfArchive(c) ==
  /\ pc[c] = "scan" /\ ar[c] = "open" /\ c \in live
  /\ Entry(want[c]) # NULL
  /\ Undisturbed(c) /\ HeadersSeen(c) = Len(archive)
  /\ ReadOn(c, Last)
  /\ Goto(c, "release", NOT_FOUND)
  /\ UNCHANGED <<given, tag, cache, qdata, fault, local, ar, live>>

(* What a client gets when libarchive reads on where the stream stands. *)
Body(c) ==
  IF ~ Undisturbed(c) THEN Garbage
  ELSE IF pc[c] = "dump" THEN Dumped(archive, HeadersSeen(c)) ELSE HeadersSeen(c)

(***************************************************************************)
(* The body of the entry found, dumped to memory by peek_bytes or read by  *)
(* the owner of the stream (read_fn of aks_stream.c).  Both first hand the *)
(* cancellable over through the object that should own the ArchiveData.    *)
(***************************************************************************)
ReadBody(c) ==
  /\ pc[c] = "dump" \/ (pc[c] = "stream" /\ reply[c] = NULL)
  /\ c \in live
  /\ IF qdata[Holder(c)] = NULL THEN Die("null")
     ELSE /\ ReadOn(c, 2 * HeadersSeen(c) + 1)
          /\ Goto(c, IF pc[c] = "dump" THEN "release" ELSE "stream", Body(c))
          /\ UNCHANGED <<given, tag, cache, qdata, fault, local, ar, live>>

(* Mutant of Wrap: the ArchiveData is given to the stream, not taken over. *)
WrapShares(c) ==
  /\ pc[c] = "wrap"
  /\ IF qdata[file[c]] = NULL THEN Die("no data")
     ELSE /\ qdata' = [qdata EXCEPT ![c] = qdata[file[c]]]
          /\ Goto(c, "stream", NULL)
          /\ UNCHANGED <<given, stream, cache, fault, local, ar, at, live>>

(* The AksStream is made and takes the ArchiveData over from the handle. *)
Wrap(c) ==
  /\ pc[c] = "wrap"
  /\ IF qdata[file[c]] = NULL THEN Die("no data")
     ELSE /\ qdata' = [qdata EXCEPT ![c] = qdata[file[c]], ![file[c]] = NULL]
          /\ Goto(c, "stream", NULL)
          /\ UNCHANGED <<given, stream, cache, fault, local, ar, at, live>>

(* Mutant of Free: archive_close leaves the stream tagged. *)
FreeTagged(c, next) ==
  /\ ar[c] = "open" => c \in live
  /\ ar' = [ar EXCEPT ![c] = "none"]
  /\ live' = AfterFreeing(Holder(c))
  /\ qdata' = [qdata EXCEPT ![Holder(c)] = NULL]
  /\ Goto(c, next, reply[c])
  /\ UNCHANGED <<given, stream, cache, fault, local, at>>

(* Mutant of Free: the ArchiveData stays with the source object. *)
FreeKeepsData(c, next) ==
  /\ ar[c] = "open" => c \in live
  /\ tag' = IF ar[c] = "open" THEN FALSE ELSE tag
  /\ ar' = [ar EXCEPT ![c] = "none"]
  /\ Goto(c, next, reply[c])
  /\ UNCHANGED <<given, pos, cache, qdata, fault, local, at, live>>

(***************************************************************************)
(* _aks_archive_read_free: the archive is closed, which untags the stream, *)
(* and whatever ArchiveData the source object owns is freed.  The source   *)
(* object is the handle, or the stream when that is disposed of.           *)
(***************************************************************************)
Free(c, next) ==
  /\ ar[c] = "open" => c \in live
  /\ tag' = IF ar[c] = "open" THEN FALSE ELSE tag
  /\ ar' = [ar EXCEPT ![c] = "none"]
  /\ live' = AfterFreeing(Holder(c))
  /\ qdata' = [qdata EXCEPT ![Holder(c)] = NULL]
  /\ Goto(c, next, reply[c])
  /\ UNCHANGED <<given, pos, cache, fault, local, at>>

(* Mutant of Release: what peek_bytes returned is cached unchecked. *)
ReleaseUnchecked(c) == pc[c] = "release" /\ Free(c, "store")

(* Mutant of Release: a read that failed is tried again. *)
ReleaseRetries(c) ==
  pc[c] = "release" /\ Free(c, IF reply[c] \in Errors THEN "seek" ELSE "store")

Release(c) ==
  /\ pc[c] = "release"
  /\ Free(c, IF reply[c] \in Errors THEN "idle" ELSE "store")

Dispose(c) == pc[c] = "stream" /\ Free(c, "idle")

(* Mutant of Store: one cache serves all nodes. *)
StoreAtRoot(c) ==
  /\ pc[c] = "store"
  /\ cache' = [cache EXCEPT ![Root] = reply[c]]
  /\ Goto(c, "idle", reply[c])
  /\ UNCHANGED <<given, stream, qdata, fault, local, ar, at, live>>

(* read_fn keeps the bytes in the node's data, which all copies share. *)
Store(c) ==
  /\ pc[c] = "store"
  /\ cache' = [cache EXCEPT ![want[c]] = reply[c]]
  /\ Goto(c, "idle", reply[c])
  /\ UNCHANGED <<given, stream, qdata, fault, local, ar, at, live>>

-----------------------------------------------------------------------------
Progress(c) ==
  \/ Seek(c) \/ Make(c) \/ Check(c)
  \/ OpenArchive(c) \/ OpenFails(c) \/ OpenReturnsPositive(c) \/ OpenReturnsNegative(c)
  \/ UseFreed(c) \/ ReadFails(c) \/ ScanForNothing(c)
  \/ NextHeader(c) \/ EndOfArchive(c) \/ ReadBody(c)
  \/ Wrap(c) \/ Release(c) \/ Store(c)

(* Some client takes a step; a read begins only where mayBegin allows it. *)
Step(mayBegin) ==
  /\ fault = "none"
  /\ \E c \in Client :
       \/ mayBegin /\ \E f \in File, p \in Path : Begin(c, f, p)
       \/ Progress(c)
       \/ Dispose(c)

(* Clients that read when they like. *)
Next == Step(TRUE)

Spec == Init /\ [][Next]_vars

(* One thread: a read begins when the last call of g_file_read has returned. *)
OneThreadNext == Step(\A c \in Client : pc[c] \in {"idle", "stream"})

OneThreadSpec == Init /\ [][OneThreadNext]_vars

(***************************************************************************)
(* Clients that take turns: unless everything is cached, a read begins     *)
(* only when no other is under way and no AksStream is left open.          *)
(***************************************************************************)
TurnsNext == Step(level = "FULL" \/ \A c \in Client : pc[c] = "idle")

TurnsSpec == Init /\ [][TurnsNext]_vars

(* The thread that runs a read is scheduled. *)
FairTurnsSpec ==
  TurnsSpec /\ \A c \in Client : WF_vars(fault = "none" /\ Progress(c))

-----------------------------------------------------------------------------
InFlight == {"check", "open", "scan", "dump", "wrap", "release", "stream"}

(* Types of the state. *)
TypeOK ==
  /\ archive \in Archives
  /\ level \in Levels
  /\ pos \in 0 .. Last
  /\ tag \in BOOLEAN
  /\ cache \in [Path -> {NULL, Garbage} \cup BytesOf(archive)]
  /\ qdata \in [File \cup Client -> Client \cup {NULL}]
  /\ fault \in {"none", "null", "freed", "in use", "no data"}
  /\ pc \in [Client -> {"idle", "seek", "make", "store"} \cup InFlight]
  /\ file \in [Client -> File]
  /\ want \in [Client -> Path \cup {NULL}]
  /\ ar \in [Client -> {"none", "unopened", "open"}]
  /\ at \in [Client -> 0 .. Last]
  /\ live \subseteq Client
  /\ reply \in [Client -> Errors \cup {NULL, Garbage} \cup BytesOf(archive)]

(***************************************************************************)
(* The "in use" tag says what it means: it is on exactly while some        *)
(* archive object is open on the base stream.  No failing read leaves it   *)
(* on, so none makes the base stream unreadable for those that follow.     *)
(***************************************************************************)
TagExact == fault = "none" => (tag <=> \E c \in Client : ar[c] = "open")

(***************************************************************************)
(* From its creation to the freeing of its archive object an ArchiveData   *)
(* is alive and owned by exactly one object, the one the code looks for it *)
(* in: the handle, and from the hand-over on the AksStream.  Otherwise     *)
(* there is none: nothing leaks on any way out of a read.                  *)
(***************************************************************************)
OwnerExact ==
  fault = "none" => \A c \in Client :
    LET owners == {o \in File \cup Client : qdata[o] = c}
    IN  IF pc[c] \in InFlight
          THEN c \in live /\ owners = {Holder(c)}
          ELSE c \notin live /\ owners = {}

(***************************************************************************)
(* An open archive object finds the base stream where it left it, although *)
(* the stream is shared and every read rewinds it first.                   *)
(***************************************************************************)
NeverDisturbed == \A c \in Client : ar[c] = "open" => Undisturbed(c)

(* The entry a read of p leads to: the one kept when the tree was built, or *)
(* the first of the same raw pathname when the archive is scanned again.    *)
Source(p) ==
  IF level = "FULL" THEN Entry(p) ELSE FirstNamed(archive, RawOf(archive, Entry(p)))

(* What it yields: cached bytes were dumped, an AksStream is read as it is. *)
Content(p) == IF level = "NONE" THEN Source(p) ELSE Dumped(archive, Source(p))

(***************************************************************************)
(* Whichever way the bytes come, out of the cache, dumped, or through an   *)
(* AksStream, a client gets those of the path it asked for, and what is    *)
(* cached for a node is what reading it again would yield.                 *)
(***************************************************************************)
RightBytes ==
  /\ \A c \in Client : reply[c] \notin Errors \cup {NULL} => reply[c] = Content(want[c])
  /\ \A p \in Path : cache[p] # NULL => cache[p] = Content(p)

(***************************************************************************)
(* The assertions of aks_archive.c (111, 220) hold, no archive object      *)
(* works on an ArchiveData that was freed, and of the null dereferences    *)
(* all but two are out of reach: the scan, at the level NONE, for a        *)
(* directory that has no entry (441), and the scan of the NULL that a      *)
(* negative return of archive_open makes of the archive object.            *)
(***************************************************************************)
NoMisuse ==
  /\ fault \notin {"in use", "no data", "freed"}
  /\ fault = "null" => \E c \in Client :
       \/ pc[c] = "scan" /\ level = "NONE" /\ want[c] \in Node /\ Entry(want[c]) = NULL
       \/ pc[c] = "open" /\ "negative" \in OpenReturns

(***************************************************************************)
(* Also when clients do not take turns: an ArchiveData that some object    *)
(* owns has not been freed, and no two objects own it.  The races end in   *)
(* the use of freed data at worst, never in freeing it twice.              *)
(***************************************************************************)
FreedOnce ==
  \A o \in File \cup Client : qdata[o] # NULL =>
    /\ qdata[o] \in live
    /\ \A n \in File \cup Client : qdata[n] = qdata[o] => n = o

(* Also when clients do not take turns: with everything cached all goes well. *)
FullIsSafe ==
  level = "FULL" => fault = "none" /\ RightBytes /\ \A c \in Client : pc[c] = "idle"

(* Bytes once cached stay: a GBytes other readers hold is never replaced. *)
CacheStable == [][\A p \in Path : cache[p] # NULL => cache'[p] = cache[p]]_vars

(***************************************************************************)
(* Also when clients do not take turns, and several write the unguarded    *)
(* cache of a node: a path once cached stays cached, no read of it turns   *)
(* to the archive any more, and when those under way then have come back   *)
(* its bytes stay what they are.                                           *)
(***************************************************************************)
Readers(p) == {c \in Client : pc[c] # "idle" /\ want[c] = p}

CacheSettles ==
  [][\A p \in Path : cache[p] # NULL =>
       /\ cache'[p] # NULL
       /\ Readers(p)' \subseteq Readers(p)
       /\ Readers(p) = {} => cache'[p] = cache[p]]_vars

(***************************************************************************)
(* Clients that take turns see Reading: each g_file_read is answered once, *)
(* with the contents of the path asked for, whether cached, dumped or read *)
(* through an AksStream, or with the error that fits; nothing shows of the *)
(* seeks, opens and scans on the shared stream in between.                 *)
(***************************************************************************)
Asked == INSTANCE Reading WITH
  pending <- [c \in Client |-> pc[c] # "idle"],
  reply   <- [c \in Client |-> IF pc[c] \in {"idle", "stream"} THEN reply[c] ELSE NULL]

AnswersQuestions == Asked!Spec

(* A read that has begun comes back, unless the process dies. *)
ReadEnds ==
  \A c \in Client : pc[c] = "seek" ~> (pc[c] \in {"idle", "stream"} \/ fault # "none")

(***************************************************************************)
(* aks_archive.c:123, g_assert_not_reached(): no open meets a base stream  *)
(* that is in use.                                                         *)
(***************************************************************************)
NotReached == fault # "in use"

(***************************************************************************)
(* aks_archive.c:111, "Ensure stream is not in use": no two archive        *)
(* objects are open on the base stream at a time.                          *)
(***************************************************************************)
OneAtATime == \A c, d \in Client : ar[c] = "open" /\ ar[d] = "open" => c = d
=============================================================================
