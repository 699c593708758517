----------------------------- MODULE AksArchive -----------------------------
(***************************************************************************)
(* aks_archive.c: one archive object, its ArchiveData, and the callbacks   *)
(* through which libarchive reads the base stream.  The client makes one   *)
(* call of libarchive at a time (open, header, data); within it libarchive *)
(* calls back as it likes, and then returns well or with an error, which   *)
(* _aks_archive_get_gerror turns into the GError that is reported.         *)
(*                                                                         *)
(* The archive lies in the base stream from position start to the end.  at *)
(* is where libarchive believes to be: it counts what read and skip tell   *)
(* it from 0 on, and takes what seek tells it.                             *)
(***************************************************************************)
EXTENDS Naturals, FiniteSetsExt

CONSTANTS
  MaxStart,  (* bound on where the archive begins                          *)
  MaxSize,   (* bound on its size                                          *)
  LaBlock,   (* LA_BLOCK_SIZE                                              *)
  NULL

ASSUME BaseAssumption ==
  MaxStart \in Nat /\ MaxSize \in Nat /\ LaBlock \in Nat \ {0}

ASSUME ErrorAssumption == NULL \notin {"own", "stale"}

VARIABLES
  start,      (* AksFile.start_position                                    *)
  size,       (* bytes of the archive                                      *)
  seekable,   (* g_seekable_can_seek of the base stream                    *)
  pos,        (* position of the base stream                               *)
  at,         (* libarchive's idea of it                                   *)
  seeked,     (* history: a seek succeeded                                 *)
  error,      (* ArchiveData.error: NULL, "own" (stored in this call) or   *)
              (* "stale" (in an earlier one)                               *)
  errno,      (* archive_errno(ar) # ARCHIVE_OK                            *)
  call,       (* the call of libarchive under way                          *)
  struck,     (* a callback failed in this call                            *)
  swallowed,  (* history: libarchive went on after a callback that failed  *)
  fatal,      (* the archive object has failed for good                    *)
  answer      (* what the last call came to: "ok" or the error reported    *)

base    == <<start, size, seekable>>
course  == <<pos, at, seeked>>
slot    == <<error, errno, struck, swallowed>>
archive == <<base, course, slot, call, fatal, answer>>

End == start + size

(* read_make: the object is made and archive_read_open1 is called. *)
ArchiveInit ==
  /\ start \in 0 .. MaxStart /\ size \in 0 .. MaxSize /\ seekable \in BOOLEAN
  /\ pos = start /\ at = 0 /\ seeked = FALSE
  /\ error = NULL /\ errno = FALSE /\ struck = FALSE /\ swallowed = FALSE
  /\ call = "open" /\ fatal = FALSE /\ answer = "none"

(* archive_read_next_header, archive_read_data, archive_read_data_block. *)
BeginCall(kind) ==
  /\ call = "none"
  /\ call' = kind
  /\ error' = IF error = NULL THEN NULL ELSE "stale"
  /\ errno' = IF kind = "header" THEN FALSE ELSE errno
  /\ struck' = FALSE
  /\ answer' = "none"
  /\ UNCHANGED <<base, course, swallowed, fatal>>

-----------------------------------------------------------------------------
(* Callbacks. *)
Working == call # "none" /\ ~ fatal

Advance(n) ==
  /\ pos' = pos + n
  /\ at' = at + n
  /\ UNCHANGED <<base, seeked, slot, call, fatal, answer>>

(* archive_read: a whole block unless the base stream ends before. *)
ReadCallback == Working /\ Advance(Min({LaBlock, End - pos}))

(* Mutant of SkipCallback: what was asked for is returned, not what was done. *)
SkipCallbackRequest ==
  /\ Working
  /\ \E request \in 1 .. MaxSize :
       /\ pos' = pos + Min({request, End - pos})
       /\ at' = at + request
  /\ UNCHANGED <<base, seeked, slot, call, fatal, answer>>

(* archive_skip: g_input_stream_skip may do less than it is asked for. *)
SkipCallback == Working /\ \E n \in 0 .. End - pos : Advance(n)

(***************************************************************************)
(* archive_seek: offsets count from the beginning, the position or the end *)
(* of the base stream, and so does the position that is returned.          *)
(***************************************************************************)
SeekCallback ==
  /\ Working /\ seekable
  /\ \E target \in 0 .. End : pos' = target /\ at' = target
  /\ seeked' = TRUE
  /\ UNCHANGED <<base, slot, call, fatal, answer>>

(* A callback stores its GError, over what is there. *)
StoreError == error' = "own" /\ struck' = TRUE

(***************************************************************************)
(* archive_read or archive_skip fails, or was cancelled; part of the block *)
(* may have been read.  libarchive does not recover from that.             *)
(***************************************************************************)
ReadFails ==
  /\ Working
  /\ \E n \in 0 .. Min({LaBlock, End - pos}) : pos' = pos + n
  /\ StoreError
  /\ fatal' = TRUE
  /\ UNCHANGED <<base, at, seeked, errno, swallowed, call, answer>>

(***************************************************************************)
(* archive_seek fails, always so when the base stream cannot seek.  A      *)
(* format that only bids for the archive then leaves it to others; one     *)
(* that reads it gives up.                                                 *)
(***************************************************************************)
SeekFails ==
  /\ Working
  /\ StoreError
  /\ IF call = "open" THEN swallowed' = TRUE /\ fatal' = fatal
     ELSE swallowed' = swallowed /\ fatal' = TRUE
  /\ UNCHANGED <<base, course, errno, call, answer>>

Callback ==
  ReadCallback \/ SkipCallback \/ SeekCallback \/ ReadFails \/ SeekFails

-----------------------------------------------------------------------------
(* The call returns. *)
Succeed ==
  /\ Working
  /\ call' = "none" /\ answer' = "ok"
  /\ UNCHANGED <<base, course, slot, fatal>>

(* Mutant of GetGError: the pending error is looked at and left. *)
GetGErrorKeep(no) ==
  /\ answer' = IF error # NULL THEN error ELSE IF no THEN "libarchive" ELSE "null"
  /\ error' = error

(* Mutant of GetGError: libarchive is asked first. *)
GetGErrorLast(no) ==
  /\ answer' = IF no THEN "libarchive" ELSE IF error # NULL THEN error ELSE "null"
  /\ error' = NULL

(* _aks_archive_get_gerror: the pending error is stolen; else archive_errno. *)
GetGError(no) ==
  /\ answer' = IF error # NULL THEN error ELSE IF no THEN "libarchive" ELSE "null"
  /\ error' = NULL

(***************************************************************************)
(* libarchive sets its own error when a call fails of itself, and may do   *)
(* so when a callback failed.  It may recover from its own failures.       *)
(***************************************************************************)
GiveUp ==
  /\ call # "none"
  /\ \E no \in IF struck THEN {errno, TRUE} ELSE {TRUE} :
       errno' = no /\ GetGError(no)
  /\ fatal' \in {fatal, TRUE}
  /\ call' = "none"
  /\ UNCHANGED <<base, course, struck, swallowed>>

-----------------------------------------------------------------------------
(* Types of the state. *)
ArchiveTypeOK ==
  /\ start \in 0 .. MaxStart /\ size \in 0 .. MaxSize
  /\ pos \in 0 .. End /\ at \in 0 .. End
  /\ seekable \in BOOLEAN /\ seeked \in BOOLEAN
  /\ error \in {NULL, "own", "stale"}
  /\ errno \in BOOLEAN /\ struck \in BOOLEAN /\ swallowed \in BOOLEAN
  /\ call \in {"none", "open", "header", "data"} /\ fatal \in BOOLEAN
  /\ answer \in {"none", "ok", "own", "stale", "libarchive"}

(***************************************************************************)
(* libarchive's idea of the position is that in the archive, for archives  *)
(* at the beginning of their stream and for formats that do not seek.      *)
(* (A seek in an archive that begins elsewhere lands start bytes early.)   *)
(***************************************************************************)
Aligned == ~ fatal /\ (start = 0 \/ ~ seeked) => pos = start + at

(***************************************************************************)
(* When the base stream failed in the call that failed, its error is what  *)
(* is reported; when it did not, an error it left before is reported only  *)
(* if libarchive has gone on after it.                                     *)
(***************************************************************************)
CauseReported ==
  /\ answer \notin {"none", "ok"} /\ struck => answer = "own"
  /\ answer \notin {"none", "ok"} /\ ~ struck /\ ~ swallowed => answer = "libarchive"

(***************************************************************************)
(* No error is left pending between calls, to be reported for something    *)
(* else or warned of in archive_data_free, unless libarchive went on after *)
(* a callback that failed.                                                 *)
(***************************************************************************)
NothingPending == call = "none" /\ ~ swallowed => error = NULL
=============================================================================
