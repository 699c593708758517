----------------------------- MODULE AksStream -----------------------------
(***************************************************************************)
(* The life of an archive object on top of AksArchive: it is opened and    *)
(* its headers are read by init_fn or by the reading code, which may dump  *)
(* data too; then an AksStream may take it over.  Reading and skipping on  *)
(* that (aks_stream.c) are GTasks whose thread functions (read_fn,         *)
(* skip_fn) work on the archive object while their cancellable may be      *)
(* cancelled from another thread; GInputStream admits one operation at a   *)
(* time, and none of no bytes.                                             *)
(***************************************************************************)
EXTENDS AksArchive

CONSTANTS
  MaxLength,  (* bound on the length of the entry                          *)
  MaxCount,   (* bound on what one operation asks for                      *)
  Block       (* sizeof(skipb): what one turn of the skip loop asks for    *)

ASSUME BoundAssumption ==
  MaxLength \in Nat /\ MaxCount \in Nat /\ Block \in Nat \ {0}

ASSUME CancellableAssumption == NULL \notin {"opener", "op"}

VARIABLES
  phase,      (* "opening", "exploring", "stream" or "freed"               *)
  cancellable, (* ArchiveData.cancellable: NULL, "opener"'s, or the "op"'s *)
  length,     (* bytes of the entry                                        *)
  consumed,   (* bytes libarchive has handed out                           *)
  op,         (* "none", "read" or "skip": the operation under way         *)
  stage,      (* its thread function is at work, or its GTask returned     *)
  left,       (* bytes still asked for                                     *)
  got,        (* bytes the operation will report                           *)
  failed,     (* its GTask was told to return an error                     *)
  cancelled,  (* its cancellable was cancelled                             *)
  handed,     (* bytes reported to the client so far                       *)
  trouble     (* some operation was answered with an error                 *)

entry   == <<length, consumed>>
task    == <<op, stage, left, got, failed, cancelled>>
client  == <<handed, trouble>>
vars    == <<archive, phase, cancellable, entry, task, client>>

(* _aks_archive_read_make, with the cancellable of whoever calls it. *)
Init ==
  /\ ArchiveInit
  /\ phase = "opening"
  /\ cancellable \in {NULL, "opener"}
  /\ length \in 0 .. MaxLength
  /\ consumed = 0
  /\ op = "none" /\ stage = "idle" /\ left = 0 /\ got = 0
  /\ failed = FALSE /\ cancelled = FALSE
  /\ handed = 0 /\ trouble = FALSE

(* What libarchive does with the base stream during any call. *)
BaseIO == Callback /\ UNCHANGED <<phase, cancellable, entry, task, client>>

(* init_fn, skip_til_entry and dump_to_stream call for headers and data. *)
Explore ==
  /\ phase = "exploring"
  /\ \E kind \in {"header", "data"} : BeginCall(kind)
  /\ UNCHANGED <<phase, cancellable, entry, task, client>>

Explored ==
  /\ phase \in {"opening", "exploring"}
  /\ Succeed
  /\ phase' = "exploring"
  /\ UNCHANGED <<cancellable, entry, task, client>>

(* The archive is given up with the first call that fails. *)
ExploreFails ==
  /\ phase \in {"opening", "exploring"}
  /\ GiveUp
  /\ phase' = "freed"
  /\ UNCHANGED <<cancellable, entry, task, client>>

(* peek_stream makes an AksStream; that takes a stream that can seek. *)
Wrap ==
  /\ phase = "exploring" /\ call = "none" /\ seekable
  /\ phase' = "stream"
  /\ UNCHANGED <<archive, cancellable, entry, task, client>>

(* _aks_archive_read_free: at the end of a read, or in dispose. *)
Free ==
  /\ phase \in {"exploring", "stream"} /\ call = "none" /\ op = "none"
  /\ phase' = "freed"
  /\ UNCHANGED <<archive, cancellable, entry, task, client>>

(***************************************************************************)
(* g_input_stream_read, _skip and their asynchronous forms: the thread     *)
(* function arms the ArchiveData and makes its first call.                 *)
(***************************************************************************)
Start(kind, n) ==
  /\ phase = "stream" /\ op = "none"
  /\ BeginCall("data")
  /\ op' = kind /\ stage' = "work"
  /\ left' = n /\ got' = 0 /\ failed' = FALSE /\ cancelled' = FALSE
  /\ cancellable' = "op"
  /\ UNCHANGED <<phase, entry, client>>

Cancel ==
  /\ op # "none" /\ ~ cancelled
  /\ cancelled' = TRUE
  /\ UNCHANGED <<archive, phase, cancellable, entry, op, stage, left, got, failed, client>>

(* archive_read_data hands out as much as was asked for or is left. *)
Take(n) ==
  /\ consumed' = consumed + n
  /\ left' = left - n
  /\ got' = got + n

(* read_fn: one call of archive_read_data. *)
ReadData ==
  /\ op = "read" /\ stage = "work"
  /\ Succeed
  /\ Take(Min({left, length - consumed}))
  /\ stage' = "returned"
  /\ cancellable' = NULL
  /\ UNCHANGED <<phase, length, op, failed, cancelled, client>>

(* Mutant of SkipBlock: every turn asks for a whole block. *)
SkipBlockWhole ==
  /\ op = "skip" /\ stage = "work"
  /\ Succeed
  /\ Take(Min({Block, length - consumed}))
  /\ UNCHANGED <<phase, cancellable, length, op, stage, failed, cancelled, client>>

(* Mutant of SkipBlock: only the last turn is reported. *)
SkipBlockLast ==
  /\ op = "skip" /\ stage = "work"
  /\ Succeed
  /\ LET n == Min({left, Block, length - consumed})
     IN  consumed' = consumed + n /\ left' = left - n /\ got' = n
  /\ UNCHANGED <<phase, cancellable, length, op, stage, failed, cancelled, client>>

(* Mutant of SkipBlock: what was skipped is not taken off the count. *)
SkipBlockUncounted ==
  /\ op = "skip" /\ stage = "work"
  /\ Succeed
  /\ LET n == Min({left, Block, length - consumed})
     IN  consumed' = consumed + n /\ left' = left /\ got' = Min({got + n, MaxCount})
  /\ UNCHANGED <<phase, cancellable, length, op, stage, failed, cancelled, client>>

(* skip_fn: one turn of the loop.  At the end of the entry it takes nothing. *)
SkipBlock ==
  /\ op = "skip" /\ stage = "work"
  /\ Succeed
  /\ Take(Min({left, Block, length - consumed}))
  /\ UNCHANGED <<phase, cancellable, length, op, stage, failed, cancelled, client>>

SkipAgain ==
  /\ op = "skip" /\ stage = "work"
  /\ left # 0
  /\ BeginCall("data")
  /\ UNCHANGED <<phase, cancellable, entry, task, client>>

SkipDone ==
  /\ op = "skip" /\ stage = "work" /\ call = "none"
  /\ left = 0
  /\ stage' = "returned"
  /\ cancellable' = NULL
  /\ UNCHANGED <<archive, phase, entry, op, left, got, failed, cancelled, client>>

(* Mutant of Fail: the error path leaves the cancellable behind. *)
FailArmed ==
  /\ stage = "work"
  /\ GiveUp
  /\ failed' = TRUE
  /\ stage' = "returned"
  /\ UNCHANGED <<phase, cancellable, entry, op, left, got, cancelled, client>>

(* archive_read_data fails: the GTask gets the error of the archive glue. *)
Fail ==
  /\ stage = "work"
  /\ GiveUp
  /\ failed' = TRUE
  /\ stage' = "returned"
  /\ cancellable' = NULL
  /\ UNCHANGED <<phase, entry, op, left, got, cancelled, client>>

(* g_task_propagate_int: a late cancellation turns success into an error. *)
Answer ==
  /\ stage = "returned"
  /\ IF failed \/ cancelled
       THEN trouble' = TRUE /\ handed' = handed
       ELSE trouble' = trouble /\ handed' = handed + got
  /\ op' = "none" /\ stage' = "idle"
  /\ UNCHANGED <<archive, phase, cancellable, entry, left, got, failed, cancelled>>

(* What the worker thread and the GTask do of themselves. *)
Work ==
  \/ ReadData \/ SkipBlock \/ SkipAgain \/ SkipDone
  \/ fatal /\ Fail
  \/ Answer

(* A freed archive object is not used again. *)
Freed == phase = "freed" /\ UNCHANGED vars

Next ==
  \/ BaseIO
  \/ Explore \/ Explored \/ ExploreFails \/ Wrap \/ Free
  \/ \E kind \in {"read", "skip"}, n \in 1 .. MaxCount : Start(kind, n)
  \/ Cancel
  \/ Fail
  \/ Work
  \/ Freed

Spec == Init /\ [][Next]_vars

(***************************************************************************)
(* libarchive returns from its calls, the thread function runs on and the  *)
(* GTask answers.  Nothing obliges the archive to fail that has not failed *)
(* yet, nor anybody to cancel.                                             *)
(***************************************************************************)
FairSpec == Spec /\ WF_vars(Work)

-----------------------------------------------------------------------------
(* Types of the state. *)
TypeOK ==
  /\ ArchiveTypeOK
  /\ phase \in {"opening", "exploring", "stream", "freed"}
  /\ cancellable \in {NULL, "opener", "op"}
  /\ length \in 0 .. MaxLength /\ consumed \in 0 .. length
  /\ op \in {"none", "read", "skip"} /\ stage \in {"idle", "work", "returned"}
  /\ left \in 0 .. MaxCount /\ got \in 0 .. MaxCount
  /\ failed \in BOOLEAN /\ cancelled \in BOOLEAN
  /\ handed \in 0 .. length /\ trouble \in BOOLEAN

(***************************************************************************)
(* As long as no operation was answered with an error, the client has been *)
(* told of every byte that left the archive: reads and skips follow one    *)
(* another without a gap.  (After an error, also that of a cancellation    *)
(* which came too late, bytes are lost and the client cannot know.)        *)
(***************************************************************************)
NoGap ==
  ~ trouble => consumed = handed + (IF op = "none" THEN 0 ELSE got)

(***************************************************************************)
(* The IO of an operation is under its own cancellable, never under that   *)
(* of who opened the archive or of an operation before it; and none is     *)
(* left behind when an operation ends, however it came to its end.         *)
(***************************************************************************)
Disarmed ==
  /\ phase = "stream" /\ call # "none" => cancellable = "op"
  /\ cancellable = "op" => stage = "work"

(***************************************************************************)
(* Every read comes back, and so does every skip that asks for no more     *)
(* than the entry has left.  (A longer one turns for ever.)                *)
(***************************************************************************)
OperationsEnd == (op = "read" \/ left <= length - consumed) ~> op = "none"
=============================================================================
