------------------------------ MODULE Reading ------------------------------
(***************************************************************************)
(* What g_file_read promises, without saying how it is done: each question *)
(* has one answer, which is the contents of the path or the error that     *)
(* fits.  At the level NONE the client is given a stream, which it may     *)
(* also close unread.                                                      *)
(***************************************************************************)
EXTENDS AksListing

CONSTANTS
  Client,     (* the activities that read                                  *)
  Archives,   (* the archives that may lie under the base stream           *)
  INVAL,      (* the file is none that could be read                       *)
  NOT_FOUND,  (* the archive has no entry of that name                     *)
  IO          (* the archive could not be read                             *)

VARIABLES
  archive,    (* the archive                                               *)
  level,      (* "NONE", "OTF" or "FULL": what is kept of its contents     *)
  pending,    (* the client waits for its answer, or has a stream open     *)
  want,       (* the path it asked for                                     *)
  reply       (* the answer, NULL until it has one                         *)

given == <<archive, level>>
vars  == <<given, pending, want, reply>>

Node == NodesAfter(archive, Len(archive))
Entry(p) == LastEntry(archive, Len(archive), p)

(* Whether there is something to read: lazily even the root may be tried. *)
Readable(p) ==
  /\ p \in Node
  /\ level = "NONE" \/ Entry(p) # NULL
  /\ level = "FULL" => Entry(p) # RootEntry

(***************************************************************************)
(* The entry a read of p leads to: the one kept when the tree was built,   *)
(* or the first of that raw pathname when it is looked for again.  It is   *)
(* dumped to memory unless the client reads it through a stream.           *)
(***************************************************************************)
Source(p) ==
  IF level = "FULL" THEN Entry(p) ELSE FirstNamed(archive, RawOf(archive, Entry(p)))

Content(p) == IF level = "NONE" THEN Source(p) ELSE Dumped(archive, Source(p))

(***************************************************************************)
(* The answers there are.  With everything cached nothing can go wrong.    *)
(***************************************************************************)
Answers(p) ==
  IF ~ Readable(p) THEN {INVAL}
  ELSE IF level = "FULL" THEN {Content(p)}
  ELSE IF Entry(p) = NULL THEN {IO}
  ELSE {IO, IF Content(p) = NULL THEN NOT_FOUND ELSE Content(p)}

Init ==
  /\ archive \in Archives
  /\ level \in {"NONE", "OTF", "FULL"}
  /\ pending = [c \in Client |-> FALSE]
  /\ want = [c \in Client |-> NULL]
  /\ reply = [c \in Client |-> NULL]

(* A question that is answered at once. *)
AskAndTell(c, p) ==
  /\ ~ pending[c]
  /\ want' = [want EXCEPT ![c] = p]
  /\ \E r \in Answers(p) : reply' = [reply EXCEPT ![c] = r]
  /\ UNCHANGED <<given, pending>>

Ask(c, p) ==
  /\ ~ pending[c]
  /\ pending' = [pending EXCEPT ![c] = TRUE]
  /\ want' = [want EXCEPT ![c] = p]
  /\ reply' = [reply EXCEPT ![c] = NULL]
  /\ UNCHANGED given

(* The answer; a stream that was read stays open. *)
Tell(c) ==
  /\ pending[c] /\ reply[c] = NULL
  /\ \E r \in Answers(want[c]) : reply' = [reply EXCEPT ![c] = r]
  /\ pending' = [pending EXCEPT ![c] = FALSE] \/ (level = "NONE" /\ pending' = pending)
  /\ UNCHANGED <<given, want>>

Close(c) ==
  /\ pending[c] /\ level = "NONE"
  /\ pending' = [pending EXCEPT ![c] = FALSE]
  /\ UNCHANGED <<given, want, reply>>

Next ==
  \E c \in Client :
    Tell(c) \/ Close(c) \/ \E p \in Path : Ask(c, p) \/ AskAndTell(c, p)

Spec == Init /\ [][Next]_vars
=============================================================================
