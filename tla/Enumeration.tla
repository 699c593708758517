----------------------------- MODULE Enumeration -----------------------------
(***************************************************************************)
(* What an enumeration promises, without saying how it is done: of the     *)
(* node it was made for every child that has an entry is yielded once, and *)
(* the end is announced when nothing is left to yield.                     *)
(***************************************************************************)
EXTENDS AksListing

CONSTANTS
  Enum,     (* the enumerators                                             *)
  Archives  (* the archives that may have been opened                      *)

VARIABLES
  archive,  (* the archive                                                 *)
  dir,      (* the path whose children are enumerated, NULL for none       *)
  yielded,  (* the paths yielded so far                                    *)
  ended     (* the end was reached: there is no further call               *)

vars == <<archive, dir, yielded, ended>>

Listed(d) ==
  {q \in NodesAfter(archive, Len(archive)) \ {Root} :
     ParentOf[q] = d /\ LastEntry(archive, Len(archive), q) # NULL}

Init ==
  /\ archive \in Archives
  /\ dir = [e \in Enum |-> NULL]
  /\ yielded = [e \in Enum |-> {}]
  /\ ended = [e \in Enum |-> FALSE]

(* The end may be reached only if what was yielded is all. *)
EndAt(e, S) ==
  \E last \in {FALSE, S = Listed(dir'[e])} : ended' = [ended EXCEPT ![e] = last]

Open(e) ==
  /\ dir[e] = NULL
  /\ \E d \in Path : dir' = [dir EXCEPT ![e] = d]
  /\ EndAt(e, {})
  /\ UNCHANGED <<archive, yielded>>

Yield(e) ==
  /\ dir[e] # NULL /\ ~ ended[e]
  /\ \E q \in Listed(dir[e]) \ yielded[e] :
       yielded' = [yielded EXCEPT ![e] = @ \cup {q}]
  /\ UNCHANGED <<archive, dir>>
  /\ EndAt(e, yielded'[e])

(* A child without an entry is an error and no more. *)
Fail(e) ==
  /\ dir[e] # NULL /\ ~ ended[e]
  /\ UNCHANGED <<archive, dir, yielded>>
  /\ EndAt(e, yielded[e])

Close(e) ==
  /\ dir[e] # NULL
  /\ dir' = [dir EXCEPT ![e] = NULL]
  /\ yielded' = [yielded EXCEPT ![e] = {}]
  /\ ended' = [ended EXCEPT ![e] = FALSE]
  /\ UNCHANGED archive

Next == \E e \in Enum : Open(e) \/ Yield(e) \/ Fail(e) \/ Close(e)

Spec == Init /\ [][Next]_vars
=============================================================================
