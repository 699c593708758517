----------------------------- MODULE Catalogue -----------------------------
(***************************************************************************)
(* What opening an archive promises, without saying how it is done: the    *)
(* caller either gets, in one step, a handle on the complete catalogue of  *)
(* the archive, or is told that there is none.  Nobody ever holds a        *)
(* catalogue of half an archive.                                           *)
(***************************************************************************)
EXTENDS AksListing

CONSTANTS
  Archives,  (* the archives that may lie under the base stream            *)
  Refused    (* the view of a caller that was given an error               *)

VARIABLES
  archive,   (* the archive being opened                                   *)
  filename,  (* the path asked for, NULL when none is                      *)
  view       (* what the caller has: NULL until it is answered             *)

vars == <<archive, filename, view>>

(* The node a path leads to in the tree of the whole archive. *)
NodeAt(a, f) == IF f \in NodesAfter(a, Len(a)) THEN f ELSE NULL

(* The complete catalogue of archive a, opened at path f. *)
CatalogueOf(a, f) ==
  [nodes   |-> NodesAfter(a, Len(a)),
   entry   |-> [p \in Path |-> LastEntry(a, Len(a), p)],
   current |-> NodeAt(a, f)]

Init ==
  /\ archive \in Archives
  /\ filename \in Path \cup {NULL}
  /\ view = NULL

Publish ==
  /\ view = NULL
  /\ view' = CatalogueOf(archive, filename)
  /\ UNCHANGED <<archive, filename>>

Refuse ==
  /\ view = NULL
  /\ view' = Refused
  /\ UNCHANGED <<archive, filename>>

Next == Publish \/ Refuse

Spec == Init /\ [][Next]_vars
=============================================================================
