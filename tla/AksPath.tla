------------------------------ MODULE AksPath ------------------------------
(***************************************************************************)
(* What a client learns from handles: their paths and names, their hash,   *)
(* and the children it gets by walking a directory as test/test.c does.    *)
(* AksFile moves the handles; this module adds the path that GFile caches  *)
(* for each of them (g_file_peek_path: basename, parse name, hash and the  *)
(* "filename" property are read from it).                                  *)
(***************************************************************************)
EXTENDS AksFile

CONSTANTS
  Name,    (* file names, and what the last component of a raw name may be *)
  LeafOf,  (* the last component of a path                                 *)
  BaseOf,  (* g_path_get_basename of a raw pathname                        *)
  Under    (* the path that a path and a name below it come to             *)

ASSUME NamesAssumption ==
  /\ LeafOf \in [Path \ {Root} -> Name]
  /\ BaseOf \in [Raw -> Name]
  /\ Under \in [Path -> [Name -> Path \cup {NULL}]]
  /\ \A p \in Path \ {Root} : Under[ParentOf[p]][LeafOf[p]] = p

(* A path has finitely many components. *)
ASSUME DepthAssumption == \A p \in Path : IsFiniteSet(Lineage[p])

VARIABLES
  peeked,  (* the path that GFile has cached for a handle                  *)
  stale,   (* history: the handle was renamed after that                   *)
  offered  (* history: the child a handle was to be, when it was got       *)
           (* from an enumerator that stood where its container does       *)

known    == <<peeked, stale, offered>>
pathVars == <<vars, known>>

PathInit ==
  /\ Init
  /\ peeked = [h \in Handle |-> NULL]
  /\ stale = [h \in Handle |-> FALSE]
  /\ offered = [h \in Handle |-> NULL]

(* bringup_path up to the root: the names from below it down to node n. *)
BringupPath(n) ==
  LET up[p \in Path] == IF p = Root THEN << >> ELSE Append(up[ParentOf[p]], LeafOf[p])
  IN  up[n]

GetPath(h) == IF current[h] = NULL THEN NULL ELSE BringupPath(PathOf(current[h]))

(* Mutant of PeekPath: what is cached is the filename. *)
PeekPathFilename(h) ==
  /\ h \in held
  /\ IF peeked[h] = NULL /\ current[h] = NULL THEN Die("null") /\ UNCHANGED known
     ELSE IF peeked[h] = NULL /\ Dangling(current[h]) THEN Die("freed") /\ UNCHANGED known
     ELSE /\ peeked' = [peeked EXCEPT ![h] =
               IF @ = NULL THEN BringupPath(filename[h]) ELSE @]
          /\ UNCHANGED <<vars, stale, offered>>

(***************************************************************************)
(* hash, basename, parse name and the property "filename": the path is     *)
(* asked for once and then kept.  Where a handle stands on no node there   *)
(* is none, and hash looks into NULL.                                      *)
(***************************************************************************)
PeekPath(h) ==
  /\ h \in held
  /\ IF peeked[h] = NULL /\ current[h] = NULL THEN Die("null") /\ UNCHANGED known
     ELSE IF peeked[h] = NULL /\ Dangling(current[h]) THEN Die("freed") /\ UNCHANGED known
     ELSE /\ peeked' = [peeked EXCEPT ![h] = IF @ = NULL THEN GetPath(h) ELSE @]
          /\ UNCHANGED <<vars, stale, offered>>

(* The cached path outlives the name it was made for. *)
Rename(h, p) ==
  /\ SetFilename(h, p)
  /\ stale' = [stale EXCEPT ![h] = peeked[h] # NULL]
  /\ offered' = [offered EXCEPT ![h] = NULL]
  /\ UNCHANGED peeked

(***************************************************************************)
(* query_info on a handle without an entry gives an error and, on its way  *)
(* out, an attribute matcher back that was never made.                     *)
(***************************************************************************)
QueryInfoInvalid(h) ==
  /\ h \in held
  /\ current[h] # NULL => ~ Dangling(current[h]) /\ EntryOf(PathOf(current[h])) = NULL
  /\ Die("garbage")
  /\ UNCHANGED known

(* standard::name of the node of path q: of the entry that it has. *)
NameOf(q) == BaseOf[RawOf(archive, EntryOf(q))]

(***************************************************************************)
(* g_file_enumerator_get_child, for a child whose information next_file    *)
(* gave: its name is resolved from the enumerator's container.             *)
(***************************************************************************)
GetChild(e, q) ==
  LET h == container[e] IN
    /\ q \in yielded[e] /\ current[h] # NULL
    /\ LET p == Under[PathOf(current[h])][NameOf(q)] IN
         /\ p # NULL
         /\ ResolveFrom(h, p)
    /\ offered' = IF made' = made THEN offered
                  ELSE [offered EXCEPT ![made + 1] =
                          IF PathOf(current[h]) = PathOf(listing[e]) THEN q ELSE NULL]
    /\ UNCHANGED <<peeked, stale>>

PathNext ==
  /\ fault = "none"
  /\ \/ Calls /\ UNCHANGED known
     \/ \E h \in held :
          \/ PeekPath(h) \/ QueryInfoInvalid(h)
          \/ \E p \in Path : Rename(h, p)
     \/ \E e \in Enum : \E q \in yielded[e] : GetChild(e, q)

PathSpec == PathInit /\ [][PathNext]_pathVars

-----------------------------------------------------------------------------
(* Types of the state. *)
PathTypeOK ==
  /\ TypeOK
  /\ peeked \in [Handle -> {NULL} \cup {BringupPath(p) : p \in Path}]
  /\ stale \in [Handle -> BOOLEAN]
  /\ offered \in [Handle -> Path \cup {NULL}]

Intact(h) == h \in held /\ current[h] # NULL /\ ~ Dangling(current[h])

(* The path that the handle gives: the cached one, else that of its node. *)
Shown(h) == IF peeked[h] # NULL THEN peeked[h] ELSE GetPath(h)

(* The path that names lead to from p. *)
Follow(p, names) ==
  LET at[i \in 0 .. Len(names)] == IF i = 0 THEN p ELSE Under[at[i - 1]][names[i]]
  IN  at[Len(names)]

(***************************************************************************)
(* The path a handle gives, and hashes, leads to the node it stands on, in *)
(* whatever way it came there and whenever it was first asked, unless it   *)
(* was renamed after that.  (Handles that are equal then hash alike.)      *)
(***************************************************************************)
PeekTells ==
  \A h \in held : Intact(h) /\ ~ stale[h] => Follow(Root, Shown(h)) = PathOf(current[h])

(***************************************************************************)
(* A child got by listing a directory is the child that was listed, if the *)
(* last entry of that path was not spelt with a dot at its end and no      *)
(* handle comes from get_parent.                                           *)
(***************************************************************************)
ListedChildFound ==
  \A g \in 1 .. made :
    LET q == offered[g] IN
      q # NULL /\ ~ climbed[g] /\ NameOf(q) = LeafOf[q] =>
        current[g] # NULL /\ PathOf(current[g]) = q
=============================================================================
