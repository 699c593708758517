------------------------------ MODULE AksNode ------------------------------
(***************************************************************************)
(* aks_file_node.c: the reference count of the data of nodes.  All copies  *)
(* of a handle share the data of their nodes; dup takes a reference to     *)
(* each datum of the tree (g_node_copy_deep), dispose gives each back.     *)
(* The count is a grefcount: it is loaded, changed, and stored, and        *)
(* another thread may count on the same datum in between.                  *)
(***************************************************************************)
EXTENDS Naturals, FiniteSets

CONSTANTS
  Node,    (* the data of the nodes of one archive                         *)
  Thread,  (* the threads that copy and drop handles                       *)
  Handle,  (* the handles that are ever made on the archive; bounds copies *)
  NULL

ASSUME FiniteAssumption == IsFiniteSet(Handle) /\ IsFiniteSet(Thread)

ASSUME NullAssumption == NULL \notin Node \cup Handle

VARIABLES
  refs,    (* FileNodeData.refs                                            *)
  freed,   (* the data that was freed                                      *)
  tree,    (* the data that the nodes of a handle's tree point to          *)
  status,  (* "unborn", "copying", "held", "dropping" or "gone"            *)
  doing,   (* what a thread does: "idle", "copy" or "drop"                 *)
  subject, (* the handle it makes or disposes of                           *)
  origin,  (* the handle it copies                                         *)
  todo,    (* the data it has still to count                               *)
  at,      (* the datum it is counting on                                  *)
  loaded,  (* the count it has loaded                                      *)
  raced,   (* history: data that two threads counted on at once            *)
  hurt     (* history: data that was used after it was freed               *)

data   == <<refs, freed, tree>>
job    == <<doing, subject, origin, todo>>
count  == <<at, loaded>>
marks  == <<raced, hurt>>
vars   == <<data, status, job, count, marks>>

(* The first handle: aks_file_new built its tree, with one reference each. *)
Init ==
  /\ \E h \in Handle :
       /\ status = [g \in Handle |-> IF g = h THEN "held" ELSE "unborn"]
       /\ tree = [g \in Handle |-> IF g = h THEN Node ELSE {}]
  /\ refs = [n \in Node |-> 1]
  /\ freed = {}
  /\ doing = [t \in Thread |-> "idle"]
  /\ subject = [t \in Thread |-> NULL]
  /\ origin = [t \in Thread |-> NULL]
  /\ todo = [t \in Thread |-> {}]
  /\ at = [t \in Thread |-> NULL]
  /\ loaded = [t \in Thread |-> 0]
  /\ raced = {} /\ hurt = {}

(* g_file_dup of h, which the caller goes on holding; g is the new handle. *)
BeginCopy(t, h, g) ==
  /\ doing[t] = "idle"
  /\ status[h] = "held" /\ status[g] = "unborn"
  /\ doing' = [doing EXCEPT ![t] = "copy"]
  /\ subject' = [subject EXCEPT ![t] = g]
  /\ origin' = [origin EXCEPT ![t] = h]
  /\ todo' = [todo EXCEPT ![t] = tree[h]]
  /\ status' = [status EXCEPT ![g] = "copying"]
  /\ UNCHANGED <<data, count, marks>>

(* The last reference to h goes, when nobody is copying from it. *)
BeginDrop(t, h) ==
  /\ doing[t] = "idle"
  /\ status[h] = "held"
  /\ \A u \in Thread : origin[u] # h
  /\ doing' = [doing EXCEPT ![t] = "drop"]
  /\ subject' = [subject EXCEPT ![t] = h]
  /\ todo' = [todo EXCEPT ![t] = tree[h]]
  /\ status' = [status EXCEPT ![h] = "dropping"]
  /\ UNCHANGED <<data, origin, count, marks>>

(***************************************************************************)
(* The load of g_ref_count_inc or _dec.  To load from freed data, or while *)
(* another thread is between load and store of the same count, is noted.   *)
(***************************************************************************)
Load(t, n) ==
  /\ at[t] = NULL /\ n \in todo[t]
  /\ at' = [at EXCEPT ![t] = n]
  /\ loaded' = [loaded EXCEPT ![t] = refs[n]]
  /\ todo' = [todo EXCEPT ![t] = @ \ {n}]
  /\ raced' = IF \E u \in Thread : at[u] = n THEN raced \cup {n} ELSE raced
  /\ hurt' = IF n \in freed THEN hurt \cup {n} ELSE hurt
  /\ UNCHANGED <<refs, freed, status, doing, subject, origin>>

(* _aks_node_data_ref, called by g_node_copy_deep before it makes the node. *)
LoadRef(t, n) ==
  /\ doing[t] = "copy"
  /\ Load(t, n)
  /\ UNCHANGED tree

(* _aks_node_data_unref by dispose_node: the node's pointer goes first. *)
LoadUnref(t, n) ==
  /\ doing[t] = "drop"
  /\ Load(t, n)
  /\ tree' = [tree EXCEPT ![subject[t]] = @ \ {n}]

(* The store, of c, into the count the thread has loaded. *)
Store(t, c) ==
  /\ at[t] # NULL
  /\ refs' = [refs EXCEPT ![at[t]] = c]
  /\ at' = [at EXCEPT ![t] = NULL]
  /\ loaded' = [loaded EXCEPT ![t] = 0]
  /\ hurt' = IF at[t] \in freed THEN hurt \cup {at[t]} ELSE hurt
  /\ UNCHANGED <<status, job, raced>>

(* Mutant of StoreRef: the tree is copied with its pointers only. *)
StoreRefShared(t) ==
  /\ doing[t] = "copy"
  /\ Store(t, loaded[t])
  /\ tree' = [tree EXCEPT ![subject[t]] = @ \cup {at[t]}]
  /\ UNCHANGED freed

StoreRef(t) ==
  /\ doing[t] = "copy"
  /\ Store(t, loaded[t] + 1)
  /\ tree' = [tree EXCEPT ![subject[t]] = @ \cup {at[t]}]
  /\ UNCHANGED freed

(* Mutant of StoreUnref: the reference is given back twice. *)
StoreUnrefTwice(t) ==
  /\ doing[t] = "drop"
  /\ Store(t, loaded[t] - 2)
  /\ freed' = IF loaded[t] <= 2 THEN freed \cup {at[t]} ELSE freed
  /\ UNCHANGED tree

(* Mutant of StoreUnref: the datum is freed when one reference is left. *)
StoreUnrefEarly(t) ==
  /\ doing[t] = "drop"
  /\ Store(t, loaded[t] - 1)
  /\ freed' = IF loaded[t] <= 2 THEN freed \cup {at[t]} ELSE freed
  /\ UNCHANGED tree

(* The last reference frees entry, cache, name and the datum itself. *)
StoreUnref(t) ==
  /\ doing[t] = "drop"
  /\ Store(t, loaded[t] - 1)
  /\ freed' = IF loaded[t] = 1 THEN freed \cup {at[t]} ELSE freed
  /\ UNCHANGED tree

(* The whole tree was visited: the copy is given out, or the handle is gone. *)
Finish(t) ==
  /\ doing[t] # "idle" /\ todo[t] = {} /\ at[t] = NULL
  /\ doing' = [doing EXCEPT ![t] = "idle"]
  /\ subject' = [subject EXCEPT ![t] = NULL]
  /\ origin' = [origin EXCEPT ![t] = NULL]
  /\ status' = [status EXCEPT ![subject[t]] = IF doing[t] = "copy" THEN "held" ELSE "gone"]
  /\ UNCHANGED <<data, todo, count, marks>>

(* A process that used freed data is not followed further. *)
Next ==
  /\ hurt = {}
  /\ \E t \in Thread :
       \/ \E h \in Handle : BeginDrop(t, h) \/ \E g \in Handle : BeginCopy(t, h, g)
       \/ \E n \in Node : LoadRef(t, n) \/ LoadUnref(t, n)
       \/ StoreRef(t) \/ StoreUnref(t) \/ Finish(t)

Spec == Init /\ [][Next]_vars

-----------------------------------------------------------------------------
(* Types of the state. *)
TypeOK ==
  /\ refs \in [Node -> Nat]
  /\ freed \subseteq Node
  /\ tree \in [Handle -> SUBSET Node]
  /\ status \in [Handle -> {"unborn", "copying", "held", "dropping", "gone"}]
  /\ doing \in [Thread -> {"idle", "copy", "drop"}]
  /\ subject \in [Thread -> Handle \cup {NULL}]
  /\ origin \in [Thread -> Handle \cup {NULL}]
  /\ todo \in [Thread -> SUBSET Node]
  /\ at \in [Thread -> Node \cup {NULL}]
  /\ loaded \in [Thread -> Nat]
  /\ raced \subseteq Node /\ hurt \subseteq Node

Trees(n) == {h \in Handle : n \in tree[h]}
Leaving(n) == {t \in Thread : doing[t] = "drop" /\ at[t] = n}

(***************************************************************************)
(* A datum on which no two threads ever counted at once has a reference    *)
(* for every node that points to it and for every one being given back,    *)
(* and is freed with the last: neither kept for good nor freed early,      *)
(* whatever happened to the counts of other data meanwhile.                *)
(***************************************************************************)
RefsExact ==
  \A n \in Node \ raced :
    /\ refs[n] = Cardinality(Trees(n)) + Cardinality(Leaving(n))
    /\ n \in freed <=> refs[n] = 0

(***************************************************************************)
(* Freed data is reached, through a tree or by a thread that counts on it, *)
(* only where two threads counted on it at once: clients that copy and     *)
(* drop the handles of an archive one at a time never meet any, even when  *)
(* every copy lives in a thread of its own.                                *)
(***************************************************************************)
FreedOnlyByRace ==
  \A n \in Node \ raced :
    /\ n \notin hurt
    /\ n \in freed => Trees(n) = {} /\ \A t \in Thread : at[t] # n /\ n \notin todo[t]
=============================================================================
