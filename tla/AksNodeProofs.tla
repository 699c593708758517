--------------------------- MODULE AksNodeProofs ---------------------------
(***************************************************************************)
(* Proofs about AksNode: a datum on which no two threads counted at once   *)
(* is counted exactly, goes with its last reference and is not met after,  *)
(* for any number of threads, handles and data.                            *)
(***************************************************************************)
EXTENDS AksNode, FiniteSetTheorems, TLAPS

(***************************************************************************)
(* Who works on what: an idle thread on nothing, the others on a handle    *)
(* that is theirs alone, and a copying one copies from a handle that is    *)
(* held by the client.                                                     *)
(***************************************************************************)
Idle(t) ==
  doing[t] = "idle" =>
    subject[t] = NULL /\ origin[t] = NULL /\ todo[t] = {} /\ at[t] = NULL

Copying(t) ==
  doing[t] = "copy" =>
    /\ subject[t] \in Handle /\ status[subject[t]] = "copying"
    /\ origin[t] \in Handle /\ status[origin[t]] = "held"

Dropping(t) ==
  doing[t] = "drop" =>
    subject[t] \in Handle /\ status[subject[t]] = "dropping" /\ origin[t] = NULL

Roles ==
  /\ \A t \in Thread : Idle(t) /\ Copying(t) /\ Dropping(t)
  /\ \A t, u \in Thread : subject[t] # NULL /\ subject[t] = subject[u] => t = u
  /\ \A h \in Handle : status[h] = "unborn" => tree[h] = {}

(***************************************************************************)
(* What a thread has still to count: in the tree it copies, and not in the *)
(* copy yet; or in the tree it drops still.  What it counts on just now is *)
(* in the tree it copies and in no tree of its subject.                    *)
(***************************************************************************)
Work ==
  \A t \in Thread :
    /\ doing[t] = "copy" =>
         /\ todo[t] \subseteq tree[origin[t]] \ tree[subject[t]]
         /\ at[t] # NULL => at[t] \in tree[origin[t]] \ (tree[subject[t]] \cup todo[t])
    /\ doing[t] = "drop" =>
         /\ todo[t] \subseteq tree[subject[t]]
         /\ at[t] # NULL => at[t] \notin tree[subject[t]]

(* No count is zero, nor was loaded as zero, before the datum is freed. *)
Positive ==
  /\ \A n \in Node : refs[n] = 0 => n \in freed
  /\ hurt = {} => \A t \in Thread : at[t] # NULL => loaded[t] # 0

(* Where nobody raced, one thread at most is at a count, and knows it. *)
Alone ==
  \A t \in Thread : at[t] # NULL /\ at[t] \notin raced =>
    /\ loaded[t] = refs[at[t]]
    /\ \A u \in Thread : at[u] = at[t] => u = t

(* The inductive invariant. *)
NodeInv ==
  TypeOK /\ Roles /\ Work /\ Positive /\ Alone /\ RefsExact /\ hurt \subseteq raced

(* The sets whose sizes are summed are finite. *)
LEMMA Finite ==
  ASSUME NEW n
  PROVE  /\ IsFiniteSet(Trees(n)) /\ Cardinality(Trees(n)) \in Nat
         /\ IsFiniteSet(Leaving(n)) /\ Cardinality(Leaving(n)) \in Nat
<1>1. Trees(n) \in SUBSET Handle /\ Leaving(n) \in SUBSET Thread
  BY DEF Trees, Leaving
<1> QED
  BY <1>1, FS_Subset, FS_CardinalityType, FiniteAssumption

(* A datum in some tree has a reference, and is not freed, unless raced on. *)
LEMMA InTreeCounted ==
  ASSUME NodeInv, NEW h \in Handle, NEW n \in tree[h], n \notin raced
  PROVE  n \in Node /\ n \notin freed
<1>1. n \in Node /\ refs[n] \in Nat
  BY DEF NodeInv, TypeOK
<1>2. h \in Trees(n)
  BY DEF Trees
<1>3. Cardinality(Trees(n)) # 0
  BY <1>2, Finite, FS_EmptySet
<1>4. refs[n] # 0
  BY <1>1, <1>3, Finite DEF NodeInv, RefsExact
<1> QED
  BY <1>1, <1>4 DEF NodeInv, RefsExact

(* Initially the tree of one handle has a reference to each datum. *)
LEMMA NodeInitially == Init => NodeInv
<1> SUFFICES ASSUME Init PROVE NodeInv
  OBVIOUS
<1>1. TypeOK
  BY DEF Init, TypeOK
<1>2. Roles /\ Work /\ Positive /\ Alone /\ hurt \subseteq raced
  BY DEF Init, Roles, Idle, Copying, Dropping, Work, Positive, Alone
<1>3. RefsExact
  <2> SUFFICES ASSUME NEW n \in Node
               PROVE  refs[n] = Cardinality(Trees(n)) + Cardinality(Leaving(n))
                      /\ n \notin freed /\ refs[n] # 0
    BY DEF RefsExact
  <2>1. PICK h \in Handle : tree = [g \in Handle |-> IF g = h THEN Node ELSE {}]
    BY DEF Init
  <2>2. Trees(n) = {h}
    BY <2>1 DEF Trees
  <2>3. Leaving(n) = {}
    BY DEF Leaving, Init
  <2>4. Cardinality(Trees(n)) = 1 /\ Cardinality(Leaving(n)) = 0
    BY <2>2, <2>3, FS_Singleton, FS_EmptySet
  <2> QED
    BY <2>4 DEF Init
<1> QED
  BY <1>1, <1>2, <1>3 DEF NodeInv

(* Steps that leave the counts alone and move no thread to or from one. *)
LEMMA CountsUntouched ==
  ASSUME NodeInv, UNCHANGED <<refs, freed, tree, at, raced>>,
         \A t \in Thread : at[t] # NULL => doing'[t] = doing[t]
  PROVE  RefsExact'
<1> SUFFICES ASSUME NEW n \in Node \ raced
             PROVE  Trees(n)' = Trees(n) /\ Leaving(n)' = Leaving(n)
  BY DEF RefsExact, NodeInv
<1>1. n # NULL
  BY NullAssumption
<1>2. \A t \in Thread : at[t] = n => doing'[t] = doing[t]
  BY <1>1
<1>3. {t \in Thread : doing'[t] = "drop" /\ at'[t] = n}
        = {t \in Thread : doing[t] = "drop" /\ at[t] = n}
  BY <1>2
<1> QED
  BY <1>3 DEF Trees, Leaving

(* A copy begins from a handle no thread is at work on; no count moves. *)
LEMMA BeginCopyKeeps ==
  ASSUME NodeInv, NEW t \in Thread, NEW h \in Handle, NEW g \in Handle, BeginCopy(t, h, g)
  PROVE  NodeInv'
<1> USE NullAssumption DEF BeginCopy, data, count, marks
<1>1. TypeOK'
  BY DEF NodeInv, TypeOK
<1>2. \A u \in Thread : subject[u] # g
  BY DEF NodeInv, TypeOK, Roles, Idle, Copying, Dropping
<1>3. at[t] = NULL /\ h # g
  BY DEF NodeInv, TypeOK, Roles, Idle
<1>4. Roles'
  BY <1>2 DEF NodeInv, TypeOK, Roles, Idle, Copying, Dropping
<1>5. Work'
  BY <1>3 DEF NodeInv, TypeOK, Work, Roles, Idle
<1>6. Positive' /\ Alone' /\ (hurt \subseteq raced)'
  BY DEF NodeInv, Positive, Alone
<1>7. RefsExact'
  <2>1. \A u \in Thread : at[u] # NULL => doing'[u] = doing[u]
    BY <1>3 DEF NodeInv, TypeOK
  <2> QED
    BY <2>1, CountsUntouched
<1> QED
  BY <1>1, <1>4, <1>5, <1>6, <1>7 DEF NodeInv

(* A drop begins on such a handle, and moves no count either. *)
LEMMA BeginDropKeeps ==
  ASSUME NodeInv, NEW t \in Thread, NEW h \in Handle, BeginDrop(t, h)
  PROVE  NodeInv'
<1> USE NullAssumption DEF BeginDrop, data, count, marks
<1>1. TypeOK'
  BY DEF NodeInv, TypeOK
<1>2. \A u \in Thread : subject[u] # h
  BY DEF NodeInv, TypeOK, Roles, Idle, Copying, Dropping
<1>3. at[t] = NULL
  BY DEF NodeInv, TypeOK, Roles, Idle
<1>4. Roles'
  BY <1>2 DEF NodeInv, TypeOK, Roles, Idle, Copying, Dropping
<1>5. Work'
  BY <1>3 DEF NodeInv, TypeOK, Work, Roles, Idle
<1>6. Positive' /\ Alone' /\ (hurt \subseteq raced)'
  BY DEF NodeInv, Positive, Alone
<1>7. RefsExact'
  <2>1. \A u \in Thread : at[u] # NULL => doing'[u] = doing[u]
    BY <1>3 DEF NodeInv, TypeOK
  <2> QED
    BY <2>1, CountsUntouched
<1> QED
  BY <1>1, <1>4, <1>5, <1>6, <1>7 DEF NodeInv

(* An operation ends with no pointer left to visit: its handle is idle. *)
LEMMA FinishKeeps ==
  ASSUME NodeInv, NEW t \in Thread, Finish(t)
  PROVE  NodeInv'
<1> USE NullAssumption DEF Finish, data, count, marks
<1>0. subject[t] \in Handle
  BY DEF NodeInv, TypeOK, Roles, Copying, Dropping
<1>1. TypeOK'
  BY DEF NodeInv, TypeOK
<1>2. \A u \in Thread : u # t => subject[u] # subject[t]
  BY <1>0 DEF NodeInv, Roles
<1>3. \A u \in Thread : origin[u] # NULL => origin[u] # subject[t]
  BY DEF NodeInv, TypeOK, Roles, Idle, Copying, Dropping
<1>4. Roles'
  BY <1>0, <1>2, <1>3 DEF NodeInv, TypeOK, Roles, Idle, Copying, Dropping
<1>5. Work'
  BY DEF NodeInv, TypeOK, Work
<1>6. Positive' /\ Alone' /\ (hurt \subseteq raced)'
  BY DEF NodeInv, Positive, Alone
<1>7. RefsExact'
  <2>1. \A u \in Thread : at[u] # NULL => doing'[u] = doing[u]
    BY DEF NodeInv, TypeOK
  <2> QED
    BY <2>1, CountsUntouched
<1> QED
  BY <1>1, <1>4, <1>5, <1>6, <1>7 DEF NodeInv

(* Facts about a thread that loads a count. *)
LEMMA Loading ==
  ASSUME NodeInv, NEW t \in Thread, NEW n \in Node, Load(t, n)
  PROVE  /\ n \notin raced => n \notin freed /\ refs[n] # 0
         /\ hurt' \subseteq raced'
         /\ Positive' /\ Alone'
<1> USE NullAssumption DEF Load
<1>1. PICK h \in Handle : n \in tree[h]
  BY DEF NodeInv, TypeOK, Roles, Idle, Copying, Dropping, Work
<1>2. n \notin raced => n \notin freed
  BY <1>1, InTreeCounted
<1>3. n \notin raced => refs[n] # 0
  BY <1>2 DEF NodeInv, RefsExact
<1>4. hurt' \subseteq raced'
  BY <1>2 DEF NodeInv
<1>5. Positive'
  BY DEF NodeInv, Positive, TypeOK
<1>6. Alone'
  BY DEF NodeInv, Alone, TypeOK
<1> QED
  BY <1>2, <1>3, <1>4, <1>5, <1>6

(* A copying thread loads a count; trees and counts stay. *)
LEMMA LoadRefKeeps ==
  ASSUME NodeInv, NEW t \in Thread, NEW n \in Node, LoadRef(t, n)
  PROVE  NodeInv'
<1> USE NullAssumption DEF LoadRef, Load
<1>1. TypeOK'
  BY DEF NodeInv, TypeOK
<1>2. Roles'
  BY DEF NodeInv, TypeOK, Roles, Idle, Copying, Dropping
<1>3. Work'
  BY DEF NodeInv, TypeOK, Work
<1>4. Positive' /\ Alone' /\ (hurt \subseteq raced)'
  BY Loading
<1>5. RefsExact'
  <2> SUFFICES ASSUME NEW m \in Node \ raced
               PROVE  Trees(m)' = Trees(m) /\ Leaving(m)' = Leaving(m)
    BY DEF RefsExact, NodeInv
  <2>1. \A u \in Thread : doing'[u] = "drop" /\ at'[u] = m <=> doing[u] = "drop" /\ at[u] = m
    BY DEF NodeInv, TypeOK
  <2> QED
    BY <2>1 DEF Trees, Leaving
<1> QED
  BY <1>1, <1>2, <1>3, <1>4, <1>5 DEF NodeInv

(***************************************************************************)
(* A dropping thread takes the pointer out of its tree before it loads the *)
(* count: the reference moves from Trees to Leaving, and the sum stays.    *)
(***************************************************************************)
LEMMA LoadUnrefKeeps ==
  ASSUME NodeInv, NEW t \in Thread, NEW n \in Node, LoadUnref(t, n)
  PROVE  NodeInv'
<1> USE NullAssumption DEF LoadUnref, Load
<1> DEFINE h == subject[t]
<1>0. h \in Handle /\ n \in tree[h]
  BY DEF NodeInv, TypeOK, Roles, Dropping, Work
<1>1. TypeOK'
  BY <1>0 DEF NodeInv, TypeOK
<1>2. Roles'
  BY <1>0 DEF NodeInv, TypeOK, Roles, Idle, Copying, Dropping
<1>3. Work'
  <2>1. \A u \in Thread : u # t => subject[u] # h
    BY <1>0 DEF NodeInv, Roles
  <2>2. \A u \in Thread : doing[u] = "copy" => origin[u] # h /\ origin[u] \in Handle
    BY DEF NodeInv, Roles, Copying, Dropping
  <2> QED
    BY <1>0, <2>1, <2>2 DEF NodeInv, TypeOK, Work, Roles, Copying, Dropping
<1>4. Positive' /\ Alone' /\ (hurt \subseteq raced)'
  BY Loading
<1>5. RefsExact'
  <2> SUFFICES ASSUME NEW m \in Node \ raced
               PROVE  Cardinality(Trees(m))' + Cardinality(Leaving(m))'
                        = Cardinality(Trees(m)) + Cardinality(Leaving(m))
    BY DEF RefsExact, NodeInv
  <2>1. CASE m = n
    <3>1. Trees(m)' = Trees(m) \ {h} /\ h \in Trees(m)
      BY <1>0, <2>1 DEF Trees, NodeInv, TypeOK
    <3>2. Leaving(m)' = Leaving(m) \cup {t} /\ t \notin Leaving(m)
      BY <2>1 DEF Leaving, NodeInv, TypeOK
    <3>3. Cardinality(Trees(m))' = Cardinality(Trees(m)) - 1
      BY <3>1, Finite, FS_RemoveElement
    <3>4. Cardinality(Leaving(m))' = Cardinality(Leaving(m)) + 1
      BY <3>2, Finite, FS_AddElement
    <3> QED
      BY <3>3, <3>4, Finite
  <2>2. CASE m # n
    <3>1. Trees(m)' = Trees(m)
      BY <2>2 DEF Trees, NodeInv, TypeOK
    <3>2. Leaving(m)' = Leaving(m)
      BY <2>2 DEF Leaving, NodeInv, TypeOK
    <3> QED
      BY <3>1, <3>2
  <2> QED
    BY <2>1, <2>2
<1> QED
  BY <1>1, <1>2, <1>3, <1>4, <1>5 DEF NodeInv

(***************************************************************************)
(* A copy stores one more than it loaded and points to the datum: the      *)
(* count and Trees grow together.                                          *)
(***************************************************************************)
LEMMA StoreRefKeeps ==
  ASSUME NodeInv, NEW t \in Thread, StoreRef(t)
  PROVE  NodeInv'
<1> USE NullAssumption DEF StoreRef, Store, job
<1> DEFINE n == at[t]
           g == subject[t]
<1>0. /\ n \in Node /\ g \in Handle /\ n \notin tree[g]
      /\ origin[t] \in Handle /\ n \in tree[origin[t]]
  BY DEF NodeInv, TypeOK, Roles, Copying, Work
<1>1. n \notin raced => n \notin freed /\ refs[n] # 0 /\ refs'[n] = refs[n] + 1
  <2>1. n \notin raced => n \notin freed
    BY <1>0, InTreeCounted
  <2> QED
    BY <1>0, <2>1 DEF NodeInv, RefsExact, Alone, TypeOK
<1>2. TypeOK'
  BY <1>0 DEF NodeInv, TypeOK
<1>3. Roles'
  BY <1>0 DEF NodeInv, TypeOK, Roles, Idle, Copying, Dropping
<1>4. Work'
  <2>1. \A u \in Thread : u # t => subject[u] # g
    BY <1>0 DEF NodeInv, Roles
  <2>2. \A u \in Thread : doing[u] = "copy" => origin[u] # g /\ origin[u] \in Handle
    BY DEF NodeInv, Roles, Copying
  <2> QED
    BY <1>0, <2>1, <2>2 DEF NodeInv, TypeOK, Work, Roles, Copying, Dropping
<1>5. Positive'
  BY <1>0 DEF NodeInv, TypeOK, Positive
<1>6. Alone'
  BY <1>0 DEF NodeInv, TypeOK, Alone
<1>7. (hurt \subseteq raced)'
  BY <1>1 DEF NodeInv
<1>8. RefsExact'
  <2> SUFFICES ASSUME NEW m \in Node \ raced
               PROVE  /\ refs'[m] = Cardinality(Trees(m))' + Cardinality(Leaving(m))'
                      /\ m \in freed <=> refs'[m] = 0
    BY DEF RefsExact
  <2>1. Leaving(m)' = Leaving(m)
    BY DEF Leaving, NodeInv, TypeOK
  <2>2. CASE m = n
    <3>1. Trees(m)' = Trees(m) \cup {g} /\ g \notin Trees(m)
      BY <1>0, <2>2 DEF Trees, NodeInv, TypeOK
    <3>2. Cardinality(Trees(m))' = Cardinality(Trees(m)) + 1
      BY <3>1, Finite, FS_AddElement
    <3>3. refs[m] \in Nat /\ refs[m] = Cardinality(Trees(m)) + Cardinality(Leaving(m))
      BY DEF NodeInv, TypeOK, RefsExact
    <3> QED
      BY <1>1, <2>1, <2>2, <3>2, <3>3, Finite
  <2>3. CASE m # n
    <3>1. Trees(m)' = Trees(m)
      BY <2>3 DEF Trees, NodeInv, TypeOK
    <3>2. refs'[m] = refs[m]
      BY <2>3 DEF NodeInv, TypeOK
    <3> QED
      BY <2>1, <3>1, <3>2 DEF NodeInv, RefsExact
  <2> QED
    BY <2>2, <2>3
<1> QED
  BY <1>2, <1>3, <1>4, <1>5, <1>6, <1>7, <1>8 DEF NodeInv

(***************************************************************************)
(* A drop stores one less than it loaded and stops leaving; it frees the   *)
(* datum exactly when nothing else counts on it.                           *)
(***************************************************************************)
LEMMA StoreUnrefKeeps ==
  ASSUME NodeInv, hurt = {}, NEW t \in Thread, StoreUnref(t)
  PROVE  NodeInv'
<1> USE NullAssumption DEF StoreUnref, Store, job
<1> DEFINE n == at[t]
<1>0. n \in Node /\ loaded[t] \in Nat /\ loaded[t] # 0
  BY DEF NodeInv, TypeOK, Positive
<1>1. n \notin raced => refs[n] = loaded[t] /\ refs[n] \in Nat /\ n \notin freed
  BY <1>0 DEF NodeInv, Alone, RefsExact
<1>2. TypeOK'
  BY <1>0 DEF NodeInv, TypeOK
<1>3. Roles'
  BY DEF NodeInv, TypeOK, Roles, Idle, Copying, Dropping
<1>4. Work'
  BY DEF NodeInv, TypeOK, Work
<1>5. Positive'
  BY <1>0 DEF NodeInv, TypeOK, Positive
<1>6. Alone'
  BY <1>0 DEF NodeInv, TypeOK, Alone
<1>7. (hurt \subseteq raced)'
  BY <1>1 DEF NodeInv
<1>8. RefsExact'
  <2> SUFFICES ASSUME NEW m \in Node \ raced
               PROVE  /\ refs'[m] = Cardinality(Trees(m))' + Cardinality(Leaving(m))'
                      /\ m \in freed' <=> refs'[m] = 0
    BY DEF RefsExact
  <2>1. Trees(m)' = Trees(m)
    BY DEF Trees
  <2>2. CASE m = n
    <3>1. Leaving(m)' = Leaving(m) \ {t} /\ t \in Leaving(m)
      BY <2>2 DEF Leaving, NodeInv, TypeOK
    <3>2. Cardinality(Leaving(m))' = Cardinality(Leaving(m)) - 1
      BY <3>1, Finite, FS_RemoveElement
    <3>3. refs[m] = Cardinality(Trees(m)) + Cardinality(Leaving(m))
      BY DEF NodeInv, RefsExact
    <3>4. refs'[m] = loaded[t] - 1
      BY <1>0, <2>2 DEF NodeInv, TypeOK
    <3> QED
      BY <1>0, <1>1, <2>1, <2>2, <3>2, <3>3, <3>4, Finite
  <2>3. CASE m # n
    <3>1. Leaving(m)' = Leaving(m)
      BY <2>3 DEF Leaving, NodeInv, TypeOK
    <3>2. refs'[m] = refs[m] /\ (m \in freed' <=> m \in freed)
      BY <2>3 DEF NodeInv, TypeOK
    <3> QED
      BY <2>1, <3>1, <3>2 DEF NodeInv, RefsExact
  <2> QED
    BY <2>2, <2>3
<1> QED
  BY <1>2, <1>3, <1>4, <1>5, <1>6, <1>7, <1>8 DEF NodeInv

(***************************************************************************)
(* The inductive invariant holds of every behaviour.                       *)
(***************************************************************************)
THEOREM NodesCounted == Spec => []NodeInv
<1>1. ASSUME NodeInv, [Next]_vars PROVE NodeInv'
  <2>1. CASE Next
    <3>1. hurt = {}
      BY <2>1 DEF Next
    <3> QED
      BY <1>1, <2>1, <3>1, BeginCopyKeeps, BeginDropKeeps, LoadRefKeeps, LoadUnrefKeeps,
         StoreRefKeeps, StoreUnrefKeeps, FinishKeeps DEF Next
  <2>2. CASE UNCHANGED vars
    <3> USE <1>1, <2>2 DEF vars, data, job, count, marks, NodeInv
    <3>1. TypeOK' /\ Roles' /\ Work'
      BY DEF TypeOK, Roles, Idle, Copying, Dropping, Work
    <3>2. Positive' /\ Alone' /\ (hurt \subseteq raced)'
      BY DEF Positive, Alone
    <3>3. RefsExact'
      BY CountsUntouched
    <3> QED
      BY <3>1, <3>2, <3>3
  <2> QED
    BY <1>1, <2>1, <2>2
<1> QED
  BY NodeInitially, <1>1, PTL DEF Spec

(* The state of the counts is well typed: no count falls below zero. *)
THEOREM CountsHaveTypes == Spec => []TypeOK
BY NodesCounted, PTL DEF NodeInv

(***************************************************************************)
(* A datum on which no two threads counted at once has as many references  *)
(* as trees and threads have on it, and is freed with the last.            *)
(***************************************************************************)
THEOREM ReferencesAreExact == Spec => []RefsExact
BY NodesCounted, PTL DEF NodeInv

(* Such a datum, once freed, is in no tree and met by no thread. *)
THEOREM FreedDataIsLeftAlone == Spec => []FreedOnlyByRace
<1>1. ASSUME NodeInv PROVE FreedOnlyByRace
  <2> SUFFICES ASSUME NEW n \in Node \ raced, n \in freed
               PROVE  Trees(n) = {} /\ \A t \in Thread : at[t] # n /\ n \notin todo[t]
    BY <1>1 DEF FreedOnlyByRace, NodeInv
  <2>1. Cardinality(Trees(n)) = 0 /\ Cardinality(Leaving(n)) = 0
    BY <1>1, Finite DEF NodeInv, RefsExact
  <2>2. Trees(n) = {} /\ Leaving(n) = {}
    BY <2>1, Finite, FS_EmptySet
  <2>3. \A h \in Handle : n \notin tree[h]
    BY <2>2 DEF Trees
  <2>4. \A t \in Thread : doing[t] = "drop" => at[t] # n
    BY <2>2 DEF Leaving
  <2>5. n # NULL
    BY NullAssumption
  <2> QED
    BY <1>1, <2>2, <2>3, <2>4, <2>5
    DEF NodeInv, TypeOK, Roles, Idle, Copying, Dropping, Work
<1> QED
  BY NodesCounted, <1>1, PTL
=============================================================================
