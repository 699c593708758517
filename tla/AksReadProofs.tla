--------------------------- MODULE AksReadProofs ---------------------------
(***************************************************************************)
(* Proofs about AksRead, for every archive, any number of clients and any  *)
(* number of handles.  With clients that take turns: the tag, the owner    *)
(* of the ArchiveData and the position of the base stream are exact, and   *)
(* AksRead implements Reading.  Without: nothing is freed twice, and the   *)
(* FULL level is safe.                                                     *)
(***************************************************************************)
EXTENDS AksRead, AksListingProofs

(***************************************************************************)
(* With turns taken, one read is under way at most, and none when all is   *)
(* cached.                                                                 *)
(***************************************************************************)
OneRead ==
  /\ \A c, d \in Client : pc[c] # "idle" /\ pc[d] # "idle" => c = d
  /\ \A c \in Client : pc[c] # "idle" => level # "FULL"
  /\ \A c \in Client : pc[c] \in {"wrap", "stream"} => level = "NONE"
  /\ \A c \in Client : pc[c] \in {"dump", "store"} => level = "OTF"

(* A slot is empty, or holds the ArchiveData of the read that put it there. *)
Owned ==
  /\ \A c \in Client :
       IF pc[c] \in InFlight THEN c \in live /\ qdata[Holder(c)] = c ELSE c \notin live
  /\ \A o \in File \cup Client : qdata[o] # NULL =>
       pc[qdata[o]] \in InFlight /\ o = Holder(qdata[o])

(* Where the archive object and the base stream stand in each phase of a read. *)
ObjectStands(c) ==
  /\ pc[c] \in {"idle", "seek", "make", "store"} => ar[c] = "none"
  /\ pc[c] \in {"check", "open"} => ar[c] = "unopened" /\ at[c] = 0
  /\ pc[c] \in {"dump", "wrap", "stream"} => ar[c] = "open"
  /\ pc[c] \in {"make", "check", "open"} => pos = 0
  /\ ar[c] = "open" => at[c] = pos

(* The entry looked for, and how far the search for it has come. *)
Sought(c) == RawOf(archive, Entry(want[c]))

Searching(c) ==
  /\ pc[c] # "idle" => want[c] \in Node /\ (level = "OTF" => Entry(want[c]) # NULL)
  /\ pc[c] = "scan" /\ ar[c] = "open" =>
       /\ HeadersSeen(c) \in 0 .. Len(archive)
       /\ Entry(want[c]) # NULL => \A i \in 1 .. HeadersSeen(c) : archive[i] # Sought(c)
  /\ pc[c] \in {"dump", "wrap", "stream"} =>
       /\ HeadersSeen(c) \in 1 .. Len(archive)
       /\ Entry(want[c]) # NULL
       /\ HeadersSeen(c) = Source(want[c])

(* What a read has to say in each of its phases. *)
Replying(c) ==
  /\ pc[c] \in InFlight \ {"release", "stream"} => reply[c] = NULL
  /\ pc[c] \in {"seek", "make"} => reply[c] = NULL
  /\ pc[c] = "release" =>
       \/ reply[c] = IO
       \/ reply[c] = NOT_FOUND /\ Entry(want[c]) # NULL /\ Content(want[c]) = NULL
       \/ level = "OTF" /\ reply[c] = Content(want[c]) /\ Content(want[c]) \in BytesOf(archive)
  /\ pc[c] = "stream" => reply[c] \in {NULL, IO, Content(want[c])}
  /\ pc[c] = "store" =>
       reply[c] = Content(want[c]) /\ Content(want[c]) \in BytesOf(archive)
  /\ level = "OTF" /\ pc[c] # "idle" => cache[want[c]] = NULL

(* What is cached is the contents of the path. *)
Cached ==
  \A p \in Path :
    /\ cache[p] # NULL => cache[p] = Content(p) /\ p \in Node /\ Entry(p) # NULL
    /\ level = "FULL" => (cache[p] = NULL <=> Entry(p) \in {NULL, RootEntry})
    /\ level = "NONE" => cache[p] = NULL

(* The inductive invariant of clients that take turns. *)
TurnsInv ==
  /\ TypeOK
  /\ OneRead /\ Owned /\ Cached
  /\ \A c \in Client : ObjectStands(c) /\ Searching(c) /\ Replying(c)
  /\ tag <=> \E c \in Client : ar[c] = "open"
  /\ fault \in {"none", "null"}

(* What is known of the archive in every state. *)
LEMMA Sizes ==
  ASSUME TypeOK
  PROVE  archive \in Seq(Raw) /\ Len(archive) \in Nat /\ Last = 2 * Len(archive) + 2
<1>1. archive \in Seq(Raw)
  BY ArchiveAssumption DEF TypeOK
<1> QED
  BY <1>1 DEF Last

(* Bytes are no errors. *)
LEMMA BytesAreNoErrors ==
  ASSUME TypeOK
  PROVE  BytesOf(archive) \cap (Errors \cup {NULL, Garbage}) = {}
<1>1. BytesOf(archive) \subseteq Int
  BY Sizes DEF BytesOf
<1> QED
  BY <1>1, ReplyAssumption DEF Errors

(* While one client is reading the others are idle and have nothing. *)
LEMMA OthersIdle ==
  ASSUME TurnsInv, NEW c \in Client, pc[c] # "idle", NEW d \in Client \ {c}
  PROVE  /\ pc[d] = "idle" /\ ar[d] = "none" /\ d \notin live
         /\ \A o \in File \cup Client : qdata[o] # d
<1>1. pc[d] = "idle"
  BY DEF TurnsInv, OneRead
<1>2. ar[d] = "none" /\ d \notin live
  BY <1>1 DEF TurnsInv, ObjectStands, Owned, InFlight
<1>3. \A o \in File \cup Client : qdata[o] # d
  BY <1>1, ClientAssumption DEF TurnsInv, Owned, InFlight
<1> QED
  BY <1>1, <1>2, <1>3

(* So all that is to be said is about the one that is reading. *)
LEMMA OneReader ==
  ASSUME TurnsInv, NEW c \in Client, pc[c] # "idle"
  PROVE  /\ TypeOK /\ OneRead /\ Owned /\ Cached
         /\ ObjectStands(c) /\ Searching(c) /\ Replying(c)
         /\ tag <=> ar[c] = "open"
<1>1. \A d \in Client \ {c} : ar[d] = "none"
  BY OthersIdle
<1> QED
  BY <1>1 DEF TurnsInv

(* And after a step of that client, too. *)
LEMMA StillOneReader ==
  ASSUME TurnsInv, NEW c \in Client, pc[c] # "idle",
         \A d \in Client \ {c} : pc'[d] = pc[d] /\ ar'[d] = ar[d],
         TypeOK', OneRead', Owned', Cached',
         ObjectStands(c)', Searching(c)', Replying(c)',
         (tag <=> ar[c] = "open")', fault' \in {"none", "null"}
  PROVE  TurnsInv'
<1>1. \A d \in Client \ {c} : pc'[d] = "idle" /\ ar'[d] = "none"
  BY OthersIdle
<1>2. \A d \in Client \ {c} : ObjectStands(d)' /\ Searching(d)' /\ Replying(d)'
  BY <1>1 DEF ObjectStands, Searching, Replying, InFlight
<1>3. (tag <=> \E d \in Client : ar[d] = "open")'
  BY <1>1
<1> QED
  BY <1>2, <1>3 DEF TurnsInv

(* The null dereferences and the other deaths change nothing else. *)
LEMMA DeathKeeps ==
  ASSUME TurnsInv, Die("null")
  PROVE  TurnsInv'
<1> USE DEF Die, given, stream, local
<1>1. TypeOK' /\ OneRead' /\ Owned'
  BY DEF TurnsInv, TypeOK, OneRead, Owned, InFlight, Holder, Last
<1>2. Cached'
  BY DEF TurnsInv, Cached, Content, Source, Entry, Node
<1>3. \A c \in Client : ObjectStands(c)' /\ Searching(c)' /\ Replying(c)'
  BY DEF TurnsInv, ObjectStands, Searching, Replying, Sought, HeadersSeen, Content, Source, Entry,
         Node, InFlight
<1> QED
  BY <1>1, <1>2, <1>3 DEF TurnsInv

(* The stream is rewound, or cannot be. *)
LEMMA SeekKeeps ==
  ASSUME TurnsInv, NEW c \in Client, Seek(c), fault = "none"
  PROVE  TurnsInv'
<1> USE NullAssumption, ReplyAssumption, ClientAssumption
    DEF Seek, Goto, Die, given, stream, local
<1>1. pc[c] # "idle"
  OBVIOUS
<1>2. /\ TypeOK /\ OneRead /\ Owned /\ Cached
      /\ ObjectStands(c) /\ Searching(c) /\ Replying(c)
      /\ tag <=> ar[c] = "open"
  BY <1>1, OneReader
<1>3. archive \in Seq(Raw) /\ Len(archive) \in Nat /\ Last = 2 * Len(archive) + 2
  BY <1>2, Sizes
<1>4. UNCHANGED <<archive, level>> /\ Last' = Last
  BY DEF Last
<1>5. \A d \in Client \ {c} :
        /\ pc'[d] = pc[d] /\ ar'[d] = ar[d]
        /\ pc[d] = "idle" /\ ar[d] = "none" /\ d \notin live
        /\ \A o \in File \cup Client : qdata[o] # d
  BY <1>1, <1>2, OthersIdle DEF TypeOK
<1>6. TypeOK'
  <2>1. pos' \in 0 .. Last
    BY <1>2, <1>3 DEF TypeOK
  <2>2. pc' \in [Client -> {"idle", "seek", "make", "store"} \cup InFlight]
    BY <1>2 DEF TypeOK
  <2>3. reply' \in [Client -> Errors \cup {NULL, Garbage} \cup BytesOf(archive)]
    BY <1>2 DEF TypeOK, Errors
  <2> QED
    BY <1>2, <1>4, <2>1, <2>2, <2>3 DEF TypeOK
<1>7. OneRead'
  BY <1>2, <1>4, <1>5 DEF TypeOK, OneRead
<1>8. Owned'
  <2>1. pc[c] \notin InFlight /\ pc'[c] \notin InFlight
    BY <1>2 DEF TypeOK, InFlight
  <2>2. c \notin live /\ \A o \in File \cup Client : qdata[o] # c
    BY <1>2, <2>1 DEF Owned
  <2> QED
    BY <1>2, <1>4, <1>5, <2>1, <2>2 DEF TypeOK, Owned, InFlight, Holder
<1>9. Cached'
  BY <1>2, <1>4 DEF Cached, Content, Source, Entry, Node
<1>10. ObjectStands(c)'
  BY <1>2, <1>3, <1>4 DEF TypeOK, ObjectStands, InFlight
<1>11. Searching(c)'
  BY <1>2, <1>3, <1>4
     DEF TypeOK, Searching, ObjectStands, Sought, HeadersSeen, Content, Source, Entry, Node
<1>12. Replying(c)'
  BY <1>2, <1>3, <1>4 DEF TypeOK, Replying, Content, Source, Entry, InFlight, Cached, Errors
<1>13. (tag <=> ar[c] = "open")' /\ fault' \in {"none", "null"}
  BY <1>2 DEF TypeOK, ObjectStands
<1> QED
  BY <1>1, <1>5, <1>6, <1>7, <1>8, <1>9, <1>10, <1>11, <1>12, <1>13, StillOneReader

(* A new ArchiveData is made, and put into the slot of the handle. *)
LEMMA MakeKeeps ==
  ASSUME TurnsInv, NEW c \in Client, Make(c), fault = "none"
  PROVE  TurnsInv'
<1> USE NullAssumption, ReplyAssumption, ClientAssumption
    DEF Make, AfterFreeing, Goto, Die, given, stream, local
<1>1. pc[c] # "idle"
  OBVIOUS
<1>2. /\ TypeOK /\ OneRead /\ Owned /\ Cached
      /\ ObjectStands(c) /\ Searching(c) /\ Replying(c)
      /\ tag <=> ar[c] = "open"
  BY <1>1, OneReader
<1>3. archive \in Seq(Raw) /\ Len(archive) \in Nat /\ Last = 2 * Len(archive) + 2
  BY <1>2, Sizes
<1>4. UNCHANGED <<archive, level>> /\ Last' = Last
  BY DEF Last
<1>5. \A d \in Client \ {c} :
        /\ pc'[d] = pc[d] /\ ar'[d] = ar[d]
        /\ pc[d] = "idle" /\ ar[d] = "none" /\ d \notin live
        /\ \A o \in File \cup Client : qdata[o] # d
  BY <1>1, <1>2, OthersIdle DEF TypeOK
<1>6. TypeOK'
  BY <1>2, <1>3, <1>4 DEF TypeOK, ObjectStands, InFlight, Errors
<1>7. OneRead'
  BY <1>2, <1>4, <1>5 DEF TypeOK, OneRead, InFlight
<1>8. Owned'
  BY <1>2, <1>4, <1>5 DEF TypeOK, Owned, InFlight, Holder
<1>9. Cached'
  BY <1>2, <1>4 DEF Cached, Content, Source, Entry, Node
<1>10. ObjectStands(c)'
  BY <1>2, <1>3, <1>4 DEF TypeOK, ObjectStands, InFlight
<1>11. Searching(c)'
  BY <1>2, <1>3, <1>4
     DEF TypeOK, Searching, ObjectStands, Sought, HeadersSeen, Content, Source, Entry, Node
<1>12. Replying(c)'
  BY <1>2, <1>3, <1>4 DEF TypeOK, Replying, Content, Source, Entry, InFlight, Cached, Errors
<1>13. (tag <=> ar[c] = "open")' /\ fault' \in {"none", "null"}
  BY <1>2 DEF TypeOK, ObjectStands
<1> QED
  BY <1>1, <1>5, <1>6, <1>7, <1>8, <1>9, <1>10, <1>11, <1>12, <1>13, StillOneReader

(* The slot is filled and the stream not tagged: the assertion holds. *)
LEMMA CheckKeeps ==
  ASSUME TurnsInv, NEW c \in Client, Check(c), fault = "none"
  PROVE  TurnsInv'
<1> USE NullAssumption, ReplyAssumption, ClientAssumption
    DEF Check, Goto, Die, given, stream, local
<1>1. pc[c] # "idle"
  OBVIOUS
<1>2. /\ TypeOK /\ OneRead /\ Owned /\ Cached
      /\ ObjectStands(c) /\ Searching(c) /\ Replying(c)
      /\ tag <=> ar[c] = "open"
  BY <1>1, OneReader
<1>3. archive \in Seq(Raw) /\ Len(archive) \in Nat /\ Last = 2 * Len(archive) + 2
  BY <1>2, Sizes
<1>4. UNCHANGED <<archive, level>> /\ Last' = Last
  BY DEF Last
<1>5. qdata[Holder(c)] = c /\ c \in live
  BY <1>2 DEF Owned, InFlight
<1>6. pc' = [pc EXCEPT ![c] = "open"] /\ reply' = [reply EXCEPT ![c] = NULL]
      /\ UNCHANGED <<pos, tag, cache, qdata, fault, file, want, ar, at, live>>
  BY <1>2, <1>5 DEF ObjectStands, Holder
<1>7. pc[c] = "check"
  OBVIOUS
<1> HIDE DEF Check
<1>8. \A d \in Client \ {c} :
        /\ pc'[d] = pc[d] /\ ar'[d] = ar[d]
        /\ pc[d] = "idle" /\ ar[d] = "none" /\ d \notin live
        /\ \A o \in File \cup Client : qdata[o] # d
  BY <1>1, <1>2, <1>6, <1>7, OthersIdle DEF TypeOK
<1>9. TypeOK'
  BY <1>2, <1>3, <1>4, <1>5, <1>6, <1>7 DEF TypeOK, ObjectStands, InFlight, Errors
<1>10. OneRead'
  BY <1>2, <1>4, <1>5, <1>6, <1>7, <1>8 DEF TypeOK, OneRead, InFlight
<1>11. Owned'
  BY <1>2, <1>4, <1>5, <1>6, <1>7, <1>8 DEF TypeOK, Owned, InFlight, Holder
<1>12. Cached'
  BY <1>2, <1>4, <1>5, <1>6, <1>7 DEF Cached, Content, Source, Entry, Node
<1>13. ObjectStands(c)'
  BY <1>2, <1>3, <1>4, <1>5, <1>6, <1>7 DEF TypeOK, ObjectStands, InFlight
<1>14. Searching(c)'
  BY <1>2, <1>3, <1>4, <1>5, <1>6, <1>7
     DEF TypeOK, Searching, ObjectStands, Sought, HeadersSeen, Content, Source, Entry, Node
<1>15. Replying(c)'
  BY <1>2, <1>3, <1>4, <1>5, <1>6, <1>7
     DEF TypeOK, Replying, Content, Source, Entry, InFlight, Cached, Errors
<1>16. (tag <=> ar[c] = "open")' /\ fault' \in {"none", "null"}
  BY <1>2, <1>5, <1>6, <1>7 DEF TypeOK, ObjectStands
<1> QED
  BY <1>1, <1>8, <1>9, <1>10, <1>11, <1>12, <1>13, <1>14, <1>15, <1>16, StillOneReader

(* Opening tags the stream and reads the first block. *)
LEMMA OpenArchiveKeeps ==
  ASSUME TurnsInv, NEW c \in Client, OpenArchive(c), fault = "none"
  PROVE  TurnsInv'
<1> USE NullAssumption, ReplyAssumption, ClientAssumption
    DEF OpenArchive, ReadOn, Goto, Die, given, stream, local
<1>1. pc[c] # "idle"
  OBVIOUS
<1>2. /\ TypeOK /\ OneRead /\ Owned /\ Cached
      /\ ObjectStands(c) /\ Searching(c) /\ Replying(c)
      /\ tag <=> ar[c] = "open"
  BY <1>1, OneReader
<1>3. archive \in Seq(Raw) /\ Len(archive) \in Nat /\ Last = 2 * Len(archive) + 2
  BY <1>2, Sizes
<1>4. UNCHANGED <<archive, level>> /\ Last' = Last
  BY DEF Last
<1>5. \A d \in Client \ {c} :
        /\ pc'[d] = pc[d] /\ ar'[d] = ar[d]
        /\ pc[d] = "idle" /\ ar[d] = "none" /\ d \notin live
        /\ \A o \in File \cup Client : qdata[o] # d
  BY <1>1, <1>2, OthersIdle DEF TypeOK
<1>6. TypeOK'
  BY <1>2, <1>3, <1>4 DEF TypeOK, ObjectStands, InFlight, Errors
<1>7. OneRead'
  BY <1>2, <1>4, <1>5 DEF TypeOK, OneRead, InFlight
<1>8. Owned'
  BY <1>2, <1>4, <1>5 DEF TypeOK, Owned, InFlight, Holder
<1>9. Cached'
  BY <1>2, <1>4 DEF Cached, Content, Source, Entry, Node
<1>10. ObjectStands(c)'
  BY <1>2, <1>3, <1>4 DEF TypeOK, ObjectStands, InFlight
<1>11. Searching(c)'
  BY <1>2, <1>3, <1>4
     DEF TypeOK, Searching, ObjectStands, Sought, HeadersSeen, Content, Source, Entry, Node
<1>12. Replying(c)'
  BY <1>2, <1>3, <1>4 DEF TypeOK, Replying, Content, Source, Entry, InFlight, Cached, Errors
<1>13. (tag <=> ar[c] = "open")' /\ fault' \in {"none", "null"}
  BY <1>2 DEF TypeOK, ObjectStands
<1> QED
  BY <1>1, <1>5, <1>6, <1>7, <1>8, <1>9, <1>10, <1>11, <1>12, <1>13, StillOneReader

(* A failed open leaves the stream untagged. *)
LEMMA OpenFailsKeeps ==
  ASSUME TurnsInv, NEW c \in Client, OpenFails(c), fault = "none"
  PROVE  TurnsInv'
<1> USE NullAssumption, ReplyAssumption, ClientAssumption
    DEF OpenFails, Goto, Die, given, stream, local
<1>1. pc[c] # "idle"
  OBVIOUS
<1>2. /\ TypeOK /\ OneRead /\ Owned /\ Cached
      /\ ObjectStands(c) /\ Searching(c) /\ Replying(c)
      /\ tag <=> ar[c] = "open"
  BY <1>1, OneReader
<1>3. archive \in Seq(Raw) /\ Len(archive) \in Nat /\ Last = 2 * Len(archive) + 2
  BY <1>2, Sizes
<1>4. UNCHANGED <<archive, level>> /\ Last' = Last
  BY DEF Last
<1>5. \A d \in Client \ {c} :
        /\ pc'[d] = pc[d] /\ ar'[d] = ar[d]
        /\ pc[d] = "idle" /\ ar[d] = "none" /\ d \notin live
        /\ \A o \in File \cup Client : qdata[o] # d
  BY <1>1, <1>2, OthersIdle DEF TypeOK
<1>6. TypeOK'
  BY <1>2, <1>3, <1>4 DEF TypeOK, ObjectStands, InFlight, Errors
<1>7. OneRead'
  BY <1>2, <1>4, <1>5 DEF TypeOK, OneRead, InFlight
<1>8. Owned'
  BY <1>2, <1>4, <1>5 DEF TypeOK, Owned, InFlight, Holder
<1>9. Cached'
  BY <1>2, <1>4 DEF Cached, Content, Source, Entry, Node
<1>10. ObjectStands(c)'
  BY <1>2, <1>3, <1>4 DEF TypeOK, ObjectStands, InFlight
<1>11. Searching(c)'
  BY <1>2, <1>3, <1>4
     DEF TypeOK, Searching, ObjectStands, Sought, HeadersSeen, Content, Source, Entry, Node
<1>12. Replying(c)'
  BY <1>2, <1>3, <1>4 DEF TypeOK, Replying, Content, Source, Entry, InFlight, Cached, Errors
<1>13. (tag <=> ar[c] = "open")' /\ fault' \in {"none", "null"}
  BY <1>2 DEF TypeOK, ObjectStands
<1> QED
  BY <1>1, <1>5, <1>6, <1>7, <1>8, <1>9, <1>10, <1>11, <1>12, <1>13, StillOneReader

(* So does one that libarchive takes for failed afterwards. *)
LEMMA OpenReturnsPositiveKeeps ==
  ASSUME TurnsInv, NEW c \in Client, OpenReturnsPositive(c), fault = "none"
  PROVE  TurnsInv'
<1> USE NullAssumption, ReplyAssumption, ClientAssumption
    DEF OpenReturnsPositive, Goto, Die, given, stream, local
<1>1. pc[c] # "idle"
  OBVIOUS
<1>2. /\ TypeOK /\ OneRead /\ Owned /\ Cached
      /\ ObjectStands(c) /\ Searching(c) /\ Replying(c)
      /\ tag <=> ar[c] = "open"
  BY <1>1, OneReader
<1>3. archive \in Seq(Raw) /\ Len(archive) \in Nat /\ Last = 2 * Len(archive) + 2
  BY <1>2, Sizes
<1>4. UNCHANGED <<archive, level>> /\ Last' = Last
  BY DEF Last
<1>5. \A d \in Client \ {c} :
        /\ pc'[d] = pc[d] /\ ar'[d] = ar[d]
        /\ pc[d] = "idle" /\ ar[d] = "none" /\ d \notin live
        /\ \A o \in File \cup Client : qdata[o] # d
  BY <1>1, <1>2, OthersIdle DEF TypeOK
<1>6. TypeOK'
  BY <1>2, <1>3, <1>4 DEF TypeOK, ObjectStands, InFlight, Errors
<1>7. OneRead'
  BY <1>2, <1>4, <1>5 DEF TypeOK, OneRead, InFlight
<1>8. Owned'
  BY <1>2, <1>4, <1>5 DEF TypeOK, Owned, InFlight, Holder
<1>9. Cached'
  BY <1>2, <1>4 DEF Cached, Content, Source, Entry, Node
<1>10. ObjectStands(c)'
  BY <1>2, <1>3, <1>4 DEF TypeOK, ObjectStands, InFlight
<1>11. Searching(c)'
  BY <1>2, <1>3, <1>4
     DEF TypeOK, Searching, ObjectStands, Sought, HeadersSeen, Content, Source, Entry, Node
<1>12. Replying(c)'
  BY <1>2, <1>3, <1>4 DEF TypeOK, Replying, Content, Source, Entry, InFlight, Cached, Errors
<1>13. (tag <=> ar[c] = "open")' /\ fault' \in {"none", "null"}
  BY <1>2 DEF TypeOK, ObjectStands
<1> QED
  BY <1>1, <1>5, <1>6, <1>7, <1>8, <1>9, <1>10, <1>11, <1>12, <1>13, StillOneReader

(* A read that fails has an object to fetch the error through. *)
LEMMA ReadFailsKeeps ==
  ASSUME TurnsInv, NEW c \in Client, ReadFails(c), fault = "none"
  PROVE  TurnsInv'
<1> USE NullAssumption, ReplyAssumption, ClientAssumption
    DEF ReadFails, ReportError, Goto, Die, given, stream, local
<1>1. pc[c] # "idle"
  OBVIOUS
<1>2. /\ TypeOK /\ OneRead /\ Owned /\ Cached
      /\ ObjectStands(c) /\ Searching(c) /\ Replying(c)
      /\ tag <=> ar[c] = "open"
  BY <1>1, OneReader
<1>3. archive \in Seq(Raw) /\ Len(archive) \in Nat /\ Last = 2 * Len(archive) + 2
  BY <1>2, Sizes
<1>4. UNCHANGED <<archive, level>> /\ Last' = Last
  BY DEF Last
<1>5. qdata[Holder(c)] = c /\ c \in live
  BY <1>2 DEF Owned, InFlight
<1>6. \A d \in Client \ {c} :
        /\ pc'[d] = pc[d] /\ ar'[d] = ar[d]
        /\ pc[d] = "idle" /\ ar[d] = "none" /\ d \notin live
        /\ \A o \in File \cup Client : qdata[o] # d
  BY <1>1, <1>2, OthersIdle DEF TypeOK
<1>7. TypeOK'
  BY <1>2, <1>3, <1>4, <1>5 DEF TypeOK, ObjectStands, InFlight, Errors
<1>8. OneRead'
  BY <1>2, <1>4, <1>5, <1>6 DEF TypeOK, OneRead, InFlight
<1>9. Owned'
  BY <1>2, <1>4, <1>5, <1>6 DEF TypeOK, Owned, InFlight, Holder
<1>10. Cached'
  BY <1>2, <1>4, <1>5 DEF Cached, Content, Source, Entry, Node
<1>11. ObjectStands(c)'
  BY <1>2, <1>3, <1>4, <1>5 DEF TypeOK, ObjectStands, InFlight
<1>12. Searching(c)'
  BY <1>2, <1>3, <1>4, <1>5
     DEF TypeOK, Searching, ObjectStands, Sought, HeadersSeen, Content, Source, Entry, Node
<1>13. Replying(c)'
  BY <1>2, <1>3, <1>4, <1>5 DEF TypeOK, Replying, Content, Source, Entry, InFlight, Cached, Errors
<1>14. (tag <=> ar[c] = "open")' /\ fault' \in {"none", "null"}
  BY <1>2, <1>5 DEF TypeOK, ObjectStands
<1> QED
  BY <1>1, <1>6, <1>7, <1>8, <1>9, <1>10, <1>11, <1>12, <1>13, <1>14, StillOneReader

(* One header further, the search is over or has seen one name more. *)
LEMMA NextHeaderKeeps ==
  ASSUME TurnsInv, NEW c \in Client, NextHeader(c), fault = "none"
  PROVE  TurnsInv'
<1> USE NullAssumption, ReplyAssumption, ClientAssumption
    DEF NextHeader, ReadOn, Undisturbed, Goto, Die, given, stream, local
<1>1. pc[c] # "idle"
  OBVIOUS
<1>2. /\ TypeOK /\ OneRead /\ Owned /\ Cached
      /\ ObjectStands(c) /\ Searching(c) /\ Replying(c)
      /\ tag <=> ar[c] = "open"
  BY <1>1, OneReader
<1>3. archive \in Seq(Raw) /\ Len(archive) \in Nat /\ Last = 2 * Len(archive) + 2
  BY <1>2, Sizes
<1>4. UNCHANGED <<archive, level>> /\ Last' = Last
  BY DEF Last
<1>5. HeadersSeen(c) \in 0 .. Len(archive) - 1 /\ at'[c] = 2 * (HeadersSeen(c) + 1)
      /\ pos' = at'[c]
  BY <1>2, <1>3 DEF TypeOK, Searching
<1>6. HeadersSeen(c)' = HeadersSeen(c) + 1
  BY <1>5 DEF HeadersSeen
<1>7. pc'[c] \in {"wrap", "dump"} => Source(want[c]) = HeadersSeen(c) + 1
  <2> SUFFICES ASSUME archive[HeadersSeen(c) + 1] = Sought(c)
               PROVE  Source(want[c]) = HeadersSeen(c) + 1
    BY <1>2 DEF TypeOK, Sought
  <2>1. \A i \in 1 .. HeadersSeen(c) : archive[i] # Sought(c)
    BY <1>2 DEF Searching
  <2>2. FirstNamed(archive, Sought(c)) = HeadersSeen(c) + 1
    <3> DEFINE h == HeadersSeen(c) + 1
    <3>1. h \in 1 .. Len(archive) /\ h - 1 = HeadersSeen(c)
      BY <1>3, <1>5
    <3> HIDE DEF h
    <3>2. archive[h] = Sought(c) /\ \A i \in 1 .. h - 1 : archive[i] # Sought(c)
      BY <2>1, <3>1 DEF h
    <3>3. FirstNamed(archive, Sought(c)) = h
      BY <1>3, <3>1, <3>2, FirstNamedFound
    <3> QED
      BY <3>3 DEF h
  <2> QED
    BY <1>2, <2>2 DEF Source, OneRead, Sought
<1>8. \A d \in Client \ {c} :
        /\ pc'[d] = pc[d] /\ ar'[d] = ar[d]
        /\ pc[d] = "idle" /\ ar[d] = "none" /\ d \notin live
        /\ \A o \in File \cup Client : qdata[o] # d
  BY <1>1, <1>2, OthersIdle DEF TypeOK
<1>9. TypeOK'
  BY <1>2, <1>3, <1>4, <1>5 DEF TypeOK, ObjectStands, InFlight, Errors
<1>10. OneRead'
  BY <1>2, <1>4, <1>8 DEF TypeOK, OneRead, Levels
<1>11. Owned'
  BY <1>2, <1>4, <1>5, <1>8 DEF TypeOK, Owned, InFlight, Holder
<1>12. Cached'
  BY <1>2, <1>4, <1>5 DEF Cached, Content, Source, Entry, Node
<1>13. ObjectStands(c)'
  BY <1>2, <1>3, <1>4, <1>5 DEF TypeOK, ObjectStands
<1>14. Searching(c)'
  <2>1. Sought(c)' = Sought(c) /\ Source(want[c])' = Source(want[c])
    BY <1>4 DEF Sought, Source, Entry
  <2>2. pc'[c] = "scan" => \A i \in 1 .. HeadersSeen(c) + 1 : archive[i] # Sought(c)
    BY <1>2, <1>3, <1>5 DEF TypeOK, Searching, Sought
  <2> QED
    BY <1>2, <1>3, <1>4, <1>5, <1>6, <1>7, <2>1, <2>2 DEF TypeOK, Searching, Entry, Node
<1>15. Replying(c)'
  BY <1>2, <1>3, <1>4, <1>5 DEF TypeOK, Replying, Content, Source, Entry, InFlight, Cached, Errors
<1>16. (tag <=> ar[c] = "open")' /\ fault' \in {"none", "null"}
  BY <1>2, <1>5 DEF TypeOK, ObjectStands
<1> QED
  BY <1>1, <1>8, <1>9, <1>10, <1>11, <1>12, <1>13, <1>14, <1>15, <1>16, StillOneReader

(* At the end of the archive no header of the name was found. *)
LEMMA EndOfArchiveKeeps ==
  ASSUME TurnsInv, NEW c \in Client, EndOfArchive(c), fault = "none"
  PROVE  TurnsInv'
<1> USE NullAssumption, ReplyAssumption, ClientAssumption
    DEF EndOfArchive, ReadOn, Undisturbed, Goto, Die, given, stream, local
<1>1. pc[c] # "idle"
  OBVIOUS
<1>2. /\ TypeOK /\ OneRead /\ Owned /\ Cached
      /\ ObjectStands(c) /\ Searching(c) /\ Replying(c)
      /\ tag <=> ar[c] = "open"
  BY <1>1, OneReader
<1>3. archive \in Seq(Raw) /\ Len(archive) \in Nat /\ Last = 2 * Len(archive) + 2
  BY <1>2, Sizes
<1>4. UNCHANGED <<archive, level>> /\ Last' = Last
  BY DEF Last
<1>5. \A d \in Client \ {c} :
        /\ pc'[d] = pc[d] /\ ar'[d] = ar[d]
        /\ pc[d] = "idle" /\ ar[d] = "none" /\ d \notin live
        /\ \A o \in File \cup Client : qdata[o] # d
  BY <1>1, <1>2, OthersIdle DEF TypeOK
<1>6. TypeOK'
  BY <1>2, <1>3, <1>4 DEF TypeOK, ObjectStands, InFlight, Errors
<1>7. OneRead'
  BY <1>2, <1>4, <1>5 DEF TypeOK, OneRead, InFlight
<1>8. Owned'
  BY <1>2, <1>4, <1>5 DEF TypeOK, Owned, InFlight, Holder
<1>9. Cached'
  BY <1>2, <1>4 DEF Cached, Content, Source, Entry, Node
<1>10. ObjectStands(c)'
  BY <1>2, <1>3, <1>4 DEF TypeOK, ObjectStands, InFlight
<1>11. Searching(c)'
  BY <1>2, <1>3, <1>4
     DEF TypeOK, Searching, ObjectStands, Sought, HeadersSeen, Content, Source, Entry, Node
<1>12. Replying(c)'
  <2>1. FirstNamed(archive, Sought(c)) = NULL
    BY <1>2, <1>3, FirstNamedMissing DEF Searching
  <2>2. Content(want[c]) = NULL
    BY <1>2, <2>1, DumpedNothing DEF Content, Source, OneRead, Sought
  <2> QED
    BY <1>2, <1>4, <2>2 DEF TypeOK, Replying, Content, Source, Entry
<1>13. (tag <=> ar[c] = "open")' /\ fault' \in {"none", "null"}
  BY <1>2 DEF TypeOK, ObjectStands
<1> QED
  BY <1>1, <1>5, <1>6, <1>7, <1>8, <1>9, <1>10, <1>11, <1>12, <1>13, StillOneReader

(* The body that is read is that of the header the search ended at. *)
LEMMA ReadBodyKeeps ==
  ASSUME TurnsInv, NEW c \in Client, ReadBody(c), fault = "none"
  PROVE  TurnsInv'
<1> USE NullAssumption, ReplyAssumption, ClientAssumption
    DEF ReadBody, ReadOn, Goto, Die, given, stream, local
<1>1. pc[c] # "idle"
  OBVIOUS
<1>2. /\ TypeOK /\ OneRead /\ Owned /\ Cached
      /\ ObjectStands(c) /\ Searching(c) /\ Replying(c)
      /\ tag <=> ar[c] = "open"
  BY <1>1, OneReader
<1>3. archive \in Seq(Raw) /\ Len(archive) \in Nat /\ Last = 2 * Len(archive) + 2
  BY <1>2, Sizes
<1>4. UNCHANGED <<archive, level>> /\ Last' = Last
  BY DEF Last
<1>5. qdata[Holder(c)] = c /\ c \in live
  BY <1>2 DEF Owned, InFlight
<1>6. HeadersSeen(c) \in 1 .. Len(archive) /\ HeadersSeen(c) = Source(want[c])
      /\ ar[c] = "open" /\ at[c] = pos
  BY <1>2 DEF Searching, ObjectStands
<1>7. pc[c] \in {"dump", "stream"} /\ (pc[c] = "dump" <=> level = "OTF")
  BY <1>2 DEF OneRead
<1>8. /\ at' = [at EXCEPT ![c] = 2 * HeadersSeen(c) + 1] /\ pos' = 2 * HeadersSeen(c) + 1
      /\ pc' = [pc EXCEPT ![c] = IF pc[c] = "dump" THEN "release" ELSE "stream"]
      /\ reply' = [reply EXCEPT ![c] = Content(want[c])]
      /\ Content(want[c]) \in BytesOf(archive)
      /\ UNCHANGED <<tag, cache, qdata, fault, file, want, ar, live>>
  <2>1. qdata[Holder(c)] # NULL
    BY <1>5
  <2>2. at' = [at EXCEPT ![c] = 2 * HeadersSeen(c) + 1]
        /\ pc' = [pc EXCEPT ![c] = IF pc[c] = "dump" THEN "release" ELSE "stream"]
        /\ reply' = [reply EXCEPT ![c] = Body(c)]
        /\ UNCHANGED <<tag, cache, qdata, fault, file, want, ar, live>>
    BY <2>1
  <2>3. Body(c) = Content(want[c])
    BY <1>2, <1>6, <1>7 DEF Body, Undisturbed, Content, TypeOK, OneRead
  <2>4. Content(want[c]) \in BytesOf(archive)
    BY <1>3, <1>6, DumpedBytes DEF Content, BytesOf
  <2>5. pos' = IF pos + ((2 * HeadersSeen(c) + 1) - pos) <= Last
                 THEN pos + ((2 * HeadersSeen(c) + 1) - pos) ELSE Last
    BY <1>6, <2>1
  <2>6. pos' = 2 * HeadersSeen(c) + 1
    BY <1>2, <1>3, <1>6, <2>5 DEF TypeOK
  <2> QED
    BY <2>2, <2>3, <2>4, <2>6
<1>9. HeadersSeen(c)' = HeadersSeen(c)
  BY <1>2, <1>6, <1>8 DEF TypeOK, HeadersSeen
<1> HIDE DEF ReadBody
<1>10. \A d \in Client \ {c} :
        /\ pc'[d] = pc[d] /\ ar'[d] = ar[d]
        /\ pc[d] = "idle" /\ ar[d] = "none" /\ d \notin live
        /\ \A o \in File \cup Client : qdata[o] # d
  BY <1>1, <1>2, <1>6, <1>8, OthersIdle DEF TypeOK
<1>11. TypeOK'
  BY <1>2, <1>3, <1>4, <1>6, <1>7, <1>8 DEF TypeOK, InFlight
<1>12. OneRead'
  BY <1>2, <1>4, <1>6, <1>7, <1>8, <1>10 DEF TypeOK, OneRead, InFlight
<1>13. Owned'
  BY <1>2, <1>4, <1>6, <1>7, <1>8, <1>10 DEF TypeOK, Owned, InFlight, Holder
<1>14. Cached'
  BY <1>2, <1>4, <1>6, <1>7, <1>8 DEF Cached, Content, Source, Entry, Node
<1>15. ObjectStands(c)'
  BY <1>2, <1>6, <1>8 DEF TypeOK, ObjectStands
<1>16. Searching(c)'
  BY <1>2, <1>3, <1>4, <1>6, <1>7, <1>8, <1>9 DEF TypeOK, Searching, Content, Source, Entry, Node
<1>17. Replying(c)'
  BY <1>2, <1>3, <1>4, <1>6, <1>7, <1>8 DEF TypeOK, Replying, Content, Source, Entry, InFlight
<1>18. (tag <=> ar[c] = "open")' /\ fault' \in {"none", "null"}
  BY <1>2, <1>6, <1>7, <1>8 DEF TypeOK, ObjectStands
<1> QED
  BY <1>1, <1>10, <1>11, <1>12, <1>13, <1>14, <1>15, <1>16, <1>17, <1>18, StillOneReader

(* The ArchiveData moves from the handle to the stream. *)
LEMMA WrapKeeps ==
  ASSUME TurnsInv, NEW c \in Client, Wrap(c), fault = "none"
  PROVE  TurnsInv'
<1> USE NullAssumption, ReplyAssumption, ClientAssumption
    DEF Wrap, Goto, Die, given, stream, local
<1>1. pc[c] # "idle"
  OBVIOUS
<1>2. /\ TypeOK /\ OneRead /\ Owned /\ Cached
      /\ ObjectStands(c) /\ Searching(c) /\ Replying(c)
      /\ tag <=> ar[c] = "open"
  BY <1>1, OneReader
<1>3. archive \in Seq(Raw) /\ Len(archive) \in Nat /\ Last = 2 * Len(archive) + 2
  BY <1>2, Sizes
<1>4. UNCHANGED <<archive, level>> /\ Last' = Last
  BY DEF Last
<1>5. qdata[Holder(c)] = c /\ c \in live
  BY <1>2 DEF Owned, InFlight
<1>6. /\ pc' = [pc EXCEPT ![c] = "stream"] /\ reply' = [reply EXCEPT ![c] = NULL]
      /\ qdata' = [qdata EXCEPT ![c] = c, ![file[c]] = NULL]
      /\ UNCHANGED <<pos, tag, cache, fault, file, want, ar, at, live>>
  BY <1>5 DEF Holder
<1>7. pc[c] = "wrap"
  OBVIOUS
<1> HIDE DEF Wrap
<1>8. \A d \in Client \ {c} :
        /\ pc'[d] = pc[d] /\ ar'[d] = ar[d]
        /\ pc[d] = "idle" /\ ar[d] = "none" /\ d \notin live
        /\ \A o \in File \cup Client : qdata[o] # d
  BY <1>1, <1>2, <1>6, <1>7, OthersIdle DEF TypeOK
<1>9. TypeOK'
  BY <1>2, <1>3, <1>4, <1>5, <1>6, <1>7 DEF TypeOK, ObjectStands, InFlight, Errors
<1>10. OneRead'
  BY <1>2, <1>4, <1>5, <1>6, <1>7, <1>8 DEF TypeOK, OneRead, InFlight
<1>11. Owned'
  BY <1>2, <1>4, <1>5, <1>6, <1>7, <1>8 DEF TypeOK, Owned, InFlight, Holder
<1>12. Cached'
  BY <1>2, <1>4, <1>5, <1>6, <1>7 DEF Cached, Content, Source, Entry, Node
<1>13. ObjectStands(c)'
  BY <1>2, <1>3, <1>4, <1>5, <1>6, <1>7 DEF TypeOK, ObjectStands, InFlight
<1>14. Searching(c)'
  BY <1>2, <1>3, <1>4, <1>5, <1>6, <1>7
     DEF TypeOK, Searching, ObjectStands, Sought, HeadersSeen, Content, Source, Entry, Node
<1>15. Replying(c)'
  BY <1>2, <1>4, <1>6, <1>7 DEF TypeOK, OneRead, Replying
<1>16. (tag <=> ar[c] = "open")' /\ fault' \in {"none", "null"}
  BY <1>2, <1>5, <1>6, <1>7 DEF TypeOK, ObjectStands
<1> QED
  BY <1>1, <1>8, <1>9, <1>10, <1>11, <1>12, <1>13, <1>14, <1>15, <1>16, StillOneReader

(* Closing unties, untags and frees what the read had. *)
LEMMA ReleaseKeeps ==
  ASSUME TurnsInv, NEW c \in Client, Release(c), fault = "none"
  PROVE  TurnsInv'
<1> USE NullAssumption, ReplyAssumption, ClientAssumption
    DEF Release, Free, AfterFreeing, Goto, Die, given, stream, local
<1>1. pc[c] # "idle"
  OBVIOUS
<1>2. /\ TypeOK /\ OneRead /\ Owned /\ Cached
      /\ ObjectStands(c) /\ Searching(c) /\ Replying(c)
      /\ tag <=> ar[c] = "open"
  BY <1>1, OneReader
<1>3. archive \in Seq(Raw) /\ Len(archive) \in Nat /\ Last = 2 * Len(archive) + 2
  BY <1>2, Sizes
<1>4. UNCHANGED <<archive, level>> /\ Last' = Last
  BY DEF Last
<1>5. \A d \in Client \ {c} :
        /\ pc'[d] = pc[d] /\ ar'[d] = ar[d]
        /\ pc[d] = "idle" /\ ar[d] = "none" /\ d \notin live
        /\ \A o \in File \cup Client : qdata[o] # d
  BY <1>1, <1>2, OthersIdle DEF TypeOK
<1>6. TypeOK'
  BY <1>2, <1>3, <1>4 DEF TypeOK, ObjectStands, InFlight, Errors
<1>7. OneRead'
  BY <1>2, <1>4, <1>5 DEF TypeOK, OneRead, Replying, Errors
<1>8. Owned'
  BY <1>2, <1>4, <1>5 DEF TypeOK, Owned, InFlight, Holder
<1>9. Cached'
  BY <1>2, <1>4 DEF Cached, Content, Source, Entry, Node
<1>10. ObjectStands(c)'
  BY <1>2, <1>3, <1>4 DEF TypeOK, ObjectStands, InFlight
<1>11. Searching(c)'
  BY <1>2, <1>3, <1>4
     DEF TypeOK, Searching, ObjectStands, Sought, HeadersSeen, Content, Source, Entry, Node
<1>12. Replying(c)'
  BY <1>2, <1>3, <1>4 DEF TypeOK, Replying, Content, Source, Entry, InFlight, Cached, Errors
<1>13. (tag <=> ar[c] = "open")' /\ fault' \in {"none", "null"}
  BY <1>2 DEF TypeOK, ObjectStands
<1> QED
  BY <1>1, <1>5, <1>6, <1>7, <1>8, <1>9, <1>10, <1>11, <1>12, <1>13, StillOneReader

(* So does disposing of the stream. *)
LEMMA DisposeKeeps ==
  ASSUME TurnsInv, NEW c \in Client, Dispose(c), fault = "none"
  PROVE  TurnsInv'
<1> USE NullAssumption, ReplyAssumption, ClientAssumption
    DEF Dispose, Free, AfterFreeing, Goto, Die, given, stream, local
<1>1. pc[c] # "idle"
  OBVIOUS
<1>2. /\ TypeOK /\ OneRead /\ Owned /\ Cached
      /\ ObjectStands(c) /\ Searching(c) /\ Replying(c)
      /\ tag <=> ar[c] = "open"
  BY <1>1, OneReader
<1>3. archive \in Seq(Raw) /\ Len(archive) \in Nat /\ Last = 2 * Len(archive) + 2
  BY <1>2, Sizes
<1>4. UNCHANGED <<archive, level>> /\ Last' = Last
  BY DEF Last
<1>5. \A d \in Client \ {c} :
        /\ pc'[d] = pc[d] /\ ar'[d] = ar[d]
        /\ pc[d] = "idle" /\ ar[d] = "none" /\ d \notin live
        /\ \A o \in File \cup Client : qdata[o] # d
  BY <1>1, <1>2, OthersIdle DEF TypeOK
<1>6. TypeOK'
  BY <1>2, <1>3, <1>4 DEF TypeOK, ObjectStands, InFlight, Errors
<1>7. OneRead'
  BY <1>2, <1>4, <1>5 DEF TypeOK, OneRead, InFlight
<1>8. Owned'
  BY <1>2, <1>4, <1>5 DEF TypeOK, Owned, InFlight, Holder
<1>9. Cached'
  BY <1>2, <1>4 DEF Cached, Content, Source, Entry, Node
<1>10. ObjectStands(c)'
  BY <1>2, <1>3, <1>4 DEF TypeOK, ObjectStands, InFlight
<1>11. Searching(c)'
  BY <1>2, <1>3, <1>4
     DEF TypeOK, Searching, ObjectStands, Sought, HeadersSeen, Content, Source, Entry, Node
<1>12. Replying(c)'
  BY <1>2, <1>3, <1>4 DEF TypeOK, Replying, Content, Source, Entry, InFlight, Cached, Errors
<1>13. (tag <=> ar[c] = "open")' /\ fault' \in {"none", "null"}
  BY <1>2 DEF TypeOK, ObjectStands
<1> QED
  BY <1>1, <1>5, <1>6, <1>7, <1>8, <1>9, <1>10, <1>11, <1>12, <1>13, StillOneReader

(* What is cached is the contents of the path. *)
LEMMA StoreKeeps ==
  ASSUME TurnsInv, NEW c \in Client, Store(c), fault = "none"
  PROVE  TurnsInv'
<1> USE NullAssumption, ReplyAssumption, ClientAssumption
    DEF Store, Goto, Die, given, stream, local
<1>1. pc[c] # "idle"
  OBVIOUS
<1>2. /\ TypeOK /\ OneRead /\ Owned /\ Cached
      /\ ObjectStands(c) /\ Searching(c) /\ Replying(c)
      /\ tag <=> ar[c] = "open"
  BY <1>1, OneReader
<1>3. archive \in Seq(Raw) /\ Len(archive) \in Nat /\ Last = 2 * Len(archive) + 2
  BY <1>2, Sizes
<1>4. UNCHANGED <<archive, level>> /\ Last' = Last
  BY DEF Last
<1>5. \A d \in Client \ {c} :
        /\ pc'[d] = pc[d] /\ ar'[d] = ar[d]
        /\ pc[d] = "idle" /\ ar[d] = "none" /\ d \notin live
        /\ \A o \in File \cup Client : qdata[o] # d
  BY <1>1, <1>2, OthersIdle DEF TypeOK
<1>6. TypeOK'
  BY <1>2, <1>3, <1>4 DEF TypeOK, Replying, Searching, InFlight
<1>7. OneRead'
  BY <1>2, <1>4, <1>5 DEF TypeOK, OneRead, InFlight
<1>8. Owned'
  BY <1>2, <1>4, <1>5 DEF TypeOK, Owned, InFlight, Holder
<1>9. Cached'
  <2>1. reply[c] = Content(want[c]) /\ level = "OTF" /\ Entry(want[c]) # NULL /\ want[c] \in Node
    BY <1>2 DEF Replying, OneRead, Searching
  <2> QED
    BY <1>2, <1>4, <2>1 DEF TypeOK, Cached, Content, Source, Entry, Node
<1>10. ObjectStands(c)'
  BY <1>2, <1>3, <1>4 DEF TypeOK, ObjectStands, InFlight
<1>11. Searching(c)'
  BY <1>2, <1>3, <1>4
     DEF TypeOK, Searching, ObjectStands, Sought, HeadersSeen, Content, Source, Entry, Node
<1>12. Replying(c)'
  BY <1>2, <1>3, <1>4 DEF TypeOK, Replying, Content, Source, Entry, InFlight, Cached, Errors
<1>13. (tag <=> ar[c] = "open")' /\ fault' \in {"none", "null"}
  BY <1>2 DEF TypeOK, ObjectStands
<1> QED
  BY <1>1, <1>5, <1>6, <1>7, <1>8, <1>9, <1>10, <1>11, <1>12, <1>13, StillOneReader

(* A read begins only while nobody reads, and touches nothing shared. *)
LEMMA BeginKeeps ==
  ASSUME TurnsInv, \A d \in Client : pc[d] = "idle",
         NEW c \in Client, NEW f \in File, NEW p \in Path, Begin(c, f, p), fault = "none"
  PROVE  TurnsInv'
<1> USE NullAssumption, ReplyAssumption, ClientAssumption
    DEF Begin, Goto, given, stream, local
<1>1. TypeOK
  BY DEF TurnsInv
<1>2. archive \in Seq(Raw) /\ Len(archive) \in Nat /\ UNCHANGED <<archive, level>> /\ Last' = Last
  BY <1>1, Sizes DEF Last
<1>3. pc'[c] \in {"idle", "seek"} /\ \A d \in Client \ {c} : pc'[d] = "idle"
  BY <1>1 DEF TypeOK
<1>4. pc'[c] = "seek" =>
        /\ want'[c] = p /\ p \in Node /\ reply'[c] = NULL /\ level # "FULL"
        /\ level = "OTF" => cache[p] = NULL /\ Entry(p) # NULL
  BY <1>1 DEF TypeOK, Levels
<1>5. TypeOK'
  <2>1. want' \in [Client -> Path \cup {NULL}] /\ file' \in [Client -> File]
    BY <1>1 DEF TypeOK
  <2>2. pc' \in [Client -> {"idle", "seek", "make", "store"} \cup InFlight]
    BY <1>1 DEF TypeOK
  <2>3. cache[p] \in {NULL, Garbage} \cup BytesOf(archive)
    BY <1>1 DEF TypeOK
  <2>4. reply' \in [Client -> Errors \cup {NULL, Garbage} \cup BytesOf(archive)]
    BY <1>1, <2>3 DEF TypeOK, Errors
  <2> QED
    BY <1>1, <1>2, <2>1, <2>2, <2>4 DEF TypeOK
<1>6. OneRead'
  BY <1>2, <1>3, <1>4 DEF OneRead
<1>7. Owned'
  <2>1. \A d \in Client : d \notin live
    BY DEF TurnsInv, Owned, InFlight
  <2>2. \A o \in File \cup Client : qdata[o] = NULL
    BY <1>1 DEF TurnsInv, Owned, InFlight, TypeOK
  <2> QED
    BY <1>3, <2>1, <2>2 DEF Owned, InFlight
<1>8. Cached'
  BY <1>2 DEF TurnsInv, Cached, Content, Source, Entry, Node
<1>9. \A d \in Client : ar[d] = "none"
  BY DEF TurnsInv, ObjectStands
<1>10. \A d \in Client : ObjectStands(d)'
  BY <1>3, <1>9 DEF ObjectStands
<1>11. \A d \in Client : Searching(d)' /\ Replying(d)'
  BY <1>2, <1>3, <1>4 DEF Searching, Replying, InFlight, Entry, Node
<1> QED
  BY <1>5, <1>6, <1>7, <1>8, <1>9, <1>10, <1>11 DEF TurnsInv

(* At first nobody reads, and all is cached at the level FULL. *)
LEMMA TurnsInitially == Init => TurnsInv
<1> SUFFICES ASSUME Init PROVE TurnsInv
  OBVIOUS
<1> USE NullAssumption, ClientAssumption
<1>1. archive \in Seq(Raw) /\ Len(archive) \in Nat
  BY ArchiveAssumption DEF Init
<1>2. \A p \in Path : Entry(p) \in {NULL, RootEntry} \cup (1 .. Len(archive))
  BY <1>1, LastEntryType DEF Entry
<1>3. TypeOK
  <2>1. cache \in [Path -> {NULL, Garbage} \cup BytesOf(archive)]
    <3>1. \A p \in Path : Entry(p) # RootEntry
            => Dumped(archive, Entry(p)) \in {NULL} \cup BytesOf(archive)
      BY <1>1, <1>2, DumpedBytes, DumpedNothing
    <3> QED
      BY <3>1 DEF Init
  <2>2. pos \in 0 .. Last /\ 0 \in 0 .. Last
    BY <1>1 DEF Init, Last
  <2>3. qdata \in [File \cup Client -> Client \cup {NULL}]
    BY DEF Init
  <2> QED
    BY <2>1, <2>2, <2>3 DEF Init, TypeOK
<1>4. OneRead /\ Owned
  BY DEF Init, OneRead, Owned, InFlight
<1>5. Cached
  <2>1. \A p \in Path : Entry(p) # NULL => p \in Node
    BY <1>1, EntryHasNode DEF Entry, Node
  <2>2. \A p \in Path : Dumped(archive, Entry(p)) = NULL <=> Entry(p) = NULL
    BY <1>1, <1>2, DumpedEntry
  <2> QED
    BY <1>2, <2>1, <2>2 DEF Init, Cached, Content, Source, RootEntry
<1>6. \A c \in Client : ObjectStands(c) /\ Searching(c) /\ Replying(c)
  BY DEF Init, ObjectStands, Searching, Replying, InFlight
<1> QED
  BY <1>3, <1>4, <1>5, <1>6 DEF Init, TurnsInv

(* A step of one client, whichever it is. *)
LEMMA ProgressKeeps ==
  ASSUME TurnsInv, fault = "none", NEW c \in Client, Progress(c) \/ Dispose(c)
  PROVE  TurnsInv'
<1>1. ~ UseFreed(c)
  <2> SUFFICES ASSUME UseFreed(c) PROVE FALSE
    OBVIOUS
  <2>1. pc[c] \in InFlight /\ c \notin live
    BY DEF UseFreed, InFlight
  <2> QED
    BY <2>1 DEF TurnsInv, Owned
<1>2. OpenReturnsNegative(c) \/ ScanForNothing(c) => Die("null")
  BY DEF OpenReturnsNegative, ScanForNothing
<1> QED
  BY <1>1, <1>2, DeathKeeps, SeekKeeps, MakeKeeps, CheckKeeps, OpenArchiveKeeps,
     OpenFailsKeeps, OpenReturnsPositiveKeeps, ReadFailsKeeps, NextHeaderKeeps,
     EndOfArchiveKeeps, ReadBodyKeeps, WrapKeeps, ReleaseKeeps, DisposeKeeps, StoreKeeps
  DEF Progress

(* The inductive invariant holds of clients that take turns. *)
THEOREM TurnsKept == TurnsSpec => []TurnsInv
<1>1. ASSUME TurnsInv, [TurnsNext]_vars PROVE TurnsInv'
  <2>1. CASE TurnsNext
    <3>1. fault = "none"
      BY <2>1 DEF TurnsNext, Step
    <3>2. ASSUME NEW c \in Client, NEW f \in File, NEW p \in Path, Begin(c, f, p),
                 level = "FULL" \/ \A d \in Client : pc[d] = "idle"
          PROVE  TurnsInv'
      <4>1. \A d \in Client : pc[d] = "idle"
        BY <1>1, <3>2 DEF TurnsInv, OneRead
      <4> QED
        BY <1>1, <3>1, <3>2, <4>1, BeginKeeps
    <3> QED
      BY <1>1, <2>1, <3>1, <3>2, ProgressKeeps DEF TurnsNext, Step
  <2>2. CASE UNCHANGED vars
    <3> USE <1>1, <2>2 DEF vars, given, stream, local, TurnsInv
    <3>1. TypeOK' /\ OneRead' /\ Owned'
      BY DEF TypeOK, OneRead, Owned, InFlight, Holder, Last
    <3>2. Cached'
      BY DEF Cached, Content, Source, Entry, Node
    <3>3. \A c \in Client : ObjectStands(c)' /\ Searching(c)' /\ Replying(c)'
      BY DEF ObjectStands, Searching, Replying, Sought, HeadersSeen, Content, Source, Entry, Node,
             InFlight
    <3> QED
      BY <3>1, <3>2, <3>3
  <2> QED
    BY <1>1, <2>1, <2>2
<1> QED
  BY TurnsInitially, <1>1, PTL DEF TurnsSpec

(***************************************************************************)
(* The state is well typed; in particular the bytes of an AksStream and of *)
(* the cache are those of entries, or marked as garbage.                   *)
(***************************************************************************)
THEOREM ReadsHaveTypes == TurnsSpec => []TypeOK
BY TurnsKept, PTL DEF TurnsInv

(* The "in use" tag is on exactly while an archive object is open. *)
THEOREM TagIsExact == TurnsSpec => []TagExact
<1>1. TurnsInv => TagExact
  BY DEF TurnsInv, TagExact
<1> QED
  BY TurnsKept, <1>1, PTL

(* An ArchiveData has one owner while its read lasts, and is gone after it. *)
THEOREM OwnerIsExact == TurnsSpec => []OwnerExact
<1>1. ASSUME TurnsInv PROVE OwnerExact
  <2> SUFFICES ASSUME NEW c \in Client
               PROVE  LET owners == {o \in File \cup Client : qdata[o] = c}
                      IN  IF pc[c] \in InFlight
                            THEN c \in live /\ owners = {Holder(c)}
                            ELSE c \notin live /\ owners = {}
    BY DEF OwnerExact
  <2>1. \A o \in File \cup Client : qdata[o] = c => pc[c] \in InFlight /\ o = Holder(c)
    BY <1>1, ClientAssumption DEF TurnsInv, Owned
  <2>2. Holder(c) \in File \cup Client
    BY <1>1 DEF TurnsInv, TypeOK, Holder
  <2> QED
    BY <1>1, <2>1, <2>2 DEF TurnsInv, Owned
<1> QED
  BY TurnsKept, <1>1, PTL

(* An open archive object finds the base stream where it left it. *)
THEOREM StreamIsUndisturbed == TurnsSpec => []NeverDisturbed
<1>1. TurnsInv => NeverDisturbed
  BY DEF TurnsInv, ObjectStands, NeverDisturbed, Undisturbed
<1> QED
  BY TurnsKept, <1>1, PTL

(* The handle or stream that is asked for its ArchiveData has it. *)
LEMMA WaysToDie ==
  ASSUME TurnsInv, fault = "none", NEW c \in Client, Progress(c) \/ Dispose(c), fault' = "null"
  PROVE  OpenReturnsNegative(c) \/ ScanForNothing(c)
<1> USE NullAssumption, ClientAssumption DEF Die
<1>1. fault' # fault
  OBVIOUS
<1>2. pc[c] \in InFlight => qdata[Holder(c)] # NULL /\ c \in live
  BY DEF TurnsInv, Owned
<1>3. ~ Check(c) /\ ~ Wrap(c)
  BY <1>1, <1>2 DEF Check, Wrap, Holder, InFlight
<1>4. ~ OpenFails(c)
  BY <1>1, <1>2 DEF OpenFails, Holder, InFlight
<1>5. ~ ReadFails(c) /\ ~ ReadBody(c)
  BY <1>1, <1>2 DEF ReadFails, ReportError, ReadBody, InFlight
<1>6. ~ UseFreed(c)
  BY <1>2 DEF UseFreed, InFlight
<1> QED
  BY <1>1, <1>3, <1>4, <1>5, <1>6
  DEF Progress, Seek, Make, OpenArchive, OpenReturnsPositive, NextHeader, EndOfArchive,
      Release, Store, Dispose, Free

(***************************************************************************)
(* No assertion of aks_archive.c fails, no freed ArchiveData is used, and  *)
(* a null dereference takes an entry that is missing, or archive_open's    *)
(* undefined return.                                                       *)
(***************************************************************************)
THEOREM AssertionsHold == TurnsSpec => []NoMisuse
<1> USE DEF given, stream, local
<1>1. Init => NoMisuse
  BY DEF Init, NoMisuse
<1>2. ASSUME TurnsInv, NoMisuse, [TurnsNext]_vars, TurnsInv' PROVE NoMisuse'
  <2>1. CASE UNCHANGED vars
    BY <1>2, <2>1 DEF vars, NoMisuse, Entry, Node
  <2>2. ASSUME NEW c \in Client, fault = "none", Progress(c) \/ Dispose(c), fault' = "null"
        PROVE  NoMisuse'
    <3>1. pc[c] \in {"open", "scan"} /\ UNCHANGED <<archive, level, pc, want>>
      BY <1>2, <2>2, WaysToDie DEF OpenReturnsNegative, ScanForNothing, Die
    <3>2. CASE OpenReturnsNegative(c)
      BY <2>2, <3>1, <3>2 DEF NoMisuse, OpenReturnsNegative
    <3>3. CASE ScanForNothing(c)
      <4>1. want[c] \in Node /\ Entry(want[c]) = NULL /\ level = "NONE" /\ pc[c] = "scan"
        BY <1>2, <3>1, <3>3, OneReader DEF ScanForNothing, Searching, OneRead, TypeOK, Levels
      <4>2. Entry(want[c])' = Entry(want[c]) /\ Node' = Node
        BY <3>1 DEF Entry, Node
      <4> QED
        BY <2>2, <3>1, <4>1, <4>2 DEF NoMisuse
    <3> QED
      BY <1>2, <2>2, <3>2, <3>3, WaysToDie
  <2>3. fault' \in {"none", "null"}
    BY <1>2 DEF TurnsInv
  <2>4. CASE fault' = "none"
    BY <2>4 DEF NoMisuse
  <2>5. CASE fault' = "null" /\ TurnsNext
    <3>1. fault = "none"
      BY <2>5 DEF TurnsNext, Step
    <3>2. \A c \in Client, f \in File, p \in Path : ~ Begin(c, f, p)
      BY <2>5, <3>1 DEF Begin
    <3> QED
      BY <2>2, <2>5, <3>1, <3>2 DEF TurnsNext, Step
  <2> QED
    BY <1>2, <2>1, <2>3, <2>4, <2>5
<1> QED
  BY TurnsKept, <1>1, <1>2, PTL DEF TurnsSpec

(***************************************************************************)
(* Reading.                                                                *)
(***************************************************************************)
(* Reading speaks of the same archives as AksRead. *)
LEMMA SameAnswers ==
  ASSUME NEW p
  PROVE  /\ Asked!Node = Node /\ Asked!Entry(p) = Entry(p)
         /\ Asked!Source(p) = Source(p) /\ Asked!Content(p) = Content(p)
<1>1. Asked!Node = Node
  BY DEF Asked!Node, Node, NodesAfter, Asked!NodesAfter
<1>2. Asked!RootEntry = RootEntry
  BY DEF RootEntry, Asked!RootEntry
<1>3. Asked!Entry(p) = Entry(p)
  <2>1. Asked!FiledUnder(archive, Len(archive), p) = FiledUnder(archive, Len(archive), p)
    BY DEF FiledUnder, Asked!FiledUnder
  <2>2. \A S : Asked!Max(S) = Max(S)
    BY DEF Max, Asked!Max
  <2> QED
    BY <1>2, <2>1, <2>2 DEF Entry, LastEntry, Asked!Entry, Asked!LastEntry
<1>4. \A r : Asked!FirstNamed(archive, r) = FirstNamed(archive, r)
  <2>1. \A r : Asked!Named(archive, r) = Named(archive, r)
    BY DEF Named, Asked!Named
  <2>2. \A S : Asked!Min(S) = Min(S)
    BY DEF Min, Asked!Min
  <2> QED
    BY <2>1, <2>2 DEF FirstNamed, Asked!FirstNamed
<1>5. Asked!RawOf(archive, Entry(p)) = RawOf(archive, Entry(p))
  BY <1>2 DEF RawOf, Asked!RawOf
<1>6. Asked!Source(p) = Source(p)
  BY <1>3, <1>4, <1>5 DEF Source, Asked!Source
<1>7. \A e : Asked!Dumped(archive, e) = Dumped(archive, e)
  BY DEF Dumped, Asked!Dumped
<1> QED
  BY <1>1, <1>3, <1>6, <1>7 DEF Content, Asked!Content

(* What answers a path has, in the terms of AksRead. *)
LEMMA AnswersAre ==
  ASSUME NEW p
  PROVE  /\ (p \notin Node \/ (level # "NONE" /\ Entry(p) = NULL)
             \/ (level = "FULL" /\ Entry(p) = RootEntry)) => INVAL \in Asked!Answers(p)
         /\ p \in Node /\ Entry(p) \notin {NULL, RootEntry} /\ level = "FULL"
              => Content(p) \in Asked!Answers(p)
         /\ p \in Node /\ Entry(p) # NULL /\ level # "FULL"
              => (IF Content(p) = NULL THEN NOT_FOUND ELSE Content(p)) \in Asked!Answers(p)
         /\ p \in Node /\ (level = "NONE" \/ Entry(p) # NULL) /\ level # "FULL"
              => IO \in Asked!Answers(p)
<1>1. Asked!RootEntry = RootEntry
  BY DEF RootEntry, Asked!RootEntry
<1> QED
  BY <1>1, SameAnswers DEF Asked!Answers, Asked!Readable

(* A step between the question and the answer does not show. *)
LEMMA HiddenStep ==
  ASSUME TypeOK, NEW c \in Client, NEW n, NEW a, Goto(c, n, a),
         UNCHANGED <<archive, level, want>>,
         pc[c] \notin {"idle", "stream"}, n # "idle", n = "stream" => a = NULL
  PROVE  UNCHANGED Asked!vars
<1>1. pc' = [pc EXCEPT ![c] = n] /\ reply' = [reply EXCEPT ![c] = a]
  BY DEF Goto
<1>2. \A d \in Client : (pc'[d] # "idle") <=> (pc[d] # "idle")
  BY <1>1 DEF TypeOK
<1>3. [d \in Client |-> pc'[d] # "idle"] = [d \in Client |-> pc[d] # "idle"]
  BY <1>2
<1>4. [d \in Client |-> IF pc'[d] \in {"idle", "stream"} THEN reply'[d] ELSE NULL]
        = [d \in Client |-> IF pc[d] \in {"idle", "stream"} THEN reply[d] ELSE NULL]
  BY <1>1 DEF TypeOK
<1> QED
  BY <1>3, <1>4 DEF Asked!vars, Asked!given

(* A step to the end of a read, or to the contents of a stream, answers. *)
LEMMA TellingStep ==
  ASSUME TypeOK, NEW c \in Client, NEW n, NEW a, Goto(c, n, a),
         UNCHANGED <<archive, level, want>>,
         pc[c] # "idle", pc[c] = "stream" => reply[c] = NULL /\ level = "NONE" /\ n = "stream",
         pc[c] # "stream" => n = "idle",
         a \in Asked!Answers(want[c])
  PROVE  Asked!Tell(c)
<1>1. pc' = [pc EXCEPT ![c] = n] /\ reply' = [reply EXCEPT ![c] = a]
  BY DEF Goto
<1> DEFINE P == [d \in Client |-> pc[d] # "idle"]
           R == [d \in Client |-> IF pc[d] \in {"idle", "stream"} THEN reply[d] ELSE NULL]
<1>2. P[c] /\ R[c] = NULL
  OBVIOUS
<1>3. R' = [R EXCEPT ![c] = a]
  BY <1>1 DEF TypeOK
<1>4. CASE pc[c] = "stream"
  <2>1. P' = P
    BY <1>1, <1>4 DEF TypeOK
  <2> QED
    BY <1>2, <1>3, <1>4, <2>1 DEF Asked!Tell, Asked!given
<1>5. CASE pc[c] # "stream"
  <2>1. P' = [P EXCEPT ![c] = FALSE]
    BY <1>1, <1>5 DEF TypeOK
  <2> QED
    BY <1>2, <1>3, <2>1 DEF Asked!Tell, Asked!given
<1> QED
  BY <1>4, <1>5

(* The question; where the cache decides, it is answered at once. *)
LEMMA BeginAsks ==
  ASSUME TurnsInv, NEW c \in Client, NEW f \in File, NEW p \in Path, Begin(c, f, p)
  PROVE  Asked!Ask(c, p) \/ Asked!AskAndTell(c, p)
<1> DEFINE P == [d \in Client |-> pc[d] # "idle"]
           R == [d \in Client |-> IF pc[d] \in {"idle", "stream"} THEN reply[d] ELSE NULL]
<1>1. TypeOK /\ Cached /\ UNCHANGED <<archive, level>> /\ want' = [want EXCEPT ![c] = p]
  BY DEF TurnsInv, Begin, given
<1>2. pc[c] = "idle" /\ ~ P[c]
  BY DEF Begin
<1>3. CASE Goto(c, "seek", NULL)
  <2>1. P' = [P EXCEPT ![c] = TRUE]
    BY <1>1, <1>3 DEF Goto, TypeOK
  <2>2. R' = [R EXCEPT ![c] = NULL]
    BY <1>1, <1>3 DEF Goto, TypeOK
  <2> QED
    BY <1>1, <1>2, <2>1, <2>2 DEF Asked!Ask, Asked!given
<1>4. ASSUME NEW a \in Asked!Answers(p), Goto(c, "idle", a)
      PROVE  Asked!AskAndTell(c, p)
  <2>1. P' = P
    BY <1>1, <1>2, <1>4 DEF Goto, TypeOK
  <2>2. R' = [R EXCEPT ![c] = a]
    BY <1>1, <1>2, <1>4 DEF Goto, TypeOK
  <2> QED
    BY <1>1, <1>2, <2>1, <2>2 DEF Asked!AskAndTell, Asked!given
<1>5. p \notin Node => INVAL \in Asked!Answers(p)
  BY AnswersAre
<1>6. level # "NONE" /\ cache[p] = NULL /\ (level = "FULL" \/ Entry(p) = NULL)
        => INVAL \in Asked!Answers(p)
  BY <1>1, AnswersAre DEF Cached
<1>7. level # "NONE" /\ cache[p] # NULL => cache[p] \in Asked!Answers(p)
  BY <1>1, AnswersAre DEF Cached
<1> QED
  BY <1>3, <1>4, <1>5, <1>6, <1>7 DEF Begin

(* Every step of a read shows its answer or nothing, or closes a stream. *)
LEMMA ProgressTells ==
  ASSUME TurnsInv, NEW c \in Client, Progress(c) \/ Dispose(c)
  PROVE  Asked!Tell(c) \/ Asked!Close(c) \/ UNCHANGED Asked!vars
<1> USE NullAssumption, ReplyAssumption, ClientAssumption DEF given, stream, local
<1>1. pc[c] # "idle"
  BY DEF Progress, Seek, Make, Check, OpenArchive, OpenFails, OpenReturnsPositive,
     OpenReturnsNegative, UseFreed, ReadFails, ScanForNothing, NextHeader, EndOfArchive,
     ReadBody, Wrap, Release, Store, Dispose
<1>2. TypeOK /\ OneRead /\ Owned /\ ObjectStands(c) /\ Searching(c) /\ Replying(c)
  BY <1>1, OneReader
<1>3. want[c] \in Node /\ (level = "NONE" \/ Entry(want[c]) # NULL) /\ level # "FULL"
  BY <1>1, <1>2 DEF Searching, OneRead, TypeOK, Levels
<1>4. IO \in Asked!Answers(want[c])
  BY <1>3, AnswersAre
<1>5. ASSUME NEW how, Die(how) PROVE UNCHANGED Asked!vars
  BY <1>5 DEF Die, Asked!vars, Asked!given
<1>6. CASE Seek(c)
  <2>1. CASE Goto(c, "make", NULL)
    BY <1>2, <1>6, <2>1, HiddenStep DEF Seek
  <2>2. CASE Goto(c, "idle", IO)
    BY <1>2, <1>4, <1>6, <2>2, TellingStep DEF Seek
  <2> QED
    BY <1>6, <2>1, <2>2 DEF Seek
<1>7. CASE Make(c)
  BY <1>2, <1>7, HiddenStep DEF Make
<1>8. CASE Check(c)
  <2>1. pc[c] = "check" /\ (Die("null") \/ Die("freed") \/ Die("in use")
          \/ (Goto(c, "open", NULL) /\ UNCHANGED <<archive, level, want>>))
    BY <1>8 DEF Check
  <2> QED
    BY <1>2, <1>5, <2>1, HiddenStep
<1>9. CASE OpenArchive(c)
  BY <1>2, <1>9, HiddenStep DEF OpenArchive
<1>10. CASE OpenFails(c)
  BY <1>2, <1>5, <1>10, HiddenStep DEF OpenFails
<1>11. CASE OpenReturnsPositive(c)
  BY <1>2, <1>11, HiddenStep DEF OpenReturnsPositive
<1>12. CASE OpenReturnsNegative(c) \/ UseFreed(c) \/ ScanForNothing(c)
  BY <1>5, <1>12 DEF OpenReturnsNegative, UseFreed, ScanForNothing
<1>13. CASE ReadFails(c)
  <2>1. CASE Die("null")
    BY <1>5, <2>1
  <2>2. CASE pc[c] = "stream" /\ ~ Die("null")
    <3>1. Goto(c, "stream", IO) /\ UNCHANGED <<archive, level, want>> /\ reply[c] = NULL
      BY <1>13, <2>2 DEF ReadFails, ReportError
    <3> QED
      BY <1>2, <1>4, <2>2, <3>1, TellingStep DEF OneRead
  <2>3. CASE pc[c] # "stream" /\ ~ Die("null")
    <3>1. Goto(c, "release", IO) /\ UNCHANGED <<archive, level, want>>
      BY <1>13, <2>3 DEF ReadFails, ReportError
    <3> QED
      BY <1>1, <1>2, <2>3, <3>1, HiddenStep
  <2> QED
    BY <2>1, <2>2, <2>3
<1>14. CASE NextHeader(c)
  <2>1. PICK n \in {"scan", "wrap", "dump"} : Goto(c, n, NULL)
    BY <1>14 DEF NextHeader
  <2> QED
    BY <1>2, <1>14, <2>1, HiddenStep DEF NextHeader
<1>15. CASE EndOfArchive(c)
  BY <1>2, <1>15, HiddenStep DEF EndOfArchive
<1>16. CASE ReadBody(c)
  <2>1. /\ HeadersSeen(c) = Source(want[c]) /\ HeadersSeen(c) \in 1 .. Len(archive)
        /\ Entry(want[c]) # NULL /\ Undisturbed(c)
    BY <1>2, <1>16 DEF ReadBody, Searching, ObjectStands, Undisturbed
  <2>2. Body(c) \in Asked!Answers(want[c])
    <3>1. Body(c) = Content(want[c])
      BY <1>2, <1>16, <2>1 DEF ReadBody, Body, Content, OneRead
    <3>2. Content(want[c]) # NULL
      <4>1. Dumped(archive, HeadersSeen(c)) \in BytesOf(archive)
        BY <1>2, <2>1, Sizes, DumpedBytes
      <4> QED
        BY <1>2, <2>1, <4>1, BytesAreNoErrors DEF Content
    <3> QED
      BY <1>3, <2>1, <3>1, <3>2, AnswersAre
  <2>3. CASE Die("null")
    BY <1>5, <2>3
  <2>4. CASE pc[c] = "dump" /\ ~ Die("null")
    <3>1. Goto(c, "release", Body(c)) /\ UNCHANGED <<archive, level, want>>
      BY <1>16, <2>4 DEF ReadBody
    <3> QED
      BY <1>2, <2>4, <3>1, HiddenStep
  <2>5. CASE pc[c] # "dump" /\ ~ Die("null")
    <3>1. Goto(c, "stream", Body(c)) /\ UNCHANGED <<archive, level, want>>
          /\ pc[c] = "stream" /\ reply[c] = NULL
      BY <1>16, <2>5 DEF ReadBody
    <3> QED
      BY <1>2, <2>2, <3>1, TellingStep DEF OneRead
  <2> QED
    BY <2>3, <2>4, <2>5
<1>17. CASE Wrap(c)
  <2>1. pc[c] = "wrap" /\ (Die("no data")
          \/ (Goto(c, "stream", NULL) /\ UNCHANGED <<archive, level, want>>))
    BY <1>17 DEF Wrap
  <2> QED
    BY <1>2, <1>5, <2>1, HiddenStep
<1>18. CASE Release(c)
  <2>1. UNCHANGED <<archive, level, want>> /\ pc[c] = "release"
    BY <1>18 DEF Release, Free
  <2>2. CASE reply[c] \in Errors
    <3>1. Goto(c, "idle", reply[c])
      BY <1>18, <2>2 DEF Release, Free
    <3>2. reply[c] = IO \/ (reply[c] = NOT_FOUND /\ Entry(want[c]) # NULL /\ Content(want[c]) = NULL)
      BY <1>2, <2>1, <2>2, BytesAreNoErrors DEF Replying
    <3>3. reply[c] \in Asked!Answers(want[c])
      BY <1>3, <1>4, <3>2, AnswersAre
    <3> QED
      BY <1>2, <2>1, <3>1, <3>3, TellingStep
  <2>3. CASE reply[c] \notin Errors
    <3>1. Goto(c, "store", reply[c])
      BY <1>18, <2>3 DEF Release, Free
    <3> QED
      BY <1>2, <2>1, <3>1, HiddenStep
  <2> QED
    BY <2>2, <2>3
<1>19. CASE Store(c)
  <2>1. Goto(c, "idle", reply[c]) /\ UNCHANGED <<archive, level, want>> /\ pc[c] = "store"
    BY <1>19 DEF Store
  <2>2. reply[c] = Content(want[c]) /\ Content(want[c]) # NULL /\ level = "OTF"
    BY <1>2, <2>1, BytesAreNoErrors DEF Replying, OneRead
  <2>3. reply[c] \in Asked!Answers(want[c])
    BY <1>3, <2>2, AnswersAre
  <2> QED
    BY <1>2, <2>1, <2>3, TellingStep
<1>20. CASE Dispose(c)
  <2>1. /\ pc[c] = "stream" /\ pc' = [pc EXCEPT ![c] = "idle"] /\ UNCHANGED <<archive, level, want>>
        /\ reply' = [reply EXCEPT ![c] = reply[c]] /\ level = "NONE"
    BY <1>2, <1>20 DEF Dispose, Free, Goto, OneRead
  <2> DEFINE P == [d \in Client |-> pc[d] # "idle"]
             R == [d \in Client |-> IF pc[d] \in {"idle", "stream"} THEN reply[d] ELSE NULL]
  <2>2. P[c] /\ P' = [P EXCEPT ![c] = FALSE]
    BY <1>2, <2>1 DEF TypeOK
  <2>3. R' = R
    BY <1>2, <2>1 DEF TypeOK
  <2> QED
    BY <2>1, <2>2, <2>3 DEF Asked!Close, Asked!given
<1> QED
  BY <1>6, <1>7, <1>8, <1>9, <1>10, <1>11, <1>12, <1>13, <1>14, <1>15, <1>16, <1>17,
     <1>18, <1>19, <1>20 DEF Progress

(***************************************************************************)
(* Clients that take turns see Reading: g_file_read answers each question  *)
(* once, and nothing that happens on the shared stream in between shows.   *)
(***************************************************************************)
THEOREM QuestionsAreAnswered == TurnsSpec => AnswersQuestions
<1>1. Init => Asked!Init
  BY DEF Init, Asked!Init, Levels
<1>2. TurnsInv /\ [TurnsNext]_vars => [Asked!Next]_Asked!vars
  <2> SUFFICES ASSUME TurnsInv, [TurnsNext]_vars
               PROVE  [Asked!Next]_Asked!vars
    OBVIOUS
  <2>1. CASE TurnsNext
    BY <2>1, BeginAsks, ProgressTells DEF TurnsNext, Step, Asked!Next
  <2>2. CASE UNCHANGED vars
    BY <2>2 DEF vars, given, local, Asked!vars, Asked!given
  <2> QED
    BY <2>1, <2>2
<1> QED
  BY <1>1, <1>2, TurnsKept, PTL DEF TurnsSpec, AnswersQuestions, Asked!Spec

(***************************************************************************)
(* Clients that read when they like.                                       *)
(***************************************************************************)
(* The invariant of the slots: FreedOnce, the types it needs, and that a   *)
(* client has no ArchiveData before it makes one.                          *)
SlotInv ==
  /\ qdata \in [File \cup Client -> Client \cup {NULL}]
  /\ pc \in [Client -> {"idle", "seek", "make", "store"} \cup InFlight]
  /\ file \in [Client -> File]
  /\ live \subseteq Client
  /\ \A c \in Client : pc[c] \in {"seek", "make"} => c \notin live
  /\ FreedOnce

(* Steps that move a client on, but not to the making of its ArchiveData. *)
LEMMA SlotsUntouched ==
  ASSUME SlotInv, UNCHANGED <<qdata, live, file>>, NEW c \in Client,
         NEW n \in {"idle", "make", "store"} \cup InFlight, NEW a,
         Goto(c, n, a) \/ UNCHANGED pc, n = "make" => pc[c] = "seek"
  PROVE  SlotInv'
BY DEF SlotInv, FreedOnce, Goto, InFlight

(* The ArchiveData in the slot is replaced by one that was in none. *)
LEMMA MakeFillsSlot ==
  ASSUME SlotInv, NEW c \in Client, Make(c)
  PROVE  SlotInv'
<1> USE ClientAssumption DEF Make, Goto, AfterFreeing, local
<1>1. c \notin live /\ \A o \in File \cup Client : qdata[o] # c
  BY DEF SlotInv, FreedOnce
<1>2. FreedOnce'
  BY <1>1 DEF SlotInv, FreedOnce
<1> QED
  BY <1>2 DEF SlotInv, InFlight

(* The ArchiveData that is freed was in the slot that is cleared only. *)
LEMMA FreeClearsSlot ==
  ASSUME SlotInv, NEW c \in Client, NEW n \in {"idle", "store"}, Free(c, n)
  PROVE  SlotInv'
<1> USE ClientAssumption DEF Free, Goto, AfterFreeing, local
<1>1. Holder(c) \in File \cup Client
  BY DEF SlotInv, Holder
<1>2. FreedOnce'
  BY <1>1 DEF SlotInv, FreedOnce
<1> QED
  BY <1>1, <1>2 DEF SlotInv

(* The ArchiveData that is handed over is in one slot before and after. *)
LEMMA WrapMovesSlot ==
  ASSUME SlotInv, NEW c \in Client, Wrap(c)
  PROVE  SlotInv'
<1> USE ClientAssumption DEF Wrap, Goto, Die, local
<1>1. CASE qdata[file[c]] = NULL
  BY <1>1 DEF SlotInv, FreedOnce
<1>2. CASE qdata[file[c]] # NULL
  <2>1. FreedOnce'
    BY <1>2 DEF SlotInv, FreedOnce
  <2> QED
    BY <1>2, <2>1 DEF SlotInv, InFlight
<1> QED
  BY <1>1, <1>2

(* All other steps of a read leave the slots alone. *)
LEMMA ProgressKeepsSlots ==
  ASSUME SlotInv, NEW c \in Client, Progress(c) \/ Dispose(c)
  PROVE  SlotInv'
<1> USE DEF local, InFlight
<1>1. ASSUME NEW how, Die(how) PROVE SlotInv'
  BY <1>1 DEF Die, SlotInv, FreedOnce
<1>2. CASE Seek(c)
  BY <1>2, SlotsUntouched DEF Seek
<1>3. CASE Check(c)
  <2>1. pc[c] = "check" /\ (Die("null") \/ Die("freed") \/ Die("in use")
          \/ (Goto(c, "open", NULL) /\ UNCHANGED <<qdata, live, file>>))
    BY <1>3 DEF Check
  <2> QED
    BY <1>1, <2>1, SlotsUntouched
<1>4. CASE OpenArchive(c) \/ OpenReturnsPositive(c)
  BY <1>4, SlotsUntouched DEF OpenArchive, OpenReturnsPositive
<1>5. CASE OpenFails(c)
  BY <1>1, <1>5, SlotsUntouched DEF OpenFails
<1>6. CASE OpenReturnsNegative(c) \/ UseFreed(c) \/ ScanForNothing(c)
  BY <1>1, <1>6 DEF OpenReturnsNegative, UseFreed, ScanForNothing
<1>7. CASE ReadFails(c)
  BY <1>1, <1>7, SlotsUntouched DEF ReadFails, ReportError
<1>8. CASE NextHeader(c) \/ EndOfArchive(c)
  BY <1>8, SlotsUntouched DEF NextHeader, EndOfArchive
<1>9. CASE ReadBody(c)
  BY <1>1, <1>9, SlotsUntouched DEF ReadBody
<1>10. CASE Release(c) \/ Dispose(c)
  BY <1>10, FreeClearsSlot DEF Release, Dispose
<1>11. CASE Store(c)
  BY <1>11, SlotsUntouched DEF Store
<1> QED
  BY <1>2, <1>3, <1>4, <1>5, <1>6, <1>7, <1>8, <1>9, <1>10, <1>11, MakeFillsSlot,
     WrapMovesSlot DEF Progress

(***************************************************************************)
(* However reads interleave, an ArchiveData in a slot is allocated and is  *)
(* in no other, so that no race frees one twice.                           *)
(***************************************************************************)
THEOREM NothingIsFreedTwice == Spec => []FreedOnce
<1>1. Init => SlotInv
  BY ClientAssumption DEF Init, SlotInv, FreedOnce
<1>2. SlotInv /\ [Next]_vars => SlotInv'
  <2> SUFFICES ASSUME SlotInv, [Next]_vars PROVE SlotInv'
    OBVIOUS
  <2>1. ASSUME NEW c \in Client, NEW f \in File, NEW p \in Path, Begin(c, f, p)
        PROVE  SlotInv'
    <3>1. c \notin live /\ UNCHANGED <<qdata, live>> /\ file' = [file EXCEPT ![c] = f]
          /\ \E n \in {"idle", "seek"} : pc' = [pc EXCEPT ![c] = n]
      BY <2>1 DEF Begin, Goto
    <3> QED
      BY <3>1 DEF SlotInv, FreedOnce
  <2>2. CASE Next
    BY <2>1, <2>2, ProgressKeepsSlots DEF Next, Step
  <2>3. CASE UNCHANGED vars
    BY <2>3 DEF vars, local, SlotInv, FreedOnce
  <2> QED
    BY <2>2, <2>3
<1>3. SlotInv => FreedOnce
  BY DEF SlotInv
<1> QED
  BY <1>1, <1>2, <1>3, PTL DEF Spec

(***************************************************************************)
(* What clients that read when they like leave in the cache: at the level  *)
(* NONE nothing, and never NULL in place of bytes.                         *)
(***************************************************************************)
Phases == {"idle", "seek", "make", "store"} \cup InFlight

SettleInv ==
  /\ archive \in Seq(Raw)
  /\ pc \in [Client -> Phases]
  /\ want = [c \in Client |-> want[c]]
  /\ reply = [c \in Client |-> reply[c]]
  /\ at \in [Client -> Int]
  /\ cache = [p \in Path |-> cache[p]]
  /\ level = "NONE" =>
       /\ \A p \in Path : cache[p] = NULL
       /\ \A c \in Client : pc[c] \notin {"dump", "store"}
  /\ \A c \in Client :
       /\ pc[c] = "release" => reply[c] \in Errors \/ (level # "NONE" /\ reply[c] # NULL)
       /\ pc[c] = "store" => reply[c] # NULL

(* A step of a read that leaves the cache alone goes from phase to phase. *)
Moves(c, n, a) ==
  /\ pc[c] # "idle" /\ Goto(c, n, a) /\ n \in Phases
  /\ UNCHANGED <<archive, level, want, cache>> /\ at' \in [Client -> Int]
  /\ n = "dump" => level # "NONE"
  /\ n = "release" => a \in Errors \/ (pc[c] = "dump" /\ a # NULL)
  /\ n = "store" => pc[c] = "release" /\ a = reply[c] /\ a \notin Errors

Stays == UNCHANGED <<archive, level, want, cache, pc, reply, at>>

(* But for the storing itself, every step of a read does. *)
LEMMA ProgressMoves ==
  ASSUME SettleInv, NEW c \in Client, Progress(c) \/ Dispose(c), ~ Store(c)
  PROVE  Stays \/ \E n, a : Moves(c, n, a)
<1> USE DEF given, stream, local
<1>1. /\ at \in [Client -> Int] /\ HeadersSeen(c) \in Int /\ Last \in Int
      /\ [at EXCEPT ![c] = 0] \in [Client -> Int]
      /\ \A n \in Int : ReadOn(c, n) => at' \in [Client -> Int]
  BY DEF SettleInv, HeadersSeen, Last, ReadOn
<1>2. ASSUME NEW how, Die(how) PROVE Stays
  BY <1>2 DEF Die, Stays
<1>3. CASE Seek(c) \/ Make(c) \/ Wrap(c)
  <2>1. \/ Stays
        \/ /\ pc[c] # "idle" /\ UNCHANGED <<archive, level, want, cache>>
           /\ at' \in [Client -> Int]
           /\ \E n \in {"make", "idle", "check", "stream"} : \E a : Goto(c, n, a)
    BY <1>1, <1>2, <1>3 DEF Seek, Make, Wrap
  <2> QED
    BY <2>1 DEF Moves, Phases, InFlight
<1>4. CASE Check(c)
  <2>1. pc[c] = "check" /\ (Die("null") \/ Die("freed") \/ Die("in use")
          \/ (Goto(c, "open", NULL) /\ UNCHANGED <<archive, level, want, cache, at>>))
    BY <1>4 DEF Check
  <2>2. CASE Goto(c, "open", NULL) /\ UNCHANGED <<archive, level, want, cache, at>>
    <3>1. Moves(c, "open", NULL)
      BY <1>1, <2>1, <2>2 DEF Moves, Phases, InFlight
    <3> QED
      BY <3>1
  <2> QED
    BY <1>2, <2>1, <2>2
<1>5. CASE OpenArchive(c) \/ OpenReturnsPositive(c)
  <2>1. /\ pc[c] = "open" /\ UNCHANGED <<archive, level, want, cache>>
        /\ at' \in [Client -> Int] /\ Goto(c, "scan", NULL)
    BY <1>1, <1>5 DEF OpenArchive, OpenReturnsPositive
  <2> QED
    BY <2>1 DEF Moves, Phases, InFlight
<1>6. CASE OpenFails(c) \/ ReadFails(c)
  <2>1. \/ Stays
        \/ /\ pc[c] # "idle" /\ UNCHANGED <<archive, level, want, cache>>
           /\ at' \in [Client -> Int]
           /\ Goto(c, "stream", IO) \/ Goto(c, "release", IO)
    BY <1>1, <1>2, <1>6 DEF OpenFails, ReadFails, ReportError
  <2> QED
    BY <2>1 DEF Moves, Phases, InFlight, Errors
<1>7. CASE OpenReturnsNegative(c) \/ UseFreed(c) \/ ScanForNothing(c)
  BY <1>2, <1>7 DEF OpenReturnsNegative, UseFreed, ScanForNothing
<1>8. CASE NextHeader(c)
  <2>1. /\ pc[c] # "idle" /\ UNCHANGED <<archive, level, want, cache>>
        /\ at' \in [Client -> Int]
        /\ \E n \in {"scan", "wrap", "dump"} : Goto(c, n, NULL) /\ (n = "dump" => level # "NONE")
    BY <1>1, <1>8 DEF NextHeader
  <2> QED
    BY <2>1 DEF Moves, Phases, InFlight
<1>9. CASE EndOfArchive(c)
  BY <1>1, <1>9 DEF EndOfArchive, Moves, Phases, InFlight, Errors
<1>10. CASE ReadBody(c)
  <2>1. Body(c) # NULL
    <3>1. HeadersSeen(c) # NULL /\ -HeadersSeen(c) # NULL
      BY <1>1, NullAssumption
    <3> QED
      BY <3>1, ReplyAssumption DEF Body, Dumped
  <2>2. \/ Stays
        \/ /\ pc[c] # "idle" /\ UNCHANGED <<archive, level, want, cache>>
           /\ at' \in [Client -> Int]
           /\ Goto(c, "stream", Body(c)) \/ (pc[c] = "dump" /\ Goto(c, "release", Body(c)))
    BY <1>1, <1>2, <1>10 DEF ReadBody
  <2> QED
    BY <2>1, <2>2 DEF Moves, Phases, InFlight
<1>11. CASE Release(c) \/ Dispose(c)
  <2>1. /\ pc[c] # "idle" /\ UNCHANGED <<archive, level, want, cache>>
        /\ at' \in [Client -> Int]
        /\ \/ Goto(c, "idle", reply[c])
           \/ pc[c] = "release" /\ reply[c] \notin Errors /\ Goto(c, "store", reply[c])
    BY <1>1, <1>11 DEF Release, Dispose, Free
  <2> QED
    BY <2>1 DEF Moves, Phases
<1> QED
  BY <1>3, <1>4, <1>5, <1>6, <1>7, <1>8, <1>9, <1>10, <1>11 DEF Progress

(* And so it keeps to the invariant. *)
LEMMA MovingSettles ==
  ASSUME SettleInv, NEW c \in Client, NEW n, NEW a, Moves(c, n, a)
  PROVE  SettleInv'
<1>1. pc' \in [Client -> Phases] /\ reply' = [d \in Client |-> reply'[d]]
      /\ want' = [d \in Client |-> want'[d]] /\ cache' = [p \in Path |-> cache'[p]]
  BY DEF SettleInv, Moves, Goto
<1>2. \A d \in Client \ {c} : pc'[d] = pc[d] /\ reply'[d] = reply[d]
  BY DEF SettleInv, Moves, Goto
<1>3. pc'[c] = n /\ reply'[c] = a
  BY DEF SettleInv, Moves, Goto
<1>4. n = "release" => a \in Errors \/ (level # "NONE" /\ a # NULL)
  BY DEF SettleInv, Moves
<1>5. n = "store" => level # "NONE" /\ a # NULL
  BY DEF SettleInv, Moves
<1> QED
  BY <1>1, <1>2, <1>3, <1>4, <1>5 DEF SettleInv, Moves

(***************************************************************************)
(* Clients that read when they like: a path once cached stays cached, is   *)
(* not read any more, and keeps its bytes when those reading it are back.  *)
(***************************************************************************)
THEOREM CacheIsSettled == Spec => CacheSettles
<1> DEFINE Settled(p) == cache[p] # NULL =>
             /\ cache'[p] # NULL
             /\ Readers(p)' \subseteq Readers(p)
             /\ Readers(p) = {} => cache'[p] = cache[p]
<1>1. Init => SettleInv
  BY ArchiveAssumption DEF Init, SettleInv, Phases
<1>2. ASSUME SettleInv, UNCHANGED vars
      PROVE  SettleInv'
  BY <1>2 DEF SettleInv, vars, given, local
<1>3. ASSUME SettleInv, NEW c \in Client, NEW f \in File, NEW p \in Path, Begin(c, f, p)
      PROVE  SettleInv' /\ \A q \in Path : Settled(q)
  <2>1. /\ UNCHANGED <<archive, level, cache, at>> /\ want' = [want EXCEPT ![c] = p]
        /\ pc[c] = "idle"
        /\ \E n \in {"idle", "seek"} : \E a : Goto(c, n, a) /\ (n = "seek" => cache[p] = NULL)
    BY <1>3 DEF Begin, given, SettleInv
  <2>2. SettleInv'
    BY <1>3, <2>1 DEF SettleInv, Goto, Phases
  <2>3. \A d \in Client \ {c} : pc'[d] = pc[d] /\ want'[d] = want[d]
    BY <1>3, <2>1 DEF SettleInv, Goto
  <2>4. pc'[c] = "idle" \/ (want'[c] = p /\ cache[p] = NULL)
    BY <1>3, <2>1 DEF SettleInv, Goto
  <2>5. ASSUME NEW q \in Path, cache[q] # NULL PROVE Readers(q)' \subseteq Readers(q)
    BY <2>3, <2>4, <2>5 DEF Readers
  <2> QED
    BY <2>1, <2>2, <2>5
<1>4. ASSUME SettleInv, NEW c \in Client, NEW n, NEW a, Moves(c, n, a)
      PROVE  SettleInv' /\ \A q \in Path : Settled(q)
  <2>1. pc[c] # "idle" /\ UNCHANGED <<want, cache>>
        /\ \A d \in Client \ {c} : pc'[d] = pc[d]
    BY <1>4 DEF Moves, Goto, SettleInv
  <2>2. \A q \in Path : Readers(q)' \subseteq Readers(q)
    BY <2>1 DEF Readers
  <2> QED
    BY <1>4, <2>1, <2>2, MovingSettles
<1>5. ASSUME SettleInv, NEW c \in Client, Store(c)
      PROVE  SettleInv' /\ \A q \in Path : Settled(q)
  <2>1. /\ pc[c] = "store" /\ reply[c] # NULL /\ level # "NONE"
        /\ UNCHANGED <<archive, level, want, at>> /\ Goto(c, "idle", reply[c])
        /\ cache' = [cache EXCEPT ![want[c]] = reply[c]]
    BY <1>5 DEF Store, SettleInv, given, local
  <2>2. SettleInv'
    BY <1>5, <2>1 DEF SettleInv, Goto, Phases
  <2>3. \A d \in Client \ {c} : pc'[d] = pc[d]
    BY <1>5, <2>1 DEF Goto, SettleInv
  <2>4. \A q \in Path : Readers(q)' \subseteq Readers(q)
    BY <2>1, <2>3 DEF Readers
  <2>5. ASSUME NEW q \in Path, cache[q] # NULL
        PROVE  cache'[q] # NULL /\ (Readers(q) = {} => cache'[q] = cache[q])
    <3>1. CASE q = want[c]
      BY <1>5, <2>1, <2>5, <3>1 DEF SettleInv, Readers
    <3>2. CASE q # want[c]
      BY <1>5, <2>1, <2>5, <3>2 DEF SettleInv
    <3> QED
      BY <3>1, <3>2
  <2> QED
    BY <2>2, <2>4, <2>5
<1>6. ASSUME SettleInv, Next
      PROVE  SettleInv' /\ \A q \in Path : Settled(q)
  <2>1. ASSUME Stays PROVE SettleInv' /\ \A q \in Path : Settled(q)
    BY <1>6, <2>1 DEF Stays, SettleInv, Readers
  <2> QED
    BY <1>3, <1>4, <1>5, <1>6, <2>1, ProgressMoves DEF Next, Step
<1>7. ASSUME SettleInv, [Next]_vars
      PROVE  /\ SettleInv'
             /\ [\A p \in Path : cache[p] # NULL =>
                   /\ cache'[p] # NULL
                   /\ Readers(p)' \subseteq Readers(p)
                   /\ Readers(p) = {} => cache'[p] = cache[p]]_vars
  BY <1>2, <1>6, <1>7
<1> QED
  BY <1>1, <1>7, PTL DEF Spec, CacheSettles

(* With everything cached nobody is ever on the way to an answer. *)
AllCached ==
  level = "FULL" =>
    /\ fault = "none"
    /\ pc = [c \in Client |-> "idle"]
    /\ cache \in [Path -> {NULL} \cup BytesOf(archive)]
    /\ want \in [Client -> Path \cup {NULL}]
    /\ reply \in [Client -> {NULL, INVAL} \cup BytesOf(archive)]
    /\ RightBytes

(***************************************************************************)
(* At the level FULL any number of clients read at once, nothing goes      *)
(* wrong, and each gets the contents of the path it asked for.             *)
(***************************************************************************)
THEOREM FullLevelIsSafe == Spec => []FullIsSafe
<1>1. Init => AllCached
  <2> SUFFICES ASSUME Init, level = "FULL" PROVE AllCached
    BY DEF AllCached
  <2>1. \A p \in Path : Entry(p) \in {NULL, RootEntry} \cup (1 .. Len(archive))
    BY ArchiveAssumption, LastEntryType DEF Init, Entry
  <2>2. cache \in [Path -> {NULL} \cup BytesOf(archive)]
    <3>1. \A p \in Path : Entry(p) # RootEntry
            => Dumped(archive, Entry(p)) \in {NULL} \cup BytesOf(archive)
      BY <2>1, ArchiveAssumption, DumpedBytes, DumpedNothing DEF Init
    <3> QED
      BY <3>1 DEF Init
  <2>3. \A p \in Path : cache[p] # NULL => cache[p] = Content(p)
    BY DEF Init, Content, Source
  <2> QED
    BY <2>2, <2>3 DEF Init, AllCached, RightBytes
<1>2. AllCached /\ [Next]_vars => AllCached'
  <2> SUFFICES ASSUME AllCached, [Next]_vars, level' = "FULL" PROVE AllCached'
    BY DEF AllCached
  <2>1. CASE UNCHANGED vars
    BY <2>1 DEF vars, given, local, AllCached, RightBytes, Content, Source, Entry
  <2>2. ASSUME NEW c \in Client, Progress(c) \/ Dispose(c) PROVE FALSE
    <3>1. pc[c] # "idle" /\ level' = level
      BY <2>2 DEF Progress, Seek, Make, Check, OpenArchive, OpenFails, OpenReturnsPositive,
         OpenReturnsNegative, UseFreed, ReadFails, ReportError, ScanForNothing, NextHeader,
         EndOfArchive, ReadBody, Wrap, Release, Store, Dispose, Free, Die, given
    <3> QED
      BY <3>1 DEF AllCached
  <2>3. ASSUME NEW c \in Client, NEW f \in File, NEW p \in Path, Begin(c, f, p)
        PROVE  AllCached'
    <3>1. level = "FULL" /\ UNCHANGED <<archive, level, cache, fault>>
          /\ want' = [want EXCEPT ![c] = p]
      BY <2>3 DEF Begin, given
    <3>2. PICK a \in {INVAL} \cup BytesOf(archive) :
            Goto(c, "idle", a) /\ (a = INVAL \/ (a = cache[p] /\ cache[p] # NULL))
      BY <2>3, <3>1 DEF Begin, AllCached
    <3>3. \A q \in Path : Content(q)' = Content(q)
      BY <3>1 DEF Content, Source, Entry
    <3>4. a \notin Errors \cup {NULL} => a = Content(p)
      BY <3>1, <3>2 DEF AllCached, RightBytes, Errors
    <3>5. \A d \in Client : reply'[d] \notin Errors \cup {NULL} => reply'[d] = Content(want[d])'
      <4>1. Content(want[c])' = Content(p) /\ reply'[c] = a
        BY <3>1, <3>2 DEF AllCached, Goto, Content, Source, Entry
      <4>2. \A d \in Client \ {c} : Content(want[d])' = Content(want[d]) /\ reply'[d] = reply[d]
        BY <3>1, <3>2 DEF AllCached, Goto, Content, Source, Entry
      <4> QED
        BY <3>1, <3>4, <4>1, <4>2 DEF AllCached, RightBytes
    <3>6. RightBytes'
      BY <3>1, <3>3, <3>5 DEF AllCached, RightBytes, Errors
    <3> QED
      BY <3>1, <3>2, <3>6 DEF AllCached, Goto
  <2> QED
    BY <2>1, <2>2, <2>3 DEF Next, Step
<1>3. AllCached => FullIsSafe
  BY DEF AllCached, FullIsSafe
<1> QED
  BY <1>1, <1>2, <1>3, PTL DEF Spec

=============================================================================
