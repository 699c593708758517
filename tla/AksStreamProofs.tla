-------------------------- MODULE AksStreamProofs --------------------------
(***************************************************************************)
(* Proofs about AksArchive and AksStream, for archives and entries of any  *)
(* size: libarchive and the base stream agree on the position, an error is *)
(* reported for what it struck, an AksStream accounts for every byte and   *)
(* gives each operation its own cancellable.                               *)
(***************************************************************************)
EXTENDS AksStream, TLAPS

(***************************************************************************)
(* The archive glue.                                                       *)
(***************************************************************************)
(* A pending error belongs to the call under way, unless one was swallowed. *)
Pending ==
  call # "none" =>
    /\ answer = "none"
    /\ struck => error = "own"
    /\ ~ struck /\ ~ swallowed => error = NULL

(* A callback fails for good, or its failure is swallowed. *)
Struck == struck /\ ~ swallowed => fatal

(* The inductive invariant of the glue. *)
ArchiveInv ==
  /\ ArchiveTypeOK /\ Aligned /\ CauseReported /\ NothingPending
  /\ Pending /\ Struck
  /\ at <= pos

(***************************************************************************)
(* The stream.                                                             *)
(***************************************************************************)
(* Who may call libarchive in each phase, and under which cancellable. *)
Turn ==
  /\ op = "none" <=> stage = "idle"
  /\ stage # "idle" => phase = "stream"
  /\ phase = "stream" /\ call # "none" => stage = "work"
  /\ stage = "work" <=> cancellable = "op"
  /\ call = "open" => phase = "opening"
  /\ phase = "freed" => call = "none"

(* What is asked for, taken and reported adds up. *)
Account ==
  /\ left + got <= MaxCount
  /\ handed + (IF op = "none" THEN 0 ELSE got) <= consumed
  /\ op = "read" /\ stage = "work" => got = 0 /\ left # 0

(* The inductive invariant of the stream. *)
StreamInv == ArchiveInv /\ TypeOK /\ Turn /\ Account /\ NoGap /\ Disarmed

(* The least of two or three numbers. *)
LEMMA MinOfTwo ==
  ASSUME NEW a \in Nat, NEW b \in Nat
  PROVE  Min({a, b}) \in {a, b} /\ Min({a, b}) <= a /\ Min({a, b}) <= b
<1>1. \E x \in {a, b} : \A y \in {a, b} : x =< y
  OBVIOUS
<1> QED
  BY <1>1, Zenon DEF Min

(* The same of the three sizes SkipBlock takes the least of. *)
LEMMA MinOfThree ==
  ASSUME NEW a \in Nat, NEW b \in Nat, NEW c \in Nat
  PROVE  /\ Min({a, b, c}) \in {a, b, c}
         /\ Min({a, b, c}) <= a /\ Min({a, b, c}) <= b /\ Min({a, b, c}) <= c
<1>1. \E x \in {a, b, c} : \A y \in {a, b, c} : x =< y
  OBVIOUS
<1> QED
  BY <1>1, Zenon DEF Min

(***************************************************************************)
(* Calls and callbacks.                                                    *)
(***************************************************************************)
(* A new call starts without an error of its own. *)
LEMMA BeginCallKeeps ==
  ASSUME ArchiveInv, NEW kind \in {"header", "data"}, BeginCall(kind)
  PROVE  ArchiveInv'
<1> USE ErrorAssumption DEF BeginCall, base, course
<1>1. ArchiveTypeOK'
  BY DEF ArchiveInv, ArchiveTypeOK, End
<1> QED
  BY <1>1 DEF ArchiveInv, Aligned, CauseReported, NothingPending, Pending, Struck

(* Whatever happens to the base stream during a call. *)
LEMMA CallbackKeeps ==
  ASSUME ArchiveInv, Callback
  PROVE  ArchiveInv' /\ Working /\ call' = call
<1> USE BaseAssumption, ErrorAssumption DEF base, course, slot
<1>1. /\ start \in Nat /\ size \in Nat /\ pos \in 0 .. End /\ at \in 0 .. End /\ at <= pos
      /\ End = start + size /\ pos \in Nat /\ at \in Nat /\ End \in Nat
  BY DEF ArchiveInv, ArchiveTypeOK, End
<1>2. ASSUME NEW n \in 0 .. End - pos, Advance(n), Working
      PROVE  ArchiveInv' /\ call' = call
  <2>1. End' = End /\ pos' \in 0 .. End /\ at' \in 0 .. End /\ at' <= pos'
    BY <1>1, <1>2 DEF Advance, End
  <2>2. ArchiveTypeOK'
    BY <1>2, <2>1 DEF Advance, ArchiveInv, ArchiveTypeOK
  <2>3. Aligned'
    BY <1>1, <1>2 DEF Advance, ArchiveInv, Aligned
  <2> QED
    BY <1>2, <2>1, <2>2, <2>3
    DEF Advance, ArchiveInv, CauseReported, NothingPending, Pending, Struck
<1>3. Min({LaBlock, End - pos}) \in 0 .. End - pos
  BY <1>1, MinOfTwo
<1>4. CASE ReadCallback
  BY <1>2, <1>3, <1>4 DEF ReadCallback
<1>5. CASE SkipCallback
  BY <1>2, <1>5 DEF SkipCallback
<1>6. CASE SeekCallback
  <2>1. ArchiveTypeOK' /\ (at <= pos)'
    BY <1>1, <1>6 DEF SeekCallback, ArchiveInv, ArchiveTypeOK, End
  <2>2. Aligned'
    BY <1>1, <1>6 DEF SeekCallback, Aligned
  <2> QED
    BY <1>6, <2>1, <2>2
    DEF SeekCallback, Working, ArchiveInv, CauseReported, NothingPending, Pending, Struck
<1>7. CASE ReadFails
  <2>1. PICK n \in 0 .. Min({LaBlock, End - pos}) : pos' = pos + n
    BY <1>7 DEF ReadFails
  <2>2. End' = End /\ pos' \in 0 .. End /\ at' <= pos'
    BY <1>1, <1>3, <1>7, <2>1 DEF ReadFails, End
  <2>3. ArchiveTypeOK'
    BY <1>7, <2>2 DEF ReadFails, StoreError, ArchiveInv, ArchiveTypeOK
  <2> QED
    BY <1>7, <2>2, <2>3 DEF ReadFails, StoreError, Working, ArchiveInv, Aligned,
       CauseReported, NothingPending, Pending, Struck
<1>8. CASE SeekFails
  <2>1. ArchiveTypeOK'
    BY <1>8 DEF SeekFails, StoreError, ArchiveInv, ArchiveTypeOK, End
  <2> QED
    BY <1>8, <2>1 DEF SeekFails, StoreError, Working, ArchiveInv, ArchiveTypeOK, Aligned,
       CauseReported, NothingPending, Pending, Struck
<1> QED
  BY <1>4, <1>5, <1>6, <1>7, <1>8
  DEF Callback, ReadCallback, SkipCallback, SeekCallback, ReadFails, SeekFails, Working

(* A call that succeeds met no failure that was not swallowed. *)
LEMMA SucceedKeeps ==
  ASSUME ArchiveInv, Succeed
  PROVE  ArchiveInv'
<1> USE DEF Succeed, Working, base, course, slot
<1>1. ArchiveTypeOK'
  BY DEF ArchiveInv, ArchiveTypeOK, End
<1> QED
  BY <1>1 DEF ArchiveInv, Aligned, CauseReported, NothingPending, Pending, Struck

(* A call that fails reports the error that is pending, and takes it. *)
LEMMA GiveUpKeeps ==
  ASSUME ArchiveInv, GiveUp
  PROVE  ArchiveInv'
<1> USE ErrorAssumption DEF base, course
<1>1. PICK no \in (IF struck THEN {errno, TRUE} ELSE {TRUE}) : errno' = no /\ GetGError(no)
  BY DEF GiveUp
<1>2. /\ error' = NULL /\ call' = "none" /\ errno' \in BOOLEAN
      /\ fatal' \in {fatal, TRUE} /\ (struck => error = "own")
      /\ UNCHANGED <<start, size, seekable, pos, at, seeked, struck, swallowed>>
  BY <1>1 DEF GiveUp, GetGError, ArchiveInv, ArchiveTypeOK, Pending
<1>3. /\ struck => answer' = "own"
      /\ ~ struck => answer' \in {"own", "stale", "libarchive"}
      /\ ~ struck /\ ~ swallowed => answer' = "libarchive"
  BY <1>1, <1>2 DEF GiveUp, GetGError, ArchiveInv, ArchiveTypeOK, Pending
<1>4. ArchiveTypeOK'
  BY <1>2, <1>3 DEF ArchiveInv, ArchiveTypeOK, End
<1>5. Aligned' /\ (at <= pos)' /\ Struck'
  <2>1. fatal => fatal'
    BY <1>2
  <2>2. UNCHANGED <<start, pos, at, seeked, struck, swallowed>>
    BY <1>2
  <2>3. Aligned' /\ Struck'
    BY <2>1, <2>2, Zenon DEF ArchiveInv, Aligned, Struck
  <2> QED
    BY <2>2, <2>3 DEF ArchiveInv
<1>6. CauseReported' /\ NothingPending' /\ Pending'
  BY <1>2, <1>3 DEF CauseReported, NothingPending, Pending
<1> QED
  BY <1>4, <1>5, <1>6 DEF ArchiveInv

(* A step that leaves the archive object alone. *)
LEMMA ArchiveUntouched ==
  ASSUME ArchiveInv, UNCHANGED archive
  PROVE  ArchiveInv'
<1> USE DEF archive, base, course, slot
<1>1. ArchiveTypeOK'
  BY DEF ArchiveInv, ArchiveTypeOK, End
<1> QED
  BY <1>1 DEF ArchiveInv, Aligned, CauseReported, NothingPending, Pending, Struck

(***************************************************************************)
(* The steps of the stream.                                                *)
(***************************************************************************)
(* The object is opened, and nothing has been read. *)
LEMMA StreamInitially == Init => StreamInv
<1> SUFFICES ASSUME Init PROVE StreamInv
  OBVIOUS
<1> USE BaseAssumption, BoundAssumption, ErrorAssumption, CancellableAssumption
    DEF Init, ArchiveInit
<1>1. ArchiveTypeOK
  <2>1. start \in Nat /\ size \in Nat
    OBVIOUS
  <2>2. pos \in 0 .. End /\ at \in 0 .. End
    BY <2>1 DEF End
  <2> QED
    BY <2>2 DEF ArchiveTypeOK
<1>2. ArchiveInv
  BY <1>1 DEF ArchiveInv, Aligned, CauseReported, NothingPending, Pending, Struck
<1>3. TypeOK
  <2>1. 0 \in 0 .. length /\ 0 \in 0 .. MaxCount
    OBVIOUS
  <2> QED
    BY <1>1, <2>1 DEF TypeOK
<1> QED
  BY <1>2, <1>3 DEF StreamInv, Turn, Account, NoGap, Disarmed

(* Steps that do not move bytes: only whose turn it is has to be shown. *)
LEMMA NothingMoved ==
  ASSUME StreamInv, ArchiveInv', Turn',
         UNCHANGED <<entry, op, stage, left, got, failed, client>>,
         phase' \in {"opening", "exploring", "stream", "freed"},
         cancellable' = cancellable, cancelled' \in BOOLEAN
  PROVE  StreamInv'
<1> USE DEF entry, client
<1>1. TypeOK'
  BY DEF StreamInv, ArchiveInv, TypeOK
<1>2. Account' /\ NoGap'
  BY DEF StreamInv, Account, NoGap
<1>3. Disarmed'
  BY DEF StreamInv, Turn, Disarmed
<1> QED
  BY <1>1, <1>2, <1>3 DEF StreamInv

(* The exploration of the archive, and what the base stream does meanwhile. *)
LEMMA ExplorationKeeps ==
  ASSUME StreamInv, BaseIO \/ Explore \/ Explored \/ ExploreFails \/ Wrap \/ Free \/ Cancel
  PROVE  StreamInv'
<1> USE DEF entry, task, client
<1>1. ArchiveInv /\ TypeOK /\ Turn
  BY DEF StreamInv
<1>2. CASE BaseIO
  BY <1>1, <1>2, CallbackKeeps, NothingMoved DEF BaseIO, Turn, TypeOK
<1>3. CASE Explore
  <2>1. PICK kind \in {"header", "data"} : BeginCall(kind)
    BY <1>3 DEF Explore
  <2>2. Turn'
    BY <1>1, <1>3, <2>1 DEF Explore, BeginCall, Turn
  <2> QED
    BY <1>1, <1>3, <2>1, <2>2, BeginCallKeeps, NothingMoved DEF Explore, TypeOK
<1>4. CASE Explored
  BY <1>1, <1>4, SucceedKeeps, NothingMoved DEF Explored, Succeed, Turn, TypeOK
<1>5. CASE ExploreFails
  BY <1>1, <1>5, GiveUpKeeps, NothingMoved DEF ExploreFails, GiveUp, Turn, TypeOK
<1>6. CASE Wrap \/ Free
  BY <1>1, <1>6, ArchiveUntouched, NothingMoved DEF Wrap, Free, Turn, TypeOK, archive
<1>7. CASE Cancel
  BY <1>1, <1>7, ArchiveUntouched, NothingMoved DEF Cancel, Turn, TypeOK, archive
<1> QED
  BY <1>2, <1>3, <1>4, <1>5, <1>6, <1>7

(* An operation starts with nothing taken. *)
LEMMA StartKeeps ==
  ASSUME StreamInv, NEW kind \in {"read", "skip"}, NEW n \in 1 .. MaxCount, Start(kind, n)
  PROVE  StreamInv'
<1> USE BoundAssumption, CancellableAssumption DEF Start, entry, client
<1>1. ArchiveInv'
  BY BeginCallKeeps DEF StreamInv
<1>2. TypeOK'
  <2>1. n \in 0 .. MaxCount /\ 0 \in 0 .. MaxCount
    OBVIOUS
  <2> QED
    BY <1>1, <2>1 DEF StreamInv, TypeOK, ArchiveInv
<1>3. Turn' /\ Disarmed'
  BY DEF StreamInv, BeginCall, Turn, Disarmed
<1>4. Account' /\ NoGap'
  BY DEF StreamInv, TypeOK, Account, NoGap
<1> QED
  BY <1>1, <1>2, <1>3, <1>4 DEF StreamInv

(* Bytes that are taken off what is asked for are reported. *)
LEMMA TakeKeeps ==
  ASSUME StreamInv, NEW n \in Nat, n <= left, n <= length - consumed, Take(n), op # "none",
         UNCHANGED <<length, op, failed, cancelled, client>>
  PROVE  /\ length' \in 0 .. MaxLength /\ consumed' \in 0 .. length'
         /\ left' \in 0 .. MaxCount /\ got' \in 0 .. MaxCount
         /\ handed' \in 0 .. length' /\ (left + got <= MaxCount)'
         /\ (handed + got <= consumed)' /\ NoGap'
<1> USE BoundAssumption DEF Take, client
<1>1. /\ length \in Nat /\ length <= MaxLength /\ consumed \in Nat /\ consumed <= length
      /\ left \in Nat /\ got \in Nat /\ left + got <= MaxCount
      /\ handed \in Nat /\ handed + got <= consumed
  BY DEF StreamInv, TypeOK, Account
<1>2. NoGap'
  BY <1>1 DEF StreamInv, NoGap
<1> QED
  BY <1>1, <1>2

(* The thread functions. *)
LEMMA ReadDataKeeps ==
  ASSUME StreamInv, ReadData
  PROVE  StreamInv'
<1> USE CancellableAssumption DEF ReadData, client
<1>1. left \in Nat /\ length - consumed \in Nat /\ left # 0 /\ op = "read"
      /\ length \in Nat /\ consumed \in Nat /\ got = 0
  BY BoundAssumption DEF StreamInv, TypeOK, Account
<1> DEFINE n == Min({left, length - consumed})
<1>2. n \in {left, length - consumed} /\ n <= left /\ n <= length - consumed
  BY <1>1, MinOfTwo
<1> HIDE DEF n
<1>3. n \in Nat /\ Take(n)
  BY <1>1, <1>2 DEF n
<1>4. ArchiveInv'
  BY SucceedKeeps DEF StreamInv
<1>5. /\ length' \in 0 .. MaxLength /\ consumed' \in 0 .. length'
      /\ left' \in 0 .. MaxCount /\ got' \in 0 .. MaxCount
      /\ handed' \in 0 .. length' /\ (left + got <= MaxCount)'
      /\ (handed + got <= consumed)' /\ NoGap'
  BY <1>1, <1>2, <1>3, TakeKeeps
<1>6. TypeOK'
  BY <1>4, <1>5 DEF StreamInv, TypeOK, ArchiveInv
<1>7. Turn' /\ Disarmed'
  BY DEF StreamInv, Succeed, Turn, Disarmed
<1> QED
  BY <1>1, <1>4, <1>5, <1>6, <1>7 DEF StreamInv, Account

(***************************************************************************)
(* A turn of the skip loop moves what is consumed and what is reported by  *)
(* the same number of bytes, and takes it off what is left.                *)
(***************************************************************************)
LEMMA SkipBlockKeeps ==
  ASSUME StreamInv, SkipBlock
  PROVE  StreamInv'
<1> USE DEF SkipBlock, client
<1>1. left \in Nat /\ length - consumed \in Nat /\ op = "skip" /\ Block \in Nat
  BY BoundAssumption DEF StreamInv, TypeOK
<1> DEFINE n == Min({left, Block, length - consumed})
<1>2. n \in Nat /\ n <= left /\ n <= length - consumed
  BY <1>1, MinOfThree
<1> HIDE DEF n
<1>3. Take(n)
  BY DEF n
<1>4. ArchiveInv'
  BY SucceedKeeps DEF StreamInv
<1>5. /\ length' \in 0 .. MaxLength /\ consumed' \in 0 .. length'
      /\ left' \in 0 .. MaxCount /\ got' \in 0 .. MaxCount
      /\ handed' \in 0 .. length' /\ (left + got <= MaxCount)'
      /\ (handed + got <= consumed)' /\ NoGap'
  BY <1>1, <1>2, <1>3, TakeKeeps
<1>6. TypeOK'
  BY <1>4, <1>5 DEF StreamInv, TypeOK, ArchiveInv
<1>7. Turn' /\ Disarmed'
  BY DEF StreamInv, Succeed, Turn, Disarmed
<1> QED
  BY <1>1, <1>4, <1>5, <1>6, <1>7 DEF StreamInv, Account

(* The loop goes on, or the operation returns; one that failed reports so. *)
LEMMA ReturnKeeps ==
  ASSUME StreamInv, SkipAgain \/ SkipDone \/ Fail
  PROVE  StreamInv'
<1> USE CancellableAssumption DEF entry, task, client
<1>1. CASE SkipAgain
  <2>1. ArchiveInv' /\ Turn'
    BY <1>1, BeginCallKeeps DEF SkipAgain, BeginCall, StreamInv, Turn
  <2> QED
    BY <1>1, <2>1, NothingMoved DEF SkipAgain, StreamInv, TypeOK
<1>2. CASE SkipDone \/ Fail
  <2>1. ArchiveInv'
    BY <1>2, ArchiveUntouched, GiveUpKeeps DEF SkipDone, Fail, StreamInv
  <2>2. call' = "none"
    BY <1>2 DEF SkipDone, Fail, GiveUp, archive
  <2>3. TypeOK'
    BY <1>2, <2>1 DEF SkipDone, Fail, StreamInv, TypeOK, ArchiveInv
  <2>4. Turn' /\ Disarmed'
    BY <1>2, <2>2 DEF SkipDone, Fail, StreamInv, Turn, Disarmed
  <2>5. Account' /\ NoGap'
    BY <1>2 DEF SkipDone, Fail, StreamInv, Account, NoGap
  <2> QED
    BY <2>1, <2>3, <2>4, <2>5 DEF StreamInv
<1> QED
  BY <1>1, <1>2

(* The client is told of all bytes, or of an error. *)
LEMMA AnswerKeeps ==
  ASSUME StreamInv, Answer
  PROVE  StreamInv'
<1> USE BoundAssumption DEF Answer, entry
<1>1. ArchiveInv'
  BY ArchiveUntouched DEF StreamInv
<1>2. op # "none" /\ handed \in Nat /\ got \in Nat /\ consumed \in Nat /\ length \in Nat
      /\ consumed <= length /\ handed + got <= consumed
  BY DEF StreamInv, TypeOK, Turn, Account
<1>3. TypeOK'
  <2>1. CASE failed \/ cancelled
    BY <1>1, <2>1 DEF StreamInv, TypeOK, ArchiveInv
  <2>2. CASE ~ (failed \/ cancelled)
    <3>1. handed' \in 0 .. length /\ trouble' = trouble
      BY <1>2, <2>2
    <3> QED
      BY <1>1, <3>1 DEF StreamInv, TypeOK, ArchiveInv
  <2> QED
    BY <2>1, <2>2
<1>4. Turn' /\ Disarmed'
  BY DEF StreamInv, Turn, Disarmed, archive
<1>5. Account' /\ NoGap'
  BY <1>2 DEF StreamInv, Account, NoGap
<1> QED
  BY <1>1, <1>3, <1>4, <1>5 DEF StreamInv

(* The inductive invariant holds of every behaviour. *)
THEOREM StreamKept == Spec => []StreamInv
<1>1. StreamInv /\ [Next]_vars => StreamInv'
  <2> SUFFICES ASSUME StreamInv, [Next]_vars PROVE StreamInv'
    OBVIOUS
  <2>1. CASE UNCHANGED vars
    <3>1. ArchiveInv'
      BY <2>1, ArchiveUntouched DEF StreamInv, vars
    <3> QED
      BY <2>1, <3>1, NothingMoved
      DEF vars, archive, entry, task, client, StreamInv, Turn, TypeOK
  <2>2. CASE Next
    BY <2>1, <2>2, ExplorationKeeps, StartKeeps, ReadDataKeeps, SkipBlockKeeps, ReturnKeeps,
       AnswerKeeps DEF Next, Work, Freed
  <2> QED
    BY <2>1, <2>2
<1> QED
  BY StreamInitially, <1>1, PTL DEF Spec

(***************************************************************************)
(* The state is well typed: no position leaves the archive, no byte is     *)
(* taken that the entry has not.                                           *)
(***************************************************************************)
THEOREM StreamHasTypes == Spec => []TypeOK
BY StreamKept, PTL DEF StreamInv

(* libarchive and the base stream agree on the position. *)
THEOREM PositionsAgree == Spec => []Aligned
<1>1. StreamInv => Aligned
  BY DEF StreamInv, ArchiveInv
<1> QED
  BY StreamKept, <1>1, PTL

(* The error that is reported is the one that struck. *)
THEOREM RightErrorReported == Spec => []CauseReported
<1>1. StreamInv => CauseReported
  BY DEF StreamInv, ArchiveInv
<1> QED
  BY StreamKept, <1>1, PTL

(* No error outlives the call it struck, unless libarchive swallowed it. *)
THEOREM NoErrorLeft == Spec => []NothingPending
<1>1. StreamInv => NothingPending
  BY DEF StreamInv, ArchiveInv
<1> QED
  BY StreamKept, <1>1, PTL

(* Until an operation fails, the client knows of every byte that is gone. *)
THEOREM NoByteUnreported == Spec => []NoGap
BY StreamKept, PTL DEF StreamInv

(* Each operation works under its own cancellable, and leaves none behind. *)
THEOREM CancellablesDisarmed == Spec => []Disarmed
BY StreamKept, PTL DEF StreamInv

=============================================================================
