-------------------------- MODULE TraceRing_proofs --------------------------
(***************************************************************************)
(* Proofs about the trace ring, for every number of buffers, buffer size,  *)
(* set of record sizes and number of opens.  What is proved of any number  *)
(* of racing producers comes first; what needs the producers to be one at  *)
(* a time says so in its statement.                                        *)
(***************************************************************************)
EXTENDS TraceRing, TLAPS

LEMMA FirstBuf == 1 \in Bufs
BY CountAssumption DEF Bufs

LEMMA NextBufInRing ==
  ASSUME NEW b \in Bufs
  PROVE  NextBuf(b) \in Bufs
BY CountAssumption DEF NextBuf, Bufs

LEMMA RawRange == \A r \in RawSizes \cup {1} : r \in Nat
BY EventAssumption

LEMMA EventSizes ==
  ASSUME NEW e \in Events
  PROVE  /\ Bytes(e) \in Nat
         /\ Need(e) \in Nat
         /\ Reserve(e) \in Nat
<1>1. e.raw \in Nat
  BY RawRange DEF Events
<1>2. LogSize(e) \in Nat
  BY <1>1 DEF LogSize, u8
<1>3. QED
  BY <1>1, <1>2 DEF Bytes, Need, Reserve, u8

LEMMA InitTypeOK == Init => TypeOK
<1> SUFFICES ASSUME Init PROVE TypeOK
  OBVIOUS
<1> USE DEF Init
<1>1. RingTypeOK
  BY DEF RingTypeOK
<1>2. CallTypeOK
  BY DEF CallTypeOK, Pcs
<1>3. DaemonTypeOK
  BY DEF DaemonTypeOK
<1>4. QED
  BY <1>1, <1>2, <1>3 DEF TypeOK

LEMMA ReturnTypeOK ==
  ASSUME CallTypeOK, NEW p \in Producers, NEW from, Goto(p, from, "idle"), Return(p)
  PROVE  CallTypeOK'
<1>1. pc' \in [Producers -> Pcs]
  BY DEF CallTypeOK, Goto, Pcs
<1>2. event' \in [Producers -> Events \cup {NULL}]
  BY DEF CallTypeOK, Return
<1>3. idx' \in [Producers -> Nat] /\ copied' \in [Producers -> BOOLEAN]
  BY DEF CallTypeOK, Return
<1>4. ASSUME NEW q \in Producers, pc'[q] \notin {"idle", "dead"} PROVE event'[q] \in Events
  <2>1. q # p
    BY <1>4 DEF CallTypeOK, Goto
  <2>2. QED
    BY <1>4, <2>1 DEF CallTypeOK, Goto, Return
<1>5. QED
  BY <1>1, <1>2, <1>3, <1>4 DEF CallTypeOK

LEMMA StepTypeOK == TypeOK /\ [Next]_vars => TypeOK'
<1> SUFFICES ASSUME TypeOK, [Next]_vars PROVE TypeOK'
  OBVIOUS
<1> USE DEF TypeOK, ringVars, producerVars, callVars, daemonVars
<1>1. ASSUME NEW p \in Producers, AddEvent(p) PROVE TypeOK'
  <2>1. RingTypeOK'
    BY <1>1 DEF AddEvent, Goto, RingTypeOK
  <2>2. CallTypeOK'
    BY <1>1 DEF AddEvent, Goto, CallTypeOK, Pcs, Deref
  <2>3. DaemonTypeOK'
    BY <1>1 DEF AddEvent, Goto, RingTypeOK, DaemonTypeOK
  <2>4. QED
    BY <2>1, <2>2, <2>3
<1>2. ASSUME NEW p \in Producers, TestFull(p) PROVE TypeOK'
  <2>1. RingTypeOK'
    BY <1>2 DEF TestFull, Goto, RingTypeOK
  <2>2. CallTypeOK'
    BY <1>2 DEF TestFull, Goto, CallTypeOK, Pcs, Deref
  <2>3. DaemonTypeOK'
    BY <1>2 DEF TestFull, Goto, RingTypeOK, DaemonTypeOK
  <2>4. QED
    BY <2>1, <2>2, <2>3
<1>3. ASSUME NEW p \in Producers, TestRoom(p) PROVE TypeOK'
  <2>1. RingTypeOK'
    BY <1>3 DEF TestRoom, Goto, RingTypeOK
  <2>2. CallTypeOK'
    BY <1>3 DEF TestRoom, Goto, CallTypeOK, Pcs, Deref
  <2>3. DaemonTypeOK'
    BY <1>3 DEF TestRoom, Goto, RingTypeOK, DaemonTypeOK
  <2>4. QED
    BY <2>1, <2>2, <2>3
<1>4. ASSUME NEW p \in Producers, SkipFull(p) PROVE TypeOK'
  <2>1. RingTypeOK'
    BY <1>4, NextBufInRing DEF SkipFull, Goto, RingTypeOK
  <2>2. CallTypeOK'
    BY <1>4 DEF SkipFull, Goto, CallTypeOK, Pcs, Deref
  <2>3. DaemonTypeOK'
    BY <1>4, NextBufInRing DEF SkipFull, Goto, RingTypeOK, DaemonTypeOK
  <2>4. QED
    BY <2>1, <2>2, <2>3
<1>5. ASSUME NEW p \in Producers, MarkFull(p) PROVE TypeOK'
  <2>1. RingTypeOK'
    BY <1>5 DEF MarkFull, Goto, RingTypeOK
  <2>2. CallTypeOK'
    BY <1>5 DEF MarkFull, Goto, CallTypeOK, Pcs, Deref
  <2>3. DaemonTypeOK'
    BY <1>5 DEF MarkFull, Goto, RingTypeOK, DaemonTypeOK
  <2>4. QED
    BY <2>1, <2>2, <2>3
<1>6. ASSUME NEW p \in Producers, WakeUp(p) PROVE TypeOK'
  <2>1. RingTypeOK'
    BY <1>6 DEF WakeUp, Goto, RingTypeOK
  <2>2. CallTypeOK'
    BY <1>6 DEF WakeUp, Goto, CallTypeOK, Pcs, Deref
  <2>3. DaemonTypeOK'
    BY <1>6 DEF WakeUp, Goto, RingTypeOK, DaemonTypeOK
  <2>4. QED
    BY <2>1, <2>2, <2>3
<1>7. ASSUME NEW p \in Producers, NextBuffer(p) PROVE TypeOK'
  <2>1. RingTypeOK'
    BY <1>7, NextBufInRing DEF NextBuffer, Goto, Return, RingTypeOK
  <2>2. CallTypeOK'
    <3>1. CASE copied[p]
      BY <1>7, <3>1, ReturnTypeOK DEF NextBuffer
    <3>2. CASE ~copied[p]
      BY <1>7, <3>2 DEF NextBuffer, Goto, CallTypeOK, Pcs, Deref
    <3>3. QED
      BY <3>1, <3>2
  <2>3. DaemonTypeOK'
    BY <1>7, NextBufInRing DEF NextBuffer, Goto, Return, RingTypeOK, DaemonTypeOK
  <2>4. QED
    BY <2>1, <2>2, <2>3
<1>8. ASSUME NEW p \in Producers, GiveUp(p) PROVE TypeOK'
  <2>1. RingTypeOK'
    BY <1>8 DEF GiveUp, Goto, Return, RingTypeOK
  <2>2. CallTypeOK'
    BY <1>8 DEF GiveUp, Goto, Return, CallTypeOK, Pcs, Deref
  <2>3. DaemonTypeOK'
    BY <1>8 DEF GiveUp, Goto, Return, RingTypeOK, DaemonTypeOK
  <2>4. QED
    BY <2>1, <2>2, <2>3
<1>9. ASSUME NEW p \in Producers, CopyRecord(p) PROVE TypeOK'
  <2>1. RingTypeOK'
    <3>1. event[p] \in Events
      BY <1>9 DEF CopyRecord, Goto, CallTypeOK
    <3>2. Bytes(event[p]) \in Nat
      BY <3>1, EventSizes
    <3>3. QED
      BY <1>9, <3>2 DEF CopyRecord, RingTypeOK
  <2>2. CallTypeOK'
    BY <1>9 DEF CopyRecord, Goto, CallTypeOK, Pcs, Deref
  <2>3. DaemonTypeOK'
    BY <1>9, EventSizes DEF CopyRecord, Goto, RingTypeOK, DaemonTypeOK
  <2>4. QED
    BY <2>1, <2>2, <2>3
<1>10. ASSUME NEW p \in Producers, TestLeft(p) PROVE TypeOK'
  <2>1. RingTypeOK'
    BY <1>10 DEF TestLeft, Goto, Return, RingTypeOK
  <2>2. CallTypeOK'
    <3>1. CASE offset[io_buf_hand] + Reserve(event[p]) > BufSize
      BY <1>10, <3>1 DEF TestLeft, Goto, CallTypeOK, Pcs, Deref
    <3>2. CASE ~(offset[io_buf_hand] + Reserve(event[p]) > BufSize)
      BY <1>10, <3>2, ReturnTypeOK DEF TestLeft
    <3>3. QED
      BY <3>1, <3>2
  <2>3. DaemonTypeOK'
    BY <1>10 DEF TestLeft, Goto, Return, RingTypeOK, DaemonTypeOK
  <2>4. QED
    BY <2>1, <2>2, <2>3
<1>11. ASSUME NEW p \in Producers, Oops(p) PROVE TypeOK'
  <2>1. RingTypeOK'
    BY <1>11 DEF Oops, Goto, RingTypeOK
  <2>2. CallTypeOK'
    BY <1>11 DEF Oops, Goto, CallTypeOK, Pcs, Deref
  <2>3. DaemonTypeOK'
    BY <1>11 DEF Oops, DaemonTypeOK
  <2>4. QED
    BY <2>1, <2>2, <2>3
<1>12. CASE Open
  <2>1. RingTypeOK'
    BY <1>12, FirstBuf, SizeAssumption DEF Open, RingTypeOK
  <2>2. CallTypeOK'
    BY <1>12 DEF Open, CallTypeOK, Pcs, Deref
  <2>3. DaemonTypeOK'
    BY <1>12, FirstBuf, SizeAssumption DEF Open, RingTypeOK, DaemonTypeOK
  <2>4. QED
    BY <2>1, <2>2, <2>3
<1>13. CASE Read
  <2>1. RingTypeOK'
    BY <1>13, NextBufInRing DEF Read, RingTypeOK, DaemonTypeOK
  <2>2. CallTypeOK'
    BY <1>13 DEF Read, CallTypeOK
  <2>3. DaemonTypeOK'
    BY <1>13, NextBufInRing DEF Read, DaemonTypeOK
  <2>4. QED
    BY <2>1, <2>2, <2>3
<1>14. CASE Poll \/ Enqueue \/ Sleep \/ Write \/ Interrupt \/ Release
  <2>1. RingTypeOK'
    BY <1>14 DEF Poll, Enqueue, Sleep, Write, Interrupt, Release, RingTypeOK
  <2>2. CallTypeOK'
    BY <1>14 DEF Poll, Enqueue, Sleep, Write, Interrupt, Release, CallTypeOK
  <2>3. DaemonTypeOK'
    BY <1>14 DEF Poll, Enqueue, Sleep, Write, Interrupt, Release, DaemonTypeOK
  <2>4. QED
    BY <2>1, <2>2, <2>3
<1>15. CASE UNCHANGED vars
  BY <1>15 DEF vars, RingTypeOK, CallTypeOK, DaemonTypeOK
<1>16. QED
  BY <1>1, <1>2, <1>3, <1>4, <1>5, <1>6, <1>7, <1>8, <1>9, <1>10, <1>11, <1>12, <1>13, <1>14, <1>15
     DEF Next, Produce, DaemonLoop

\* The ring, the calls and the daemon stay well-formed: in particular head and hand
\* are NULL exactly while the device is closed, and a call that has begun has an
\* event until it returns.
THEOREM TypeCorrect == Spec => []TypeOK
<1>1. QED
  BY InitTypeOK, StepTypeOK, PTL DEF Spec

-----------------------------------------------------------------------------
(* Any number of racing producers: the daemon's side of the protocol.  The  *)
(* two facts are inductive together with TypeOK: only Read lowers a flag,   *)
(* only MarkFull raises one and it leaves a wake-up to be done.             *)

LEMMA StepReadsSealed == TypeOK /\ ReadsSealed /\ [Next]_vars => ReadsSealed'
<1> SUFFICES ASSUME TypeOK, ReadsSealed, [Next]_vars PROVE ReadsSealed'
  OBVIOUS
<1> USE DEF ReadsSealed, ringVars, daemonVars
<1>1. ASSUME NEW p \in Producers, AddEvent(p) \/ Produce(p) PROVE ReadsSealed'
  <2>1. CASE MarkFull(p)
    BY <2>1 DEF MarkFull, TypeOK, RingTypeOK, DaemonTypeOK
  <2>2. CASE WakeUp(p)
    BY <2>2 DEF WakeUp
  <2>3. CASE ~MarkFull(p) /\ ~WakeUp(p)
    BY <1>1, <2>3 DEF AddEvent, Produce, TestFull, TestRoom, SkipFull, NextBuffer, GiveUp,
                      CopyRecord, TestLeft, Oops
  <2>4. QED
    BY <2>1, <2>2, <2>3
<1>2. CASE Poll \/ Sleep
  BY <1>2 DEF Poll, Sleep
<1>3. CASE Open \/ Enqueue \/ Read \/ Write \/ Interrupt \/ Release
  BY <1>3 DEF Open, Enqueue, Read, Write, Interrupt, Release
<1>4. CASE UNCHANGED vars
  BY <1>4 DEF vars
<1>5. QED
  BY <1>1, <1>2, <1>3, <1>4 DEF Next, DaemonLoop

LEMMA StepNoLostWakeUp == TypeOK /\ NoLostWakeUp /\ [Next]_vars => NoLostWakeUp'
<1> SUFFICES ASSUME TypeOK, NoLostWakeUp, [Next]_vars,
                    (daemon = "asleep" /\ full[io_buf_head])'
             PROVE  \E p \in Producers : pc'[p] = "wake"
  BY DEF NoLostWakeUp
<1> USE DEF ringVars, producerVars, daemonVars
<1>1. ASSUME NEW p \in Producers, MarkFull(p) PROVE pc'[p] = "wake"
  BY <1>1 DEF MarkFull, Goto, TypeOK, CallTypeOK
<1>2. ASSUME NEW p \in Producers, WakeUp(p) PROVE FALSE
  BY <1>2 DEF WakeUp
<1>3. ASSUME NEW p \in Producers, AddEvent(p) \/ Produce(p), ~MarkFull(p), ~WakeUp(p)
      PROVE  \E q \in Producers : pc'[q] = "wake"
  <2>1. daemon = "asleep" /\ full[io_buf_head]
    BY <1>3 DEF AddEvent, Produce, TestFull, TestRoom, SkipFull, NextBuffer, GiveUp,
                CopyRecord, TestLeft, Oops
  <2>2. PICK q \in Producers : pc[q] = "wake"
    BY <2>1 DEF NoLostWakeUp
  <2>3. pc'[q] = "wake"
    <3>1. pc' = pc \/ (pc[p] # "wake" /\ \E to : pc' = [pc EXCEPT ![p] = to])
      BY <1>3 DEF AddEvent, Produce, TestFull, TestRoom, SkipFull, NextBuffer, GiveUp,
                  CopyRecord, TestLeft, Oops, Goto
    <3>2. QED
      BY <2>2, <3>1 DEF TypeOK, CallTypeOK
  <2>4. QED
    BY <2>3
<1>4. CASE Open \/ Poll \/ Enqueue \/ Read \/ Write \/ Interrupt \/ Release
  BY <1>4 DEF Open, Poll, Enqueue, Read, Write, Interrupt, Release
<1>5. CASE Sleep
  BY <1>5 DEF Sleep
<1>6. CASE UNCHANGED vars
  BY <1>6 DEF vars, NoLostWakeUp
<1>7. QED
  BY <1>1, <1>2, <1>3, <1>4, <1>5, <1>6 DEF Next, DaemonLoop

\* However many producers race on io_buf_hand, androtrace_read takes a buffer that
\* a producer has sealed.
THEOREM ReadsAreSealed == Spec => []ReadsSealed
<1>1. Init => ReadsSealed
  BY DEF Init, ReadsSealed
<1>2. QED
  BY <1>1, TypeCorrect, StepReadsSealed, PTL DEF Spec

\* However many producers race on io_buf_hand, the daemon never sleeps on a full head
\* buffer that nobody is about to wake it for.
THEOREM WakeUpsAreKept == Spec => []NoLostWakeUp
<1>1. Init => NoLostWakeUp
  BY DEF Init, NoLostWakeUp
<1>2. QED
  BY <1>1, TypeCorrect, StepNoLostWakeUp, PTL DEF Spec

-----------------------------------------------------------------------------
(* One producer at a time.  The room and the flag are tested outside the    *)
(* lock; what makes the tests good at the copy is that nobody else moves    *)
(* io_buf_hand, fills or seals in between, and that the daemon only frees.  *)

OneProducer  == \A p, q \in Producers : p = q

\* no record needs more than the unsigned char sizes can say with the header's 20
ShortRecords == \A r \in RawSizes : r <= 235

\* the record about to be copied fits, in this ring and in a freshly opened one
CopyFits ==
  \A p \in Producers : pc[p] = "copy" =>
    /\ Bytes(event[p]) <= BufSize
    /\ io_buf_hand # NULL => offset[io_buf_hand] + Bytes(event[p]) <= BufSize

\* a buffer about to be left is sealed, or the daemon has emptied it already
LeavesClean ==
  \A p \in Producers : pc[p] \in {"skip", "wake", "next"} /\ io_buf_hand # NULL =>
    full[io_buf_hand] \/ offset[io_buf_hand] = 0

\* a buffer that passed the flag test is still unsealed
HandUnsealed ==
  \A p \in Producers : pc[p] \in {"test_room", "copy"} /\ io_buf_hand # NULL =>
    ~full[io_buf_hand]

LEMMA NeedCoversBytes ==
  ASSUME ShortRecords, NEW e \in Events
  PROVE  Bytes(e) <= Need(e)
<1>1. e.raw \in RawSizes \cup {1} /\ (e.kind = "io" <=> e.raw # 1)
  BY DEF Events
<1>2. e.raw \in Nat /\ e.raw <= 235
  BY <1>1, RawRange DEF ShortRecords
<1>3. CASE e.kind = "io"
  <2>1. LogSize(e) = e.raw
    BY <1>2, <1>3 DEF LogSize, u8
  <2>2. Need(e) = e.raw + 20
    BY <1>2, <2>1 DEF Need, u8
  <2>3. QED
    BY <1>2, <2>2 DEF Bytes
<1>4. CASE e.kind # "io"
  BY <1>1, <1>2, <1>4 DEF LogSize, Need, Bytes, u8
<1>5. QED
  BY <1>3, <1>4

LEMMA StepRecordsFit ==
  ASSUME OneProducer, ShortRecords
  PROVE  TypeOK /\ RecordsFit /\ CopyFits /\ [Next]_vars => RecordsFit' /\ CopyFits'
<1> SUFFICES ASSUME TypeOK, RecordsFit, CopyFits, [Next]_vars
             PROVE  RecordsFit' /\ CopyFits'
  OBVIOUS
<1> USE DEF TypeOK, ringVars, producerVars, callVars, daemonVars
<1>1. ASSUME NEW p \in Producers, TestRoom(p) PROVE RecordsFit' /\ CopyFits'
  <2>1. RecordsFit'
    BY <1>1 DEF TestRoom, RecordsFit
  <2>2. ASSUME pc'[p] = "copy"
        PROVE  offset[io_buf_hand] + Bytes(event[p]) <= BufSize /\ Bytes(event[p]) <= BufSize
    <3>1. event[p] \in Events /\ offset[io_buf_hand] \in Nat
      BY <1>1 DEF TestRoom, Goto, CallTypeOK, RingTypeOK
    <3>2. offset[io_buf_hand] + Need(event[p]) <= BufSize
      BY <1>1, <2>2, <3>1, EventSizes, SizeAssumption DEF TestRoom, Goto, CallTypeOK
    <3>3. QED
      BY <3>1, <3>2, NeedCoversBytes, EventSizes, SizeAssumption
  <2>3. QED
    BY <1>1, <2>1, <2>2 DEF TestRoom, CopyFits, OneProducer
<1>2. ASSUME NEW p \in Producers, CopyRecord(p) PROVE RecordsFit' /\ CopyFits'
  <2>1. \A q \in Producers : pc'[q] # "copy"
    BY <1>2 DEF CopyRecord, Goto, CallTypeOK, OneProducer
  <2>2. RecordsFit'
    BY <1>2 DEF CopyRecord, Goto, CopyFits, RecordsFit, RingTypeOK
  <2>3. QED
    BY <2>1, <2>2 DEF CopyFits
<1>3. ASSUME NEW p \in Producers, AddEvent(p) \/ Produce(p), ~TestRoom(p), ~CopyRecord(p)
      PROVE  RecordsFit' /\ CopyFits'
  <2>1. offset' = offset
    BY <1>3 DEF AddEvent, Produce, TestFull, SkipFull, MarkFull, WakeUp, NextBuffer, GiveUp,
                TestLeft, Oops
  <2>2. CASE Oops(p)
    BY <2>1, <2>2 DEF Oops, RecordsFit, CopyFits
  <2>3. CASE ~Oops(p)
    <3>1. pc'[p] # "copy"
      BY <1>3, <2>3 DEF AddEvent, Produce, TestFull, SkipFull, MarkFull, WakeUp, NextBuffer,
                        GiveUp, TestLeft, Goto, CallTypeOK
    <3>2. QED
      BY <2>1, <3>1 DEF RecordsFit, CopyFits, OneProducer
  <2>4. QED
    BY <2>2, <2>3
<1>4. CASE Open
  <2>1. RecordsFit'
    BY <1>4, SizeAssumption DEF Open, RecordsFit
  <2>2. ASSUME NEW p \in Producers, pc[p] = "copy"
        PROVE  Bytes(event[p]) <= BufSize /\ offset'[1] + Bytes(event[p]) <= BufSize
    <3>1. Bytes(event[p]) \in Nat /\ Bytes(event[p]) <= BufSize
      BY <2>2, EventSizes DEF CallTypeOK, CopyFits
    <3>2. offset'[1] = 0
      BY <1>4, FirstBuf DEF Open
    <3>3. QED
      BY <3>1, <3>2
  <2>3. QED
    BY <1>4, <2>1, <2>2 DEF Open, CopyFits
<1>5. CASE Read
  <2>1. \A b \in Bufs : offset'[b] \in Nat /\ offset'[b] <= offset[b]
    BY <1>5 DEF Read, RingTypeOK
  <2>2. \A p \in Producers : pc[p] = "copy" => Bytes(event[p]) \in Nat
    BY EventSizes DEF CallTypeOK
  <2>3. RecordsFit'
    BY <2>1, SizeAssumption DEF RecordsFit, RingTypeOK
  <2>4. CopyFits'
    <3>1. SUFFICES ASSUME NEW p \in Producers, pc[p] = "copy", io_buf_hand # NULL
                   PROVE  offset'[io_buf_hand] + Bytes(event[p]) <= BufSize
      BY <1>5 DEF Read, CopyFits
    <3>2. io_buf_hand \in Bufs
      BY <3>1 DEF RingTypeOK
    <3>3. offset[io_buf_hand] + Bytes(event[p]) <= BufSize
      BY <3>1 DEF CopyFits
    <3>4. QED
      BY <2>1, <2>2, <3>1, <3>2, <3>3, SizeAssumption DEF RingTypeOK
  <2>5. QED
    BY <2>3, <2>4
<1>6. CASE Poll \/ Enqueue \/ Sleep \/ Write \/ Interrupt \/ Release
  BY <1>6 DEF Poll, Enqueue, Sleep, Write, Interrupt, Release, RecordsFit, CopyFits
<1>7. CASE UNCHANGED vars
  BY <1>7 DEF vars, RecordsFit, CopyFits
<1>8. QED
  BY <1>1, <1>2, <1>3, <1>4, <1>5, <1>6, <1>7 DEF Next, DaemonLoop

\* With one producer at a time, and records whose size the unsigned chars can hold, no
\* record runs past the end of its buffer, even when the device is released and
\* opened again in the middle of a call.
THEOREM RecordsAlwaysFit ==
  ASSUME OneProducer, ShortRecords
  PROVE  Spec => []RecordsFit
<1>1. Init => RecordsFit /\ CopyFits
  BY SizeAssumption DEF Init, RecordsFit, CopyFits
<1>2. TypeOK /\ RecordsFit /\ CopyFits /\ [Next]_vars => RecordsFit' /\ CopyFits'
  BY StepRecordsFit
<1>3. QED
  BY <1>1, <1>2, TypeCorrect, PTL DEF Spec

LEMMA StepNothingStranded ==
  ASSUME OneProducer
  PROVE  TypeOK /\ NothingStranded /\ LeavesClean /\ [Next]_vars
           => NothingStranded' /\ LeavesClean'
<1> SUFFICES ASSUME TypeOK, NothingStranded, LeavesClean, [Next]_vars
             PROVE  NothingStranded' /\ LeavesClean'
  OBVIOUS
<1> USE DEF TypeOK, ringVars, producerVars, callVars, daemonVars
<1>1. ASSUME NEW p \in Producers, SkipFull(p) \/ NextBuffer(p)
      PROVE  NothingStranded' /\ LeavesClean'
  <2>1. full[io_buf_hand] \/ offset[io_buf_hand] = 0
    BY <1>1 DEF SkipFull, NextBuffer, Goto, LeavesClean
  <2>2. NothingStranded'
    BY <1>1, <2>1 DEF SkipFull, NextBuffer, NothingStranded, RingTypeOK
  <2>3. pc'[p] \notin {"skip", "wake", "next"}
    BY <1>1 DEF SkipFull, NextBuffer, Goto, CallTypeOK
  <2>4. QED
    BY <2>2, <2>3 DEF LeavesClean, OneProducer
<1>2. ASSUME NEW p \in Producers, MarkFull(p) PROVE NothingStranded' /\ LeavesClean'
  <2>1. full'[io_buf_hand] /\ \A b \in Bufs \ {io_buf_hand} : full'[b] = full[b]
    BY <1>2 DEF MarkFull, RingTypeOK
  <2>2. QED
    BY <1>2, <2>1 DEF MarkFull, NothingStranded, LeavesClean
<1>3. ASSUME NEW p \in Producers, CopyRecord(p) PROVE NothingStranded' /\ LeavesClean'
  <2>1. pc'[p] \notin {"skip", "wake", "next"}
    BY <1>3 DEF CopyRecord, Goto, CallTypeOK
  <2>2. NothingStranded'
    BY <1>3 DEF CopyRecord, NothingStranded, RingTypeOK
  <2>3. QED
    BY <2>1, <2>2 DEF LeavesClean, OneProducer
<1>4. ASSUME NEW p \in Producers, TestFull(p) PROVE NothingStranded' /\ LeavesClean'
  BY <1>4 DEF TestFull, Goto, CallTypeOK, NothingStranded, LeavesClean, OneProducer
<1>5. ASSUME NEW p \in Producers, WakeUp(p) PROVE NothingStranded' /\ LeavesClean'
  <2>1. pc[p] = "wake" /\ UNCHANGED ringVars
    BY <1>5 DEF WakeUp, Goto
  <2>2. QED
    BY <2>1 DEF NothingStranded, LeavesClean, OneProducer
<1>6. ASSUME NEW p \in Producers,
             AddEvent(p) \/ TestRoom(p) \/ GiveUp(p) \/ TestLeft(p) \/ Oops(p)
      PROVE  NothingStranded' /\ LeavesClean'
  <2>1. UNCHANGED ringVars
    BY <1>6 DEF AddEvent, TestRoom, GiveUp, TestLeft, Oops
  <2>2. pc' = pc \/ pc'[p] \notin {"skip", "wake", "next"}
    BY <1>6 DEF AddEvent, TestRoom, GiveUp, TestLeft, Oops, Goto, CallTypeOK
  <2>3. QED
    BY <2>1, <2>2 DEF NothingStranded, LeavesClean, OneProducer
<1>7. CASE Open
  <2>1. io_buf_hand' \in Bufs /\ \A b \in Bufs : offset'[b] = 0
    BY <1>7, FirstBuf DEF Open
  <2>2. QED
    BY <2>1 DEF NothingStranded, LeavesClean
<1>8. CASE Read
  <2>1. \A b \in Bufs :
          \/ full'[b] = full[b] /\ offset'[b] = offset[b]
          \/ offset'[b] = 0
    BY <1>8 DEF Read, RingTypeOK
  <2>2. QED
    BY <1>8, <2>1 DEF Read, NothingStranded, LeavesClean, RingTypeOK
<1>9. CASE Poll \/ Enqueue \/ Sleep \/ Write \/ Interrupt \/ Release
  BY <1>9 DEF Poll, Enqueue, Sleep, Write, Interrupt, Release, NothingStranded, LeavesClean
<1>10. CASE UNCHANGED vars
  BY <1>10 DEF vars, NothingStranded, LeavesClean
<1>11. QED
  BY <1>1, <1>2, <1>3, <1>4, <1>5, <1>6, <1>7, <1>8, <1>9, <1>10 DEF Next, Produce, DaemonLoop

\* With one producer at a time, whatever their sizes, no records are left in a buffer
\* that io_buf_hand has moved past without its flag up.
THEOREM NothingEverStranded ==
  ASSUME OneProducer
  PROVE  Spec => []NothingStranded
<1>1. Init => NothingStranded /\ LeavesClean
  BY DEF Init, NothingStranded, LeavesClean
<1>2. TypeOK /\ NothingStranded /\ LeavesClean /\ [Next]_vars
        => NothingStranded' /\ LeavesClean'
  BY StepNothingStranded
<1>3. QED
  BY <1>1, <1>2, TypeCorrect, PTL DEF Spec

LEMMA StepHandUnsealed ==
  ASSUME OneProducer
  PROVE  TypeOK /\ HandUnsealed /\ [Next]_vars => HandUnsealed'
<1> SUFFICES ASSUME TypeOK, HandUnsealed, [Next]_vars PROVE HandUnsealed'
  OBVIOUS
<1> USE DEF TypeOK, ringVars, producerVars, callVars, daemonVars
<1>1. ASSUME NEW p \in Producers, TestFull(p) \/ TestRoom(p) PROVE HandUnsealed'
  BY <1>1 DEF TestFull, TestRoom, Goto, CallTypeOK, HandUnsealed, OneProducer
<1>2. ASSUME NEW p \in Producers,
             AddEvent(p) \/ SkipFull(p) \/ MarkFull(p) \/ WakeUp(p) \/ NextBuffer(p) \/ GiveUp(p)
               \/ CopyRecord(p) \/ TestLeft(p)
      PROVE  HandUnsealed'
  <2>1. pc'[p] \notin {"test_room", "copy"}
    BY <1>2 DEF AddEvent, SkipFull, MarkFull, WakeUp, NextBuffer, GiveUp, CopyRecord, TestLeft,
                Goto, CallTypeOK
  <2>2. QED
    BY <2>1 DEF HandUnsealed, OneProducer
<1>3. ASSUME NEW p \in Producers, Oops(p) PROVE HandUnsealed'
  BY <1>3 DEF Oops, HandUnsealed
<1>4. CASE Open
  BY <1>4, FirstBuf DEF Open, HandUnsealed
<1>5. CASE Read
  <2>1. \A b \in Bufs : full'[b] => full[b]
    BY <1>5 DEF Read, RingTypeOK
  <2>2. QED
    BY <1>5, <2>1 DEF Read, HandUnsealed, RingTypeOK
<1>6. CASE Poll \/ Enqueue \/ Sleep \/ Write \/ Interrupt \/ Release
  BY <1>6 DEF Poll, Enqueue, Sleep, Write, Interrupt, Release, HandUnsealed
<1>7. CASE UNCHANGED vars
  BY <1>7 DEF vars, HandUnsealed
<1>8. QED
  BY <1>1, <1>2, <1>3, <1>4, <1>5, <1>6, <1>7 DEF Next, Produce, DaemonLoop

LEMMA SealedStepUntouched ==
  ASSUME TypeOK, HandUnsealed, [Next]_vars,
         NEW b \in Bufs, full[b], full'[b]
  PROVE  offset'[b] = offset[b]
<1> USE DEF TypeOK, ringVars, daemonVars
<1>1. ASSUME NEW p \in Producers, CopyRecord(p) PROVE offset'[b] = offset[b]
  BY <1>1 DEF CopyRecord, Goto, HandUnsealed, RingTypeOK
<1>2. ASSUME NEW p \in Producers, AddEvent(p) \/ Produce(p), ~CopyRecord(p)
      PROVE  offset'[b] = offset[b]
  BY <1>2 DEF AddEvent, Produce, TestFull, TestRoom, SkipFull, MarkFull, WakeUp, NextBuffer,
              GiveUp, TestLeft, Oops
<1>3. CASE Read
  BY <1>3 DEF Read, RingTypeOK, DaemonTypeOK
<1>4. CASE Open \/ Poll \/ Enqueue \/ Sleep \/ Write \/ Interrupt \/ Release
  BY <1>4 DEF Open, Poll, Enqueue, Sleep, Write, Interrupt, Release
<1>5. CASE UNCHANGED vars
  BY <1>5 DEF vars
<1>6. QED
  BY <1>1, <1>2, <1>3, <1>4, <1>5 DEF Next, DaemonLoop

\* With one producer at a time, a sealed buffer is the daemon's: no record is added to
\* it until androtrace_read has lowered its flag.
THEOREM SealedNeverWritten ==
  ASSUME OneProducer
  PROVE  Spec => NoWriteIntoSealed
<1>1. Init => HandUnsealed
  BY DEF Init, HandUnsealed
<1>2. TypeOK /\ HandUnsealed /\ [Next]_vars => HandUnsealed'
  BY StepHandUnsealed
<1>3. TypeOK /\ HandUnsealed /\ [Next]_vars
        => [\A b \in Bufs : full[b] /\ full'[b] => offset'[b] = offset[b]]_vars
  BY SealedStepUntouched
<1>4. QED
  BY <1>1, <1>2, <1>3, TypeCorrect, PTL DEF Spec, NoWriteIntoSealed

=============================================================================
