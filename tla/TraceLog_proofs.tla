--------------------------- MODULE TraceLog_proofs ---------------------------
(***************************************************************************)
(* Proofs about the records in the trace ring, for every number of buffers *)
(* and any sizes: that each is kept until it is stored, how far chunks may *)
(* overtake one another, when one is refused, and that the ring implements *)
(* ChunkLog.                                                               *)
(***************************************************************************)
EXTENDS TraceLog, TraceRing_proofs, FiniteSetTheorems, SequenceTheorems

-----------------------------------------------------------------------------
(* The records                                                              *)

Record == [number : Nat, end : Nat]

LogShape ==
  /\ added \in Nat /\ dropped \in 0..added
  /\ data \in [Bufs -> Seq(Record)] /\ taken \in Seq(Nat) /\ log \in Seq(Seq(Nat))
  /\ refused \in [Producers -> SUBSET Bufs]

\* a record is no newer than the last one; a closed ring is empty, and so are the daemon's
\* hands but between read and write
DataInv ==
  /\ \A b \in Bufs : \A k \in DOMAIN data[b] : data[b][k].number \in 1..added
  /\ taken # <<>> => daemon = "write"
  /\ io_buf_hand = NULL => \A b \in Bufs : data[b] = <<>>

\* every action is one of TraceRing
LEMMA RingStep == ASSUME [LogNext]_logVars PROVE [Next]_vars
BY DEF LogNext, logVars, LogAdd, LogRefuse, LogCopy, LogStep, LogOpen, LogRead, LogWrite, LogRelease, LogDaemon,
       Next, Produce, DaemonLoop

LEMMA Sizes == BufCount \in Nat \ {0} /\ BufSize \in Nat /\ Bufs = 1..BufCount /\ NULL \notin Bufs
BY CountAssumption, SizeAssumption, NullAssumption DEF Bufs

LEMMA NumbersOf ==
  ASSUME NEW s \in Seq(Record)
  PROVE  /\ Numbers(s) \in Seq(Nat) /\ Len(Numbers(s)) = Len(s)
         /\ \A k \in 1..Len(s) : Numbers(s)[k] = s[k].number
         /\ Numbers(s) = <<>> <=> s = <<>>
<1>1. DOMAIN s = 1..Len(s) /\ Len(s) \in Nat /\ \A k \in 1..Len(s) : s[k] \in Record
  BY LenProperties, ElementOfSeq
<1>2. Numbers(s) = [k \in 1..Len(s) |-> s[k].number]
  BY <1>1 DEF Numbers
<1>3. \A k \in 1..Len(s) : s[k].number \in Nat
  BY <1>1 DEF Record
<1>4. Numbers(s) \in Seq(Nat) /\ Len(Numbers(s)) = Len(s)
  BY <1>1, <1>2, <1>3, IsASeq, LenProperties
<1>5. QED
  BY <1>2, <1>4, EmptySeq

\* a record that ends in the buffer reaches the daemon, and nothing is put in its place
LEMMA Copied ==
  ASSUME NEW s \in Seq(Record)
  PROVE  /\ CopyToUser(s) \in Seq(Nat) /\ Len(CopyToUser(s)) <= Len(s)
         /\ \A k \in 1..Len(CopyToUser(s)) : CopyToUser(s)[k] = s[k].number
         /\ (\A k \in DOMAIN s : s[k].end <= BufSize) => CopyToUser(s) = Numbers(s)
<1> DEFINE whole == {k \in DOMAIN s : s[k].end <= BufSize}
           c == Cardinality(whole)
           t == SubSeq(s, 1, c)
<1>1. DOMAIN s = 1..Len(s) /\ Len(s) \in Nat /\ \A k \in 1..Len(s) : s[k] \in Record
  BY LenProperties, ElementOfSeq
<1>2. c \in Nat /\ c <= Len(s) /\ (whole = DOMAIN s => c = Len(s))
  <2>1. IsFiniteSet(1..Len(s)) /\ Cardinality(1..Len(s)) = IF 1 > Len(s) THEN 0 ELSE Len(s) - 1 + 1
    <3>1. 1 \in Int /\ Len(s) \in Int
      BY <1>1
    <3>2. QED
      BY <3>1, FS_Interval
  <2>2. whole \subseteq 1..Len(s)
    BY <1>1
  <2>3. QED
    BY <1>1, <2>1, <2>2, FS_Subset, FS_CardinalityType
<1> HIDE DEF c
<1>3. t \in Seq(Record) /\ Len(t) = c /\ \A k \in 1..c : t[k] = s[k]
  <2>1. \A i \in 1..c : s[i] \in Record
    <3>1. c <= Len(s) /\ c \in Nat /\ Len(s) \in Nat
      BY <1>1, <1>2
    <3>2. QED
      BY <1>1, <3>1
  <2>2. /\ t \in Seq(Record) /\ Len(t) = IF 1 <= c THEN c - 1 + 1 ELSE 0
        /\ \A i \in 1..(c - 1 + 1) : t[i] = s[1 + i - 1]
    <3>1. 1 \in Int /\ c \in Int
      BY <1>2
    <3>2. QED
      BY <2>1, <3>1, SubSeqProperties
  <2>3. QED
    BY <1>2, <2>2
<1>4. CopyToUser(s) = Numbers(t)
  BY DEF CopyToUser, c
<1>5. (\A k \in DOMAIN s : s[k].end <= BufSize) => t = s
  BY <1>2, SubSeqFull
<1> HIDE DEF t
<1>6. /\ Numbers(t) \in Seq(Nat) /\ Len(Numbers(t)) = c
      /\ \A k \in 1..c : Numbers(t)[k] = t[k].number
  BY <1>3, NumbersOf
<1>7. QED
  BY <1>2, <1>3, <1>4, <1>5, <1>6


LEMMA Appended ==
  ASSUME NEW S, NEW s \in Seq(S), NEW x \in S
  PROVE  /\ Append(s, x) \in Seq(S) /\ Len(Append(s, x)) = Len(s) + 1 /\ Len(s) \in Nat
         /\ Append(s, x)[Len(s) + 1] = x
         /\ \A k \in 1..Len(s) : Append(s, x)[k] = s[k]
BY AppendProperties, LenProperties

LEMMA ShapeInit == LogInit => LogShape /\ DataInv
<1> SUFFICES ASSUME LogInit PROVE LogShape /\ DataInv
  OBVIOUS
<1>1. LogShape
  BY EmptySeq DEF LogInit, LogShape
<1>2. DataInv
  BY DEF LogInit, DataInv
<1>3. QED
  BY <1>1, <1>2

LEMMA ShapeStep ==
  ASSUME TypeOK, LogShape, DataInv, [LogNext]_logVars
  PROVE  LogShape' /\ DataInv'
<1>0. /\ io_buf_hand # NULL => io_buf_hand \in Bufs /\ NextBuf(io_buf_hand) \in Bufs
      /\ daemon \notin {"closed", "dead"} => io_buf_head \in Bufs
      /\ NULL \notin Bufs
  BY Sizes, NextBufInRing DEF TypeOK, RingTypeOK, DaemonTypeOK
<1>1. ASSUME NEW p \in Producers, LogAdd(p) PROVE LogShape' /\ DataInv'
  <2>1. UNCHANGED <<io_buf_hand, daemon, added, data, taken, log, dropped>> /\ refused' = [refused EXCEPT ![p] = {}]
    BY <1>1 DEF LogAdd, AddEvent, ringVars, daemonVars
  <2>2. QED
    BY <2>1 DEF LogShape, DataInv
<1>2. ASSUME NEW p \in Producers, LogRefuse(p) PROVE LogShape' /\ DataInv'
  <2>1. /\ UNCHANGED <<daemon, added, data, taken, log, dropped>> /\ io_buf_hand # NULL /\ io_buf_hand' # NULL
        /\ refused' = [refused EXCEPT ![p] = @ \cup {io_buf_hand}]
    BY <1>0, <1>2 DEF LogRefuse, SkipFull, MarkFull, daemonVars
  <2>2. LogShape'
    BY <1>0, <2>1 DEF LogShape
  <2>3. QED
    BY <2>1, <2>2 DEF DataInv
<1>3. ASSUME NEW p \in Producers, LogCopy(p) PROVE LogShape' /\ DataInv'
  <2> DEFINE r == [number |-> added + 1, end |-> offset'[io_buf_hand]]
  <2>1. /\ UNCHANGED <<io_buf_hand, daemon, taken, log, refused, dropped>> /\ io_buf_hand \in Bufs
        /\ added' = added + 1 /\ data' = [data EXCEPT ![io_buf_hand] = Append(@, r)]
        /\ offset' = [offset EXCEPT ![io_buf_hand] = @ + Bytes(event[p])] /\ pc[p] = "copy"
    BY <1>0, <1>3 DEF LogCopy, CopyRecord, daemonVars, Goto
  <2>2. r \in Record /\ r.number = added + 1
    <3>1. Bytes(event[p]) \in Nat /\ offset[io_buf_hand] \in Nat /\ offset \in [Bufs -> Nat]
      BY <2>1, EventSizes DEF TypeOK, CallTypeOK, RingTypeOK
    <3>2. offset'[io_buf_hand] \in Nat
      BY <2>1, <3>1
    <3>3. QED
      BY <3>2 DEF Record, LogShape
  <2> HIDE DEF r
  <2>3. \A b \in Bufs : data[b] \in Seq(Record) /\ DOMAIN data[b] = 1..Len(data[b]) /\ Len(data[b]) \in Nat
    BY LenProperties DEF LogShape
  <2>4. /\ data'[io_buf_hand] = Append(data[io_buf_hand], r) /\ data'[io_buf_hand] \in Seq(Record)
        /\ \A b \in Bufs : b # io_buf_hand => data'[b] = data[b]
    BY <2>1, <2>2, <2>3, Appended DEF LogShape
  <2>5. LogShape'
    BY <2>1, <2>3, <2>4 DEF LogShape
  <2>6. ASSUME NEW b \in Bufs, NEW k \in DOMAIN data'[b] PROVE data'[b][k].number \in 1..added'
    <3>1. CASE b # io_buf_hand
      BY <2>1, <2>4, <3>1 DEF DataInv, LogShape
    <3>2. CASE b = io_buf_hand
      <4> DEFINE s == data[b]
      <4>1. /\ DOMAIN data'[b] = 1..(Len(s) + 1) /\ data'[b][Len(s) + 1] = r
            /\ \A j \in 1..Len(s) : data'[b][j] = s[j]
        BY <2>2, <2>3, <2>4, <3>2, Appended, LenProperties
      <4>2. CASE k = Len(s) + 1
        BY <2>1, <2>2, <4>1, <4>2 DEF LogShape
      <4>3. CASE k # Len(s) + 1
        <5>1. k \in DOMAIN s /\ data'[b][k] = s[k]
          BY <2>3, <4>1, <4>3
        <5>2. QED
          BY <2>1, <5>1 DEF DataInv, LogShape
      <4>4. QED
        BY <4>2, <4>3
    <3>3. QED
      BY <3>1, <3>2
  <2>7. QED
    BY <1>0, <2>1, <2>5, <2>6 DEF DataInv
<1>4. ASSUME NEW p \in Producers, LogStep(p) PROVE LogShape' /\ DataInv'
  <2>1. UNCHANGED <<added, data, taken, log, refused, dropped>>
    BY <1>4 DEF LogStep, recordVars
  <2>2. /\ io_buf_hand' = NULL => io_buf_hand = NULL
        /\ daemon = "write" /\ io_buf_hand # NULL => daemon' = "write"
    BY <1>0, <1>4 DEF LogStep, TestFull, TestRoom, WakeUp, NextBuffer, GiveUp, TestLeft, Oops, ringVars, daemonVars
  <2>3. daemon = "write" => io_buf_hand # NULL
    BY <1>0 DEF TypeOK, DaemonTypeOK
  <2>4. QED
    BY <2>1, <2>2, <2>3 DEF LogShape, DataInv
<1>5. CASE LogOpen \/ LogRelease
  <2>1. /\ \A b \in Bufs : data'[b] = <<>> /\ data'[b] \in Seq(Record)
        /\ data' \in [Bufs -> Seq(Record)] /\ taken' = <<>> /\ taken' \in Seq(Nat)
        /\ UNCHANGED <<added, log>> /\ dropped' \in 0..added' /\ refused' \in [Producers -> SUBSET Bufs]
    <3>1. <<>> \in Seq(Record) /\ <<>> \in Seq(Nat)
      BY EmptySeq
    <3>2. CASE LogOpen
      BY <3>1, <3>2 DEF LogOpen, Open, DataInv, LogShape
    <3>3. CASE LogRelease
      BY <3>1, <3>3 DEF LogRelease, LogShape
    <3>4. QED
      BY <1>5, <3>2, <3>3
  <2>2. QED
    BY <2>1, EmptySeq DEF LogShape, DataInv
<1>6. CASE LogRead
  <2>1. /\ io_buf_head \in Bufs /\ data[io_buf_head] \in Seq(Record) /\ <<>> \in Seq(Record)
        /\ UNCHANGED <<added, log, refused, dropped, io_buf_hand>> /\ daemon' = "write"
        /\ data' = [data EXCEPT ![io_buf_head] = <<>>] /\ taken' \in Seq(Nat)
    BY <1>0, <1>6, Copied, EmptySeq DEF LogRead, Read, LogShape
  <2>2. LogShape'
    BY <2>1 DEF LogShape
  <2>3. \A b \in Bufs : data'[b] = data[b] \/ data'[b] = <<>>
    BY <2>1 DEF LogShape
  <2>4. QED
    BY <1>0, <2>1, <2>2, <2>3, EmptySeq DEF DataInv
<1>7. CASE LogWrite
  <2>1. UNCHANGED <<io_buf_hand, added, data, refused, dropped>> /\ taken' = <<>> /\ taken' \in Seq(Nat) /\ log' \in Seq(Seq(Nat))
    BY <1>7, EmptySeq, Appended DEF LogWrite, Write, ringVars, LogShape
  <2>2. QED
    BY <2>1 DEF LogShape, DataInv
<1>8. CASE LogDaemon \/ UNCHANGED logVars
  <2>1. /\ UNCHANGED <<io_buf_hand, added, data, taken, log, refused, dropped>>
        /\ daemon = "write" => daemon' = "write"
    BY <1>8 DEF LogDaemon, logVars, recordVars, vars, ringVars, daemonVars, Poll, Enqueue, Sleep, Interrupt
  <2>2. QED
    BY <2>1 DEF LogShape, DataInv
<1>9. QED
  BY <1>1, <1>2, <1>3, <1>4, <1>5, <1>6, <1>7, <1>8 DEF LogNext

-----------------------------------------------------------------------------
(* Chunks that overtake, with any number of producers                       *)

\* the chunks that the daemon has read, in that order
Fetched == IF taken = <<>> THEN log ELSE Append(log, taken)

\* those that are newer than record n
Newer(n) == {i \in DOMAIN Fetched : n < Fetched[i][1]}

\* how many buffers are read before b
Ahead(b) == IF io_buf_head <= b THEN b - io_buf_head ELSE b - io_buf_head + BufCount

\* head and hand come and go together
PointersInv == (io_buf_head = NULL) <=> (io_buf_hand = NULL)

ChunksInv ==
  \A j \in DOMAIN Fetched :
    /\ Fetched[j] # <<>>
    /\ \A k \in DOMAIN Fetched[j] :
         Fetched[j][k] \in 1..added /\ Cardinality({i \in 1..(j - 1) : Fetched[j][k] < Fetched[i][1]}) < BufCount

\* a newer chunk that has been read has brought the head nearer to every older record
AheadInv ==
  io_buf_head # NULL =>
    \A b \in Bufs : \A k \in DOMAIN data[b] : Cardinality(Newer(data[b][k].number)) + Ahead(b) < BufCount

OvertakeInv == PointersInv /\ ChunksInv /\ AheadInv

LEMMA AheadRange ==
  ASSUME io_buf_head \in Bufs, NEW b \in Bufs
  PROVE  Ahead(b) \in 0..(BufCount - 1)
BY Sizes DEF Ahead

LEMMA HeadMoves ==
  ASSUME io_buf_head \in Bufs, io_buf_head' = NextBuf(io_buf_head), NEW b \in Bufs, b # io_buf_head
  PROVE  Ahead(b)' = Ahead(b) - 1
BY Sizes DEF Ahead, NextBuf

LEMMA FetchedIs ==
  ASSUME LogShape
  PROVE  /\ Fetched \in Seq(Seq(Nat)) /\ Len(Fetched) \in Nat /\ DOMAIN Fetched = 1..Len(Fetched)
         /\ \A n : IsFiniteSet(Newer(n)) /\ Cardinality(Newer(n)) \in Nat
         /\ \A j \in Nat : \A n : LET s == {i \in 1..(j - 1) : n < Fetched[i][1]} IN IsFiniteSet(s) /\ Cardinality(s) \in Nat
<1>1. log \in Seq(Seq(Nat)) /\ taken \in Seq(Nat)
  BY DEF LogShape
<1>2. Fetched \in Seq(Seq(Nat))
  BY <1>1, Appended DEF Fetched
<1>3. Len(Fetched) \in Nat /\ DOMAIN Fetched = 1..Len(Fetched)
  BY <1>2, LenProperties
<1>4. \A j \in Nat : IsFiniteSet(1..j)
  BY FS_Interval
<1>5. ASSUME NEW n PROVE IsFiniteSet(Newer(n)) /\ Cardinality(Newer(n)) \in Nat
  <2>1. Newer(n) \subseteq 1..Len(Fetched) /\ IsFiniteSet(1..Len(Fetched))
    BY <1>3, <1>4 DEF Newer
  <2>2. QED
    BY <2>1, FS_Subset, FS_CardinalityType
<1>6. ASSUME NEW j \in Nat, NEW n
      PROVE  LET s == {i \in 1..(j - 1) : n < Fetched[i][1]} IN IsFiniteSet(s) /\ Cardinality(s) \in Nat
  <2> DEFINE s == {i \in 1..(j - 1) : n < Fetched[i][1]}
  <2>1. s \subseteq 1..j /\ IsFiniteSet(1..j)
    BY <1>4
  <2>2. IsFiniteSet(s) /\ Cardinality(s) \in Nat
    BY <2>1, FS_Subset, FS_CardinalityType
  <2>3. QED
    BY <2>2
<1>7. QED
  BY <1>2, <1>3, <1>5, <1>6

LEMMA QuietOvertake ==
  ASSUME OvertakeInv, UNCHANGED <<data, added, io_buf_head, Fetched>>, io_buf_hand' = NULL <=> io_buf_hand = NULL
  PROVE  OvertakeInv'
<1>1. PointersInv'
  BY DEF OvertakeInv, PointersInv
<1>2. ChunksInv'
  BY DEF OvertakeInv, ChunksInv
<1>3. AheadInv'
  BY DEF OvertakeInv, AheadInv, Newer, Ahead
<1>4. QED
  BY <1>1, <1>2, <1>3 DEF OvertakeInv

\* a record that is copied is newer than all that have been read
LEMMA CopyOvertakes ==
  ASSUME TypeOK, LogShape, LogShape', OvertakeInv, NEW p \in Producers, LogCopy(p)
  PROVE  OvertakeInv'
<1>1. /\ UNCHANGED <<io_buf_head, io_buf_hand, Fetched>> /\ io_buf_hand \in Bufs /\ io_buf_hand # NULL
      /\ added' = added + 1 /\ added \in Nat
      /\ data' = [data EXCEPT ![io_buf_hand] = Append(@, [number |-> added + 1, end |-> offset'[io_buf_hand]])]
      /\ \A b \in Bufs : data[b] \in Seq(Record) /\ DOMAIN data[b] = 1..Len(data[b]) /\ Len(data[b]) \in Nat
  BY LenProperties DEF LogCopy, CopyRecord, Fetched, TypeOK, RingTypeOK, LogShape
<1>2. io_buf_head \in Bufs
  <2>1. io_buf_head # NULL
    BY <1>1 DEF OvertakeInv, PointersInv
  <2>2. QED
    BY <2>1 DEF TypeOK, RingTypeOK
<1>3. PointersInv' /\ ChunksInv'
  <2>1. PointersInv' /\ ChunksInv
    BY <1>1 DEF OvertakeInv, PointersInv
  <2>2. \A n \in 1..added : n \in 1..added'
    BY <1>1
  <2>3. Fetched' = Fetched
    BY <1>1
  <2> HIDE DEF Fetched
  <2>4. QED
    BY <2>1, <2>2, <2>3 DEF ChunksInv
<1>4. ASSUME NEW n \in Nat, n > added PROVE Newer(n) = {}
  <2> SUFFICES ASSUME NEW i \in DOMAIN Fetched, n < Fetched[i][1] PROVE FALSE
    BY DEF Newer
  <2>1. Fetched[i] # <<>> /\ \A k \in DOMAIN Fetched[i] : Fetched[i][k] \in 1..added
    BY DEF OvertakeInv, ChunksInv
  <2>2. 1 \in DOMAIN Fetched[i]
    <3>1. Fetched[i] \in Seq(Nat)
      BY FetchedIs, ElementOfSeq
    <3>2. QED
      BY <2>1, <3>1, LenProperties, EmptySeq
  <2>3. Fetched[i][1] \in 1..added
    BY <2>1, <2>2
  <2>4. QED
    BY <1>1, <1>4, <2>3
<1>5. ASSUME NEW b \in Bufs, NEW k \in DOMAIN data'[b]
      PROVE  (Cardinality(Newer(data[b][k].number)) + Ahead(b) < BufCount)'
  <2>1. Newer(data[b][k].number)' = Newer(data'[b][k].number) /\ Ahead(b)' = Ahead(b)
    BY <1>1 DEF Newer, Ahead
  <2>2. CASE k \in DOMAIN data[b] /\ data'[b][k] = data[b][k]
    BY <1>2, <2>1, <2>2, Sizes DEF OvertakeInv, AheadInv
  <2>3. CASE ~(k \in DOMAIN data[b] /\ data'[b][k] = data[b][k])
    <3> DEFINE r == [number |-> added + 1, end |-> offset'[io_buf_hand]]
    <3>1. b = io_buf_hand /\ data'[b] = Append(data[b], r)
      BY <1>1, <2>3 DEF LogShape
    <3>2. data'[b] \in Seq(Record)
      BY DEF LogShape
    <3>3. k = Len(data[b]) + 1 /\ data'[b][k] = r
      BY <1>1, <2>3, <3>1, <3>2, AppendProperties, LenProperties
    <3>4. data'[b][k].number = added + 1
      BY <3>3
    <3>5. Newer(added + 1) = {}
      <4>1. added + 1 \in Nat /\ added + 1 > added
        BY <1>1
      <4>2. QED
        BY <1>4, <4>1
    <3>6. Cardinality(Newer(data'[b][k].number)) = 0
      BY <3>4, <3>5, FS_EmptySet
    <3>7. Ahead(b) \in 0..(BufCount - 1)
      BY <1>2, AheadRange
    <3>8. QED
      BY <2>1, <3>6, <3>7, Sizes
  <2>4. QED
    BY <2>2, <2>3
<1>6. QED
  BY <1>3, <1>5 DEF OvertakeInv, AheadInv
LEMMA LogIsFetched ==
  ASSUME LogShape
  PROVE  /\ \A j \in DOMAIN log : j \in DOMAIN Fetched /\ Fetched[j] = log[j]
         /\ DOMAIN log = 1..Len(log) /\ Len(log) \in Nat /\ Len(log) <= Len(Fetched)
<1>1. log \in Seq(Seq(Nat)) /\ taken \in Seq(Nat) /\ DOMAIN log = 1..Len(log) /\ Len(log) \in Nat
  BY LenProperties DEF LogShape
<1>2. CASE taken = <<>>
  BY <1>1, <1>2 DEF Fetched
<1>3. CASE taken # <<>>
  <2>1. /\ Fetched = Append(log, taken) /\ Len(Fetched) = Len(log) + 1 /\ DOMAIN Fetched = 1..Len(Fetched)
        /\ \A j \in 1..Len(log) : Fetched[j] = log[j]
    BY <1>1, <1>3, Appended, LenProperties DEF Fetched
  <2>2. QED
    BY <1>1, <2>1
<1>4. QED
  BY <1>2, <1>3

\* what the daemon takes has been overtaken by fewer than BufCount chunks, and brings the
\* head nearer to all that it has overtaken
LEMMA ReadOvertakes ==
  ASSUME TypeOK, LogShape, LogShape', DataInv, OvertakeInv, LogRead
  PROVE  OvertakeInv'
<1> DEFINE s == data[io_buf_head]
<1>1. /\ taken = <<>> /\ Fetched = log /\ log' = log /\ io_buf_head \in Bufs /\ io_buf_hand \in Bufs
      /\ added' = added /\ io_buf_hand' = io_buf_hand /\ io_buf_head' = NextBuf(io_buf_head)
      /\ taken' = CopyToUser(s) /\ data' = [data EXCEPT ![io_buf_head] = <<>>]
      /\ s \in Seq(Record) /\ DOMAIN s = 1..Len(s) /\ Len(s) \in Nat
  BY LenProperties DEF LogRead, Read, DataInv, Fetched, TypeOK, DaemonTypeOK, LogShape
<1>2. /\ taken' \in Seq(Nat) /\ DOMAIN taken' = 1..Len(taken') /\ Len(taken') \in Nat
      /\ \A k \in DOMAIN taken' : k \in DOMAIN s /\ taken'[k] = s[k].number
  <2>1. /\ CopyToUser(s) \in Seq(Nat) /\ Len(CopyToUser(s)) <= Len(s)
        /\ \A k \in 1..Len(CopyToUser(s)) : CopyToUser(s)[k] = s[k].number
    BY <1>1, Copied
  <2>2. DOMAIN taken' = 1..Len(taken') /\ Len(taken') \in Nat /\ taken' \in Seq(Nat)
    BY <1>1, <2>1, LenProperties
  <2>3. QED
    BY <1>1, <2>1, <2>2
<1>3. NULL \notin Bufs /\ NextBuf(io_buf_head) \in Bufs /\ BufCount \in Nat
  BY <1>1, Sizes, NextBufInRing
<1>4. Len(Fetched) \in Nat /\ DOMAIN Fetched = 1..Len(Fetched) /\ Fetched \in Seq(Seq(Nat))
  BY FetchedIs
<1>5. PointersInv'
  BY <1>1, <1>3 DEF PointersInv
<1>6. \A b \in Bufs : b # io_buf_head => /\ data'[b] = data[b] /\ Ahead(b)' = Ahead(b) - 1
                                        /\ Ahead(b) \in 0..(BufCount - 1) /\ Ahead(b)' \in Nat
  <2> SUFFICES ASSUME NEW b \in Bufs, b # io_buf_head
               PROVE  /\ data'[b] = data[b] /\ Ahead(b)' = Ahead(b) - 1
                      /\ Ahead(b) \in 0..(BufCount - 1) /\ Ahead(b)' \in Nat
    OBVIOUS
  <2>1. data'[b] = data[b]
    BY <1>1 DEF LogShape
  <2>2. Ahead(b)' = Ahead(b) - 1
    BY <1>1, HeadMoves
  <2>3. Ahead(b) \in 0..(BufCount - 1)
    BY <1>1, AheadRange
  <2>4. Ahead(b) # 0
    BY <1>1, Sizes DEF Ahead
  <2>5. QED
    BY <1>3, <2>1, <2>2, <2>3, <2>4
<1>7. data'[io_buf_head] = <<>>
  BY <1>1 DEF LogShape
<1>8. \A b \in Bufs : \A k \in DOMAIN data[b] : Cardinality(Newer(data[b][k].number)) + Ahead(b) < BufCount
  BY <1>1, <1>3 DEF OvertakeInv, AheadInv
<1>9. CASE taken' = <<>>
  <2>1. Fetched' = Fetched
    BY <1>1, <1>9 DEF Fetched
  <2>2. ChunksInv'
    BY <1>1, <2>1 DEF OvertakeInv, ChunksInv
  <2>3. ASSUME NEW b \in Bufs, NEW k \in DOMAIN data'[b]
        PROVE  (Cardinality(Newer(data[b][k].number)) + Ahead(b) < BufCount)'
    <3>1. b # io_buf_head /\ k \in DOMAIN data[b] /\ data'[b][k] = data[b][k]
      BY <1>6, <1>7, <2>3, EmptySeq
    <3>2. Newer(data[b][k].number)' = Newer(data[b][k].number)
      BY <2>1, <3>1 DEF Newer
    <3>3. Cardinality(Newer(data[b][k].number)) \in Nat
      BY FetchedIs
    <3>4. QED
      BY <1>3, <1>6, <1>8, <3>1, <3>2, <3>3
  <2>4. QED
    BY <1>5, <2>2, <2>3 DEF OvertakeInv, AheadInv
<1>10. CASE taken' # <<>>
  <2> DEFINE m == Len(Fetched)
  <2>1. /\ Fetched' = Append(Fetched, taken') /\ Len(Fetched') = m + 1 /\ DOMAIN Fetched' = 1..(m + 1)
        /\ Fetched'[m + 1] = taken' /\ \A i \in 1..m : Fetched'[i] = Fetched[i]
    <3>1. Fetched' = Append(Fetched, taken')
      BY <1>1, <1>10 DEF Fetched
    <3>2. DOMAIN Fetched' = 1..Len(Fetched')
      BY FetchedIs
    <3>3. QED
      BY <1>2, <1>4, <3>1, <3>2, Appended
  <2> DEFINE after(n) == {i \in DOMAIN Fetched' : n < Fetched'[i][1]}
  <2>2. ASSUME NEW n
        PROVE  /\ Cardinality(after(n)) <= Cardinality(Newer(n)) + 1
               /\ Cardinality(after(n)) \in Nat /\ Cardinality(Newer(n)) \in Nat
    <3>1. after(n) \subseteq Newer(n) \cup {m + 1}
      BY <1>4, <2>1 DEF Newer
    <3>2. IsFiniteSet(Newer(n)) /\ Cardinality(Newer(n)) \in Nat
      BY FetchedIs
    <3>3. /\ IsFiniteSet(Newer(n) \cup {m + 1})
          /\ Cardinality(Newer(n) \cup {m + 1}) = IF m + 1 \in Newer(n) THEN Cardinality(Newer(n)) ELSE Cardinality(Newer(n)) + 1
      BY <3>2, FS_AddElement
    <3>4. IsFiniteSet(after(n)) /\ Cardinality(after(n)) <= Cardinality(Newer(n) \cup {m + 1})
      BY <3>1, <3>3, FS_Subset
    <3>5. Cardinality(after(n)) \in Nat
      BY <3>4, FS_CardinalityType
    <3>6. QED
      BY <3>2, <3>3, <3>4, <3>5
  <2>3. ASSUME NEW j \in DOMAIN Fetched'
        PROVE  /\ Fetched'[j] # <<>>
               /\ \A k \in DOMAIN Fetched'[j] :
                    /\ Fetched'[j][k] \in 1..added'
                    /\ Cardinality({i \in 1..(j - 1) : Fetched'[j][k] < Fetched'[i][1]}) < BufCount
    <3>1. CASE j = m + 1
      <4>1. Fetched'[j] = taken' /\ j - 1 = m
        BY <1>4, <2>1, <3>1
      <4>2. ASSUME NEW k \in DOMAIN taken'
            PROVE  /\ taken'[k] \in 1..added
                   /\ Cardinality({i \in 1..m : taken'[k] < Fetched'[i][1]}) < BufCount
        <5>1. k \in DOMAIN s /\ taken'[k] = s[k].number
          BY <1>2
        <5>2. s[k].number \in 1..added
          BY <1>1, <5>1 DEF DataInv
        <5>3. {i \in 1..m : taken'[k] < Fetched'[i][1]} = Newer(s[k].number)
          BY <1>4, <2>1, <5>1 DEF Newer
        <5>4. Cardinality(Newer(s[k].number)) + Ahead(io_buf_head) < BufCount
          BY <1>1, <1>8, <5>1
        <5>5. Ahead(io_buf_head) \in Nat /\ Cardinality(Newer(s[k].number)) \in Nat
          BY <1>1, AheadRange, FetchedIs
        <5>6. Cardinality(Newer(s[k].number)) < BufCount
          BY <1>3, <5>4, <5>5
        <5>7. Cardinality({i \in 1..m : taken'[k] < Fetched'[i][1]}) < BufCount
          BY <5>3, <5>6
        <5>8. QED
          BY <5>1, <5>2, <5>7
      <4>3. QED
        BY <1>1, <1>10, <4>1, <4>2
    <3>2. CASE j # m + 1
      <4>1. j \in DOMAIN Fetched /\ j \in 1..m /\ Fetched'[j] = Fetched[j]
        BY <1>4, <2>1, <3>2
      <4>2. \A i \in 1..(j - 1) : Fetched'[i] = Fetched[i]
        BY <1>4, <2>1, <4>1
      <4>3. /\ Fetched[j] # <<>>
            /\ \A k \in DOMAIN Fetched[j] :
                 /\ Fetched[j][k] \in 1..added
                 /\ Cardinality({i \in 1..(j - 1) : Fetched[j][k] < Fetched[i][1]}) < BufCount
        BY <4>1 DEF OvertakeInv, ChunksInv
      <4>4. ASSUME NEW k \in DOMAIN Fetched[j]
            PROVE  {i \in 1..(j - 1) : Fetched'[j][k] < Fetched'[i][1]} = {i \in 1..(j - 1) : Fetched[j][k] < Fetched[i][1]}
        BY <4>1, <4>2
      <4>5. QED
        BY <1>1, <4>1, <4>3, <4>4
    <3>3. QED
      BY <3>1, <3>2
  <2>4. ChunksInv'
    BY <2>3 DEF ChunksInv
  <2>5. ASSUME NEW b \in Bufs, NEW k \in DOMAIN data'[b]
        PROVE  (Cardinality(Newer(data[b][k].number)) + Ahead(b) < BufCount)'
    <3>1. b # io_buf_head /\ k \in DOMAIN data[b] /\ data'[b] = data[b]
      BY <1>6, <1>7, <2>5, EmptySeq
    <3> DEFINE n == data[b][k].number
    <3>2. Cardinality(Newer(n)) + Ahead(b) < BufCount
      BY <1>8, <3>1
    <3>3. data'[b][k].number = n
      BY <3>1
    <3> HIDE DEF n
    <3>4. Newer(data[b][k].number)' = after(n)
      BY <3>3 DEF Newer
    <3>5. Cardinality(after(n)) + Ahead(b)' < BufCount
      BY <1>3, <1>6, <2>2, <3>1, <3>2
    <3>6. QED
      BY <3>4, <3>5
  <2>6. QED
    BY <1>5, <2>4, <2>5 DEF OvertakeInv, AheadInv
<1>11. QED
  BY <1>9, <1>10
LEMMA EmptiedOvertakes ==
  ASSUME LogShape, DataInv, OvertakeInv, LogOpen \/ LogRelease
  PROVE  OvertakeInv'
<1>1. /\ \A b \in Bufs : data'[b] = <<>>
      /\ added' = added /\ log' = log
      /\ (io_buf_head' = NULL) <=> (io_buf_hand' = NULL)
  <2>1. CASE LogOpen
    BY <2>1, Sizes DEF LogOpen, Open
  <2>2. CASE LogRelease
    BY <2>2 DEF LogRelease, Release
  <2>3. QED
    BY <2>1, <2>2
<1>2. Fetched' = Fetched \/ Fetched' = log
  <2>1. CASE LogOpen
    BY <2>1 DEF LogOpen, Fetched
  <2>2. CASE LogRelease
    BY <2>2 DEF LogRelease, Fetched
  <2>3. QED
    BY <2>1, <2>2
<1>3. ChunksInv'
  <2>1. CASE Fetched' = Fetched
    BY <1>1, <2>1 DEF OvertakeInv, ChunksInv
  <2>2. CASE Fetched' = log
    <3>1. \A j \in DOMAIN log : j \in DOMAIN Fetched /\ Fetched[j] = log[j] /\ \A i \in 1..(j - 1) : i \in DOMAIN log
      <4>1. DOMAIN log = 1..Len(log) /\ Len(log) \in Nat
        BY LogIsFetched
      <4>2. \A j \in 1..Len(log) : \A i \in 1..(j - 1) : i \in 1..Len(log)
        BY <4>1
      <4>3. QED
        BY <4>1, <4>2, LogIsFetched
    <3>2. ASSUME NEW j \in DOMAIN log, NEW k \in DOMAIN log[j]
          PROVE  /\ log[j] # <<>> /\ log[j][k] \in 1..added
                 /\ Cardinality({i \in 1..(j - 1) : log[j][k] < log[i][1]}) < BufCount
      <4>1. {i \in 1..(j - 1) : log[j][k] < log[i][1]} = {i \in 1..(j - 1) : Fetched[j][k] < Fetched[i][1]}
        BY <3>1, LogIsFetched
      <4>2. QED
        BY <3>1, <4>1 DEF OvertakeInv, ChunksInv
    <3>3. \A j \in DOMAIN log : log[j] # <<>>
      BY <3>1 DEF OvertakeInv, ChunksInv
    <3>4. QED
      BY <1>1, <2>2, <3>2, <3>3 DEF ChunksInv
  <2>3. QED
    BY <1>2, <2>1, <2>2
<1>4. AheadInv'
  <2>1. \A b \in Bufs : DOMAIN data'[b] = {}
    BY <1>1
  <2>2. QED
    BY <2>1 DEF AheadInv
<1>5. QED
  BY <1>1, <1>3, <1>4 DEF OvertakeInv, PointersInv

LEMMA OvertakeStep ==
  ASSUME TypeOK, LogShape, LogShape', DataInv, OvertakeInv, [LogNext]_logVars
  PROVE  OvertakeInv'
<1>0. /\ io_buf_hand # NULL => io_buf_hand \in Bufs /\ NextBuf(io_buf_hand) \in Bufs
      /\ NULL \notin Bufs
  BY Sizes, NextBufInRing DEF TypeOK, RingTypeOK
<1>1. ASSUME NEW p \in Producers, LogAdd(p) \/ LogRefuse(p) \/ LogStep(p) PROVE OvertakeInv'
  <2>1. UNCHANGED <<data, added, taken, log>>
    BY <1>1 DEF LogAdd, LogRefuse, LogStep, recordVars
  <2>2. UNCHANGED io_buf_head /\ ((io_buf_hand' = NULL) <=> (io_buf_hand = NULL))
    BY <1>0, <1>1 DEF LogAdd, LogRefuse, LogStep, AddEvent, SkipFull, MarkFull, TestFull, TestRoom, WakeUp,
                      NextBuffer, GiveUp, TestLeft, Oops, ringVars
  <2>3. Fetched' = Fetched
    BY <2>1 DEF Fetched
  <2>4. QED
    BY <2>1, <2>2, <2>3, QuietOvertake
<1>2. ASSUME NEW p \in Producers, LogCopy(p) PROVE OvertakeInv'
  BY <1>2, CopyOvertakes
<1>3. CASE LogOpen \/ LogRelease
  BY <1>3, EmptiedOvertakes
<1>4. CASE LogRead
  BY <1>4, ReadOvertakes
<1>5. CASE LogWrite
  <2>1. UNCHANGED <<data, added, io_buf_head, io_buf_hand>> /\ taken' = <<>> /\ log' = Fetched
    BY <1>5 DEF LogWrite, Write, ringVars, Fetched
  <2>2. Fetched' = Fetched
    BY <2>1 DEF Fetched
  <2>3. QED
    BY <2>1, <2>2, QuietOvertake
<1>6. CASE LogDaemon \/ UNCHANGED logVars
  <2>1. UNCHANGED <<data, added, taken, log, io_buf_head, io_buf_hand>>
    BY <1>6 DEF LogDaemon, Poll, Enqueue, Sleep, Interrupt, ringVars, recordVars, vars, logVars
  <2>2. Fetched' = Fetched
    BY <2>1 DEF Fetched
  <2>3. QED
    BY <2>1, <2>2, QuietOvertake
<1>7. QED
  BY <1>1, <1>2, <1>3, <1>4, <1>5, <1>6 DEF LogNext

LEMMA OvertakeInit == LogInit => OvertakeInv
<1> SUFFICES ASSUME LogInit PROVE OvertakeInv
  OBVIOUS
<1>1. io_buf_head = NULL /\ io_buf_hand = NULL /\ Fetched = <<>> /\ DOMAIN Fetched = {}
  BY EmptySeq DEF LogInit, Init, Fetched
<1>2. QED
  BY <1>1 DEF OvertakeInv, PointersInv, ChunksInv, AheadInv

\* the records in the ring, as far as it goes without an assumption on the producers
LEMMA LogInvariants == LogSpec => [](TypeOK /\ LogShape /\ DataInv /\ OvertakeInv)
<1>1. LogInit => TypeOK /\ LogShape /\ DataInv /\ OvertakeInv
  BY InitTypeOK, ShapeInit, OvertakeInit DEF LogInit
<1>2. TypeOK /\ LogShape /\ DataInv /\ OvertakeInv /\ [LogNext]_logVars
        => (TypeOK /\ LogShape /\ DataInv /\ OvertakeInv)'
  <2> SUFFICES ASSUME TypeOK, LogShape, DataInv, OvertakeInv, [LogNext]_logVars
               PROVE  TypeOK' /\ LogShape' /\ DataInv' /\ OvertakeInv'
    OBVIOUS
  <2>1. TypeOK'
    BY RingStep, StepTypeOK
  <2>2. LogShape' /\ DataInv'
    BY ShapeStep
  <2>3. QED
    BY <2>1, <2>2, OvertakeStep
<1>3. QED
  BY <1>1, <1>2, PTL DEF LogSpec

\* However many producers race on io_buf_hand, a chunk is overtaken by fewer than BufCount
\* later ones on its way to the log file: androtrace_read moves the head one buffer on, so
\* the records of a buffer wait for at most one turn of the ring.
THEOREM OvertakingIsBounded == LogSpec => []BoundedOvertaking
<1>1. LogShape /\ OvertakeInv => BoundedOvertaking
  <2> SUFFICES ASSUME LogShape, OvertakeInv, NEW j \in DOMAIN log
               PROVE  Cardinality({i \in 1..(j - 1) : Overtakes(i, j)}) < BufCount
    BY DEF BoundedOvertaking
  <2>1. /\ j \in DOMAIN Fetched /\ Fetched[j] = log[j] /\ DOMAIN log = 1..Len(log) /\ Len(log) \in Nat
        /\ \A i \in DOMAIN log : Fetched[i] = log[i]
    BY LogIsFetched
  <2>2. log[j] \in Seq(Nat) /\ log[j] # <<>>
    BY <2>1, ElementOfSeq DEF LogShape, OvertakeInv, ChunksInv
  <2> DEFINE k == Len(log[j])
  <2>3. k \in DOMAIN log[j] /\ Last(log[j]) = log[j][k]
    BY <2>2, LenProperties, EmptySeq DEF Last
  <2>4. \A i \in 1..(j - 1) : i \in DOMAIN log
    BY <2>1
  <2>5. {i \in 1..(j - 1) : Overtakes(i, j)} = {i \in 1..(j - 1) : Fetched[j][k] < Fetched[i][1]}
    BY <2>1, <2>3, <2>4 DEF Overtakes
  <2>6. QED
    BY <2>1, <2>3, <2>5 DEF OvertakeInv, ChunksInv
<1>2. QED
  BY <1>1, LogInvariants, PTL
-----------------------------------------------------------------------------
(* One producer at a time: every record is stored                           *)

\* a record ends where its buffer did when it was copied; a closed device has no ring
EndsInv ==
  /\ \A b \in Bufs : \A k \in DOMAIN data[b] : data[b][k].end <= offset[b]
  /\ daemon = "closed" => io_buf_hand = NULL

Kept(n) ==
  \/ \E b \in Bufs : \E i \in DOMAIN data[b] : data[b][i].number = n
  \/ \E i \in DOMAIN taken : taken[i] = n
  \/ \E i \in DOMAIN log : \E j \in DOMAIN log[i] : log[i][j] = n

LEMMA EndIsNat ==
  ASSUME LogShape, NEW b \in Bufs, NEW k \in DOMAIN data[b]
  PROVE  data[b][k].end \in Nat /\ data[b][k].number \in Nat
<1>1. data[b] \in Seq(Record)
  BY DEF LogShape
<1>2. data[b][k] \in Record
  BY <1>1, ElementOfSeq, LenProperties
<1>3. QED
  BY <1>2 DEF Record

\* what a copy does to the records of the buffers
LEMMA CopyRecords ==
  ASSUME TypeOK, LogShape, NEW p \in Producers, LogCopy(p)
  PROVE  \E r \in Record :
           /\ r.number = added + 1 /\ r.end = offset'[io_buf_hand] /\ io_buf_hand \in Bufs
           /\ DOMAIN data'[io_buf_hand] = 1..(Len(data[io_buf_hand]) + 1) /\ Len(data[io_buf_hand]) \in Nat
           /\ DOMAIN data[io_buf_hand] = 1..Len(data[io_buf_hand])
           /\ data'[io_buf_hand] = Append(data[io_buf_hand], r)
           /\ data'[io_buf_hand][Len(data[io_buf_hand]) + 1] = r
           /\ \A k \in DOMAIN data[io_buf_hand] : data'[io_buf_hand][k] = data[io_buf_hand][k]
           /\ \A b \in Bufs : b # io_buf_hand => data'[b] = data[b]
           /\ offset'[io_buf_hand] = offset[io_buf_hand] + Bytes(event[p]) /\ Bytes(event[p]) \in Nat
           /\ \A b \in Bufs : b # io_buf_hand => offset'[b] = offset[b]
<1> DEFINE r == [number |-> added + 1, end |-> offset'[io_buf_hand]]
           s == data[io_buf_hand]
<1>1. /\ io_buf_hand \in Bufs /\ added \in Nat
      /\ data' = [data EXCEPT ![io_buf_hand] = Append(@, r)]
      /\ offset' = [offset EXCEPT ![io_buf_hand] = @ + Bytes(event[p])]
      /\ event[p] \in Events /\ offset \in [Bufs -> Nat] /\ data \in [Bufs -> Seq(Record)]
  BY DEF LogCopy, CopyRecord, Goto, TypeOK, RingTypeOK, CallTypeOK, LogShape
<1>2. Bytes(event[p]) \in Nat /\ offset'[io_buf_hand] = offset[io_buf_hand] + Bytes(event[p]) /\ offset'[io_buf_hand] \in Nat
  BY <1>1, EventSizes
<1>3. r \in Record /\ r.number = added + 1 /\ r.end = offset'[io_buf_hand]
  BY <1>1, <1>2 DEF Record
<1> HIDE DEF r
<1>4. s \in Seq(Record) /\ data'[io_buf_hand] = Append(s, r)
  BY <1>1
<1>5. /\ DOMAIN s = 1..Len(s) /\ Len(s) \in Nat /\ DOMAIN Append(s, r) = 1..(Len(s) + 1)
      /\ Append(s, r)[Len(s) + 1] = r /\ \A k \in 1..Len(s) : Append(s, r)[k] = s[k]
  BY <1>3, <1>4, Appended, LenProperties
<1>6. \A b \in Bufs : b # io_buf_hand => data'[b] = data[b] /\ offset'[b] = offset[b]
  BY <1>1
<1>7. QED
  BY <1>1, <1>2, <1>3, <1>4, <1>5, <1>6

LEMMA EndsStep ==
  ASSUME TypeOK, LogShape, EndsInv, [LogNext]_logVars
  PROVE  EndsInv'
<1>0. io_buf_hand # NULL => io_buf_hand \in Bufs /\ NextBuf(io_buf_hand) \in Bufs
  BY Sizes, NextBufInRing DEF TypeOK, RingTypeOK
<1>1. ASSUME NEW p \in Producers, LogAdd(p) \/ LogRefuse(p) \/ LogStep(p) PROVE EndsInv'
  <2>1. UNCHANGED <<data, offset>>
    BY <1>1 DEF LogAdd, LogRefuse, LogStep, recordVars, AddEvent, SkipFull, MarkFull, TestFull, TestRoom, WakeUp,
                NextBuffer, GiveUp, TestLeft, Oops, ringVars
  <2>2. (daemon' = "closed" => daemon = "closed") /\ (io_buf_hand = NULL => io_buf_hand' = NULL)
    BY <1>1 DEF LogAdd, LogRefuse, LogStep, AddEvent, SkipFull, MarkFull, TestFull, TestRoom, WakeUp,
                NextBuffer, GiveUp, TestLeft, Oops, ringVars, daemonVars
  <2>3. QED
    BY <2>1, <2>2 DEF EndsInv
<1>2. ASSUME NEW p \in Producers, LogCopy(p) PROVE EndsInv'
  <2>1. UNCHANGED <<daemon, io_buf_hand>>
    BY <1>2 DEF LogCopy, CopyRecord, daemonVars
  <2>2. PICK r \in Record :
           /\ r.number = added + 1 /\ r.end = offset'[io_buf_hand] /\ io_buf_hand \in Bufs
           /\ DOMAIN data'[io_buf_hand] = 1..(Len(data[io_buf_hand]) + 1) /\ Len(data[io_buf_hand]) \in Nat
           /\ DOMAIN data[io_buf_hand] = 1..Len(data[io_buf_hand])
           /\ data'[io_buf_hand] = Append(data[io_buf_hand], r)
           /\ data'[io_buf_hand][Len(data[io_buf_hand]) + 1] = r
           /\ \A k \in DOMAIN data[io_buf_hand] : data'[io_buf_hand][k] = data[io_buf_hand][k]
           /\ \A b \in Bufs : b # io_buf_hand => data'[b] = data[b]
           /\ offset'[io_buf_hand] = offset[io_buf_hand] + Bytes(event[p]) /\ Bytes(event[p]) \in Nat
           /\ \A b \in Bufs : b # io_buf_hand => offset'[b] = offset[b]
    BY <1>2, CopyRecords
  <2>3. ASSUME NEW b \in Bufs, NEW k \in DOMAIN data'[b] PROVE data'[b][k].end <= offset'[b]
    <3>1. CASE b # io_buf_hand
      BY <2>2, <3>1 DEF EndsInv
    <3>2. CASE b = io_buf_hand /\ k \in DOMAIN data[b]
      <4>1. data'[b][k].end = data[b][k].end /\ data[b][k].end <= offset[b]
        BY <2>2, <3>2 DEF EndsInv
      <4>2. data[b][k].end \in Nat /\ offset[b] \in Nat
        BY <3>2, EndIsNat DEF TypeOK, RingTypeOK
      <4>3. QED
        BY <2>2, <3>2, <4>1, <4>2
    <3>3. CASE b = io_buf_hand /\ k \notin DOMAIN data[b]
      <4>1. k = Len(data[b]) + 1
        BY <2>2, <2>3, <3>3
      <4>2. offset[b] \in Nat
        BY DEF TypeOK, RingTypeOK
      <4>3. QED
        BY <2>2, <3>3, <4>1, <4>2
    <3>4. QED
      BY <3>1, <3>2, <3>3
  <2>4. QED
    BY <2>1, <2>3 DEF EndsInv
<1>3. CASE LogOpen \/ LogRelease
  <2>1. (\A b \in Bufs : DOMAIN data'[b] = {}) /\ (daemon' = "closed" => io_buf_hand' = NULL)
    BY <1>3, EmptySeq DEF LogOpen, LogRelease, Open, Release
  <2>2. QED
    BY <2>1 DEF EndsInv
<1>4. CASE LogRead
  <2>1. /\ daemon' # "closed" /\ data' = [data EXCEPT ![io_buf_head] = <<>>]
        /\ offset' = [offset EXCEPT ![io_buf_head] = 0]
    BY <1>4 DEF LogRead, Read
  <2>2. ASSUME NEW b \in Bufs, NEW k \in DOMAIN data'[b] PROVE data'[b] = data[b] /\ offset'[b] = offset[b]
    BY <2>1, <2>2, EmptySeq DEF LogShape, TypeOK, RingTypeOK
  <2>3. QED
    BY <2>1, <2>2 DEF EndsInv
<1>5. CASE LogWrite \/ LogDaemon \/ UNCHANGED logVars
  <2>1. UNCHANGED <<data, offset, io_buf_hand>> /\ (daemon' = "closed" => daemon = "closed")
    BY <1>5 DEF LogWrite, Write, LogDaemon, Poll, Enqueue, Sleep, Interrupt, ringVars, recordVars, vars, logVars, daemonVars
  <2>2. QED
    BY <2>1 DEF EndsInv
<1>6. QED
  BY <1>1, <1>2, <1>3, <1>4, <1>5 DEF LogNext

\* a full buffer is read whole
LEMMA ReadWhole ==
  ASSUME TypeOK, LogShape, EndsInv, RecordsFit, NEW b \in Bufs
  PROVE  CopyToUser(data[b]) = Numbers(data[b])
<1>1. data[b] \in Seq(Record) /\ offset[b] <= BufSize /\ offset[b] \in Nat /\ BufSize \in Nat
  BY Sizes DEF LogShape, RecordsFit, TypeOK, RingTypeOK
<1>2. ASSUME NEW k \in DOMAIN data[b] PROVE data[b][k].end <= BufSize
  <2>1. data[b][k].end \in Nat /\ data[b][k].end <= offset[b]
    BY EndIsNat DEF EndsInv
  <2>2. QED
    BY <1>1, <2>1
<1>3. QED
  BY <1>1, <1>2, Copied

LEMMA KeptStep ==
  ASSUME TypeOK, LogShape, LogShape', DataInv, EndsInv, RecordsFit, KeptUntilStored, [LogNext]_logVars
  PROVE  KeptUntilStored'
<1>0. added \in Nat /\ dropped \in Nat
  BY DEF LogShape
<1>1. ASSUME UNCHANGED <<added, dropped>>,
             ASSUME NEW n, Kept(n) PROVE Kept(n)'
      PROVE  KeptUntilStored'
  BY <1>1 DEF KeptUntilStored, Kept
<1>2. CASE UNCHANGED <<added, dropped, data, taken, log>>
  BY <1>2 DEF KeptUntilStored
<1>3. ASSUME NEW p \in Producers, LogCopy(p) PROVE KeptUntilStored'
  <2>1. UNCHANGED <<taken, log, dropped>> /\ added' = added + 1
    BY <1>3 DEF LogCopy
  <2>2. PICK r \in Record :
           /\ r.number = added + 1 /\ r.end = offset'[io_buf_hand] /\ io_buf_hand \in Bufs
           /\ DOMAIN data'[io_buf_hand] = 1..(Len(data[io_buf_hand]) + 1) /\ Len(data[io_buf_hand]) \in Nat
           /\ DOMAIN data[io_buf_hand] = 1..Len(data[io_buf_hand])
           /\ data'[io_buf_hand] = Append(data[io_buf_hand], r)
           /\ data'[io_buf_hand][Len(data[io_buf_hand]) + 1] = r
           /\ \A k \in DOMAIN data[io_buf_hand] : data'[io_buf_hand][k] = data[io_buf_hand][k]
           /\ \A b \in Bufs : b # io_buf_hand => data'[b] = data[b]
           /\ offset'[io_buf_hand] = offset[io_buf_hand] + Bytes(event[p]) /\ Bytes(event[p]) \in Nat
           /\ \A b \in Bufs : b # io_buf_hand => offset'[b] = offset[b]
    BY <1>3, CopyRecords
  <2>3. ASSUME NEW n \in (dropped' + 1)..added'
        PROVE  \/ \E b \in Bufs : \E i \in DOMAIN data'[b] : data'[b][i].number = n
               \/ \E i \in DOMAIN taken' : taken'[i] = n
               \/ \E i \in DOMAIN log' : \E j \in DOMAIN log'[i] : log'[i][j] = n
    <3>1. CASE n = added + 1
      <4>1. Len(data[io_buf_hand]) + 1 \in DOMAIN data'[io_buf_hand]
        BY <2>2
      <4>2. data'[io_buf_hand][Len(data[io_buf_hand]) + 1].number = n
        BY <2>2, <3>1
      <4>3. io_buf_hand \in Bufs
        BY <2>2
      <4>4. QED
        BY <4>1, <4>2, <4>3
    <3>2. CASE n # added + 1
      <4>1. n \in (dropped + 1)..added
        BY <1>0, <2>1, <3>2
      <4>2. CASE \E b \in Bufs : \E i \in DOMAIN data[b] : data[b][i].number = n
        <5>1. PICK b \in Bufs : \E i \in DOMAIN data[b] : data[b][i].number = n
          BY <4>2
        <5>2. PICK i \in DOMAIN data[b] : data[b][i].number = n
          BY <5>1
        <5>3. i \in DOMAIN data'[b] /\ data'[b][i].number = n
          BY <2>2, <5>2
        <5>4. QED
          BY <5>3
      <4>3. QED
        BY <2>1, <4>1, <4>2 DEF KeptUntilStored
    <3>3. QED
      BY <3>1, <3>2
  <2>4. QED
    BY <2>3 DEF KeptUntilStored
<1>4. CASE LogOpen
  <2>1. UNCHANGED <<added, dropped, taken, log>> /\ \A b \in Bufs : DOMAIN data[b] = {}
    BY <1>4, EmptySeq DEF LogOpen, Open, EndsInv, DataInv
  <2>2. QED
    BY <2>1 DEF KeptUntilStored
<1>5. CASE LogRelease
  <2>1. (dropped' + 1)..added' = {}
    BY <1>0, <1>5 DEF LogRelease
  <2>2. QED
    BY <2>1 DEF KeptUntilStored
<1>6. CASE LogRead
  <2>1. /\ UNCHANGED <<added, dropped, log>> /\ DOMAIN taken = {} /\ io_buf_head \in Bufs
        /\ data' = [data EXCEPT ![io_buf_head] = <<>>]
        /\ taken' = CopyToUser(data[io_buf_head]) /\ data[io_buf_head] \in Seq(Record)
    BY <1>6, EmptySeq DEF LogRead, Read, DataInv, TypeOK, DaemonTypeOK, LogShape
  <2>2. taken' = Numbers(data[io_buf_head])
    BY <2>1, ReadWhole
  <2>3. \A i \in DOMAIN data[io_buf_head] : i \in DOMAIN taken' /\ taken'[i] = data[io_buf_head][i].number
    BY <2>2 DEF Numbers
  <2>4. \A b \in Bufs : b # io_buf_head => data'[b] = data[b]
    BY <2>1 DEF LogShape
  <2>5. ASSUME NEW n, Kept(n) PROVE Kept(n)'
    <3>1. CASE \E b \in Bufs : \E i \in DOMAIN data[b] : data[b][i].number = n
      <4>1. PICK b \in Bufs : \E i \in DOMAIN data[b] : data[b][i].number = n
        BY <3>1
      <4>2. PICK i \in DOMAIN data[b] : data[b][i].number = n
        BY <4>1
      <4>3. CASE b = io_buf_head
        BY <2>3, <4>2, <4>3 DEF Kept
      <4>4. CASE b # io_buf_head
        BY <2>4, <4>2, <4>4 DEF Kept
      <4>5. QED
        BY <4>3, <4>4
    <3>2. CASE \E i \in DOMAIN log : \E j \in DOMAIN log[i] : log[i][j] = n
      BY <2>1, <3>2 DEF Kept
    <3>3. QED
      BY <2>1, <2>5, <3>1, <3>2 DEF Kept
  <2>6. QED
    BY <1>1, <2>1, <2>5
<1>7. CASE LogWrite
  <2>1. UNCHANGED <<added, dropped, data>> /\ taken' = <<>> /\ log' = Fetched
    BY <1>7 DEF LogWrite, Fetched
  <2>2. \A j \in DOMAIN log : j \in DOMAIN Fetched /\ Fetched[j] = log[j]
    BY LogIsFetched
  <2>3. ASSUME NEW n, Kept(n) PROVE Kept(n)'
    <3>1. CASE \E b \in Bufs : \E i \in DOMAIN data[b] : data[b][i].number = n
      BY <2>1, <3>1 DEF Kept
    <3>2. CASE \E i \in DOMAIN taken : taken[i] = n
      <4>1. taken # <<>>
        BY <3>2, EmptySeq
      <4>2. log' = Append(log, taken) /\ Len(log) + 1 \in DOMAIN log' /\ log'[Len(log) + 1] = taken
        <5>1. log \in Seq(Seq(Nat)) /\ taken \in Seq(Nat)
          BY DEF LogShape
        <5>2. log' = Append(log, taken)
          BY <2>1, <4>1 DEF Fetched
        <5>3. QED
          BY <5>1, <5>2, Appended, LenProperties
      <4>3. QED
        BY <3>2, <4>2 DEF Kept
    <3>3. CASE \E i \in DOMAIN log : \E j \in DOMAIN log[i] : log[i][j] = n
      BY <2>1, <2>2, <3>3 DEF Kept
    <3>4. QED
      BY <2>3, <3>1, <3>2, <3>3 DEF Kept
  <2>4. QED
    BY <1>1, <2>1, <2>3
<1>8. ASSUME NEW p \in Producers, LogAdd(p) \/ LogRefuse(p) \/ LogStep(p) PROVE KeptUntilStored'
  BY <1>2, <1>8 DEF LogAdd, LogRefuse, LogStep, recordVars
<1>9. CASE LogDaemon \/ UNCHANGED logVars
  BY <1>2, <1>9 DEF LogDaemon, logVars, recordVars
<1>10. QED
  BY <1>3, <1>4, <1>5, <1>6, <1>7, <1>8, <1>9 DEF LogNext

\* With one producer at a time and names of at most 235 bytes, whatever was accepted since
\* the last release is in the ring, with the daemon, or stored: no buffer is overfilled, so
\* copy_to_user cuts nothing off, and Read empties the buffer it took and no other.
THEOREM RecordsAreKept ==
  ASSUME OneProducer, ShortRecords
  PROVE  LogSpec => []KeptUntilStored
<1>1. LogInit => EndsInv /\ RecordsFit /\ CopyFits /\ KeptUntilStored
  <2> SUFFICES ASSUME LogInit PROVE EndsInv /\ RecordsFit /\ CopyFits /\ KeptUntilStored
    OBVIOUS
  <2>1. (\A b \in Bufs : DOMAIN data[b] = {}) /\ (dropped + 1)..added = {} /\ io_buf_hand = NULL
    BY EmptySeq DEF LogInit, Init
  <2>2. RecordsFit /\ CopyFits
    BY SizeAssumption DEF LogInit, Init, RecordsFit, CopyFits
  <2>3. QED
    BY <2>1, <2>2 DEF EndsInv, KeptUntilStored
<1>2. TypeOK /\ LogShape /\ DataInv /\ OvertakeInv /\ LogShape'
      /\ EndsInv /\ RecordsFit /\ CopyFits /\ KeptUntilStored /\ [LogNext]_logVars
        => EndsInv' /\ RecordsFit' /\ CopyFits' /\ KeptUntilStored'
  <2> SUFFICES ASSUME TypeOK, LogShape, DataInv, LogShape',
                      EndsInv, RecordsFit, CopyFits, KeptUntilStored, [LogNext]_logVars
               PROVE  EndsInv' /\ RecordsFit' /\ CopyFits' /\ KeptUntilStored'
    OBVIOUS
  <2>1. RecordsFit' /\ CopyFits'
    BY RingStep, StepRecordsFit
  <2>2. EndsInv'
    BY EndsStep
  <2>3. KeptUntilStored'
    BY KeptStep
  <2>4. QED
    BY <2>1, <2>2, <2>3
<1>3. QED
  BY <1>1, <1>2, LogInvariants, PTL DEF LogSpec
-----------------------------------------------------------------------------
(* One producer at a time: what a call has seen when it gives up            *)

\* how many steps io_buf_hand is past b
Behind(b) == IF b < io_buf_hand THEN io_buf_hand - b ELSE io_buf_hand - b + BufCount

LEMMA BehindRange ==
  ASSUME io_buf_hand \in Bufs, NEW b \in Bufs
  PROVE  Behind(b) \in 1..BufCount
BY Sizes DEF Behind

LEMMA HandMoves ==
  ASSUME io_buf_hand \in Bufs, io_buf_hand' = NextBuf(io_buf_hand), NEW b \in Bufs, b # io_buf_hand
  PROVE  Behind(b)' = Behind(b) + 1
BY Sizes DEF Behind, NextBuf

\* the last idx[p] buffers behind io_buf_hand, and the one about to be left
SeenFull(p) ==
  /\ io_buf_hand # NULL
  /\ \A b \in Bufs : Behind(b) <= idx[p] => b \in refused[p]
  /\ pc[p] \in {"wake", "next"} => io_buf_hand \in refused[p]

SeenInv ==
  \A p \in Producers :
    /\ pc[p] = "idle" => idx[p] = 0
    /\ pc[p] \in {"idle", "dead"} \/ refused[p] = Bufs \/ SeenFull(p)

LEMMA SeenStep ==
  ASSUME OneProducer, TypeOK, LogShape, EndsInv, SeenInv, [LogNext]_logVars
  PROVE  SeenInv'
<1>0. /\ io_buf_hand # NULL => io_buf_hand \in Bufs /\ NextBuf(io_buf_hand) \in Bufs
      /\ NULL \notin Bufs
      /\ idx \in [Producers -> Nat] /\ pc \in [Producers -> Pcs] /\ refused \in [Producers -> SUBSET Bufs]
  BY Sizes, NextBufInRing DEF TypeOK, RingTypeOK, CallTypeOK, LogShape
<1>1. ASSUME NEW p \in Producers,
             pc'[p] = "idle" => idx'[p] = 0,
             pc'[p] \in {"idle", "dead"} \/ refused'[p] = Bufs \/ SeenFull(p)'
      PROVE  SeenInv'
  <2>1. \A q \in Producers : q = p
    BY DEF OneProducer
  <2>2. QED
    BY <1>1, <2>1 DEF SeenInv
<1>2. ASSUME NEW p \in Producers, pc'[p] = "idle", idx'[p] = 0 PROVE SeenInv'
  BY <1>1, <1>2
<1>3. ASSUME NEW p \in Producers, pc[p] \notin {"idle", "dead"}, pc'[p] \notin {"idle", "wake", "next"},
             UNCHANGED <<io_buf_hand, idx, refused>>
      PROVE  SeenInv'
  <2>1. refused[p] = Bufs \/ SeenFull(p)
    BY <1>3 DEF SeenInv
  <2>2. refused'[p] = Bufs \/ SeenFull(p)'
    BY <1>3, <2>1 DEF SeenFull, Behind
  <2>3. QED
    BY <1>1, <1>3, <2>2
<1>4. ASSUME NEW p \in Producers, LogAdd(p) PROVE SeenInv'
  <2>1. /\ io_buf_hand \in Bufs /\ io_buf_hand' = io_buf_hand /\ idx[p] = 0 /\ idx' = idx /\ pc'[p] = "test_full"
    BY <1>0, <1>4 DEF LogAdd, AddEvent, Goto, ringVars, SeenInv
  <2>2. \A b \in Bufs : ~(Behind(b)' <= idx'[p])
    BY <2>1, BehindRange, Sizes DEF Behind
  <2>3. SeenFull(p)'
    BY <1>0, <2>1, <2>2 DEF SeenFull
  <2>4. QED
    BY <1>1, <2>1, <2>3
<1>5. ASSUME NEW p \in Producers, LogStep(p) PROVE SeenInv'
  <2>0. UNCHANGED refused
    BY <1>5 DEF LogStep, recordVars
  <2>1. CASE TestFull(p) \/ TestRoom(p)
    <3>1. /\ pc[p] \notin {"idle", "dead"} /\ pc'[p] \notin {"idle", "wake", "next"}
          /\ UNCHANGED <<io_buf_hand, idx, refused>>
      BY <1>0, <2>0, <2>1 DEF TestFull, TestRoom, Goto, ringVars, callVars
    <3>2. QED
      BY <1>3, <3>1
  <2>2. CASE WakeUp(p)
    <3>1. pc[p] = "wake" /\ pc'[p] = "next" /\ UNCHANGED <<io_buf_hand, idx, refused>>
      BY <1>0, <2>0, <2>2 DEF WakeUp, Goto, ringVars, callVars
    <3>2. refused[p] = Bufs \/ SeenFull(p)
      BY <3>1 DEF SeenInv
    <3>3. refused'[p] = Bufs \/ SeenFull(p)'
      BY <3>1, <3>2 DEF SeenFull, Behind
    <3>4. QED
      BY <1>1, <3>1, <3>3
  <2>3. CASE NextBuffer(p)
    <3>1. CASE copied[p]
      <4>1. pc'[p] = "idle" /\ idx'[p] = 0
        BY <1>0, <2>3, <3>1 DEF NextBuffer, Goto, Return
      <4>2. QED
        BY <1>2, <4>1
    <3>2. CASE ~copied[p]
      <4>1. /\ io_buf_hand \in Bufs /\ io_buf_hand' = NextBuf(io_buf_hand) /\ io_buf_hand' # NULL
            /\ idx'[p] = idx[p] + 1 /\ idx[p] \in Nat /\ pc[p] = "next" /\ pc'[p] = "test_full" /\ refused' = refused
        BY <1>0, <2>0, <2>3, <3>2 DEF NextBuffer, Goto
      <4>2. refused[p] = Bufs \/ SeenFull(p)
        BY <4>1 DEF SeenInv
      <4>3. ASSUME SeenFull(p), NEW b \in Bufs, Behind(b)' <= idx'[p] PROVE b \in refused'[p]
        <5>1. CASE b = io_buf_hand
          BY <4>1, <4>3, <5>1 DEF SeenFull
        <5>2. CASE b # io_buf_hand
          <6>1. Behind(b)' = Behind(b) + 1
            BY <4>1, <5>2, HandMoves
          <6>2. Behind(b) \in Nat
            BY <4>1, BehindRange
          <6>3. Behind(b) <= idx[p]
            BY <4>1, <4>3, <6>1, <6>2
          <6>4. QED
            BY <4>1, <4>3, <6>3 DEF SeenFull
        <5>3. QED
          BY <5>1, <5>2
      <4>4. refused'[p] = Bufs \/ SeenFull(p)'
        BY <4>1, <4>2, <4>3 DEF SeenFull
      <4>5. QED
        BY <1>1, <4>1, <4>4
    <3>3. QED
      BY <3>1, <3>2
  <2>4. CASE GiveUp(p)
    <3>1. pc'[p] = "idle" /\ idx'[p] = 0
      BY <1>0, <2>4 DEF GiveUp, Goto, Return
    <3>2. QED
      BY <1>2, <3>1
  <2>5. CASE TestLeft(p)
    <3>1. \/ pc'[p] = "idle" /\ idx'[p] = 0
          \/ pc[p] = "test_left" /\ pc'[p] = "mark" /\ UNCHANGED <<io_buf_hand, idx, refused>>
      BY <1>0, <2>0, <2>5 DEF TestLeft, Goto, Return, callVars, ringVars
    <3>2. QED
      BY <1>2, <1>3, <3>1
  <2>6. CASE Oops(p)
    <3>1. pc'[p] = "dead"
      BY <2>6 DEF Oops
    <3>2. QED
      BY <1>1, <3>1
  <2>7. QED
    BY <1>5, <2>1, <2>2, <2>3, <2>4, <2>5, <2>6 DEF LogStep
<1>6. ASSUME NEW p \in Producers, LogRefuse(p) PROVE SeenInv'
  <2>1. /\ io_buf_hand \in Bufs /\ refused'[p] = refused[p] \cup {io_buf_hand}
        /\ pc[p] \in {"skip", "mark"} /\ refused[p] \subseteq Bufs
    BY <1>0, <1>6 DEF LogRefuse, SkipFull, MarkFull, Goto
  <2>2. refused[p] = Bufs \/ SeenFull(p)
    BY <2>1 DEF SeenInv
  <2>3. CASE refused[p] = Bufs
    <3>1. refused'[p] = Bufs /\ pc'[p] \in {"test_full", "wake"}
      BY <1>0, <1>6, <2>1, <2>3 DEF LogRefuse, SkipFull, MarkFull, Goto
    <3>2. QED
      BY <1>1, <3>1
  <2>4. CASE SeenFull(p) /\ SkipFull(p)
    <3>1. /\ io_buf_hand' = NextBuf(io_buf_hand) /\ io_buf_hand' # NULL
          /\ idx'[p] = idx[p] + 1 /\ idx[p] \in Nat /\ pc'[p] = "test_full"
      BY <1>0, <2>1, <2>4 DEF SkipFull, Goto
    <3>2. ASSUME NEW b \in Bufs, Behind(b)' <= idx'[p] PROVE b \in refused'[p]
      <4>1. CASE b = io_buf_hand
        BY <2>1, <4>1
      <4>2. CASE b # io_buf_hand
        <5>1. Behind(b)' = Behind(b) + 1
          BY <2>1, <3>1, <4>2, HandMoves
        <5>2. Behind(b) \in Nat
          BY <2>1, BehindRange
        <5>3. Behind(b) <= idx[p]
          BY <3>1, <3>2, <5>1, <5>2
        <5>4. QED
          BY <2>1, <2>4, <5>3 DEF SeenFull
      <4>3. QED
        BY <4>1, <4>2
    <3>3. SeenFull(p)'
      BY <3>1, <3>2 DEF SeenFull
    <3>4. QED
      BY <1>1, <3>1, <3>3
  <2>5. CASE SeenFull(p) /\ MarkFull(p)
    <3>1. io_buf_hand' = io_buf_hand /\ idx' = idx /\ pc'[p] = "wake"
      BY <1>0, <2>5 DEF MarkFull, Goto, callVars
    <3>2. SeenFull(p)'
      BY <2>1, <2>5, <3>1 DEF SeenFull, Behind
    <3>3. QED
      BY <1>1, <3>1, <3>2
  <2>6. QED
    BY <1>6, <2>2, <2>3, <2>4, <2>5 DEF LogRefuse
<1>7. ASSUME NEW p \in Producers, LogCopy(p) PROVE SeenInv'
  <2>1. /\ pc[p] \notin {"idle", "dead"} /\ pc'[p] \notin {"idle", "wake", "next"}
        /\ UNCHANGED <<io_buf_hand, idx, refused>>
    BY <1>0, <1>7 DEF LogCopy, CopyRecord, Goto
  <2>2. QED
    BY <1>3, <2>1
<1>8. CASE LogRelease
  <2>1. UNCHANGED <<pc, idx>> /\ \A p \in Producers : refused'[p] = Bufs
    BY <1>8 DEF LogRelease, Release, producerVars, callVars
  <2>2. QED
    BY <2>1 DEF SeenInv
<1>9. CASE LogOpen
  <2>1. UNCHANGED <<pc, idx, refused>>
    BY <1>9 DEF LogOpen, Open, producerVars, callVars
  <2>2. io_buf_hand = NULL
    BY <1>9 DEF LogOpen, Open, EndsInv
  <2>3. QED
    BY <2>1, <2>2 DEF SeenInv, SeenFull
<1>10. CASE LogRead \/ LogWrite \/ LogDaemon \/ UNCHANGED logVars
  <2>1. UNCHANGED <<pc, idx, refused, io_buf_hand>>
    BY <1>10 DEF LogRead, Read, LogWrite, Write, LogDaemon, Poll, Enqueue, Sleep, Interrupt,
                 ringVars, recordVars, vars, logVars, producerVars, callVars
  <2>2. QED
    BY <2>1 DEF SeenInv, SeenFull, Behind
<1>11. QED
  BY <1>4, <1>5, <1>6, <1>7, <1>8, <1>9, <1>10 DEF LogNext

\* With one producer at a time, a record is dropped only by a call that has seen each
\* buffer of the ring full, or filled it up itself, or under which the ring was freed: the
\* loop of __get_io_buffer_left moves io_buf_hand once per turn, IO_BUF_COUNT times.
THEOREM DropsWhenFull ==
  ASSUME OneProducer
  PROVE  LogSpec => DropsOnlyWhenFull
<1>1. LogInit => EndsInv /\ SeenInv
  BY EmptySeq DEF LogInit, Init, EndsInv, SeenInv
<1>2. TypeOK /\ LogShape /\ DataInv /\ OvertakeInv /\ EndsInv /\ SeenInv /\ [LogNext]_logVars
        => EndsInv' /\ SeenInv'
  BY EndsStep, SeenStep
<1>3. TypeOK /\ LogShape /\ SeenInv /\ [LogNext]_logVars
        => [\A p \in Producers : GiveUp(p) => refused[p] = Bufs]_logVars
  <2> SUFFICES ASSUME TypeOK, LogShape, SeenInv, NEW p \in Producers, GiveUp(p)
               PROVE  refused[p] = Bufs
    OBVIOUS
  <2>1. refused[p] \subseteq Bufs /\ pc[p] = "test_full" /\ idx[p] = BufCount
    BY DEF LogShape, GiveUp, Goto
  <2>2. CASE SeenFull(p)
    <3>1. io_buf_hand \in Bufs
      BY <2>2 DEF SeenFull, TypeOK, RingTypeOK
    <3>2. \A b \in Bufs : Behind(b) <= idx[p]
      BY <2>1, <3>1, BehindRange, Sizes
    <3>3. QED
      BY <2>1, <2>2, <3>2 DEF SeenFull
  <2>3. QED
    BY <2>1, <2>2 DEF SeenInv
<1>4. QED
  BY <1>1, <1>2, <1>3, LogInvariants, PTL DEF LogSpec, DropsOnlyWhenFull
-----------------------------------------------------------------------------
(* One producer at a time: the ring implements ChunkLog                     *)

OpenChunk    == IF io_buf_hand = NULL \/ full[io_buf_hand] THEN <<>> ELSE Numbers(data[io_buf_hand])
SealedBufs   == {b \in Bufs : full[b] /\ data[b] # <<>>}
SealedChunks == {Numbers(data[b]) : b \in SealedBufs}

\* a record takes room, and is in one buffer
PlacedInv ==
  \A b \in Bufs : \A k \in DOMAIN data[b] :
    /\ data[b][k].end # 0
    /\ \A c \in Bufs \ {b} : \A l \in DOMAIN data[c] : data[c][l].number # data[b][k].number

RefineInv ==
  /\ TypeOK /\ LogShape /\ DataInv /\ EndsInv /\ RecordsFit /\ CopyFits
  /\ NothingStranded /\ LeavesClean /\ HandUnsealed /\ ReadsSealed /\ PlacedInv

LEMMA BytesPositive ==
  ASSUME NEW e \in Events
  PROVE  Bytes(e) # 0
BY RawRange DEF Bytes, Events

LEMMA PlacedStep ==
  ASSUME TypeOK, LogShape, DataInv, EndsInv, PlacedInv, [LogNext]_logVars
  PROVE  PlacedInv'
<1>1. ASSUME \A b \in Bufs : data'[b] = data[b] \/ data'[b] = <<>> PROVE PlacedInv'
  <2>1. \A b \in Bufs : \A k \in DOMAIN data'[b] : k \in DOMAIN data[b] /\ data'[b][k] = data[b][k]
    BY <1>1, EmptySeq
  <2>2. QED
    BY <2>1 DEF PlacedInv
<1>2. ASSUME NEW p \in Producers, LogCopy(p) PROVE PlacedInv'
  <2>1. PICK r \in Record :
           /\ r.number = added + 1 /\ r.end = offset'[io_buf_hand] /\ io_buf_hand \in Bufs
           /\ DOMAIN data'[io_buf_hand] = 1..(Len(data[io_buf_hand]) + 1) /\ Len(data[io_buf_hand]) \in Nat
           /\ DOMAIN data[io_buf_hand] = 1..Len(data[io_buf_hand])
           /\ data'[io_buf_hand] = Append(data[io_buf_hand], r)
           /\ data'[io_buf_hand][Len(data[io_buf_hand]) + 1] = r
           /\ \A k \in DOMAIN data[io_buf_hand] : data'[io_buf_hand][k] = data[io_buf_hand][k]
           /\ \A b \in Bufs : b # io_buf_hand => data'[b] = data[b]
           /\ offset'[io_buf_hand] = offset[io_buf_hand] + Bytes(event[p]) /\ Bytes(event[p]) \in Nat
           /\ \A b \in Bufs : b # io_buf_hand => offset'[b] = offset[b]
    BY <1>2, CopyRecords
  <2>2. r.end # 0
    <3>1. event[p] \in Events /\ offset[io_buf_hand] \in Nat
      BY <1>2, <2>1 DEF LogCopy, CopyRecord, Goto, TypeOK, CallTypeOK, RingTypeOK
    <3>2. Bytes(event[p]) # 0
      BY <3>1, BytesPositive
    <3>3. QED
      BY <2>1, <3>1, <3>2
  <2>3. \A b \in Bufs : \A k \in DOMAIN data'[b] :
          \/ k \in DOMAIN data[b] /\ data'[b][k] = data[b][k]
          \/ b = io_buf_hand /\ data'[b][k] = r
    BY SMTT(20), <2>1
  <2>4. \A b \in Bufs : \A k \in DOMAIN data[b] : data[b][k].number # added + 1
    BY DEF DataInv, LogShape
  <2>5. QED
    BY <2>1, <2>2, <2>3, <2>4 DEF PlacedInv
<1>3. CASE LogOpen \/ LogRelease
  BY <1>1, <1>3 DEF LogOpen, LogRelease
<1>4. CASE LogRead
  BY <1>1, <1>4 DEF LogRead, LogShape
<1>5. CASE (\E p \in Producers : LogAdd(p) \/ LogRefuse(p) \/ LogStep(p)) \/ LogWrite \/ LogDaemon \/ UNCHANGED logVars
  <2>1. data' = data
    BY <1>5 DEF LogAdd, LogRefuse, LogStep, LogWrite, LogDaemon, recordVars, logVars
  <2>2. QED
    BY <1>1, <2>1
<1>6. QED
  BY <1>2, <1>3, <1>4, <1>5 DEF LogNext

LEMMA RefineInvInit == LogInit => RefineInv
<1> SUFFICES ASSUME LogInit PROVE RefineInv
  OBVIOUS
<1>1. (\A b \in Bufs : DOMAIN data[b] = {}) /\ io_buf_hand = NULL /\ daemon = "closed"
      /\ \A p \in Producers : pc[p] = "idle"
  BY EmptySeq DEF LogInit, Init
<1>2. RecordsFit
  BY SizeAssumption DEF LogInit, Init, RecordsFit
<1>3. TypeOK /\ LogShape /\ DataInv
  BY InitTypeOK, ShapeInit DEF LogInit
<1>4. QED
  BY <1>1, <1>2, <1>3 DEF RefineInv, EndsInv, CopyFits, NothingStranded, LeavesClean, HandUnsealed, ReadsSealed, PlacedInv

LEMMA RefineInvStep ==
  ASSUME OneProducer, ShortRecords, RefineInv, [LogNext]_logVars
  PROVE  RefineInv'
<1> USE DEF RefineInv
<1>1. [Next]_vars
  BY RingStep
<1>2. TypeOK' /\ LogShape' /\ DataInv'
  BY <1>1, StepTypeOK, ShapeStep
<1>3. EndsInv' /\ PlacedInv'
  BY EndsStep, PlacedStep
<1>4. RecordsFit' /\ CopyFits'
  BY <1>1, StepRecordsFit
<1>5. NothingStranded' /\ LeavesClean'
  BY <1>1, StepNothingStranded
<1>6. HandUnsealed' /\ ReadsSealed'
  BY <1>1, StepHandUnsealed, StepReadsSealed
<1>7. QED
  BY <1>2, <1>3, <1>4, <1>5, <1>6

LEMMA EmptyNumbers == ASSUME NEW s, s = <<>> PROVE Numbers(s) = <<>>
<1>1. s \in Seq(Record)
  BY EmptySeq
<1>2. QED
  BY <1>1, NumbersOf

\* the daemon's next buffers apart, a buffer that is not sealed and not io_buf_hand's is empty
LEMMA CleanIsEmpty ==
  ASSUME RefineInv, NEW b \in Bufs, offset[b] = 0
  PROVE  data[b] = <<>>
<1>1. \A k \in DOMAIN data[b] : FALSE
  <2> SUFFICES ASSUME NEW k \in DOMAIN data[b] PROVE FALSE
    OBVIOUS
  <2>1. data[b][k].end <= 0 /\ data[b][k].end # 0 /\ data[b][k].end \in Nat
    BY EndIsNat DEF RefineInv, EndsInv, PlacedInv
  <2>2. QED
    BY <2>1
<1>2. data[b] \in Seq(Record)
  BY DEF RefineInv, LogShape
<1>3. DOMAIN data[b] = 1..Len(data[b]) /\ Len(data[b]) \in Nat
  BY <1>2, LenProperties
<1>4. Len(data[b]) = 0
  <2>1. 1 \notin 1..Len(data[b])
    BY <1>1, <1>3
  <2>2. QED
    BY <1>3, <2>1
<1>5. QED
  BY <1>2, <1>4, EmptySeq

LEMMA Stutters ==
  ASSUME UNCHANGED <<added, OpenChunk, SealedChunks, taken, log>>
  PROVE  UNCHANGED Chunks!vars
BY DEF Chunks!vars, OpenChunk, SealedChunks, SealedBufs

LEMMA StaysSame ==
  ASSUME UNCHANGED <<io_buf_hand, full, data>>
  PROVE  UNCHANGED <<OpenChunk, SealedChunks>>
BY DEF OpenChunk, SealedChunks, SealedBufs, Numbers

\* io_buf_hand leaves a buffer, and comes to one, with nothing unsealed in it
LEMMA HandOver ==
  ASSUME RefineInv, NEW p \in Producers, pc[p] \in {"skip", "next"}, io_buf_hand # NULL,
         io_buf_hand' = NextBuf(io_buf_hand), UNCHANGED <<full, data>>
  PROVE  UNCHANGED <<OpenChunk, SealedChunks>>
<1>1. io_buf_hand \in Bufs /\ NextBuf(io_buf_hand) \in Bufs /\ NULL \notin Bufs
  BY Sizes, NextBufInRing DEF RefineInv, TypeOK, RingTypeOK
<1>2. \A b \in Bufs : ~full[b] => offset[b] = 0
  BY DEF RefineInv, NothingStranded, LeavesClean
<1>3. \A b \in Bufs : ~full[b] => Numbers(data[b]) = <<>>
  BY <1>2, CleanIsEmpty, EmptyNumbers
<1>4. OpenChunk = <<>> /\ OpenChunk' = <<>>
  BY <1>1, <1>3 DEF OpenChunk, Numbers
<1>5. SealedChunks' = SealedChunks
  BY DEF SealedChunks, SealedBufs, Numbers
<1>6. QED
  BY <1>4, <1>5

LEMMA MarkSeals ==
  ASSUME RefineInv, NEW p \in Producers, MarkFull(p), UNCHANGED <<added, data, taken, log>>
  PROVE  Chunks!Seal \/ UNCHANGED <<OpenChunk, SealedChunks>>
<1>1. /\ io_buf_hand \in Bufs /\ io_buf_hand # NULL /\ io_buf_hand' = io_buf_hand
      /\ full' = [full EXCEPT ![io_buf_hand] = TRUE] /\ full \in [Bufs -> BOOLEAN]
  BY DEF MarkFull, RefineInv, TypeOK, RingTypeOK
<1>2. CASE full[io_buf_hand]
  <2>1. full' = full
    BY <1>1, <1>2
  <2>2. QED
    BY <1>1, <2>1, StaysSame
<1>3. CASE ~full[io_buf_hand]
  <2>1. OpenChunk = Numbers(data[io_buf_hand]) /\ OpenChunk' = <<>>
    BY <1>1, <1>3 DEF OpenChunk
  <2>2. \A b \in Bufs : full'[b] <=> (full[b] \/ b = io_buf_hand)
    BY <1>1
  <2>3. CASE data[io_buf_hand] = <<>>
    <3>1. SealedBufs' = SealedBufs
      BY <2>2, <2>3 DEF SealedBufs
    <3>2. SealedChunks' = SealedChunks
      BY <3>1 DEF SealedChunks, Numbers
    <3>3. QED
      BY <2>1, <2>3, <3>2, EmptyNumbers
  <2>4. CASE data[io_buf_hand] # <<>>
    <3>1. SealedBufs' = SealedBufs \cup {io_buf_hand}
      BY <1>1, <2>2, <2>4 DEF SealedBufs
    <3>2. SealedChunks' = SealedChunks \cup {OpenChunk}
      BY <2>1, <3>1 DEF SealedChunks, Numbers
    <3>3. OpenChunk # <<>>
      <4>1. data[io_buf_hand] \in Seq(Record)
        BY <1>1 DEF RefineInv, LogShape
      <4>2. QED
        BY <2>1, <2>4, <4>1, NumbersOf
    <3>4. Chunks!Seal
      BY <2>1, <3>2, <3>3 DEF Chunks!Seal, OpenChunk, SealedChunks, SealedBufs
    <3>5. QED
      BY <3>4
  <2>5. QED
    BY <2>3, <2>4
<1>4. QED
  BY <1>2, <1>3

\* while io_buf_hand is unsealed, one buffer at least is not waiting for the daemon
LEMMA FewSealed ==
  ASSUME io_buf_hand \in Bufs, ~full[io_buf_hand]
  PROVE  Cardinality(SealedChunks) < BufCount
<1>1. SealedBufs \subseteq Bufs \ {io_buf_hand}
  BY DEF SealedBufs
<1>2. IsFiniteSet(Bufs) /\ Cardinality(Bufs) = BufCount
  <2>1. IsFiniteSet(1..BufCount) /\ Cardinality(1..BufCount) = IF 1 > BufCount THEN 0 ELSE BufCount - 1 + 1
    <3>1. 1 \in Int /\ BufCount \in Int
      BY Sizes
    <3>2. QED
      BY <3>1, FS_Interval
  <2>2. QED
    BY <2>1, Sizes
<1>3. IsFiniteSet(Bufs \ {io_buf_hand}) /\ Cardinality(Bufs \ {io_buf_hand}) = BufCount - 1
  BY <1>2, FS_RemoveElement
<1>4. IsFiniteSet(SealedBufs) /\ Cardinality(SealedBufs) <= BufCount - 1
  BY <1>1, <1>3, FS_Subset
<1> DEFINE chunk == [b \in SealedBufs |-> Numbers(data[b])]
<1>5. chunk \in Surjection(SealedBufs, SealedChunks)
  BY DEF SealedChunks, Surjection
<1>6. IsFiniteSet(SealedChunks) /\ Cardinality(SealedChunks) <= Cardinality(SealedBufs)
  BY <1>4, <1>5, FS_Surjection
<1>7. Cardinality(SealedChunks) \in Nat /\ Cardinality(SealedBufs) \in Nat
  BY <1>4, <1>6, FS_CardinalityType
<1>8. QED
  BY <1>4, <1>6, <1>7, Sizes

LEMMA NumbersAppend ==
  ASSUME NEW s \in Seq(Record), NEW r \in Record
  PROVE  Numbers(Append(s, r)) = Append(Numbers(s), r.number)
<1>1. Append(s, r) \in Seq(Record) /\ Len(Append(s, r)) = Len(s) + 1 /\ Len(s) \in Nat
      /\ Append(s, r)[Len(s) + 1] = r /\ \A k \in 1..Len(s) : Append(s, r)[k] = s[k]
  BY Appended
<1>2. r.number \in Nat
  BY DEF Record
<1>3. /\ Numbers(s) \in Seq(Nat) /\ Len(Numbers(s)) = Len(s)
      /\ \A k \in 1..Len(s) : Numbers(s)[k] = s[k].number
  BY NumbersOf
<1>4. /\ Numbers(Append(s, r)) \in Seq(Nat) /\ Len(Numbers(Append(s, r))) = Len(s) + 1
      /\ \A k \in 1..(Len(s) + 1) : Numbers(Append(s, r))[k] = Append(s, r)[k].number
  BY <1>1, NumbersOf
<1>5. /\ Append(Numbers(s), r.number) \in Seq(Nat) /\ Len(Append(Numbers(s), r.number)) = Len(s) + 1
      /\ Append(Numbers(s), r.number)[Len(s) + 1] = r.number
      /\ \A k \in 1..Len(s) : Append(Numbers(s), r.number)[k] = Numbers(s)[k]
  BY <1>2, <1>3, Appended
<1>6. \A k \in 1..(Len(s) + 1) : Numbers(Append(s, r))[k] = Append(Numbers(s), r.number)[k]
  <2> SUFFICES ASSUME NEW k \in 1..(Len(s) + 1) PROVE Numbers(Append(s, r))[k] = Append(Numbers(s), r.number)[k]
    OBVIOUS
  <2>1. CASE k = Len(s) + 1
    BY <1>1, <1>4, <1>5, <2>1
  <2>2. CASE k # Len(s) + 1
    <3>1. k \in 1..Len(s)
      BY <1>1, <2>2
    <3>2. QED
      BY <1>1, <1>3, <1>4, <1>5, <3>1
  <2>3. QED
    BY <2>1, <2>2
<1> DEFINE x == Numbers(Append(s, r))
           y == Append(Numbers(s), r.number)
<1> HIDE DEF x, y
<1>7. x \in Seq(Nat) /\ y \in Seq(Nat) /\ Len(x) = Len(y) /\ \A k \in 1..Len(x) : x[k] = y[k]
  BY <1>4, <1>5, <1>6 DEF x, y
<1>8. x = y
  BY <1>7, SeqEqual
<1>9. QED
  BY <1>8 DEF x, y
LEMMA SameCardinality == ASSUME NEW S PROVE Chunks!Cardinality(S) = Cardinality(S)
BY Zenon DEF Chunks!Cardinality, Cardinality

LEMMA CopyAccepts ==
  ASSUME RefineInv, NEW p \in Producers, LogCopy(p)
  PROVE  Chunks!Accept
<1>1. /\ io_buf_hand \in Bufs /\ io_buf_hand # NULL /\ io_buf_hand' = io_buf_hand /\ ~full[io_buf_hand]
      /\ full' = full /\ added' = added + 1 /\ UNCHANGED <<taken, log>>
  BY DEF LogCopy, CopyRecord, Goto, RefineInv, TypeOK, RingTypeOK, HandUnsealed
<1>2. PICK r \in Record :
           /\ r.number = added + 1 /\ r.end = offset'[io_buf_hand] /\ io_buf_hand \in Bufs
           /\ DOMAIN data'[io_buf_hand] = 1..(Len(data[io_buf_hand]) + 1) /\ Len(data[io_buf_hand]) \in Nat
           /\ DOMAIN data[io_buf_hand] = 1..Len(data[io_buf_hand])
           /\ data'[io_buf_hand] = Append(data[io_buf_hand], r)
           /\ data'[io_buf_hand][Len(data[io_buf_hand]) + 1] = r
           /\ \A k \in DOMAIN data[io_buf_hand] : data'[io_buf_hand][k] = data[io_buf_hand][k]
           /\ \A b \in Bufs : b # io_buf_hand => data'[b] = data[b]
           /\ offset'[io_buf_hand] = offset[io_buf_hand] + Bytes(event[p]) /\ Bytes(event[p]) \in Nat
           /\ \A b \in Bufs : b # io_buf_hand => offset'[b] = offset[b]
  BY CopyRecords DEF RefineInv
<1>3. OpenChunk = Numbers(data[io_buf_hand]) /\ OpenChunk' = Numbers(data'[io_buf_hand])
  BY <1>1 DEF OpenChunk, Numbers
<1>4. OpenChunk' = Append(OpenChunk, added')
  <2>1. data[io_buf_hand] \in Seq(Record)
    BY <1>1 DEF RefineInv, LogShape
  <2>2. QED
    BY <1>1, <1>2, <1>3, <2>1, NumbersAppend
<1>5. SealedChunks' = SealedChunks
  <2>1. \A b \in Bufs : full[b] => data'[b] = data[b]
    BY <1>1, <1>2
  <2>2. SealedBufs' = SealedBufs /\ \A b \in SealedBufs : Numbers(data'[b]) = Numbers(data[b])
    BY <1>1, <2>1 DEF SealedBufs
  <2>3. SealedChunks' = {Numbers(data'[b]) : b \in SealedBufs}
    BY <2>2 DEF SealedChunks, Numbers
  <2>4. QED
    BY <2>2, <2>3 DEF SealedChunks
<1>6. Cardinality(SealedChunks) < BufCount
  BY <1>1, FewSealed
<1>7. Chunks!Cardinality(SealedChunks) < BufCount
  BY <1>6, SameCardinality
<1>8. QED
  BY <1>1, <1>4, <1>5, <1>7 DEF Chunks!Accept, OpenChunk, SealedChunks, SealedBufs

LEMMA ReadTakes ==
  ASSUME RefineInv, LogRead
  PROVE  Chunks!Take \/ UNCHANGED Chunks!vars
<1>1. /\ taken = <<>> /\ io_buf_head \in Bufs /\ io_buf_hand \in Bufs /\ io_buf_hand # NULL /\ full[io_buf_head]
      /\ io_buf_hand' = io_buf_hand /\ UNCHANGED <<added, log>>
      /\ data' = [data EXCEPT ![io_buf_head] = <<>>] /\ full' = [full EXCEPT ![io_buf_head] = FALSE]
      /\ taken' = CopyToUser(data[io_buf_head])
      /\ full \in [Bufs -> BOOLEAN] /\ data \in [Bufs -> Seq(Record)]
  <2>1. NULL \notin Bufs
    BY Sizes
  <2>2. QED
    BY <2>1 DEF LogRead, Read, RefineInv, TypeOK, RingTypeOK, DaemonTypeOK, DataInv, LogShape, ReadsSealed
<1>2. taken' = Numbers(data[io_buf_head])
  BY <1>1, ReadWhole DEF RefineInv
<1>3. /\ data'[io_buf_head] = <<>> /\ ~full'[io_buf_head]
      /\ \A b \in Bufs : b # io_buf_head => data'[b] = data[b] /\ full'[b] = full[b]
  BY <1>1
<1>4. OpenChunk' = OpenChunk
  <2>1. CASE io_buf_hand = io_buf_head
    <3>1. OpenChunk = <<>>
      BY <1>1, <2>1 DEF OpenChunk
    <3>2. OpenChunk' = Numbers(data'[io_buf_head])
      BY <1>1, <1>3, <2>1 DEF OpenChunk, Numbers
    <3>3. QED
      BY <1>3, <3>1, <3>2, EmptyNumbers
  <2>2. CASE io_buf_hand # io_buf_head
    BY <1>1, <1>3, <2>2 DEF OpenChunk, Numbers
  <2>3. QED
    BY <2>1, <2>2
<1>5. SealedBufs' = SealedBufs \ {io_buf_head}
  BY <1>3 DEF SealedBufs
<1>6. SealedChunks' = {Numbers(data[b]) : b \in SealedBufs \ {io_buf_head}}
  <2>1. SealedChunks' = {Numbers(data'[b]) : b \in SealedBufs \ {io_buf_head}}
    BY <1>5 DEF SealedChunks, Numbers
  <2>2. \A b \in SealedBufs \ {io_buf_head} : data'[b] = data[b]
    BY <1>3 DEF SealedBufs
  <2>3. QED
    BY <2>1, <2>2
<1>7. CASE data[io_buf_head] = <<>>
  <2>1. SealedChunks' = SealedChunks
    BY <1>6, <1>7 DEF SealedChunks, SealedBufs
  <2>2. taken' = taken
    BY <1>1, <1>2, <1>7, EmptyNumbers
  <2>3. QED
    BY <1>1, <1>4, <2>1, <2>2, Stutters
<1>8. CASE data[io_buf_head] # <<>>
  <2> DEFINE chunk == Numbers(data[io_buf_head])
  <2>1. io_buf_head \in SealedBufs /\ chunk \in SealedChunks
    BY <1>1, <1>8 DEF SealedBufs, SealedChunks
  <2>2. \A b \in SealedBufs \ {io_buf_head} : Numbers(data[b]) # chunk
    <3> SUFFICES ASSUME NEW b \in SealedBufs \ {io_buf_head}, Numbers(data[b]) = chunk PROVE FALSE
      OBVIOUS
    <3>1. b \in Bufs /\ data[b] \in Seq(Record) /\ data[b] # <<>> /\ b # io_buf_head
      BY <1>1 DEF SealedBufs
    <3>2. /\ Len(data[b]) = Len(chunk) /\ Len(data[io_buf_head]) = Len(chunk)
          /\ \A k \in 1..Len(data[b]) : Numbers(data[b])[k] = data[b][k].number
          /\ \A k \in 1..Len(data[io_buf_head]) : chunk[k] = data[io_buf_head][k].number
      BY <1>1, <3>1, NumbersOf
    <3>3. 1 \in 1..Len(data[b]) /\ DOMAIN data[b] = 1..Len(data[b]) /\ DOMAIN data[io_buf_head] = 1..Len(data[io_buf_head])
      BY <1>1, <3>1, EmptySeq, LenProperties
    <3>4. data[b][1].number = data[io_buf_head][1].number
      BY <3>2, <3>3
    <3>5. 1 \in DOMAIN data[b] /\ 1 \in DOMAIN data[io_buf_head]
      BY <3>2, <3>3
    <3>6. QED
      BY <1>1, <3>1, <3>4, <3>5 DEF RefineInv, PlacedInv
  <2>3. SealedChunks' = SealedChunks \ {chunk}
    BY <1>6, <2>1, <2>2 DEF SealedChunks
  <2>4. Chunks!Take
    BY <1>1, <1>2, <1>4, <2>1, <2>3 DEF Chunks!Take, OpenChunk, SealedChunks, SealedBufs
  <2>5. QED
    BY <2>4
<1>9. QED
  BY <1>7, <1>8

LEMMA RefineStep ==
  ASSUME RefineInv, [LogNext]_logVars
  PROVE  [Chunks!Next]_(Chunks!vars)
<1>1. ASSUME UNCHANGED <<added, io_buf_hand, full, data, taken, log>> PROVE UNCHANGED Chunks!vars
  BY <1>1, StaysSame, Stutters
<1>2. ASSUME NEW p \in Producers, LogAdd(p) PROVE UNCHANGED Chunks!vars
  BY <1>1, <1>2 DEF LogAdd, AddEvent, ringVars
<1>3. ASSUME NEW p \in Producers, LogRefuse(p) PROVE Chunks!Seal \/ UNCHANGED Chunks!vars
  <2>1. UNCHANGED <<added, data, taken, log>>
    BY <1>3 DEF LogRefuse
  <2>2. CASE SkipFull(p)
    <3>1. UNCHANGED <<OpenChunk, SealedChunks>>
      BY <2>1, <2>2, HandOver DEF SkipFull, Goto
    <3>2. QED
      BY <2>1, <3>1, Stutters
  <2>3. CASE MarkFull(p)
    <3>1. Chunks!Seal \/ UNCHANGED <<OpenChunk, SealedChunks>>
      BY <2>1, <2>3, MarkSeals
    <3>2. QED
      BY <2>1, <3>1, Stutters
  <2>4. QED
    BY <1>3, <2>2, <2>3 DEF LogRefuse
<1>4. ASSUME NEW p \in Producers, LogStep(p) PROVE UNCHANGED Chunks!vars
  <2>1. UNCHANGED <<added, data, taken, log>>
    BY <1>4 DEF LogStep, recordVars
  <2>2. CASE NextBuffer(p)
    <3>1. UNCHANGED <<OpenChunk, SealedChunks>>
      BY <2>1, <2>2, HandOver DEF NextBuffer, Goto
    <3>2. QED
      BY <2>1, <3>1, Stutters
  <2>3. CASE ~NextBuffer(p)
    BY <1>1, <1>4, <2>1, <2>3 DEF LogStep, TestFull, TestRoom, WakeUp, GiveUp, TestLeft, Oops, ringVars
  <2>4. QED
    BY <2>2, <2>3
<1>5. CASE LogOpen
  <2>1. UNCHANGED <<added, taken, log>> /\ io_buf_hand = NULL /\ io_buf_hand' \in Bufs /\ NULL \notin Bufs
    BY <1>5, Sizes DEF LogOpen, Open, RefineInv, EndsInv
  <2>2. \A b \in Bufs : data[b] = <<>> /\ data'[b] = <<>>
    BY <1>5, <2>1 DEF LogOpen, RefineInv, DataInv
  <2>3. OpenChunk = <<>> /\ OpenChunk' = <<>>
    <3>1. OpenChunk' = IF full'[io_buf_hand'] THEN <<>> ELSE Numbers(data'[io_buf_hand'])
      BY <2>1 DEF OpenChunk, Numbers
    <3>2. QED
      BY <2>1, <2>2, <3>1, EmptyNumbers DEF OpenChunk
  <2>4. SealedChunks = {} /\ SealedChunks' = {}
    BY <2>2 DEF SealedChunks, SealedBufs
  <2>5. QED
    BY <2>1, <2>3, <2>4, Stutters
<1>6. CASE LogWrite
  <2>1. UNCHANGED <<added, io_buf_hand, full, data>> /\ taken' = <<>> /\ log' = IF taken = <<>> THEN log ELSE Append(log, taken)
    BY <1>6 DEF LogWrite, Write, ringVars
  <2>2. UNCHANGED <<OpenChunk, SealedChunks>>
    BY <2>1, StaysSame
  <2>3. CASE taken = <<>>
    BY <1>1, <2>1, <2>3
  <2>4. CASE taken # <<>>
    <3>1. Chunks!Store
      BY <2>1, <2>2, <2>4 DEF Chunks!Store, OpenChunk, SealedChunks, SealedBufs
    <3>2. QED
      BY <3>1 DEF Chunks!Next
  <2>5. QED
    BY <2>3, <2>4
<1>7. CASE LogRelease
  <2>1. UNCHANGED <<added, log>> /\ taken' = <<>> /\ io_buf_hand' = NULL /\ \A b \in Bufs : data'[b] = <<>>
    BY <1>7 DEF LogRelease, Release
  <2>2. OpenChunk' = <<>> /\ SealedChunks' = {}
    BY <2>1 DEF OpenChunk, SealedChunks, SealedBufs
  <2>3. Chunks!Lose
    BY <2>1, <2>2 DEF Chunks!Lose, OpenChunk, SealedChunks, SealedBufs
  <2>4. QED
    BY <2>3 DEF Chunks!Next
<1>8. CASE LogDaemon \/ UNCHANGED logVars
  BY <1>1, <1>8 DEF LogDaemon, Poll, Enqueue, Sleep, Interrupt, ringVars, recordVars, vars, logVars
<1>9. QED
  BY <1>2, <1>3, <1>4, <1>5, <1>6, <1>7, <1>8, CopyAccepts, ReadTakes DEF LogNext, Chunks!Next

\* With one producer at a time and names of at most 235 bytes the ring is a ChunkLog: what
\* androtrace_read hands out is one sealed buffer, whole, in the order in which its records
\* were copied and only once, and fewer than BufCount wait when a record is accepted.
THEOREM RingImplementsChunkLog ==
  ASSUME OneProducer, ShortRecords
  PROVE  LogSpec => ImplementsChunkLog
<1>1. LogInit => RefineInv
  BY RefineInvInit
<1>2. RefineInv /\ [LogNext]_logVars => RefineInv'
  BY RefineInvStep
<1>3. LogInit => Chunks!Init
  <2> SUFFICES ASSUME LogInit PROVE Chunks!Init
    OBVIOUS
  <2>1. added = 0 /\ taken = <<>> /\ log = <<>> /\ io_buf_hand = NULL /\ \A b \in Bufs : data[b] = <<>>
    BY DEF LogInit, Init
  <2>2. OpenChunk = <<>> /\ SealedChunks = {}
    BY <2>1 DEF OpenChunk, SealedChunks, SealedBufs
  <2>3. QED
    BY <2>1, <2>2 DEF Chunks!Init, OpenChunk, SealedChunks, SealedBufs
<1>4. RefineInv /\ [LogNext]_logVars => [Chunks!Next]_(Chunks!vars)
  BY RefineStep
<1>5. QED
  BY <1>1, <1>2, <1>3, <1>4, PTL DEF LogSpec, ImplementsChunkLog, Chunks!Spec


=============================================================================
