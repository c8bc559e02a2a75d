------------------------ MODULE JournalSpace_proofs ------------------------
(***************************************************************************)
(* Proofs about the space of the log and the task that makes room in it,   *)
(* for every set of blocks, every size of the log and of a transaction,    *)
(* and any number of transactions, crashes and flushes.                    *)
(***************************************************************************)
EXTENDS JournalSpace, FiniteSetTheorems, SequenceTheorems, WellFoundedInduction, TLAPS

-----------------------------------------------------------------------------
(* The inductive invariant                                                  *)

Committing   == {"log", "tail", "record", "wait", "update", "forget"}
LastSwitched == IF committing.tid # 0 THEN committing.tid ELSE sequence

\* the transactions have the numbers next to each other
TransInv ==
  /\ committing.tid # 0 <=> kpc \in Committing
  /\ committing.tid # 0 => committing.tid = sequence + 1
  /\ committing.tid = 0 => committing.blocks = {}
  /\ kpc \in {"flushed", "switch"} => running.tid # 0
  /\ running.tid # 0 => running.tid = LastSwitched + 1 /\ next_tid = running.tid + 1
  /\ running.tid = 0 => running.blocks = {}
  /\ running.tid = 0 /\ Up => next_tid = LastSwitched + 1
  /\ \A b \in Blocks : cp[b] <= sequence
  /\ Cardinality(running.blocks) <= MaxBuffers /\ Cardinality(committing.blocks) <= MaxBuffers
  /\ ~Up => running = NoTrans /\ \A b \in Blocks : cp[b] = 0
  /\ kpc = "replayed" => next_tid # 0

\* from block a to block b of the log
Dist(a, b) == IF a <= b THEN b - a ELSE b - a + LogBlocks

\* the log holds the transactions from number seq on, one after the other: the first of them
\* starts at first, and room blocks are left
LogFrom(first, seq, room) ==
  /\ room \in 1..LogBlocks
  /\ Dist(first, head) = LogBlocks - room
  /\ seq <= LastSwitched \/ (committing.tid = 0 /\ seq = LastSwitched + 1 /\ first = head)
  /\ \A t \in seq..LastSwitched :
       /\ t \in Trans /\ log_start[t] \in Log
       /\ t = seq => log_start[t] = first
       /\ Dist(first, log_start[t]) < Dist(first, head) \/ (kpc = "log" /\ t = committing.tid /\ log_start[t] = head)
  /\ \A t \in seq..LastSwitched, u \in seq..LastSwitched :
       t < u => Dist(first, log_start[t]) < Dist(first, log_start[u])

PosInv == Up => LogFrom(tail, tail_seq, free)

\* a tail that was found stays one that can be moved to
TailFound(f) ==
  \/ f.tid \in Trans /\ f.tid <= LastSwitched /\ f.block = log_start[f.tid]
  \/ f.tid = LastSwitched + 1 /\ committing.tid = 0 /\ f.block = head

\* who holds j_checkpoint_mutex, and what those who move the tail know of it
MutexInv ==
  /\ mutex <=> job.at \in {"find", "flush", "update", "process", "after", "wait", "unlock", "empty"}
  /\ job.at \in {"flush", "update"} => job.tail.tid > tail_seq /\ TailFound(job.tail)
  /\ ktail # NoTail => kpc \in {"record", "wait", "update"} /\ TailFound(ktail)

\* the room that the tests of space have left
RoomInv == Up =>
  /\ kpc = "log" => free >= Cardinality(committing.blocks) + 3
  /\ kpc \in {"tail", "record", "wait"} => free >= 2
  /\ running.tid # 0 =>
       /\ free >= Reserved + MaxBuffers - 2
       /\ kpc = "log" => free >= Reserved + MaxBuffers + Cardinality(committing.blocks)
       /\ kpc \in {"tail", "record", "wait"} => free >= Reserved + MaxBuffers - 1

\* there is a way to make room: the tail can move, or there is a commit to wait for
WayInv ==
  /\ job.at # "abort"
  /\ job.at = "find" /\ job.purpose = "only" /\ job.awaited = 0 =>
       tail_seq <= sequence /\ \A b \in Blocks : cp[b] # 0 => cp[b] > tail_seq

\* jbd2_journal_flush, from step to step
FlushInv ==
  /\ job.at = "idle" \/ ~Up => job = NoJob
  /\ job.at = "find" => job.purpose # "none"
  /\ job.purpose = "final" => job.flush
  /\ job.at \in {"drain", "force", "empty", "emptied"} => job.flush
  /\ job.at \in {"empty", "emptied"} => job.purpose = "final"
  /\ job.flush => job.purpose # "only" /\ job.at # "lock"
  /\ job.flush /\ job.at # "force" => running.tid = 0 /\ kpc = "idle"
  /\ job.at = "force" =>
       /\ job.purpose = "none"
       /\ running.tid # 0 => job.awaited = running.tid
       /\ running.tid = 0 /\ committing.tid # 0 => job.awaited = committing.tid
  /\ job.purpose = "final" => \A b \in Blocks : cp[b] = 0
  /\ job.purpose = "final" /\ job.at \in {"flush", "update"} => job.tail = [tid |-> next_tid, block |-> head]
  /\ job.at \in {"empty", "emptied"} => tail_seq = next_tid /\ head = tail

\* the inductive invariant
Inv == TypeOK /\ TransInv /\ PosInv /\ MutexInv /\ RoomInv /\ WayInv /\ FlushInv

-----------------------------------------------------------------------------
(* Numbers and sets                                                         *)

\* the sizes, and where the blocks of the log are
LEMMA Sizes ==
  /\ LogBlocks \in Nat /\ MaxBuffers \in Nat /\ Reserved \in Nat /\ MaxTrans \in Nat
  /\ LogBlocks > 0 /\ MaxBuffers > 0 /\ Reserved >= 5 /\ LogBlocks >= Reserved + 2 * MaxBuffers
  /\ IsFiniteSet(Blocks)
BY SizeAssumption, BoundAssumption

\* a nonempty set of natural numbers has a least one
LEMMA Least ==
  ASSUME NEW S \in SUBSET Nat, S # {}
  PROVE  \E m \in S : \A k \in S : m <= k
<1>1. \E R : IsWellFoundedOn(R, Nat) /\ \A a, b \in Nat : a < b => <<a, b>> \in R
  <2>1. IsWellFoundedOn(OpToRel(<, Nat), Nat)
    BY NatLessThanWellFounded
  <2>2. \A a, b \in Nat : a < b => <<a, b>> \in OpToRel(<, Nat)
    BY DEF OpToRel
  <2>3. QED
    BY <2>1, <2>2
<1>2. PICK R : IsWellFoundedOn(R, Nat) /\ \A a, b \in Nat : a < b => <<a, b>> \in R
  BY <1>1
<1>3. \E m \in S : \A k \in S : ~(<<k, m>> \in R)
  <2>1. IsWellFoundedOn(R, Nat) /\ S \subseteq Nat
    BY <1>2
  <2>2. QED
    BY <2>1, WFMin, Zenon
<1>4. PICK m \in S : \A k \in S : ~(<<k, m>> \in R)
  BY <1>3
<1>5. ASSUME NEW k \in S PROVE m <= k
  <2>1. ~(k < m) /\ k \in Nat /\ m \in Nat
    BY <1>2, <1>4
  <2>2. QED
    BY <2>1
<1>6. QED
  BY <1>5

\* what holds of 0, and of n + 1 when it holds of n, holds of every number
LEMMA SetInduction ==
  ASSUME NEW S, 0 \in S, \A n \in Nat : n \in S => n + 1 \in S
  PROVE  Nat \subseteq S
<1> SUFFICES ASSUME ~(Nat \subseteq S) PROVE FALSE
  OBVIOUS
<1>1. PICK m \in Nat \ S : \A k \in Nat \ S : m <= k
  BY Least
<1>2. m # 0
  OBVIOUS
<1>3. m - 1 \in Nat /\ m - 1 + 1 = m /\ ~(m <= m - 1)
  BY <1>2
<1>4. QED
  BY <1>1, <1>3

\* Min and Max of a bounded set of natural numbers are in it
LEMMA MinIsIn ==
  ASSUME NEW S \in SUBSET Nat, S # {}
  PROVE  Min(S) \in S /\ \A k \in S : Min(S) <= k
<1>1. \E x \in S : \A y \in S : x =< y
  BY Least
<1>2. QED
  BY <1>1 DEF Min

LEMMA MaxIsIn ==
  ASSUME NEW m \in Nat, NEW S \in SUBSET (0..m), S # {}
  PROVE  Max(S) \in S
<1> DEFINE T == {k \in Nat : m - k \in S}
<1>1. ASSUME NEW y \in S PROVE m - y \in T
  <2>1. y \in Int /\ m - y \in Nat /\ m - (m - y) = y
    OBVIOUS
  <2>2. QED
    BY <2>1
<1>2. PICK d \in T : \A k \in T : d <= k
  <2>1. T # {} /\ T \in SUBSET Nat
    BY <1>1
  <2>2. QED
    BY <2>1, Least
<1>3. PICK x \in S : x = m - d
  OBVIOUS
<1>4. ASSUME NEW y \in S PROVE x >= y
  <2>1. m - y \in T /\ d \in Nat
    BY <1>1
  <2>2. d <= m - y
    BY <1>2, <2>1
  <2>3. x \in 0..m /\ y \in 0..m
    OBVIOUS
  <2>4. QED
    BY <1>3, <2>1, <2>2, <2>3
<1>5. QED
  BY <1>4 DEF Max

\* round the end of the log
LEMMA Remainder ==
  ASSUME NEW L \in Nat \ {0}, NEW x \in Int
  PROVE  /\ 0 <= x /\ x < L => x % L = x
         /\ L <= x /\ x < L + L => x % L = x - L
         /\ 0 - L <= x /\ x < 0 => x % L = x + L
         /\ x % L \in 0..(L - 1)
OBVIOUS

LEMMA DistIsFreed ==
  ASSUME NEW a \in Log, NEW b \in Log
  PROVE  /\ (b - a) % LogBlocks = Dist(a, b)
         /\ Dist(a, b) \in 0..(LogBlocks - 1)
         /\ Dist(a, b) = 0 <=> a = b
<1>1. LogBlocks \in Nat \ {0} /\ b - a \in Int /\ 0 - LogBlocks <= b - a /\ b - a < LogBlocks
  BY Sizes DEF Log
<1>2. /\ 0 <= b - a => (b - a) % LogBlocks = b - a
      /\ b - a < 0 => (b - a) % LogBlocks = b - a + LogBlocks
  BY <1>1, Remainder
<1>3. QED
  BY <1>1, <1>2 DEF Dist, Log

\* the head moves on by n
LEMMA MovesOn ==
  ASSUME NEW a \in Log, NEW b \in Log, NEW n \in Nat, Dist(a, b) + n < LogBlocks
  PROVE  LET c == ((b + n - 1) % LogBlocks) + 1 IN c \in Log /\ Dist(a, c) = Dist(a, b) + n
<1> DEFINE x == b + n - 1
           c == (x % LogBlocks) + 1
<1>1. /\ LogBlocks \in Nat \ {0} /\ a \in Int /\ b \in Int /\ n \in Int
      /\ 1 <= a /\ a <= LogBlocks /\ 1 <= b /\ b <= LogBlocks
  BY Sizes DEF Log
<1>2. n < LogBlocks
  BY <1>1 DEF Dist
<1>3. x \in Int /\ 0 <= x /\ x < LogBlocks + LogBlocks
  BY <1>1, <1>2
<1>4. /\ x < LogBlocks => x % LogBlocks = x
      /\ LogBlocks <= x => x % LogBlocks = x - LogBlocks
  BY <1>1, <1>3, Remainder
<1>5. CASE x < LogBlocks
  <2>1. c = b + n
    BY <1>1, <1>4, <1>5
  <2>2. c \in Log /\ Dist(a, c) = Dist(a, b) + n
    BY <1>1, <2>1, <1>5 DEF Dist, Log
  <2>3. QED
    BY <2>2
<1>6. CASE LogBlocks <= x
  <2>1. c = b + n - LogBlocks
    BY <1>1, <1>4, <1>6
  <2>2. c \in Log /\ Dist(a, c) = Dist(a, b) + n
    BY <1>1, <1>2, <2>1, <1>6 DEF Dist, Log
  <2>3. QED
    BY <2>2
<1>7. QED
  BY <1>1, <1>3, <1>5, <1>6

\* Dist from a later block
LEMMA DistFrom ==
  ASSUME NEW a \in Log, NEW b \in Log, NEW c \in Log, Dist(a, b) <= Dist(a, c)
  PROVE  Dist(b, c) = Dist(a, c) - Dist(a, b)
BY Sizes DEF Dist, Log

LEMMA AfterIsInLog ==
  ASSUME NEW l \in Log, NEW n \in Nat
  PROVE  After1(l, n) \in Log
<1>1. LogBlocks \in Nat \ {0} /\ l + n - 1 \in Int
  BY Sizes DEF Log
<1>2. (l + n - 1) % LogBlocks \in 0..(LogBlocks - 1)
  BY <1>1, Remainder
<1>3. QED
  BY <1>1, <1>2 DEF After1, Log

-----------------------------------------------------------------------------
(* The operators of the model                                               *)

\* __jbd2_log_space_left keeps back Reserved, and leaves room for a transaction in an empty log
LEMMA SpaceLeftBounds ==
  ASSUME free \in 0..LogBlocks
  PROVE  /\ SpaceLeft \in Nat
         /\ SpaceLeft # 0 => free >= Reserved + SpaceLeft
         /\ free = LogBlocks => SpaceLeft >= MaxBuffers
<1> DEFINE x == free - Reserved
<1>1. free \in Int /\ Reserved \in Int /\ MaxBuffers \in Nat /\ LogBlocks >= Reserved + 2 * MaxBuffers
  BY Sizes
<1>2. CASE free <= Reserved
  <2>1. SpaceLeft = 0
    BY <1>2 DEF SpaceLeft
  <2>2. free # LogBlocks
    BY <1>1, <1>2, Sizes
  <2>3. QED
    BY <2>1, <2>2
<1>3. CASE ~(free <= Reserved)
  <2>1. SpaceLeft = x - x \div 8
    BY <1>3 DEF SpaceLeft
  <2>2. x \in Nat /\ x > 0
    BY <1>1, <1>3
  <2>3. x \div 8 \in Nat /\ x \div 8 <= x
    BY <2>2
  <2>4. x >= 2 * MaxBuffers => x - x \div 8 >= MaxBuffers
    BY <1>1, <2>2
  <2>5. free = LogBlocks => x >= 2 * MaxBuffers
    BY <1>1
  <2> HIDE DEF x
  <2>6. SpaceLeft \in Nat /\ SpaceLeft <= x
    BY <2>1, <2>2, <2>3
  <2>7. QED
    BY <1>1, <2>1, <2>4, <2>5, <2>6 DEF x
<1>4. QED
  BY <1>2, <1>3

\* the oldest transaction with a buffer on its checkpoint list, or 0 when there is none
LEMMA CheckpointTransactionOK ==
  ASSUME cp \in [Blocks -> 0..MaxTrans]
  PROVE  \/ CheckpointTransaction = 0 /\ \A b \in Blocks : cp[b] = 0
         \/ CheckpointTransaction \in Trans /\ \E b \in Blocks : cp[b] = CheckpointTransaction
<1> DEFINE C == {cp[b] : b \in Blocks} \ {0}
           S == {MaxTrans + 1} \cup C
<1>1. MaxTrans \in Nat /\ MaxTrans + 1 \in Nat \ {0}
  BY Sizes
<1>2. \A c \in C : c \in Trans /\ \E b \in Blocks : cp[b] = c
  BY <1>1 DEF Trans
<1>3. S \in SUBSET Nat /\ S # {}
  BY <1>1, <1>2 DEF Trans
<1>4. Min(S) \in S /\ \A k \in S : Min(S) <= k
  BY <1>3, MinIsIn
<1>5. CheckpointTransaction = Min(S) % (MaxTrans + 1)
  BY DEF CheckpointTransaction
<1> HIDE DEF S
<1>6. CASE Min(S) = MaxTrans + 1
  <2>1. (MaxTrans + 1) % (MaxTrans + 1) = 0
    BY <1>1, Remainder
  <2>2. \A c \in C : FALSE
    <3> SUFFICES ASSUME NEW c \in C PROVE FALSE
      OBVIOUS
    <3>1. c \in Trans
      BY <1>2
    <3>2. Min(S) <= c
      BY <1>4 DEF S
    <3>3. QED
      BY <1>1, <1>6, <3>1, <3>2 DEF Trans
  <2>3. \A b \in Blocks : cp[b] = 0
    BY <2>2
  <2>4. QED
    BY <1>5, <1>6, <2>1, <2>3
<1>7. CASE Min(S) \in C
  <2>1. Min(S) \in Trans
    BY <1>2, <1>7
  <2>2. Min(S) % (MaxTrans + 1) = Min(S)
    <3>1. Min(S) \in Int /\ 0 <= Min(S) /\ Min(S) < MaxTrans + 1
      BY <1>1, <2>1 DEF Trans
    <3>2. QED
      BY <1>1, <3>1, Remainder
  <2>3. QED
    BY <1>2, <1>5, <1>7, <2>1, <2>2
<1>8. QED
  BY <1>4, <1>6, <1>7 DEF S

\* jbd2_journal_get_log_tail finds a place that the tail can be moved to
LEMMA LogTailFound ==
  ASSUME TypeOK, TransInv, Up
  PROVE  LogTail \in TailType /\ TailFound(LogTail)
<1>1. MaxTrans \in Nat /\ Trans = 1..MaxTrans
  BY Sizes DEF Trans
<1>2. /\ cp \in [Blocks -> 0..MaxTrans] /\ log_start \in [Trans -> Log \cup {0}] /\ head \in Log
      /\ committing.tid \in 0..MaxTrans /\ running.tid \in 0..MaxTrans /\ sequence \in Nat /\ next_tid \in Nat
  BY DEF TypeOK, TransType
<1>3. LastSwitched \in Nat /\ sequence <= LastSwitched
  BY <1>1, <1>2 DEF LastSwitched, TransInv
<1> DEFINE c == CheckpointTransaction
<1>4. CASE c # 0
  <2>1. c \in Trans /\ \E b \in Blocks : cp[b] = c
    BY <1>2, <1>4, CheckpointTransactionOK
  <2>2. c <= sequence
    BY <2>1 DEF TransInv
  <2>3. c <= LastSwitched
    BY <1>1, <1>2, <1>3, <2>1, <2>2
  <2>4. LogTail = [tid |-> c, block |-> log_start[c]]
    BY <1>4 DEF LogTail
  <2>5. log_start[c] \in Log \cup {0} /\ c \in Nat
    BY <1>1, <1>2, <2>1
  <2> HIDE DEF c
  <2>6. QED
    BY <2>1, <2>3, <2>4, <2>5 DEF TailType, TailFound
<1>5. CASE c = 0 /\ committing.tid # 0
  <2>1. LogTail = [tid |-> committing.tid, block |-> log_start[committing.tid]]
    BY <1>5 DEF LogTail
  <2>2. committing.tid \in Trans /\ committing.tid \in Nat
    BY <1>1, <1>2, <1>5
  <2>3. log_start[committing.tid] \in Log \cup {0}
    BY <1>2, <2>2
  <2>4. LastSwitched = committing.tid
    BY <1>5 DEF LastSwitched
  <2>5. QED
    BY <1>3, <2>1, <2>2, <2>3, <2>4 DEF TailType, TailFound
<1>6. CASE c = 0 /\ committing.tid = 0
  <2> DEFINE t == IF running.tid # 0 THEN running.tid ELSE next_tid
  <2>1. LogTail = [tid |-> t, block |-> head]
    BY <1>6 DEF LogTail
  <2>2. t = LastSwitched + 1 /\ t \in Nat
    BY <1>2, <1>3 DEF TransInv
  <2> HIDE DEF t
  <2>3. QED
    BY <1>2, <1>6, <2>1, <2>2 DEF TailType, TailFound
<1>7. QED
  BY <1>4, <1>5, <1>6

\* the blocks of a transaction, as a sequence
LEMMA BlocksInOrder ==
  ASSUME NEW B \in SUBSET Blocks
  PROVE  SetToSeq(B) \in Seq(Blocks) /\ Len(SetToSeq(B)) = Cardinality(B) /\ Cardinality(B) \in Nat
<1>1. IsFiniteSet(B)
  BY Sizes, FS_Subset
<1>2. Cardinality(B) \in Nat /\ ExistsBijection(1..Cardinality(B), B)
  BY <1>1, FS_CardinalityType
<1>3. PICK f : f \in Bijection(1..Cardinality(B), B)
  BY <1>2 DEF ExistsBijection
<1>4. f \in [1..Cardinality(B) -> B] /\ IsInjective(f)
  BY <1>3 DEF Bijection, Injection, IsInjective
<1>5. SetToSeq(B) \in [1..Cardinality(B) -> B]
  BY <1>4 DEF SetToSeq
<1> DEFINE s == SetToSeq(B)
<1> HIDE DEF s
<1>6. s \in Seq(B) /\ Len(s) = Cardinality(B)
  BY <1>2, <1>5 DEF s
<1>7. s \in Seq(Blocks)
  BY <1>6
<1>8. QED
  BY <1>2, <1>6, <1>7 DEF s

-----------------------------------------------------------------------------
(* The disk, and what is found on it                                        *)

DiskTypeOK == disk \in DiskType /\ cache \in CacheType

\* the types of what is in the disk and in its cache, taken apart
LEMMA DiskParts ==
  ASSUME DiskTypeOK
  PROVE  /\ disk.fs \in [Blocks -> 0..MaxTrans] /\ disk.log \in [Log -> Entry] /\ disk.sb \in Super
         /\ disk = [fs |-> disk.fs, log |-> disk.log, sb |-> disk.sb]
         /\ cache.fs \in [Blocks -> SUBSET (0..MaxTrans)] /\ cache.log \in [Log -> SUBSET Entry]
         /\ cache.sb \in SUBSET Super
         /\ cache = [fs |-> cache.fs, log |-> cache.log, sb |-> cache.sb]
BY DEF DiskTypeOK, DiskType, CacheType

LEMMA NoWritesTyped == NoWrites \in CacheType
BY DEF NoWrites, CacheType

\* after a flush the disk holds what it may hold
LEMMA FlushedDiskTyped ==
  ASSUME DiskTypeOK
  PROVE  FlushedDisk \in DiskType
<1> USE DiskParts
<1> DEFINE fs == [b \in Blocks |-> Max({disk.fs[b]} \cup cache.fs[b])]
           log == [l \in Log |-> IF cache.log[l] = {} THEN disk.log[l] ELSE CHOOSE e \in cache.log[l] : TRUE]
           sb == IF cache.sb = {} THEN disk.sb ELSE CHOOSE s \in cache.sb : TRUE
<1>1. fs \in [Blocks -> 0..MaxTrans]
  <2> SUFFICES ASSUME NEW b \in Blocks PROVE Max({disk.fs[b]} \cup cache.fs[b]) \in 0..MaxTrans
    OBVIOUS
  <2> DEFINE S == {disk.fs[b]} \cup cache.fs[b]
  <2>1. MaxTrans \in Nat /\ S \in SUBSET (0..MaxTrans) /\ S # {}
    BY Sizes
  <2> HIDE DEF S
  <2>2. Max(S) \in S
    BY <2>1, MaxIsIn
  <2>3. QED
    BY <2>1, <2>2 DEF S
<1>2. log \in [Log -> Entry]
  <2> SUFFICES ASSUME NEW l \in Log
               PROVE  (IF cache.log[l] = {} THEN disk.log[l] ELSE CHOOSE e \in cache.log[l] : TRUE) \in Entry
    OBVIOUS
  <2>1. cache.log[l] # {} => (CHOOSE e \in cache.log[l] : TRUE) \in cache.log[l]
    OBVIOUS
  <2>2. disk.log[l] \in Entry /\ cache.log[l] \in SUBSET Entry
    OBVIOUS
  <2>3. QED
    BY <2>1, <2>2
<1>3. sb \in Super
  <2>1. cache.sb # {} => (CHOOSE s \in cache.sb : TRUE) \in cache.sb
    OBVIOUS
  <2>2. QED
    BY <2>1
<1>4. FlushedDisk = [fs |-> fs, log |-> log, sb |-> sb]
  BY DEF FlushedDisk
<1> HIDE DEF fs, log, sb
<1>5. QED
  BY <1>1, <1>2, <1>3, <1>4 DEF DiskType

\* what recovery has found in n steps
Scanned == [at : Log, tid : Nat, end : BOOLEAN, fs : [Blocks -> 0..MaxTrans]]

\* one step of recovery
LEMMA NextFoundTyped ==
  ASSUME DiskTypeOK, NEW s \in Scanned
  PROVE  NextFound(s) \in Scanned
<1> USE DiskParts
<1> DEFINE first == disk.log[s.at]
           size  == Len(first.blocks)
           entry(b) == After1(s.at, CHOOSE k \in 1..size : first.blocks[k] = b)
           fs == [b \in Blocks |-> IF b \in ToSet(first.blocks) THEN disk.log[entry(b)].data ELSE s.fs[b]]
           next == [at |-> After1(s.at, size + 2), tid |-> s.tid + 1, end |-> FALSE, fs |-> fs]
<1>1. NextFound(s) = [s EXCEPT !.end = TRUE] \/ NextFound(s) = next
  BY DEF NextFound
<1>2. [s EXCEPT !.end = TRUE] \in Scanned
  BY DEF Scanned
<1>3. s.at \in Log /\ s.tid \in Nat /\ s.fs \in [Blocks -> 0..MaxTrans]
  BY DEF Scanned
<1>4. first \in Entry
  BY <1>3
<1>5. first.blocks \in Seq(Blocks) /\ size \in Nat
  BY <1>4 DEF Entry
<1>6. fs \in [Blocks -> 0..MaxTrans]
  <2> SUFFICES ASSUME NEW b \in Blocks, b \in ToSet(first.blocks) PROVE disk.log[entry(b)].data \in 0..MaxTrans
    BY <1>3
  <2> DEFINE k == CHOOSE k \in 1..size : first.blocks[k] = b
  <2>0. DOMAIN first.blocks = 1..size
    BY <1>5
  <2>1. \E j \in 1..size : first.blocks[j] = b
    <3>1. \E j \in DOMAIN first.blocks : first.blocks[j] = b
      BY Zenon DEF ToSet
    <3>2. QED
      BY <2>0, <3>1
  <2>2. k \in 1..size
    BY <2>1
  <2> HIDE DEF k
  <2>3. k \in Nat
    BY <1>5, <2>2
  <2>4. After1(s.at, k) \in Log
    BY <1>3, <2>3, AfterIsInLog
  <2>5. disk.log[After1(s.at, k)] \in Entry
    BY <2>4
  <2>6. disk.log[After1(s.at, k)].data \in 0..MaxTrans
    BY <2>5 DEF Entry
  <2>7. QED
    BY <2>6 DEF k
<1>7. After1(s.at, size + 2) \in Log
  <2>1. size + 2 \in Nat
    BY <1>5
  <2>2. QED
    BY <1>3, <2>1, AfterIsInLog
<1> HIDE DEF fs, size
<1>8. next \in Scanned
  BY <1>3, <1>6, <1>7 DEF Scanned
<1>9. QED
  BY <1>1, <1>2, <1>8

\* the first state of recovery, where there is a log
FoundFirst == [at |-> disk.sb.start, tid |-> disk.sb.seq, fs |-> disk.fs, end |-> FALSE]

\* the recursive function FoundIn is what its definition says
LEMMA FoundInDef ==
  /\ FoundIn[0] = FoundFirst
  /\ \A n \in 1..(MaxTrans + 1) : FoundIn[n] = NextFound(FoundIn[n - 1])
<1> DEFINE Is(f, m) == f = [n \in 0..m |-> IF n = 0 THEN FoundFirst ELSE NextFound(f[n - 1])]
           S == {m \in Nat : \E f : Is(f, m)}
<1>1. 0 \in S
  <2> DEFINE f == [n \in 0..0 |-> FoundFirst]
  <2>1. Is(f, 0)
    BY SMT
  <2>2. QED
    BY <2>1
<1>2. ASSUME NEW m \in Nat, m \in S PROVE m + 1 \in S
  <2>1. PICK f : Is(f, m)
    BY <1>2
  <2> DEFINE g == [n \in 0..(m + 1) |-> IF n = m + 1 THEN NextFound(f[m]) ELSE f[n]]
  <2>2. ASSUME NEW n \in 0..(m + 1) PROVE g[n] = IF n = 0 THEN FoundFirst ELSE NextFound(g[n - 1])
    <3>1. CASE n = m + 1
      <4>1. n # 0 /\ n - 1 = m /\ m \in 0..(m + 1) /\ m # m + 1
        BY <3>1
      <4>2. g[n] = NextFound(f[m]) /\ g[m] = f[m]
        BY <3>1, <4>1
      <4>3. QED
        BY <4>1, <4>2
    <3>2. CASE n # m + 1 /\ n # 0
      <4>1. n \in 0..m /\ n - 1 \in 0..(m + 1) /\ n - 1 # m + 1
        BY <3>2
      <4>2. g[n] = f[n] /\ g[n - 1] = f[n - 1]
        BY <3>2, <4>1
      <4>3. f[n] = NextFound(f[n - 1])
        BY <2>1, <3>2, <4>1
      <4>4. QED
        BY <3>2, <4>2, <4>3
    <3>3. CASE n = 0
      <4>1. 0 \in 0..m /\ 0 \in 0..(m + 1) /\ 0 # m + 1
        OBVIOUS
      <4>2. g[0] = f[0] /\ f[0] = FoundFirst
        BY <2>1, <4>1
      <4>3. QED
        BY <3>3, <4>2
    <3>4. QED
      BY <3>1, <3>2, <3>3
  <2>3. Is(g, m + 1)
    BY <2>2
  <2>4. m + 1 \in Nat
    OBVIOUS
  <2> HIDE DEF g
  <2>5. QED
    BY <2>3, <2>4
<1>3. MaxTrans + 1 \in S
  <2> HIDE DEF S
  <2>1. Nat \subseteq S
    BY <1>1, <1>2, SetInduction
  <2>2. MaxTrans + 1 \in Nat
    BY Sizes
  <2>3. QED
    BY <2>1, <2>2
<1>4. FoundIn = [n \in 0..(MaxTrans + 1) |-> IF n = 0 THEN FoundFirst ELSE NextFound(FoundIn[n - 1])]
  BY <1>3, Zenon DEF FoundIn, FoundFirst
<1>5. QED
  <2>1. 0 \in 0..(MaxTrans + 1) /\ \A n \in 1..(MaxTrans + 1) : n \in 0..(MaxTrans + 1) /\ n # 0
    BY Sizes
  <2>2. QED
    BY <1>4, <2>1, Zenon

\* what recovery finds
LEMMA FoundTyped ==
  ASSUME DiskTypeOK
  PROVE  Found.tid \in Nat /\ Found.fs \in [Blocks -> 0..MaxTrans]
<1> USE DiskParts
<1>0. disk.sb.start \in Log \cup {0} /\ disk.sb.seq \in Nat
  BY DEF Super
<1>1. CASE disk.sb.start = 0
  BY <1>0, <1>1 DEF Found
<1>2. CASE disk.sb.start # 0
  <2> DEFINE S == {n \in Nat : n <= MaxTrans + 1 => FoundIn[n] \in Scanned}
  <2>1. 0 \in S
    <3>1. FoundFirst \in Scanned
      BY <1>0, <1>2 DEF FoundFirst, Scanned
    <3>2. QED
      BY <3>1, FoundInDef
  <2>2. ASSUME NEW n \in Nat, n \in S PROVE n + 1 \in S
    <3> SUFFICES ASSUME n + 1 <= MaxTrans + 1 PROVE FoundIn[n + 1] \in Scanned
      OBVIOUS
    <3>1. n + 1 \in 1..(MaxTrans + 1) /\ n + 1 - 1 = n /\ n <= MaxTrans + 1
      BY Sizes
    <3>2. FoundIn[n + 1] = NextFound(FoundIn[n])
      BY <3>1, FoundInDef
    <3>3. FoundIn[n] \in Scanned
      BY <2>2, <3>1
    <3>4. QED
      BY <3>2, <3>3, NextFoundTyped
  <2>3. MaxTrans + 1 \in S
    <3>1. Nat \subseteq S
      BY <2>1, <2>2, SetInduction
    <3>2. QED
      BY <3>1, Sizes
  <2>4. FoundIn[MaxTrans + 1] \in Scanned
    BY <2>3, Sizes
  <2>5. Found = [tid |-> FoundIn[MaxTrans + 1].tid, fs |-> FoundIn[MaxTrans + 1].fs]
    BY <1>2 DEF Found
  <2>6. QED
    BY <2>4, <2>5 DEF Scanned
<1>3. QED
  BY <1>1, <1>2

-----------------------------------------------------------------------------
(* What the steps leave alone                                               *)

\* a step of the commit function leaves the task that makes room alone
LEMMA CommitKeeps ==
  ASSUME CommitStep
  PROVE  UNCHANGED <<job, mutex, crashes, flushes, wrote, next_tid, mem>>
BY DEF CommitStep, Start, UndoFlush, Switch, WriteLog, ReadTail, CommitRecord, WaitRecord, CommitUpdateTail, Forget,
       Commit, taskVars, boundVars, historyVars, transVars, bufferVars

\* a step of that task leaves the transactions and the head of the log alone
LEMMA TaskKeeps ==
  ASSUME TaskStep
  PROVE  UNCHANGED <<wrote, acked, running, committing, next_tid, sequence, log_start, mem, head, kpc, ktail, crashes>>
BY DEF TaskStep, WaitForSpace, LockCheckpoint, FindTail, FlushTail, MoveTail, AwaitBuffer, ProcessBuffer, WaitIO, Processed,
       WaitCommit, Unlock, JournalFlush, ForceCommit, DrainList, MarkEmpty, FlushReturns,
       GoTo, Task, historyVars, transVars, threadVars

\* only MoveTail of its steps moves the tail
LEMMA TaskTail ==
  ASSUME TaskStep
  PROVE  MoveTail \/ UNCHANGED <<tail, free, tail_seq>>
BY DEF TaskStep, WaitForSpace, LockCheckpoint, FindTail, FlushTail, AwaitBuffer, ProcessBuffer, WaitIO, Processed,
       WaitCommit, Unlock, JournalFlush, ForceCommit, DrainList, MarkEmpty, FlushReturns,
       GoTo, superVars, tailVars

\* and it only takes buffers off the checkpoint lists
LEMMA TaskLists ==
  ASSUME TaskStep, cp \in [Blocks -> 0..MaxTrans], io \in SUBSET Blocks, dirty \in SUBSET Blocks
  PROVE  /\ cp' \in [Blocks -> 0..MaxTrans] /\ \A b \in Blocks : cp'[b] \in {0, cp[b]}
         /\ io' \in SUBSET Blocks /\ dirty' \in SUBSET Blocks
<1>1. CASE ProcessBuffer
  <2>1. PICK b \in OnList : IF b \in dirty THEN dirty' = dirty \ {b} /\ io' = io \cup {b} /\ UNCHANGED cp
                            ELSE cp' = [cp EXCEPT ![b] = 0] /\ UNCHANGED <<io, dirty>>
    BY <1>1 DEF ProcessBuffer
  <2>2. b \in Blocks /\ 0 \in 0..MaxTrans
    BY Sizes DEF OnList
  <2>3. QED
    BY <2>1, <2>2
<1>2. CASE WaitIO
  <2>1. PICK b \in io : cp' = [cp EXCEPT ![b] = 0] /\ io' = io \ {b} /\ UNCHANGED dirty
    BY <1>2 DEF WaitIO
  <2>2. b \in Blocks /\ 0 \in 0..MaxTrans
    BY Sizes
  <2>3. QED
    BY <2>1, <2>2
<1>3. CASE UNCHANGED <<cp, io, dirty>>
  BY <1>3
<1>4. QED
  BY <1>1, <1>2, <1>3 DEF TaskStep, WaitForSpace, LockCheckpoint, FindTail, FlushTail, MoveTail, AwaitBuffer, Processed,
       WaitCommit, Unlock, JournalFlush, ForceCommit, DrainList, MarkEmpty, FlushReturns, GoTo, listVars

-----------------------------------------------------------------------------
(* The types of the disk                                                    *)

\* moving the tail writes the superblock
LEMMA SuperTyped ==
  ASSUME DiskTypeOK, NEW start \in Log \cup {0}, NEW seq \in Nat, WriteSuper(start, seq)
  PROVE  DiskTypeOK'
<1>1. [start |-> start, seq |-> seq] \in Super
  BY DEF Super
<1>2. QED
  BY <1>1 DEF WriteSuper, DiskTypeOK, DiskType, CacheType

LEMMA TailWriteTyped ==
  ASSUME DiskTypeOK, NEW f \in TailType, UpdateLogTail(f)
  PROVE  DiskTypeOK'
<1>1. f.block \in Log \cup {0} /\ f.tid \in Nat
  BY DEF TailType
<1>2. WriteSuper(f.block, f.tid)
  BY DEF UpdateLogTail
<1>3. QED
  BY <1>1, <1>2, SuperTyped

\* every step leaves on the disk and in its cache what they may hold
LEMMA DiskStep ==
  ASSUME TypeOK, Next
  PROVE  DiskTypeOK'
<1>0. DiskTypeOK /\ MaxTrans \in Nat /\ NoWrites \in CacheType
  BY Sizes, NoWritesTyped DEF TypeOK, DiskTypeOK
<1> USE <1>0, DiskParts
<1>1. CASE UNCHANGED <<disk, cache>>
  BY <1>1 DEF DiskTypeOK, DiskType, CacheType, Super, Entry
<1>2. ASSUME NEW b \in Blocks, cache' = [cache EXCEPT !.fs[b] = @ \cup {mem[b]}], disk' = disk PROVE DiskTypeOK'
  <2>1. mem[b] \in 0..MaxTrans
    BY DEF TypeOK
  <2>2. QED
    BY <1>2, <2>1 DEF DiskTypeOK, DiskType, CacheType
<1>3. CASE UndoFlush
  <2> DEFINE s == [start |-> tail, seq |-> tail_seq]
  <2>1. s \in Super
    BY DEF TypeOK, Super
  <2> HIDE DEF s
  <2>2. cache' = [cache EXCEPT !.sb = {s}] /\ disk' = disk
    BY <1>3 DEF UndoFlush, s
  <2>3. QED
    BY <2>1, <2>2 DEF DiskTypeOK, DiskType, CacheType
<1>4. CASE WriteLog
  <2> DEFINE blocks == SetToSeq(committing.blocks)
             descriptor == [kind |-> "descriptor", tid |-> committing.tid, blocks |-> blocks, data |-> 0]
             data == [kind |-> "data", tid |-> 0, blocks |-> <<>>, data |-> committing.tid]
             entry(k) == IF k = 0 THEN descriptor ELSE data
             at(l) == CHOOSE k \in 0..Len(blocks) : LogAt(k) = l
             log == [l \in Log |-> IF \E k \in 0..Len(blocks) : LogAt(k) = l THEN {entry(at(l))} ELSE cache.log[l]]
  <2>1. cache' = [cache EXCEPT !.log = log] /\ disk' = disk
    BY <1>4 DEF WriteLog
  <2>2. committing.tid \in 0..MaxTrans /\ committing.blocks \in SUBSET Blocks
    BY DEF TypeOK, TransType
  <2>3. blocks \in Seq(Blocks) /\ <<>> \in Seq(Blocks)
    BY <2>2, BlocksInOrder
  <2> HIDE DEF blocks
  <2>4. descriptor \in Entry /\ data \in Entry
    BY <2>2, <2>3 DEF Entry
  <2> HIDE DEF descriptor, data, at
  <2>5. log \in [Log -> SUBSET Entry]
    BY <2>4
  <2> HIDE DEF log
  <2>6. QED
    BY <2>1, <2>5 DEF DiskTypeOK, DiskType, CacheType
<1>5. head \in Log /\ CommitEntry \in Entry
  <2>1. committing.tid \in 0..MaxTrans /\ head \in Log /\ <<>> \in Seq(Blocks)
    BY DEF TypeOK, TransType
  <2>2. Empty \in Entry
    BY <2>1 DEF Empty, Entry
  <2> HIDE DEF Empty
  <2>3. [Empty EXCEPT !.kind = "commit", !.tid = committing.tid] \in Entry
    BY <2>1, <2>2 DEF Entry
  <2>4. QED
    BY <2>1, <2>3 DEF CommitEntry
<1>6. CASE CommitRecord
  <2>1. cache' = [NoWrites EXCEPT !.log[head] = {CommitEntry}] /\ disk' = FlushedDisk
    BY <1>6 DEF CommitRecord
  <2>2. FlushedDisk \in DiskType
    BY FlushedDiskTyped
  <2>3. QED
    BY <1>5, <2>1, <2>2 DEF DiskTypeOK, CacheType
<1>7. CASE WaitRecord
  <2>1. cache' = [cache EXCEPT !.log[head] = {}] /\ disk' = [disk EXCEPT !.log[head] = CommitEntry]
    BY <1>7 DEF WaitRecord
  <2>2. QED
    BY <1>5, <2>1 DEF DiskTypeOK, DiskType, CacheType
<1>8. CASE CommitUpdateTail
  <2>1. PICK f : f = ktail
    OBVIOUS
  <2>2. f \in TailType
    BY <2>1 DEF TypeOK
  <2>3. UpdateLogTail(f) \/ UNCHANGED <<disk, cache>>
    BY <1>8, <2>1 DEF CommitUpdateTail, diskVars
  <2>4. QED
    BY <1>1, <2>2, <2>3, TailWriteTyped
<1>9. CASE MoveTail
  <2>1. PICK f : f = job.tail
    OBVIOUS
  <2>2. f \in TailType
    BY <2>1 DEF TypeOK, JobType
  <2>3. UpdateLogTail(f)
    BY <1>9, <2>1 DEF MoveTail
  <2>4. QED
    BY <2>2, <2>3, TailWriteTyped
<1>10. CASE FlushTail
  BY <1>10, FlushedDiskTyped DEF FlushTail, DiskTypeOK
<1>11. CASE MarkEmpty
  <2>1. PICK q : q = tail_seq
    OBVIOUS
  <2>2. q \in Nat /\ 0 \in Log \cup {0}
    BY <2>1 DEF TypeOK
  <2>3. WriteSuper(0, q) \/ UNCHANGED <<disk, cache>>
    BY <1>11, <2>1 DEF MarkEmpty, diskVars
  <2>4. QED
    BY <1>1, <2>2, <2>3, SuperTyped
<1>12. CASE ProcessBuffer
  <2>1. PICK b \in OnList : cache' = [cache EXCEPT !.fs[b] = @ \cup {mem[b]}] \/ UNCHANGED cache
    BY <1>12 DEF ProcessBuffer
  <2>2. b \in Blocks /\ disk' = disk
    BY <1>12 DEF OnList, ProcessBuffer
  <2>3. CASE UNCHANGED cache
    BY <1>1, <2>2, <2>3
  <2>4. CASE cache' = [cache EXCEPT !.fs[b] = @ \cup {mem[b]}]
    BY <1>2, <2>2, <2>4
  <2>5. QED
    BY <2>1, <2>3, <2>4
<1>13. CASE \E b \in Blocks : WriteBack(b)
  BY <1>2, <1>13 DEF WriteBack
<1>14. CASE Crash
  <2>1. PICK fs \in [Blocks -> 0..MaxTrans], landed \in SUBSET {l \in Log : cache.log[l] # {}}, sb \in {disk.sb} \cup cache.sb :
          disk' = [fs |-> fs, sb |-> sb,
                   log |-> [l \in Log |-> IF l \in landed THEN CHOOSE e \in cache.log[l] : TRUE ELSE disk.log[l]]]
    BY <1>14 DEF Crash
  <2> DEFINE log == [l \in Log |-> IF l \in landed THEN CHOOSE e \in cache.log[l] : TRUE ELSE disk.log[l]]
  <2>2. log \in [Log -> Entry]
    <3> SUFFICES ASSUME NEW l \in Log
                 PROVE  (IF l \in landed THEN CHOOSE e \in cache.log[l] : TRUE ELSE disk.log[l]) \in Entry
      OBVIOUS
    <3>1. cache.log[l] # {} => (CHOOSE e \in cache.log[l] : TRUE) \in cache.log[l]
      OBVIOUS
    <3>2. disk.log[l] \in Entry /\ cache.log[l] \in SUBSET Entry /\ (l \in landed => cache.log[l] # {})
      OBVIOUS
    <3>3. QED
      BY <3>1, <3>2
  <2> HIDE DEF log
  <2>3. disk' = [fs |-> fs, sb |-> sb, log |-> log]
    BY <2>1 DEF log
  <2>4. disk' \in DiskType
    BY <2>2, <2>3 DEF DiskType
  <2>5. cache' \in CacheType
    BY <1>14 DEF Crash
  <2>6. QED
    BY <2>4, <2>5 DEF DiskTypeOK
<1>15. CASE Replay
  <2> DEFINE fs == [b \in Blocks |-> IF Found.fs[b] = disk.fs[b] THEN {} ELSE {Found.fs[b]}]
  <2>1. fs \in [Blocks -> SUBSET (0..MaxTrans)]
    BY FoundTyped
  <2> HIDE DEF fs
  <2>2. cache' = [cache EXCEPT !.fs = fs] /\ disk' = disk
    BY <1>15 DEF Replay, fs
  <2>3. QED
    BY <2>1, <2>2 DEF DiskTypeOK, DiskType, CacheType
<1>16. CASE Reset
  <2> DEFINE s == [start |-> 1, seq |-> next_tid]
             sb == IF disk.sb.start = 0 THEN FlushedDisk.sb ELSE s
  <2>1. s \in Super /\ FlushedDisk \in DiskType
    BY FlushedDiskTyped, Sizes DEF TypeOK, Super, Log
  <2> HIDE DEF s
  <2>2. sb \in Super
    BY <2>1 DEF DiskType
  <2>3. disk' = [FlushedDisk EXCEPT !.sb = sb] /\ cache' = NoWrites
    BY <1>16 DEF Reset, s
  <2> HIDE DEF sb
  <2>4. QED
    BY <2>1, <2>2, <2>3 DEF DiskTypeOK, DiskType
<1>17. CASE \E b \in Blocks : Modify(b) \/ TryToFree(b)
  BY <1>1, <1>17 DEF Modify, TryToFree, diskVars
<1>18. CASE CommitStep
  BY <1>1, <1>3, <1>4, <1>6, <1>7, <1>8, <1>18 DEF CommitStep, Start, Switch, ReadTail, Forget, diskVars
<1>19. CASE TaskStep
  BY <1>1, <1>9, <1>10, <1>11, <1>12, <1>19
  DEF TaskStep, WaitForSpace, LockCheckpoint, FindTail, AwaitBuffer, WaitIO, Processed,
      WaitCommit, Unlock, JournalFlush, ForceCommit, DrainList, FlushReturns, GoTo, superVars
<1>20. QED
  BY <1>13, <1>14, <1>15, <1>16, <1>17, <1>18, <1>19 DEF Next

-----------------------------------------------------------------------------
(* The places in the log                                                    *)

LEMMA Numbers ==
  ASSUME TypeOK
  PROVE  /\ committing.tid \in 0..MaxTrans /\ running.tid \in 0..MaxTrans /\ sequence \in Nat /\ next_tid \in Nat
         /\ tail_seq \in Nat /\ LastSwitched \in Nat /\ MaxTrans \in Nat /\ Trans = 1..MaxTrans
         /\ head \in Log /\ tail \in Log /\ free \in 0..LogBlocks /\ log_start \in [Trans -> Log \cup {0}]
         /\ cp \in [Blocks -> 0..MaxTrans] /\ ktail \in TailType /\ job.tail \in TailType
         /\ committing.blocks \in SUBSET Blocks /\ running.blocks \in SUBSET Blocks
         /\ Cardinality(committing.blocks) \in Nat /\ Cardinality(running.blocks) \in Nat
<1>1. committing \in TransType /\ running \in TransType /\ MaxTrans \in Nat
  BY Sizes DEF TypeOK
<1>2. committing.blocks \in SUBSET Blocks /\ running.blocks \in SUBSET Blocks
  BY <1>1 DEF TransType
<1>3. Cardinality(committing.blocks) \in Nat /\ Cardinality(running.blocks) \in Nat
  BY <1>2, BlocksInOrder
<1>4. committing.tid \in 0..MaxTrans /\ running.tid \in 0..MaxTrans /\ sequence \in Nat
  BY <1>1 DEF TransType, TypeOK
<1>5. LastSwitched \in Nat
  BY <1>1, <1>4 DEF LastSwitched
<1>6. QED
  BY <1>1, <1>2, <1>3, <1>4, <1>5 DEF TypeOK, JobType, Trans

\* what the tail has found is at or before the head, and the blocks up to it are freed
LEMMA TailMoves ==
  ASSUME TypeOK, NEW f \in TailType, LogFrom(tail, tail_seq, free), TailFound(f), f.tid > tail_seq
  PROVE  /\ f.block \in Log /\ Freed(f) \in Nat
         /\ LogFrom(f.block, f.tid, free + Freed(f))
<1> USE Numbers
<1> DEFINE D(x) == Dist(tail, x)
<1>1. f.tid \in Nat
  BY DEF TailType
<1>2. /\ free \in 1..LogBlocks /\ D(head) = LogBlocks - free
      /\ tail_seq <= LastSwitched \/ (committing.tid = 0 /\ tail_seq = LastSwitched + 1 /\ tail = head)
      /\ \A t \in tail_seq..LastSwitched :
           /\ t \in Trans /\ log_start[t] \in Log
           /\ D(log_start[t]) < D(head) \/ (kpc = "log" /\ t = committing.tid /\ log_start[t] = head)
      /\ \A t \in tail_seq..LastSwitched, u \in tail_seq..LastSwitched : t < u => D(log_start[t]) < D(log_start[u])
  BY DEF LogFrom
<1>3. LogBlocks \in Nat /\ \A x \in Log : D(x) \in Nat
  BY Sizes, DistIsFreed
<1>4. CASE f.tid \in Trans /\ f.tid <= LastSwitched /\ f.block = log_start[f.tid]
  <2>1. f.tid \in tail_seq..LastSwitched
    BY <1>1, <1>4
  <2>2. f.block \in Log /\ D(f.block) <= D(head)
    <3> HIDE DEF D
    <3>1. /\ log_start[f.tid] \in Log
          /\ D(log_start[f.tid]) < D(head) \/ log_start[f.tid] = head
      BY <1>2, <2>1
    <3>2. D(f.block) < D(head) \/ f.block = head
      BY <1>4, <3>1
    <3>3. f.block \in Log /\ D(f.block) \in Nat /\ D(head) \in Nat
      BY <1>3, <1>4, <3>1
    <3>4. QED
      BY <3>2, <3>3
  <2>3. Freed(f) = D(f.block) /\ Dist(f.block, head) = D(head) - D(f.block)
    BY <2>2, DistIsFreed, DistFrom DEF Freed
  <2>4. Freed(f) \in Nat /\ free + Freed(f) \in 1..LogBlocks /\ Dist(f.block, head) = LogBlocks - (free + Freed(f))
    <3> HIDE DEF D
    <3> HIDE Numbers
    <3>1. free \in 1..LogBlocks /\ D(head) = LogBlocks - free
      BY <1>2
    <3>2. D(f.block) \in Nat /\ LogBlocks \in Nat /\ D(f.block) <= D(head)
      BY <1>3, <2>2
    <3>3. QED
      BY <2>3, <3>1, <3>2
  <2>5. ASSUME NEW t \in f.tid..LastSwitched
        PROVE  /\ t \in Trans /\ log_start[t] \in Log
               /\ t = f.tid => log_start[t] = f.block
               /\ Dist(f.block, log_start[t]) = D(log_start[t]) - D(f.block)
               /\ D(log_start[t]) < D(head) \/ (kpc = "log" /\ t = committing.tid /\ log_start[t] = head)
    <3>1. t \in tail_seq..LastSwitched /\ f.tid <= t /\ t \in Int
      BY <1>1
    <3>2. log_start[t] \in Log
      BY <1>2, <3>1
    <3>3. D(f.block) <= D(log_start[t])
      <4> HIDE DEF D
      <4>1. t = f.tid \/ f.tid < t
        BY <1>1, <3>1
      <4>2. f.tid < t => D(log_start[f.tid]) < D(log_start[t])
        BY <1>2, <2>1, <3>1
      <4>3. D(f.block) \in Nat /\ D(log_start[t]) \in Nat
        BY <1>3, <2>2, <3>2
      <4>4. QED
        BY <1>4, <4>1, <4>2, <4>3
    <3>4. Dist(f.block, log_start[t]) = D(log_start[t]) - D(f.block)
      BY <2>2, <3>2, <3>3, DistFrom
    <3>5. QED
      BY <1>2, <1>4, <3>1, <3>2, <3>4
  <2>6. ASSUME NEW t \in f.tid..LastSwitched
        PROVE  Dist(f.block, log_start[t]) < Dist(f.block, head) \/ (kpc = "log" /\ t = committing.tid /\ log_start[t] = head)
    <3> HIDE DEF D
    <3> HIDE Numbers
    <3>1. CASE D(log_start[t]) < D(head)
      <4>1. /\ D(f.block) \in Nat /\ D(head) \in Nat /\ D(log_start[t]) \in Nat
            /\ Dist(f.block, log_start[t]) = D(log_start[t]) - D(f.block)
        BY <1>3, <2>2, <2>5, Numbers
      <4>2. QED
        BY <2>3, <3>1, <4>1
    <3>2. QED
      BY <2>5, <3>1
  <2>7. ASSUME NEW t \in f.tid..LastSwitched, NEW u \in f.tid..LastSwitched, t < u
        PROVE  Dist(f.block, log_start[t]) < Dist(f.block, log_start[u])
    <3>1. t \in tail_seq..LastSwitched /\ u \in tail_seq..LastSwitched
      BY <1>1
    <3>2. D(log_start[t]) < D(log_start[u])
      BY <1>2, <2>7, <3>1
    <3>3. D(log_start[t]) \in Nat /\ D(log_start[u]) \in Nat /\ D(f.block) \in Nat
      BY <1>3, <2>2, <2>5
    <3>4. QED
      BY <2>5, <3>2, <3>3
  <2>8. QED
    BY <1>4, <2>2, <2>4, <2>5, <2>6, <2>7 DEF LogFrom
<1>5. CASE f.tid = LastSwitched + 1 /\ committing.tid = 0 /\ f.block = head
  <2>1. Freed(f) = D(head) /\ Dist(head, head) = 0
    BY <1>5, DistIsFreed DEF Freed
  <2>2. free + Freed(f) = LogBlocks /\ Freed(f) \in Nat
    BY <1>2, <1>3, <2>1
  <2>3. f.tid..LastSwitched = {}
    BY <1>5
  <2>4. LogBlocks \in 1..LogBlocks
    BY Sizes
  <2>5. QED
    BY <1>3, <1>5, <2>1, <2>2, <2>3, <2>4 DEF LogFrom
<1>6. QED
  BY <1>4, <1>5 DEF TailFound

\* the log is as it was while nothing is written to it
LEMMA LogKept ==
  ASSUME NEW first, NEW seq, NEW room, LogFrom(first, seq, room),
         UNCHANGED <<head, log_start, committing, sequence>>, kpc # "log" \/ kpc' = kpc
  PROVE  LogFrom(first, seq, room)'
<1>1. UNCHANGED LastSwitched
  BY DEF LastSwitched
<1>2. QED
  BY <1>1 DEF LogFrom

\* what is written to the log comes after what it holds
LEMMA LogGrows ==
  ASSUME TypeOK, LogFrom(tail, tail_seq, free), UNCHANGED <<tail, tail_seq, log_start, committing, sequence>>,
         committing.tid # 0, NEW n \in Nat, n > 0, n < free, Allocate(n),
         kpc' # "log"
  PROVE  LogFrom(tail, tail_seq, free)' /\ head' \in Log
<1> USE Numbers
<1>1. LogBlocks \in Nat /\ free \in 1..LogBlocks /\ Dist(tail, head) = LogBlocks - free
  BY Sizes DEF LogFrom
<1>2. Dist(tail, head) + n < LogBlocks
  BY <1>1
<1>3. head' \in Log /\ Dist(tail, head') = Dist(tail, head) + n
  BY <1>2, MovesOn DEF Allocate
<1>4. free' = free - n
  BY DEF Allocate
<1>5. UNCHANGED LastSwitched
  BY DEF LastSwitched
<1>6. free' \in 1..LogBlocks /\ Dist(tail, head') = LogBlocks - free'
  BY <1>1, <1>3, <1>4
<1>7. ASSUME NEW t \in tail_seq..LastSwitched
      PROVE  /\ t \in Trans /\ log_start[t] \in Log
             /\ t = tail_seq => log_start[t] = tail
             /\ Dist(tail, log_start[t]) < Dist(tail, head')
  <2>1. /\ t \in Trans /\ log_start[t] \in Log
        /\ t = tail_seq => log_start[t] = tail
        /\ Dist(tail, log_start[t]) < Dist(tail, head) \/ log_start[t] = head
    BY DEF LogFrom
  <2>2. Dist(tail, log_start[t]) \in Nat /\ Dist(tail, head) \in Nat
    BY <2>1, DistIsFreed
  <2>3. Dist(tail, log_start[t]) <= Dist(tail, head)
    BY <2>1, <2>2
  <2>4. QED
    BY <1>3, <2>1, <2>2, <2>3
<1>8. tail_seq <= LastSwitched
  BY DEF LogFrom
<1>9. \A t \in tail_seq..LastSwitched, u \in tail_seq..LastSwitched :
        t < u => Dist(tail, log_start[t]) < Dist(tail, log_start[u])
  BY DEF LogFrom
<1>10. QED
  BY <1>3, <1>5, <1>6, <1>7, <1>8, <1>9 DEF LogFrom, Dist

\* every step keeps the transactions of the log where they are, one after the other
LEMMA PosStep ==
  ASSUME Inv, Next
  PROVE  PosInv'
<1>0. TypeOK /\ TransInv /\ PosInv /\ MutexInv /\ RoomInv /\ FlushInv
  BY DEF Inv
<1> USE <1>0, Numbers
<1>1. ASSUME Up, UNCHANGED <<head, log_start, committing, sequence, tail, tail_seq, free>>, kpc # "log" \/ kpc' = kpc
      PROVE  PosInv'
  <2>1. PICK first, seq, room : first = tail /\ seq = tail_seq /\ room = free
    OBVIOUS
  <2>2. LogFrom(first, seq, room)
    BY <1>1, <2>1 DEF PosInv
  <2>3. LogFrom(first, seq, room)'
    BY <1>1, <2>2, LogKept
  <2>4. QED
    BY <1>1, <2>1, <2>3 DEF PosInv, LogFrom
<1>2. ASSUME Up, NEW f, f \in TailType, TailFound(f), f.tid > tail_seq, UpdateLogTail(f),
             UNCHANGED <<head, log_start, committing, sequence>>, kpc # "log" \/ kpc' = kpc
      PROVE  PosInv'
  <2>1. PICK room : room = free + Freed(f)
    OBVIOUS
  <2>2. LogFrom(f.block, f.tid, room)
    BY <1>2, <2>1, TailMoves DEF PosInv
  <2>3. LogFrom(f.block, f.tid, room)'
    BY <1>2, <2>2, LogKept
  <2>4. tail' = f.block /\ tail_seq' = f.tid /\ free' = room
    BY <1>2, <2>1 DEF UpdateLogTail
  <2>5. QED
    BY <2>3, <2>4 DEF PosInv, LogFrom
<1>3. CASE \E b \in Blocks : Modify(b) \/ WriteBack(b) \/ TryToFree(b)
  BY <1>1, <1>3 DEF Modify, WriteBack, TryToFree, transVars, tailVars, threadVars
<1>4. CASE Start \/ UndoFlush \/ ReadTail \/ CommitRecord
  BY <1>1, <1>4 DEF Start, UndoFlush, ReadTail, CommitRecord, transVars, tailVars, Up
<1>5. CASE Switch
  <2>1. /\ kpc = "switch" /\ kpc' = "log" /\ committing' = running /\ log_start' = [log_start EXCEPT ![running.tid] = head]
        /\ UNCHANGED <<sequence, head, tail, free, tail_seq>>
    BY <1>5 DEF Switch, tailVars
  <2>2. /\ committing.tid = 0 /\ running.tid = LastSwitched + 1 /\ running.tid \in Trans
    BY <2>1 DEF TransInv, Committing
  <2>3. LastSwitched' = LastSwitched + 1
    BY <2>1, <2>2 DEF LastSwitched
  <2>4. LogFrom(tail, tail_seq, free)
    BY <2>1 DEF PosInv, Up
  <2>5. ASSUME NEW t \in tail_seq..(LastSwitched + 1)
        PROVE  t = LastSwitched + 1 \/ (t \in tail_seq..LastSwitched /\ t < LastSwitched + 1 /\ log_start'[t] = log_start[t])
    BY <2>1, <2>2
  <2>6. log_start'[LastSwitched + 1] = head
    BY <2>1, <2>2
  <2>7. ASSUME NEW t \in tail_seq..(LastSwitched + 1)
        PROVE  /\ t \in Trans /\ log_start'[t] \in Log
               /\ t = tail_seq => log_start'[t] = tail
               /\ Dist(tail, log_start'[t]) < Dist(tail, head) \/ (t = running.tid /\ log_start'[t] = head)
    <3>1. CASE t = LastSwitched + 1
      BY <2>2, <2>4, <2>6, <3>1 DEF LogFrom
    <3>2. CASE t \in tail_seq..LastSwitched /\ log_start'[t] = log_start[t]
      BY <2>1, <2>4, <3>2 DEF LogFrom
    <3>3. QED
      BY <2>5, <3>1, <3>2
  <2>8. ASSUME NEW t \in tail_seq..(LastSwitched + 1), NEW u \in tail_seq..(LastSwitched + 1), t < u
        PROVE  Dist(tail, log_start'[t]) < Dist(tail, log_start'[u])
    <3>1. t \in tail_seq..LastSwitched /\ log_start'[t] = log_start[t]
      BY <2>5, <2>8
    <3>2. CASE u = LastSwitched + 1
      BY <2>1, <2>4, <2>6, <3>1, <3>2 DEF LogFrom
    <3>3. CASE u \in tail_seq..LastSwitched /\ log_start'[u] = log_start[u]
      BY <2>4, <2>8, <3>1, <3>3 DEF LogFrom
    <3>4. QED
      BY <2>5, <3>2, <3>3
  <2>9. tail_seq <= LastSwitched + 1
    BY <2>4 DEF LogFrom
  <2>10. free \in 1..LogBlocks /\ Dist(tail, head) = LogBlocks - free
    BY <2>4 DEF LogFrom
  <2>11. QED
    BY <2>1, <2>3, <2>7, <2>8, <2>9, <2>10 DEF PosInv, LogFrom, Dist
<1>6. CASE WriteLog
  <2>1. /\ kpc = "log" /\ kpc' = "tail" /\ Allocate(Len(SetToSeq(committing.blocks)) + 1)
        /\ UNCHANGED <<tail, tail_seq, log_start, committing, sequence>>
    BY <1>6 DEF WriteLog, transVars
  <2>2. PICK n : n = Cardinality(committing.blocks) + 1
    OBVIOUS
  <2>3. n \in Nat /\ n > 0 /\ n < free /\ Allocate(n)
    <3>1. Len(SetToSeq(committing.blocks)) + 1 = n
      BY <2>2, BlocksInOrder
    <3>2. free >= Cardinality(committing.blocks) + 3
      BY <2>1 DEF RoomInv, Up
    <3>3. Allocate(n)
      BY <2>1, <3>1
    <3>4. QED
      BY <2>2, <3>2, <3>3
  <2>4. committing.tid # 0 /\ LogFrom(tail, tail_seq, free)
    BY <2>1 DEF TransInv, Committing, PosInv, Up
  <2>5. QED
    BY <2>1, <2>3, <2>4, LogGrows DEF PosInv
<1>7. CASE WaitRecord
  <2>1. /\ kpc = "wait" /\ kpc' \in {"forget", "update"} /\ Allocate(1)
        /\ UNCHANGED <<tail, tail_seq, log_start, committing, sequence>>
    BY <1>7 DEF WaitRecord, transVars
  <2>2. 1 < free /\ committing.tid # 0 /\ LogFrom(tail, tail_seq, free)
    BY <2>1 DEF TransInv, Committing, PosInv, RoomInv, Up
  <2>3. QED
    BY <2>1, <2>2, LogGrows DEF PosInv
<1>8. CASE CommitUpdateTail
  <2>1. /\ kpc = "update" /\ kpc' = "forget" /\ UNCHANGED <<head, log_start, committing, sequence>>
        /\ (ktail.tid > tail_seq /\ UpdateLogTail(ktail)) \/ UNCHANGED <<tail, tail_seq, free>>
    BY <1>8 DEF CommitUpdateTail, transVars, tailVars
  <2>2. CASE UNCHANGED <<tail, tail_seq, free>>
    BY <1>1, <2>1, <2>2 DEF Up
  <2>3. CASE ktail.tid > tail_seq /\ UpdateLogTail(ktail)
    <3>1. PICK f : f = ktail
      OBVIOUS
    <3>2. f \in TailType /\ TailFound(f)
      BY <2>3, <3>1 DEF MutexInv, TailFound, NoTail
    <3>3. QED
      BY <1>2, <2>1, <2>3, <3>1, <3>2 DEF Up
  <2>4. QED
    BY <2>1, <2>2, <2>3
<1>9. CASE Forget
  <2>1. /\ kpc = "forget" /\ kpc' = "idle" /\ sequence' = committing.tid /\ committing' = NoTrans
        /\ UNCHANGED <<head, log_start, tail, tail_seq, free>>
    BY <1>9 DEF Forget, tailVars
  <2>2. committing.tid # 0 /\ LogFrom(tail, tail_seq, free)
    BY <2>1 DEF TransInv, Committing, PosInv, Up
  <2>3. LastSwitched' = LastSwitched
    BY <2>1, <2>2 DEF LastSwitched, NoTrans
  <2>4. QED
    BY <2>1, <2>2, <2>3 DEF PosInv, LogFrom
<1>10. CASE TaskStep
  <2>1. UNCHANGED <<head, log_start, committing, sequence, kpc>>
    BY <1>10, TaskKeeps
  <2> SUFFICES ASSUME Up PROVE PosInv'
    BY <2>1 DEF PosInv, Up
  <2>2. CASE MoveTail
    <3>1. PICK f : f = job.tail
      OBVIOUS
    <3>2. f \in TailType /\ TailFound(f) /\ f.tid > tail_seq /\ UpdateLogTail(f)
      BY <2>2, <3>1 DEF MoveTail, MutexInv, TailFound
    <3>3. QED
      BY <1>2, <2>1, <3>2
  <2>3. QED
    BY <1>1, <1>10, <2>1, <2>2, TaskTail
<1>11. CASE Crash \/ Replay
  BY <1>11 DEF Crash, Replay, PosInv, Up
<1>12. CASE Reset
  <2>1. /\ head' = 1 /\ tail' = 1 /\ free' = LogBlocks /\ tail_seq' = next_tid /\ sequence' = next_tid - 1
        /\ committing' = committing /\ kpc = "replayed"
    BY <1>12 DEF Reset
  <2>2. committing.tid = 0 /\ next_tid # 0
    BY <2>1 DEF TransInv, Committing
  <2>3. LastSwitched' = next_tid - 1 /\ next_tid \in Nat /\ LogBlocks \in Nat /\ LogBlocks > 0
    BY <2>1, <2>2, Sizes DEF LastSwitched
  <2>4. next_tid..(next_tid - 1) = {} /\ Dist(1, 1) = 0 /\ next_tid = next_tid - 1 + 1
    BY <2>3 DEF Dist
  <2>5. Dist(1, 1)' = 0
    BY <2>3 DEF Dist
  <2>6. QED
    BY <2>1, <2>2, <2>3, <2>4, <2>5 DEF PosInv, LogFrom
<1>13. QED
  BY <1>3, <1>4, <1>5, <1>6, <1>7, <1>8, <1>9, <1>10, <1>11, <1>12 DEF Next, CommitStep

-----------------------------------------------------------------------------
(* The numbers of the transactions                                          *)

LEMMA TransStep ==
  ASSUME Inv, Next
  PROVE  TransInv'
<1>0. TypeOK /\ TransInv
  BY DEF Inv
<1> USE <1>0, Numbers
<1>1. MaxBuffers \in Nat /\ Cardinality({}) = 0
  BY Sizes, FS_EmptySet
<1>2. ASSUME UNCHANGED <<committing, running, next_tid, sequence, kpc>>, \A b \in Blocks : cp'[b] \in {0, cp[b]}
      PROVE  TransInv'
  <2>1. ASSUME NEW b \in Blocks PROVE cp'[b] <= sequence
    <3>1. cp[b] <= sequence /\ sequence \in Nat
      BY DEF TransInv
    <3>2. cp'[b] = 0 \/ cp'[b] = cp[b]
      BY <1>2
    <3> HIDE <1>0, Numbers
    <3>3. QED
      BY <3>1, <3>2
  <2>2. ~Up => \A b \in Blocks : cp'[b] = 0
    BY <1>2 DEF TransInv
  <2>3. UNCHANGED <<LastSwitched, Up>>
    BY <1>2 DEF LastSwitched, Up
  <2>4. QED
    BY <1>2, <2>1, <2>2, <2>3 DEF TransInv
<1>3. ASSUME NEW b \in Blocks, Modify(b) PROVE TransInv'
  <2>1. /\ Up /\ Cardinality(running.blocks \cup {b}) <= MaxBuffers
        /\ running' = [tid |-> IF running.tid = 0 THEN next_tid ELSE running.tid, blocks |-> running.blocks \cup {b}]
        /\ next_tid' = IF running.tid = 0 THEN next_tid + 1 ELSE next_tid
        /\ UNCHANGED <<committing, sequence, kpc, cp>>
    BY <1>3 DEF Modify, threadVars
  <2>2. /\ running'.tid = IF running.tid = 0 THEN next_tid ELSE running.tid
        /\ running'.blocks = running.blocks \cup {b}
    BY <2>1
  <2>3. LastSwitched' = LastSwitched /\ Up'
    BY <2>1 DEF LastSwitched, Up
  <2>4. running'.tid = LastSwitched + 1 /\ next_tid' = running'.tid + 1 /\ running'.tid # 0
    BY <2>1, <2>2 DEF TransInv
  <2>5. Cardinality(running'.blocks) <= MaxBuffers
    BY <2>1, <2>2
  <2>6. QED
    BY <2>1, <2>3, <2>4, <2>5 DEF TransInv, Up
<1>4. CASE \E b \in Blocks : WriteBack(b)
  BY <1>2, <1>4 DEF WriteBack, transVars, threadVars
<1>5. ASSUME NEW b \in Blocks, TryToFree(b) PROVE TransInv'
  <2>1. cp' = [cp EXCEPT ![b] = 0] /\ UNCHANGED <<committing, running, next_tid, sequence, kpc>>
    BY <1>5 DEF TryToFree, transVars, threadVars
  <2>2. QED
    BY <1>2, <2>1
<1>6. ASSUME UNCHANGED <<committing, running, next_tid, sequence, cp>>, Up, Up',
             kpc \in Committing <=> kpc' \in Committing, kpc' \in {"flushed", "switch"} => running.tid # 0
      PROVE  TransInv'
  <2>1. UNCHANGED LastSwitched
    BY <1>6 DEF LastSwitched
  <2>2. kpc' # "replayed"
    BY <1>6 DEF Up
  <2>3. QED
    BY <1>6, <2>1, <2>2 DEF TransInv
<1>7. CASE Start \/ UndoFlush
  <2>1. UNCHANGED <<committing, running, next_tid, sequence, cp>>
    BY <1>7 DEF Start, UndoFlush, transVars, bufferVars
  <2>2. kpc \in {"idle", "flushed"} /\ kpc' \in {"flushed", "switch"} /\ running.tid # 0
    BY <1>7 DEF Start, UndoFlush, TransInv
  <2>3. QED
    BY <1>6, <2>1, <2>2 DEF Up, Committing
<1>8. CASE WriteLog \/ ReadTail \/ CommitRecord \/ WaitRecord \/ CommitUpdateTail
  <2>1. UNCHANGED <<committing, running, next_tid, sequence, cp>>
    BY <1>8 DEF WriteLog, ReadTail, CommitRecord, WaitRecord, CommitUpdateTail, transVars, bufferVars
  <2>2. kpc \in Committing /\ kpc' \in Committing
    BY <1>8 DEF WriteLog, ReadTail, CommitRecord, WaitRecord, CommitUpdateTail, Committing
  <2>3. QED
    BY <1>6, <2>1, <2>2 DEF Up, Committing
<1>9. CASE Switch
  <2>1. /\ kpc = "switch" /\ kpc' = "log" /\ committing' = running /\ running' = NoTrans
        /\ UNCHANGED <<next_tid, sequence, cp>>
    BY <1>9 DEF Switch, bufferVars
  <2>2. /\ committing.tid = 0 /\ running.tid # 0 /\ running.tid = sequence + 1 /\ next_tid = running.tid + 1
        /\ Cardinality(running.blocks) <= MaxBuffers /\ \A b \in Blocks : cp[b] <= sequence
    BY <2>1 DEF TransInv, Committing, LastSwitched
  <2>3. running'.tid = 0 /\ running'.blocks = {} /\ Cardinality(running'.blocks) = 0
    BY <1>1, <2>1 DEF NoTrans
  <2>4. LastSwitched' = running.tid
    BY <2>1, <2>2 DEF LastSwitched
  <2>5. QED
    BY <1>1, <2>1, <2>2, <2>3, <2>4 DEF TransInv, Committing, Up
<1>10. CASE Forget
  <2>1. /\ kpc = "forget" /\ kpc' = "idle" /\ committing' = NoTrans /\ sequence' = committing.tid
        /\ cp' = [b \in Blocks |-> IF b \in committing.blocks THEN committing.tid ELSE cp[b]]
        /\ UNCHANGED <<next_tid, running>>
    BY <1>10 DEF Forget
  <2>2. committing.tid # 0 /\ committing.tid = sequence + 1
    BY <2>1 DEF TransInv, Committing
  <2>3. committing'.tid = 0 /\ committing'.blocks = {} /\ Cardinality(committing'.blocks) = 0
    BY <1>1, <2>1 DEF NoTrans
  <2>4. LastSwitched' = LastSwitched
    BY <2>1, <2>2, <2>3 DEF LastSwitched
  <2>5. \A b \in Blocks : cp'[b] <= sequence'
    <3> SUFFICES ASSUME NEW b \in Blocks PROVE cp'[b] <= sequence'
      OBVIOUS
    <3>1. cp[b] <= sequence /\ cp[b] \in Int
      BY DEF TransInv
    <3>2. cp'[b] = committing.tid \/ cp'[b] = cp[b]
      BY <2>1
    <3>3. QED
      BY <2>1, <2>2, <3>1, <3>2
  <2>6. QED
    BY <1>1, <2>1, <2>3, <2>4, <2>5 DEF TransInv, Committing, Up
<1>11. CASE TaskStep
  <2>1. UNCHANGED <<committing, running, next_tid, sequence, kpc>>
    BY <1>11, TaskKeeps
  <2>2. \A b \in Blocks : cp'[b] \in {0, cp[b]}
    BY <1>11, TaskLists DEF TypeOK
  <2>3. QED
    BY <1>2, <2>1, <2>2
<1>12. CASE Crash
  <2>1. /\ kpc' = "down" /\ committing' = NoTrans /\ running' = NoTrans /\ cp' = [b \in Blocks |-> 0]
        /\ UNCHANGED sequence
    BY <1>12 DEF Crash
  <2>2. /\ committing'.tid = 0 /\ committing'.blocks = {} /\ Cardinality(committing'.blocks) = 0
        /\ running'.tid = 0 /\ running'.blocks = {} /\ Cardinality(running'.blocks) = 0
    BY <1>1, <2>1 DEF NoTrans
  <2>3. \A b \in Blocks : cp'[b] = 0 /\ cp'[b] <= sequence'
    BY <2>1
  <2>4. QED
    BY <1>1, <2>1, <2>2, <2>3 DEF TransInv, Committing, Up
<1>13. CASE Replay
  <2>1. /\ kpc = "down" /\ kpc' = "replayed" /\ next_tid' = Found.tid + 1 /\ UNCHANGED <<committing, running, sequence, cp>>
    BY <1>13 DEF Replay
  <2>2. Found.tid \in Nat
    BY FoundTyped DEF TypeOK, DiskTypeOK
  <2>3. UNCHANGED LastSwitched
    BY <2>1 DEF LastSwitched
  <2>4. running = NoTrans /\ \A b \in Blocks : cp[b] = 0
    BY <2>1 DEF TransInv, Up
  <2>5. QED
    BY <2>1, <2>2, <2>3, <2>4 DEF TransInv, Committing, Up, NoTrans
<1>14. CASE Reset
  <2>1. /\ kpc = "replayed" /\ kpc' = "idle" /\ sequence' = next_tid - 1 /\ UNCHANGED <<committing, running, next_tid, cp>>
    BY <1>14 DEF Reset, bufferVars
  <2>2. committing.tid = 0 /\ running = NoTrans /\ next_tid # 0 /\ \A b \in Blocks : cp[b] = 0
    BY <2>1 DEF TransInv, Committing, Up
  <2>3. LastSwitched' = next_tid - 1 /\ next_tid = next_tid - 1 + 1 /\ 0 <= next_tid - 1
    BY <2>1, <2>2 DEF LastSwitched
  <2>4. running.tid = 0
    BY <2>2 DEF NoTrans
  <2>5. QED
    BY <2>1, <2>2, <2>3, <2>4 DEF TransInv, Committing, Up
<1>15. QED
  BY <1>3, <1>4, <1>5, <1>7, <1>8, <1>9, <1>10, <1>11, <1>12, <1>13, <1>14 DEF Next, CommitStep

-----------------------------------------------------------------------------
(* The room in the log                                                      *)

\* the room that is left only grows while nothing is written to the log
LEMMA RoomGrows ==
  ASSUME Inv, Next, Up, ~WriteLog, ~WaitRecord
  PROVE  free' >= free
<1>0. TypeOK /\ PosInv /\ MutexInv
  BY DEF Inv
<1> USE <1>0, Numbers
<1>1. ASSUME NEW f, f \in TailType, TailFound(f), f.tid > tail_seq, UpdateLogTail(f)
      PROVE  free' >= free
  <2>1. Freed(f) \in Nat
    BY <1>1, TailMoves DEF PosInv
  <2>2. free' = free + Freed(f) /\ free \in Nat
    BY <1>1 DEF UpdateLogTail
  <2>3. QED
    BY <2>1, <2>2
<1>2. CASE UNCHANGED free
  BY <1>2
<1>3. CASE \E b \in Blocks : Modify(b) \/ WriteBack(b) \/ TryToFree(b)
  BY <1>2, <1>3 DEF Modify, WriteBack, TryToFree, tailVars
<1>4. CASE CommitUpdateTail
  <2>1. PICK f : f = ktail
    OBVIOUS
  <2>2. CASE UNCHANGED free
    BY <2>2, <1>2
  <2>3. CASE ktail.tid > tail_seq /\ UpdateLogTail(ktail)
    <3>1. f \in TailType /\ TailFound(f)
      BY <2>1, <2>3 DEF MutexInv, TailFound, NoTail
    <3>2. QED
      BY <1>1, <2>1, <2>3, <3>1
  <2>4. QED
    BY <1>4, <2>2, <2>3 DEF CommitUpdateTail, tailVars
<1>5. CASE MoveTail
  <2>1. PICK f : f = job.tail
    OBVIOUS
  <2>2. f \in TailType /\ TailFound(f) /\ f.tid > tail_seq /\ UpdateLogTail(f)
    BY <1>5, <2>1 DEF MoveTail, MutexInv, TailFound
  <2>3. QED
    BY <1>1, <2>2
<1>6. CASE Start \/ UndoFlush \/ Switch \/ ReadTail \/ CommitRecord \/ Forget
  BY <1>2, <1>6 DEF Start, UndoFlush, Switch, ReadTail, CommitRecord, Forget, tailVars
<1>7. CASE Crash \/ Replay \/ Reset
  BY <1>2, <1>7 DEF Crash, Replay, Reset, tailVars, Up
<1>8. QED
  BY <1>2, <1>3, <1>4, <1>5, <1>6, <1>7, TaskTail DEF Next, CommitStep

LEMMA RoomStep ==
  ASSUME Inv, Next
  PROVE  RoomInv'
<1>0. TypeOK /\ TransInv /\ RoomInv /\ PosInv /\ FlushInv
  BY DEF Inv
<1> USE <1>0, Numbers
<1>1. Reserved \in Nat /\ Reserved >= 5 /\ MaxBuffers \in Nat /\ MaxBuffers > 0 /\ free \in Nat
      /\ Cardinality(committing.blocks) \in Nat
  BY Sizes
<1>2. ASSUME Up, ~WriteLog, ~WaitRecord, UNCHANGED <<running, committing>>,
             \/ kpc' = kpc
             \/ kpc' \notin {"log", "tail", "record", "wait"}
             \/ kpc \in {"tail", "record"} /\ kpc' \in {"record", "wait"}
      PROVE  RoomInv'
  <2> SUFFICES ASSUME Up' PROVE RoomInv'
    BY DEF RoomInv
  <2>1. free' >= free
    BY <1>2, RoomGrows
  <2>2. free' \in Int
    BY PosStep DEF PosInv, LogFrom
  <2>3. QED
    BY <1>1, <1>2, <2>1, <2>2 DEF RoomInv
<1>3. ASSUME NEW b \in Blocks, Modify(b) PROVE RoomInv'
  <2>1. Up /\ SpaceLeft >= SpaceNeeded /\ UNCHANGED <<committing, kpc, free>>
    BY <1>3 DEF Modify, threadVars, tailVars
  <2>2. SpaceLeft # 0 => free >= Reserved + SpaceLeft
    BY SpaceLeftBounds
  <2>3. SpaceLeft \in Nat
    BY SpaceLeftBounds
  <2>4. SpaceNeeded >= MaxBuffers /\ SpaceNeeded \in Nat /\ (kpc = "log" => SpaceNeeded = MaxBuffers + Cardinality(committing.blocks))
    BY <1>1 DEF SpaceNeeded
  <2>5. free >= Reserved + SpaceNeeded
    BY <1>1, <2>1, <2>2, <2>3, <2>4
  <2>6. free >= Reserved + MaxBuffers /\ (kpc = "log" => free >= Reserved + MaxBuffers + Cardinality(committing.blocks))
    <3> HIDE <1>0, Numbers
    <3>1. QED
      BY <1>1, <2>4, <2>5
  <2>7. kpc = "log" => free >= Cardinality(committing.blocks) + 3
    BY <2>1 DEF RoomInv
  <2>8. kpc \in {"tail", "record", "wait"} => free >= 2
    BY <2>1 DEF RoomInv
  <2>9. QED
    <3> HIDE <1>0
    <3>1. free >= Reserved + MaxBuffers - 2 /\ free >= Reserved + MaxBuffers - 1
      BY <1>1, <2>6
    <3>2. QED
      BY <2>1, <2>6, <2>7, <2>8, <3>1 DEF RoomInv
<1>4. CASE \E b \in Blocks : WriteBack(b) \/ TryToFree(b)
  <2>1. Up /\ UNCHANGED <<running, committing, kpc, free>>
    BY <1>4 DEF WriteBack, TryToFree, transVars, threadVars, tailVars
  <2>2. QED
    BY <2>1 DEF RoomInv, Up
<1>5. CASE Start \/ UndoFlush \/ ReadTail \/ CommitRecord
  <2>1. UNCHANGED <<running, committing, free>>
    BY <1>5 DEF Start, UndoFlush, ReadTail, CommitRecord, transVars, tailVars
  <2>2. \/ kpc' \notin {"log", "tail", "record", "wait"}
        \/ kpc \in {"tail", "record"} /\ kpc' \in {"record", "wait"}
    BY <1>5 DEF Start, UndoFlush, ReadTail, CommitRecord
  <2>3. Up
    BY <1>5 DEF Start, UndoFlush, ReadTail, CommitRecord, Up
  <2>4. QED
    BY <1>1, <2>1, <2>2, <2>3 DEF RoomInv
<1>6. CASE Switch
  <2>1. kpc = "switch" /\ kpc' = "log" /\ committing' = running /\ running' = NoTrans /\ UNCHANGED free
    BY <1>6 DEF Switch, tailVars
  <2>2. running.tid # 0 /\ Cardinality(running.blocks) <= MaxBuffers
    BY <2>1 DEF TransInv
  <2>3. free >= Reserved + MaxBuffers - 2
    BY <2>1, <2>2 DEF RoomInv, Up
  <2>4. free >= Cardinality(running.blocks) + 3
    BY <1>1, <2>2, <2>3
  <2>5. QED
    BY <2>1, <2>4 DEF RoomInv, NoTrans
<1>7. CASE WriteLog
  <2>1. kpc = "log" /\ kpc' = "tail" /\ UNCHANGED <<running, committing>>
    BY <1>7 DEF WriteLog, transVars
  <2>2. free' = free - (Cardinality(committing.blocks) + 1)
    BY <1>7, BlocksInOrder DEF WriteLog, Allocate
  <2>3. free >= Cardinality(committing.blocks) + 3
    BY <2>1 DEF RoomInv, Up
  <2>4. running.tid # 0 => free >= Reserved + MaxBuffers + Cardinality(committing.blocks)
    BY <2>1 DEF RoomInv, Up
  <2>5. free' >= 2 /\ (running.tid # 0 => free' >= Reserved + MaxBuffers - 1 /\ free' >= Reserved + MaxBuffers - 2)
    <3> HIDE <1>0, Numbers
    <3>1. QED
      BY <1>1, <2>2, <2>3, <2>4
  <2>6. QED
    <3> HIDE <1>0, Numbers
    <3>1. QED
      BY <2>1, <2>5 DEF RoomInv
<1>8. CASE WaitRecord
  <2>1. kpc = "wait" /\ kpc' \in {"forget", "update"} /\ UNCHANGED <<running, committing>> /\ free' = free - 1
    BY <1>8 DEF WaitRecord, transVars, Allocate
  <2>2. running.tid # 0 => free >= Reserved + MaxBuffers - 1
    BY <2>1 DEF RoomInv, Up
  <2>3. QED
    BY <1>1, <2>1, <2>2 DEF RoomInv
<1>9. CASE CommitUpdateTail
  <2>1. kpc = "update" /\ kpc' = "forget" /\ UNCHANGED <<running, committing>>
    BY <1>9 DEF CommitUpdateTail, transVars
  <2>2. ~WriteLog /\ ~WaitRecord /\ Up
    BY <2>1 DEF WriteLog, WaitRecord, Up
  <2>3. QED
    BY <1>2, <2>1, <2>2
<1>10. CASE Forget
  <2>1. kpc = "forget" /\ kpc' = "idle" /\ UNCHANGED <<running, free>>
    BY <1>10 DEF Forget, tailVars
  <2>2. QED
    BY <1>1, <2>1 DEF RoomInv, Up
<1>11. CASE TaskStep
  <2>1. UNCHANGED <<running, committing, kpc>>
    BY <1>11, TaskKeeps
  <2>2. CASE WriteLog \/ WaitRecord
    BY <1>7, <1>8, <2>2
  <2>3. CASE ~Up
    BY <2>1, <2>3 DEF RoomInv, Up
  <2>4. QED
    BY <1>2, <2>1, <2>2, <2>3
<1>12. CASE Crash \/ Replay
  BY <1>12 DEF Crash, Replay, RoomInv, Up
<1>13. CASE Reset
  <2>1. kpc = "replayed" /\ kpc' = "idle" /\ UNCHANGED running
    BY <1>13 DEF Reset
  <2>2. running.tid = 0
    BY <2>1 DEF TransInv, Up, NoTrans
  <2>3. QED
    BY <2>1, <2>2 DEF RoomInv
<1>14. QED
  BY <1>3, <1>4, <1>5, <1>6, <1>7, <1>8, <1>9, <1>10, <1>11, <1>12, <1>13 DEF Next, CommitStep

-----------------------------------------------------------------------------
(* The task that makes room                                                 *)

\* where the tail cannot be moved any further there is something else to do
LEMMA FindTailGoesOn ==
  ASSUME Inv, FindTail
  PROVE  /\ job.at = "find" /\ Up /\ job.purpose \in {"before", "after", "only", "final"}
         /\ UNCHANGED mutex
         /\ \/ LogTail.tid > tail_seq /\ job' = [job EXCEPT !.at = "flush", !.tail = LogTail]
            \/ /\ LogTail.tid <= tail_seq
               /\ \E p \in {"process", "after", "unlock", "wait", "empty"} :
                    /\ job' = [job EXCEPT !.at = p, !.target = CheckpointTransaction]
                    /\ p = "empty" <=> job.purpose = "final"
                    /\ p = "wait" => job.purpose = "only"
<1>0. TypeOK /\ TransInv /\ WayInv /\ FlushInv
  BY DEF Inv
<1> USE <1>0, Numbers
<1>1. job.at = "find" /\ UNCHANGED mutex
  BY DEF FindTail
<1>2. Up /\ job.purpose \in {"before", "after", "only", "final"}
  <2>1. job.purpose \in {"none", "before", "after", "only", "final"}
    BY DEF TypeOK, JobType
  <2>2. NoJob.at = "idle"
    BY DEF NoJob
  <2>3. QED
    BY <1>1, <2>1, <2>2 DEF FlushInv
<1>3. LogTail.tid \in Nat
  BY <1>2, LogTailFound DEF TailType
<1>4. CASE LogTail.tid > tail_seq
  BY <1>1, <1>2, <1>4 DEF FindTail
<1>5. CASE ~(LogTail.tid > tail_seq)
  <2>1. job' = [job EXCEPT !.at = GoesOn(job.purpose), !.target = CheckpointTransaction] /\ LogTail.tid <= tail_seq
    BY <1>3, <1>5 DEF FindTail
  <2>2. job.purpose = "only" => job.awaited # 0
    <3> SUFFICES ASSUME job.purpose = "only", job.awaited = 0 PROVE FALSE
      OBVIOUS
    <3>1. tail_seq <= sequence /\ \A b \in Blocks : cp[b] # 0 => cp[b] > tail_seq
      BY <1>1 DEF WayInv
    <3>2. CASE CheckpointTransaction # 0
      <4>1. CheckpointTransaction > tail_seq
        BY <3>1, <3>2, CheckpointTransactionOK
      <4>2. LogTail.tid = CheckpointTransaction
        BY <3>2 DEF LogTail
      <4>3. QED
        BY <1>3, <1>5, <4>1, <4>2
    <3>3. CASE CheckpointTransaction = 0 /\ committing.tid # 0
      <4>1. LogTail.tid = committing.tid /\ committing.tid = sequence + 1
        BY <3>3 DEF LogTail, TransInv
      <4>2. QED
        BY <1>3, <1>5, <3>1, <4>1
    <3>4. CASE CheckpointTransaction = 0 /\ committing.tid = 0
      <4>1. LogTail.tid = IF running.tid # 0 THEN running.tid ELSE next_tid
        BY <3>4 DEF LogTail
      <4>2. LogTail.tid = sequence + 1
        BY <1>2, <3>4, <4>1 DEF TransInv, LastSwitched
      <4>3. QED
        BY <1>3, <1>5, <3>1, <4>2
    <3>5. QED
      BY <3>2, <3>3, <3>4
  <2>3. /\ GoesOn(job.purpose) \in {"process", "after", "unlock", "wait", "empty"}
        /\ GoesOn(job.purpose) = "empty" <=> job.purpose = "final"
        /\ GoesOn(job.purpose) = "wait" => job.purpose = "only"
    BY <1>2, <2>2 DEF GoesOn
  <2>4. QED
    BY <1>1, <1>2, <2>1, <2>3
<1>6. QED
  BY <1>4, <1>5

\* what a step of the task keeps of its variables
Kept == UNCHANGED job.purpose /\ UNCHANGED job.tail /\ UNCHANGED job.flush /\ UNCHANGED job.awaited

\* what each of the other steps of the task does to its variables
LEMMA TaskMoves ==
  ASSUME job \in JobType
  PROVE  /\ WaitForSpace => job.at = "idle" /\ Up /\ job'.at = "lock" /\ Kept /\ UNCHANGED mutex
         /\ LockCheckpoint =>
              /\ job.at = "lock" /\ ~mutex /\ mutex' = TRUE /\ job'.tail = job.tail /\ job'.flush = job.flush
              /\ \/ job'.at = "unlock" /\ job'.purpose = job.purpose
                 \/ /\ job'.at = "find" /\ ~(SpaceLeft >= SpaceNeeded) /\ job'.awaited = committing.tid
                    /\ job'.purpose = IF CheckpointTransaction # 0 THEN "before" ELSE "only"
         /\ FlushTail => job.at = "flush" /\ job'.at = "update" /\ Kept /\ UNCHANGED mutex
         /\ MoveTail =>
              /\ job.at = "update" /\ job'.at = (IF job.purpose = "final" THEN "empty" ELSE "unlock") /\ UNCHANGED mutex
              /\ job'.purpose = job.purpose /\ job'.flush = job.flush
         /\ AwaitBuffer =>
              /\ job.at = "process" /\ job'.at = "wait" /\ UNCHANGED mutex
              /\ job'.purpose = job.purpose /\ job'.tail = job.tail /\ job'.flush = job.flush
         /\ Processed =>
              /\ job.at \in {"after", "process"} /\ job'.at = "find" /\ UNCHANGED mutex
              /\ job'.purpose = "after" /\ job'.tail = job.tail /\ job'.flush = job.flush
         /\ WaitCommit => job.at = "wait" /\ job'.at = (IF job.purpose = "only" THEN "unlock" ELSE "process") /\ Kept /\ UNCHANGED mutex
         /\ Unlock =>
              /\ job.at = "unlock" /\ job'.at = (IF job.flush THEN "drain" ELSE "idle") /\ mutex' = FALSE
              /\ job'.purpose = "none" /\ job'.flush = job.flush /\ (job'.at = "idle" => job' = NoJob)
         /\ JournalFlush =>
              /\ job.at = "idle" /\ Up /\ job'.at = "force" /\ UNCHANGED mutex
              /\ job'.flush = TRUE /\ job'.purpose = job.purpose /\ job'.awaited = IF running.tid # 0 THEN running.tid ELSE committing.tid
         /\ ForceCommit => job.at = "force" /\ sequence >= job.awaited /\ job'.at = "drain" /\ Kept /\ UNCHANGED mutex
         /\ DrainList =>
              /\ job.at = "drain" /\ ~mutex /\ job'.at = "find" /\ mutex' = TRUE /\ job'.flush = job.flush
              /\ job'.purpose = IF CheckpointTransaction # 0 THEN "before" ELSE "final"
         /\ MarkEmpty => job.at = "empty" /\ job'.at = "emptied" /\ Kept /\ mutex' = FALSE
         /\ FlushReturns => job.at = "emptied" /\ job' = NoJob /\ UNCHANGED mutex
         /\ ProcessBuffer \/ WaitIO => UNCHANGED <<job, mutex>>
<1>1. WaitForSpace => job.at = "idle" /\ Up /\ job'.at = "lock" /\ Kept /\ UNCHANGED mutex
  BY DEF WaitForSpace, GoTo, Kept, JobType
<1>2. LockCheckpoint =>
        /\ job.at = "lock" /\ ~mutex /\ mutex' = TRUE /\ job'.tail = job.tail /\ job'.flush = job.flush
        /\ \/ job'.at = "unlock" /\ job'.purpose = job.purpose
           \/ /\ job'.at = "find" /\ ~(SpaceLeft >= SpaceNeeded) /\ job'.awaited = committing.tid
              /\ job'.purpose = IF CheckpointTransaction # 0 THEN "before" ELSE "only"
  BY DEF LockCheckpoint, Kept, JobType
<1>3. FlushTail => job.at = "flush" /\ job'.at = "update" /\ Kept /\ UNCHANGED mutex
  BY DEF FlushTail, Kept, JobType
<1>4. MoveTail =>
        /\ job.at = "update" /\ job'.at = (IF job.purpose = "final" THEN "empty" ELSE "unlock") /\ UNCHANGED mutex
        /\ job'.purpose = job.purpose /\ job'.flush = job.flush
  BY DEF MoveTail, Kept, JobType
<1>5. AwaitBuffer =>
        /\ job.at = "process" /\ job'.at = "wait" /\ UNCHANGED mutex
        /\ job'.purpose = job.purpose /\ job'.tail = job.tail /\ job'.flush = job.flush
  BY DEF AwaitBuffer, Processing, Kept, JobType
<1>6. Processed =>
        /\ job.at \in {"after", "process"} /\ job'.at = "find" /\ UNCHANGED mutex
        /\ job'.purpose = "after" /\ job'.tail = job.tail /\ job'.flush = job.flush
  BY DEF Processed, Kept, JobType
<1>7. WaitCommit => job.at = "wait" /\ job'.at = (IF job.purpose = "only" THEN "unlock" ELSE "process") /\ Kept /\ UNCHANGED mutex
  BY DEF WaitCommit, GoTo, Kept, JobType
<1>8. Unlock =>
        /\ job.at = "unlock" /\ job'.at = (IF job.flush THEN "drain" ELSE "idle") /\ mutex' = FALSE
        /\ job'.purpose = "none" /\ job'.flush = job.flush /\ (job'.at = "idle" => job' = NoJob)
  BY DEF Unlock, NoJob, Kept, JobType
<1>9. JournalFlush =>
        /\ job.at = "idle" /\ Up /\ job'.at = "force" /\ UNCHANGED mutex
        /\ job'.flush = TRUE /\ job'.purpose = job.purpose /\ job'.awaited = IF running.tid # 0 THEN running.tid ELSE committing.tid
  BY DEF JournalFlush, Kept, JobType
<1>10. ForceCommit => job.at = "force" /\ sequence >= job.awaited /\ job'.at = "drain" /\ Kept /\ UNCHANGED mutex
  BY DEF ForceCommit, GoTo, Kept, JobType
<1>11. DrainList =>
        /\ job.at = "drain" /\ ~mutex /\ job'.at = "find" /\ mutex' = TRUE /\ job'.flush = job.flush
        /\ job'.purpose = IF CheckpointTransaction # 0 THEN "before" ELSE "final"
  BY DEF DrainList, Kept, JobType
<1>12. MarkEmpty => job.at = "empty" /\ job'.at = "emptied" /\ Kept /\ mutex' = FALSE
  BY DEF MarkEmpty, Kept, JobType
<1>13. FlushReturns => job.at = "emptied" /\ job' = NoJob /\ UNCHANGED mutex
  BY DEF FlushReturns, Kept, JobType
<1>14. ProcessBuffer \/ WaitIO => UNCHANGED <<job, mutex>>
  BY DEF ProcessBuffer, WaitIO
<1>15. QED
  BY <1>1, <1>2, <1>3, <1>4, <1>5, <1>6, <1>7, <1>8, <1>9, <1>10, <1>11, <1>12, <1>13, <1>14

\* the variables of the task keep their types
LEMMA JobStep ==
  ASSUME Inv, Next
  PROVE  job' \in JobType /\ mutex' \in BOOLEAN
<1>0. TypeOK
  BY DEF Inv
<1> USE <1>0, Numbers
<1>1. job \in JobType /\ mutex \in BOOLEAN
  BY DEF TypeOK
<1>2. NoTail \in TailType /\ 0 \in 0..MaxTrans
  BY DEF NoTail, TailType
<1>3. NoJob \in JobType
  BY <1>2 DEF NoJob, JobType, Places
<1>4. CASE UNCHANGED <<job, mutex>>
  BY <1>1, <1>4
<1>5. ASSUME NEW p \in Places, job' = [job EXCEPT !.at = p], UNCHANGED mutex
      PROVE  job' \in JobType /\ mutex' \in BOOLEAN
  BY <1>1, <1>5 DEF JobType
<1>6. CASE WaitForSpace \/ WaitCommit \/ ForceCommit \/ FlushTail
  BY <1>5, <1>6 DEF WaitForSpace, WaitCommit, ForceCommit, FlushTail, GoTo, Places
<1>7. CASE LockCheckpoint
  BY <1>1, <1>7 DEF LockCheckpoint, JobType, Places
<1>8. CASE FindTail
  <2>1. LogTail \in TailType
    BY <1>8, FindTailGoesOn, LogTailFound DEF Inv
  <2>2. CheckpointTransaction \in 0..MaxTrans
    BY CheckpointTransactionOK
  <2>3. PICK l, c : l = LogTail /\ c = CheckpointTransaction
    OBVIOUS
  <2>4. CASE job' = [job EXCEPT !.at = "flush", !.tail = l]
    BY <1>1, <1>8, <2>1, <2>3, <2>4 DEF JobType, Places, FindTail
  <2>5. CASE \E p \in {"process", "after", "unlock", "wait", "empty"} : job' = [job EXCEPT !.at = p, !.target = c]
    BY <1>1, <1>8, <2>2, <2>3, <2>5 DEF JobType, Places, FindTail
  <2>6. QED
    BY <1>8, <2>3, <2>4, <2>5, FindTailGoesOn
<1>9. CASE MoveTail
  BY <1>1, <1>2, <1>9 DEF MoveTail, JobType, Places
<1>10. CASE AwaitBuffer
  BY <1>1, <1>10 DEF AwaitBuffer, JobType, Places
<1>11. CASE ProcessBuffer \/ WaitIO
  BY <1>4, <1>11 DEF ProcessBuffer, WaitIO
<1>12. CASE Processed
  BY <1>1, <1>12 DEF Processed, JobType, Places
<1>13. CASE Unlock
  BY <1>1, <1>3, <1>13 DEF Unlock, JobType, Places
<1>14. CASE JournalFlush
  BY <1>1, <1>14 DEF JournalFlush, JobType, Places
<1>15. CASE DrainList
  BY <1>1, <1>15 DEF DrainList, JobType, Places
<1>16. CASE MarkEmpty
  BY <1>1, <1>16 DEF MarkEmpty, JobType, Places
<1>17. CASE FlushReturns \/ Crash
  BY <1>1, <1>3, <1>17 DEF FlushReturns, Crash
<1>18. CASE (\E b \in Blocks : Modify(b) \/ WriteBack(b) \/ TryToFree(b)) \/ Replay \/ Reset
  BY <1>4, <1>18 DEF Modify, WriteBack, TryToFree, Replay, Reset, taskVars
<1>19. CASE CommitStep
  BY <1>4, <1>19, CommitKeeps
<1>20. QED
  BY <1>6, <1>7, <1>8, <1>9, <1>10, <1>11, <1>12, <1>13, <1>14, <1>15, <1>16, <1>17, <1>18, <1>19 DEF Next, TaskStep

\* a tail that was found is good for as long as there is no crash
LEMMA FoundKept ==
  ASSUME Inv, Next, Up, Up', NEW f \in TailType, TailFound(f)
  PROVE  TailFound(f)'
<1>0. TypeOK /\ TransInv
  BY DEF Inv
<1> USE <1>0, Numbers
<1>1. CASE UNCHANGED <<committing, sequence, log_start, head>>
  BY <1>1 DEF TailFound, LastSwitched
<1>2. CASE Switch
  <2>1. /\ kpc = "switch" /\ committing' = running /\ log_start' = [log_start EXCEPT ![running.tid] = head]
        /\ UNCHANGED <<sequence, head>>
    BY <1>2 DEF Switch
  <2>2. committing.tid = 0 /\ running.tid # 0 /\ running.tid = LastSwitched + 1 /\ running.tid \in Trans
    BY <2>1 DEF TransInv, Committing
  <2>3. LastSwitched' = LastSwitched + 1
    BY <2>1, <2>2 DEF LastSwitched
  <2>4. CASE f.tid \in Trans /\ f.tid <= LastSwitched /\ f.block = log_start[f.tid]
    BY <2>1, <2>2, <2>3, <2>4 DEF TailFound
  <2>5. CASE f.tid = LastSwitched + 1 /\ f.block = head
    BY <2>1, <2>2, <2>3, <2>5 DEF TailFound
  <2>6. QED
    BY <2>4, <2>5 DEF TailFound
<1>3. CASE WriteLog \/ WaitRecord
  <2>1. kpc \in {"log", "wait"} /\ UNCHANGED <<committing, sequence, log_start>>
    BY <1>3 DEF WriteLog, WaitRecord, transVars
  <2>2. committing.tid # 0
    BY <2>1 DEF TransInv, Committing
  <2>3. QED
    BY <2>1, <2>2 DEF TailFound, LastSwitched
<1>4. CASE Forget
  <2>1. kpc = "forget" /\ sequence' = committing.tid /\ committing' = NoTrans /\ UNCHANGED log_start
    BY <1>4 DEF Forget
  <2>2. committing.tid # 0
    BY <2>1 DEF TransInv, Committing
  <2>3. LastSwitched' = LastSwitched
    BY <2>1, <2>2 DEF LastSwitched, NoTrans
  <2>4. QED
    BY <2>1, <2>2, <2>3 DEF TailFound
<1>5. CASE Start \/ UndoFlush \/ ReadTail \/ CommitRecord \/ CommitUpdateTail
  BY <1>1, <1>5 DEF Start, UndoFlush, ReadTail, CommitRecord, CommitUpdateTail, transVars
<1>6. CASE \E b \in Blocks : Modify(b) \/ WriteBack(b) \/ TryToFree(b)
  BY <1>1, <1>6 DEF Modify, WriteBack, TryToFree, transVars
<1>7. CASE TaskStep
  BY <1>1, <1>7, TaskKeeps
<1>8. CASE Crash \/ Replay \/ Reset
  BY <1>8 DEF Crash, Replay, Reset, Up
<1>9. QED
  BY <1>2, <1>3, <1>4, <1>5, <1>6, <1>7, <1>8 DEF Next, CommitStep

\* the places at which the task holds the mutex
Holding == {"find", "flush", "update", "process", "after", "wait", "unlock", "empty"}

LEMMA MutexStep ==
  ASSUME Inv, Next
  PROVE  MutexInv'
<1>0. TypeOK /\ TransInv /\ MutexInv /\ FlushInv
  BY DEF Inv
<1> USE <1>0, Numbers
<1>1. /\ mutex <=> job.at \in Holding
      /\ job.at \in {"flush", "update"} => job.tail.tid > tail_seq /\ TailFound(job.tail)
      /\ ktail # NoTail => kpc \in {"record", "wait", "update"} /\ TailFound(ktail)
      /\ job \in JobType /\ mutex \in BOOLEAN /\ tail_seq \in Nat
      /\ NoJob.at = "idle"
  BY DEF MutexInv, Holding, TypeOK, NoJob
<1>2. mutex' <=> job'.at \in Holding
  <2>1. CASE UNCHANGED <<job, mutex>>
    BY <1>1, <2>1
  <2>2. CASE (\E b \in Blocks : Modify(b) \/ WriteBack(b) \/ TryToFree(b)) \/ Replay \/ Reset
    BY <2>1, <2>2 DEF Modify, WriteBack, TryToFree, Replay, Reset, taskVars
  <2>3. CASE CommitStep
    BY <2>1, <2>3, CommitKeeps
  <2>4. CASE FlushTail \/ MoveTail \/ AwaitBuffer \/ Processed \/ WaitCommit
    <3>1. UNCHANGED mutex /\ job.at \in Holding /\ job'.at \in Holding
      BY <1>1, <2>4, TaskMoves DEF Holding
    <3>2. QED
      BY <1>1, <3>1
  <2>5. CASE WaitForSpace \/ JournalFlush \/ ForceCommit \/ FlushReturns
    <3>1. UNCHANGED mutex /\ job.at \notin Holding /\ job'.at \notin Holding
      BY <1>1, <2>5, TaskMoves DEF Holding
    <3>2. QED
      BY <1>1, <3>1
  <2>10. CASE LockCheckpoint \/ DrainList
    <3>1. mutex' = TRUE /\ job'.at \in Holding
      BY <1>1, <2>10, TaskMoves DEF Holding
    <3>2. QED
      BY <3>1
  <2>11. CASE Unlock \/ MarkEmpty
    <3>1. mutex' = FALSE /\ job'.at \notin Holding
      BY <1>1, <2>11, TaskMoves DEF Holding
    <3>2. QED
      BY <3>1
  <2>6. CASE FindTail
    <3>1. UNCHANGED mutex /\ job.at = "find" /\ job'.at \in {"flush", "process", "after", "unlock", "wait", "empty"}
      BY <1>1, <2>6, FindTailGoesOn DEF JobType
    <3>2. QED
      BY <1>1, <3>1 DEF Holding
  <2>7. CASE ProcessBuffer \/ WaitIO
    <3>1. UNCHANGED <<job, mutex>>
      BY <1>1, <2>7, TaskMoves
    <3>2. QED
      BY <2>1, <3>1
  <2>8. CASE Crash
    BY <1>1, <2>8 DEF Crash, Holding
  <2>9. QED
    BY <2>2, <2>3, <2>4, <2>5, <2>6, <2>7, <2>8, <2>10, <2>11 DEF Next, TaskStep
<1>3. (job.at \in {"flush", "update"} => job.tail.tid > tail_seq /\ TailFound(job.tail))'
  <2> SUFFICES ASSUME job'.at \in {"flush", "update"}
               PROVE  (job.tail.tid > tail_seq /\ TailFound(job.tail))'
    OBVIOUS
  <2>1. ASSUME Up, Up', UNCHANGED tail_seq, NEW f \in TailType, f = job'.tail, TailFound(f), f.tid > tail_seq
        PROVE  (job.tail.tid > tail_seq /\ TailFound(job.tail))'
    <3>1. TailFound(f)'
      BY <2>1, FoundKept
    <3>2. QED
      BY <2>1, <3>1 DEF TailFound
  <2>2. ASSUME job.at \in {"flush", "update"}, job'.tail = job.tail, UNCHANGED tail_seq, Up'
        PROVE  (job.tail.tid > tail_seq /\ TailFound(job.tail))'
    <3>1. Up
      BY <1>1, <2>2 DEF FlushInv
    <3>2. PICK f : f = job.tail
      OBVIOUS
    <3>3. f \in TailType /\ TailFound(f) /\ f.tid > tail_seq
      BY <1>1, <2>2, <3>2 DEF TailFound
    <3>4. QED
      BY <2>1, <2>2, <3>1, <3>2, <3>3
  <2>3. CASE (\E b \in Blocks : Modify(b) \/ WriteBack(b) \/ TryToFree(b))
    BY <2>2, <2>3 DEF Modify, WriteBack, TryToFree, taskVars, tailVars, threadVars, Up
  <2>4. CASE CommitStep
    <3>1. job' = job /\ Up'
      BY <2>4, CommitKeeps
      DEF CommitStep, Start, UndoFlush, Switch, WriteLog, ReadTail, CommitRecord, WaitRecord, CommitUpdateTail, Forget, Up
    <3>2. UNCHANGED tail_seq
      <4>1. mutex
        BY <1>1, <3>1 DEF Holding
      <4>2. QED
        BY <2>4, <4>1
        DEF CommitStep, Start, UndoFlush, Switch, WriteLog, ReadTail, CommitRecord, WaitRecord, CommitUpdateTail, Forget, tailVars
    <3>3. QED
      BY <2>2, <3>1, <3>2
  <2>5. CASE FindTail
    <3>1. Up /\ LogTail \in TailType /\ TailFound(LogTail)
      BY <2>5, FindTailGoesOn, LogTailFound
    <3>2. LogTail.tid > tail_seq /\ job'.tail = LogTail
      BY <1>1, <2>5, FindTailGoesOn DEF JobType
    <3>3. UNCHANGED <<tail_seq, kpc>>
      BY <2>5, TaskKeeps DEF FindTail, TaskStep, superVars, tailVars
    <3>4. PICK f : f = LogTail
      OBVIOUS
    <3>5. TailFound(f)
      BY <3>1, <3>4 DEF TailFound
    <3>6. QED
      BY <2>1, <3>1, <3>2, <3>3, <3>4, <3>5 DEF Up
  <2>6. CASE TaskStep /\ ~FindTail
    <3>1. job.at \in {"flush", "update"} /\ job'.tail = job.tail /\ ~MoveTail
      <4>1. CASE FlushTail
        BY <1>1, <4>1, TaskMoves DEF Kept
      <4>2. CASE ProcessBuffer \/ WaitIO
        BY <1>1, <4>2, TaskMoves DEF MoveTail, ProcessBuffer, WaitIO, Processing
      <4>3. CASE MoveTail
        BY <1>1, <4>3, TaskMoves
      <4>4. CASE \/ WaitForSpace \/ LockCheckpoint \/ AwaitBuffer \/ Processed \/ WaitCommit
                 \/ Unlock \/ JournalFlush \/ ForceCommit \/ DrainList \/ MarkEmpty \/ FlushReturns
        BY <1>1, <4>4, TaskMoves
      <4>5. QED
        BY <2>6, <4>1, <4>2, <4>3, <4>4 DEF TaskStep
    <3>2. UNCHANGED <<tail_seq, kpc>>
      BY <2>6, <3>1, TaskKeeps, TaskTail
    <3>3. Up'
      BY <1>1, <3>1, <3>2 DEF FlushInv, Up
    <3>4. QED
      BY <2>2, <3>1, <3>2, <3>3
  <2>7. CASE Crash
    BY <1>1, <2>7 DEF Crash
  <2>8. CASE Replay \/ Reset
    <3>1. job' = job /\ ~Up
      BY <2>8 DEF Replay, Reset, taskVars, Up
    <3>2. QED
      BY <1>1, <3>1 DEF FlushInv
  <2>9. QED
    BY <2>3, <2>4, <2>5, <2>6, <2>7, <2>8 DEF Next
<1>4. (ktail # NoTail => kpc \in {"record", "wait", "update"} /\ TailFound(ktail))'
  <2> SUFFICES ASSUME ktail' # NoTail
               PROVE  (kpc \in {"record", "wait", "update"} /\ TailFound(ktail))'
    BY DEF NoTail
  <2>1. ASSUME Up, kpc' \in {"record", "wait", "update"}, NEW f \in TailType, f = ktail', TailFound(f)
        PROVE  (kpc \in {"record", "wait", "update"} /\ TailFound(ktail))'
    <3>1. Up'
      BY <2>1 DEF Up
    <3>2. TailFound(f)'
      BY <2>1, <3>1, FoundKept
    <3>3. QED
      BY <2>1, <3>2 DEF TailFound
  <2>2. ASSUME UNCHANGED ktail, kpc' \in {"record", "wait", "update"}
        PROVE  (kpc \in {"record", "wait", "update"} /\ TailFound(ktail))'
    <3>1. PICK f : f = ktail
      OBVIOUS
    <3>2. f \in TailType /\ TailFound(f) /\ Up
      BY <1>1, <2>2, <3>1 DEF TailFound, Up
    <3>3. QED
      BY <2>1, <2>2, <3>1, <3>2
  <2>3. CASE UNCHANGED <<ktail, kpc>>
    BY <1>1, <2>2, <2>3
  <2>4. CASE ReadTail
    <3>1. kpc = "tail" /\ kpc' = "record" /\ ktail' = LogTail
      BY <2>4 DEF ReadTail
    <3>2. LogTail \in TailType /\ TailFound(LogTail) /\ Up
      BY <3>1, LogTailFound DEF Up
    <3>3. PICK f : f = LogTail
      OBVIOUS
    <3>4. TailFound(f)
      BY <3>2, <3>3 DEF TailFound
    <3>5. QED
      BY <2>1, <3>1, <3>2, <3>3, <3>4
  <2>5. CASE CommitRecord \/ WaitRecord
    BY <2>2, <2>5 DEF CommitRecord, WaitRecord
  <2>6. CASE Start \/ UndoFlush \/ Switch \/ WriteLog \/ Forget \/ Replay \/ Reset
    <3>1. UNCHANGED ktail /\ kpc \notin {"record", "wait", "update"}
      BY <2>6 DEF Start, UndoFlush, Switch, WriteLog, Forget, Replay, Reset
    <3>2. QED
      BY <1>1, <3>1
  <2>7. CASE CommitUpdateTail \/ Crash
    BY <2>7 DEF CommitUpdateTail, Crash
  <2>8. CASE \E b \in Blocks : Modify(b) \/ WriteBack(b) \/ TryToFree(b)
    BY <2>3, <2>8 DEF Modify, WriteBack, TryToFree, threadVars
  <2>9. CASE TaskStep
    BY <2>3, <2>9, TaskKeeps
  <2>10. QED
    BY <2>4, <2>5, <2>6, <2>7, <2>8, <2>9 DEF Next, CommitStep
<1>5. QED
  BY <1>2, <1>3, <1>4 DEF MutexInv, Holding

\* there stays a way to make room
LEMMA WayStep ==
  ASSUME Inv, Next
  PROVE  WayInv'
<1>0. TypeOK /\ TransInv /\ PosInv /\ MutexInv /\ WayInv /\ FlushInv
  BY DEF Inv
<1> USE <1>0, Numbers
<1> DEFINE Seeks   == job.at = "find" /\ job.purpose = "only" /\ job.awaited = 0
           CanMove == tail_seq <= sequence /\ \A b \in Blocks : cp[b] # 0 => cp[b] > tail_seq
<1>1. job \in JobType /\ job.at # "abort" /\ (Seeks => CanMove) /\ NoJob.at = "idle"
  BY DEF WayInv, TypeOK, NoJob
<1>2. ASSUME UNCHANGED <<job, tail_seq, sequence>>, \A b \in Blocks : cp'[b] \in {0, cp[b]}
      PROVE  WayInv'
  BY <1>1, <1>2 DEF WayInv
<1>3. ASSUME job'.at \notin {"find", "abort"} PROVE WayInv'
  BY <1>3 DEF WayInv
<1>4. CASE \E b \in Blocks : Modify(b) \/ WriteBack(b) \/ TryToFree(b)
  <2>1. UNCHANGED <<job, tail_seq, sequence>>
    BY <1>4 DEF Modify, WriteBack, TryToFree, taskVars, tailVars, transVars
  <2>2. \A c \in Blocks : cp'[c] \in {0, cp[c]}
    BY <1>4 DEF Modify, WriteBack, TryToFree
  <2>3. QED
    BY <1>2, <2>1, <2>2
<1>5. CASE CommitStep
  <2>1. UNCHANGED job
    BY <1>5, CommitKeeps
  <2>2. CASE ~Seeks
    BY <1>1, <2>1, <2>2 DEF WayInv
  <2>3. CASE Seeks /\ Forget
    <3>1. /\ kpc = "forget" /\ sequence' = committing.tid /\ UNCHANGED tail_seq
          /\ cp' = [b \in Blocks |-> IF b \in committing.blocks THEN committing.tid ELSE cp[b]]
      BY <2>3 DEF Forget, tailVars
    <3>2. committing.tid = sequence + 1
      BY <3>1 DEF TransInv, Committing
    <3>3. tail_seq <= sequence'
      BY <1>1, <2>3, <3>1, <3>2
    <3>4. \A b \in Blocks : cp'[b] # 0 => cp'[b] > tail_seq
      BY <1>1, <2>3, <3>1, <3>2
    <3>5. QED
      BY <1>1, <2>1, <3>1, <3>3, <3>4 DEF WayInv
  <2>4. CASE Seeks /\ ~Forget
    <3>1. mutex
      BY <2>4 DEF MutexInv
    <3>2. UNCHANGED <<tail_seq, sequence, cp>>
      BY <1>5, <2>4, <3>1
      DEF CommitStep, Start, UndoFlush, Switch, WriteLog, ReadTail, CommitRecord, WaitRecord, CommitUpdateTail,
          tailVars, transVars, bufferVars
    <3>3. QED
      BY <1>2, <2>1, <3>2
  <2>5. QED
    BY <2>2, <2>3, <2>4
<1>6. CASE LockCheckpoint
  <2>1. CASE job'.at = "unlock"
    BY <1>3, <2>1
  <2>2. CASE /\ job.at = "lock" /\ job'.at = "find" /\ ~(SpaceLeft >= SpaceNeeded) /\ job'.awaited = committing.tid
             /\ job'.purpose = IF CheckpointTransaction # 0 THEN "before" ELSE "only"
    <3> SUFFICES ASSUME job'.purpose = "only", job'.awaited = 0
                 PROVE  tail_seq <= sequence /\ \A b \in Blocks : cp[b] = 0
      <4>1. UNCHANGED <<tail_seq, sequence, cp>>
        BY <1>6, TaskKeeps DEF LockCheckpoint, TaskStep, superVars, tailVars, listVars
      <4>2. QED
        BY <1>1, <2>2, <4>1 DEF WayInv
    <3>1. \A b \in Blocks : cp[b] = 0
      BY <2>2, CheckpointTransactionOK
    <3>2. Up
      BY <1>1, <2>2 DEF FlushInv
    <3>3. committing.tid = 0 /\ kpc # "log" /\ LastSwitched = sequence
      BY <2>2 DEF TransInv, Committing, LastSwitched
    <3>4. ~(SpaceLeft >= MaxBuffers)
      BY <2>2, <3>3, Sizes DEF SpaceNeeded
    <3>5. free # LogBlocks
      BY <3>4, SpaceLeftBounds
    <3>6. tail # head
      <4>1. Dist(tail, head) = LogBlocks - free
        BY <3>2 DEF PosInv, LogFrom
      <4>2. Dist(tail, head) # 0
        BY <3>5, <4>1, Sizes
      <4>3. QED
        BY <4>2, DistIsFreed
    <3>7. tail_seq <= sequence
      BY <3>2, <3>3, <3>6 DEF PosInv, LogFrom
    <3>8. QED
      BY <3>1, <3>7
  <2>3. QED
    BY <1>1, <1>6, <2>1, <2>2, TaskMoves
<1>7. CASE FindTail
  <2>1. job'.at \in {"flush", "process", "after", "unlock", "wait", "empty"}
    BY <1>1, <1>7, FindTailGoesOn DEF JobType
  <2>2. QED
    BY <1>3, <2>1
<1>8. CASE Processed \/ DrainList
  <2>1. job'.at = "find" /\ job'.purpose # "only"
    BY <1>1, <1>8, TaskMoves
  <2>2. QED
    BY <2>1 DEF WayInv
<1>9. CASE \/ WaitForSpace \/ FlushTail \/ MoveTail \/ AwaitBuffer \/ WaitCommit \/ Unlock \/ JournalFlush
           \/ ForceCommit \/ MarkEmpty \/ FlushReturns
  <2>1. job'.at \notin {"find", "abort"}
    BY <1>1, <1>9, TaskMoves
  <2>2. QED
    BY <1>3, <2>1
<1>10. CASE ProcessBuffer \/ WaitIO
  <2>1. job' = job /\ job.at = "process"
    BY <1>1, <1>10, TaskMoves DEF ProcessBuffer, WaitIO, Processing
  <2>2. QED
    BY <1>3, <2>1
<1>11. CASE Crash
  BY <1>1, <1>3, <1>11 DEF Crash
<1>12. CASE Replay \/ Reset
  <2>1. job' = job /\ ~Up
    BY <1>12 DEF Replay, Reset, taskVars, Up
  <2>2. job'.at = "idle"
    BY <1>1, <2>1 DEF FlushInv
  <2>3. QED
    BY <1>3, <2>2
<1>13. QED
  BY <1>4, <1>5, <1>6, <1>7, <1>8, <1>9, <1>10, <1>11, <1>12 DEF Next, TaskStep

\* the conditions of FlushInv that speak of more than job
LEMMA FlushNeeds ==
  ASSUME FlushInv, TransInv, TypeOK, job.purpose = "final"
  PROVE  /\ job.flush /\ job.at \notin {"force", "idle"} /\ Up /\ kpc = "idle"
         /\ running.tid = 0 /\ committing.tid = 0 /\ next_tid = LastSwitched + 1
         /\ CheckpointTransaction = 0 /\ LogTail = [tid |-> next_tid, block |-> head]
<1>1. NoJob.purpose = "none"
  BY DEF NoJob
<1>2. job.flush /\ job.at \notin {"force", "idle"} /\ Up
  BY <1>1 DEF FlushInv
<1>3. running.tid = 0 /\ kpc = "idle"
  BY <1>2 DEF FlushInv
<1>4. committing.tid = 0 /\ next_tid = LastSwitched + 1
  BY <1>2, <1>3 DEF TransInv, Committing
<1>5. CheckpointTransaction = 0
  <2>1. \A b \in Blocks : cp[b] = 0
    BY DEF FlushInv
  <2>2. 0 \notin Trans
    BY Numbers
  <2>3. QED
    BY <2>1, <2>2, Numbers, CheckpointTransactionOK
<1>6. LogTail = [tid |-> next_tid, block |-> head]
  BY <1>3, <1>4, <1>5 DEF LogTail
<1>7. QED
  BY <1>2, <1>3, <1>4, <1>5, <1>6

LEMMA FlushStep ==
  ASSUME Inv, Next
  PROVE  FlushInv'
<1>0. TypeOK /\ TransInv /\ PosInv /\ MutexInv /\ FlushInv
  BY DEF Inv
<1> USE <1>0, Numbers
<1>1. /\ job \in JobType /\ NoJob.at = "idle" /\ NoJob.purpose = "none" /\ NoJob.flush = FALSE
      /\ job.flush \in BOOLEAN
  BY DEF TypeOK, NoJob, JobType
<1>2. ASSUME job' = NoJob PROVE FlushInv'
  BY <1>1, <1>2 DEF FlushInv
<1>3. ASSUME UNCHANGED <<job, running, committing, kpc, next_tid, head, tail, tail_seq>>,
             \A b \in Blocks : cp'[b] \in {0, cp[b]}
      PROVE  FlushInv'
  <2>1. UNCHANGED Up
    BY <1>3 DEF Up
  <2>2. job.purpose = "final" => \A b \in Blocks : cp'[b] = 0
    BY <1>3 DEF FlushInv
  <2>3. QED
    BY <1>3, <2>1, <2>2 DEF FlushInv
<1>4. ASSUME NEW b \in Blocks, Modify(b) PROVE FlushInv'
  <2>1. /\ UNCHANGED <<job, kpc, cp>> /\ ~job.flush
    BY <1>4 DEF Modify, taskVars, threadVars
  <2>2. job.purpose # "final" /\ job.at \notin {"drain", "force", "empty", "emptied"} /\ UNCHANGED Up
    BY <2>1 DEF FlushInv, Up
  <2>3. QED
    BY <2>1, <2>2 DEF FlushInv
<1>5. CASE \E b \in Blocks : WriteBack(b)
  BY <1>3, <1>5 DEF WriteBack, taskVars, threadVars, transVars, tailVars
<1>6. ASSUME NEW b \in Blocks, TryToFree(b) PROVE FlushInv'
  <2>1. \A c \in Blocks : cp'[c] \in {0, cp[c]}
    BY <1>6 DEF TryToFree
  <2>2. QED
    BY <1>3, <1>6, <2>1 DEF TryToFree, taskVars, threadVars, transVars, tailVars
<1>7. CASE CommitStep
  <2>1. UNCHANGED job
    BY <1>7, CommitKeeps
  <2>2. kpc # "idle" \/ running.tid # 0
    BY <1>7
    DEF CommitStep, Start, UndoFlush, Switch, WriteLog, ReadTail, CommitRecord, WaitRecord, CommitUpdateTail, Forget
  <2>3. Up /\ Up'
    BY <1>7
    DEF CommitStep, Start, UndoFlush, Switch, WriteLog, ReadTail, CommitRecord, WaitRecord, CommitUpdateTail, Forget, Up
  <2>4. job.flush => job.at = "force"
    BY <2>2 DEF FlushInv
  <2>5. job.purpose # "final"
    BY <2>2, FlushNeeds
  <2>6. job.at \notin {"drain", "empty", "emptied"}
    BY <2>4 DEF FlushInv
  <2>7. ASSUME job.at = "force"
        PROVE  (/\ running.tid # 0 => job.awaited = running.tid
                /\ running.tid = 0 /\ committing.tid # 0 => job.awaited = committing.tid)'
    <3>1. /\ running.tid # 0 => job.awaited = running.tid
          /\ running.tid = 0 /\ committing.tid # 0 => job.awaited = committing.tid
      BY <2>7 DEF FlushInv
    <3>2. CASE UNCHANGED <<running, committing>>
      BY <2>1, <3>1, <3>2
    <3>3. CASE Switch
      <4>1. running.tid # 0 /\ committing' = running /\ running'.tid = 0
        BY <3>3 DEF Switch, TransInv, NoTrans
      <4>2. QED
        BY <2>1, <3>1, <4>1
    <3>4. CASE Forget
      <4>1. UNCHANGED running /\ committing'.tid = 0
        BY <3>4 DEF Forget, NoTrans
      <4>2. QED
        BY <2>1, <3>1, <4>1
    <3>5. QED
      BY <1>7, <3>2, <3>3, <3>4
      DEF CommitStep, Start, UndoFlush, WriteLog, ReadTail, CommitRecord, WaitRecord, CommitUpdateTail, transVars
  <2>8. QED
    BY <1>1, <2>1, <2>3, <2>4, <2>5, <2>6, <2>7 DEF FlushInv
<1>8. CASE TaskStep
  <2>1. UNCHANGED <<running, committing, kpc, next_tid, head, sequence>> /\ UNCHANGED Up
    BY <1>8, TaskKeeps DEF Up
  <2>2. \A b \in Blocks : cp'[b] \in {0, cp[b]}
    BY <1>8, TaskLists DEF TypeOK
  <2>3. job.at # "idle" => Up
    BY <1>1 DEF FlushInv
  <2>4. CASE WaitForSpace
    BY <1>1, <2>1, <2>4, TaskMoves DEF FlushInv, Kept
  <2>5. CASE LockCheckpoint
    BY <1>1, <2>1, <2>3, <2>5, TaskMoves DEF FlushInv
  <2>6. CASE FindTail
    <3>1. job.at = "find" /\ Up
      BY <2>6, FindTailGoesOn
    <3>2. UNCHANGED <<cp, tail, tail_seq>>
      BY <2>6 DEF FindTail, superVars, tailVars, listVars
    <3>3. CASE LogTail.tid > tail_seq /\ job' = [job EXCEPT !.at = "flush", !.tail = LogTail]
      <4>1. job'.at = "flush" /\ job'.tail = LogTail /\ job'.purpose = job.purpose /\ job'.flush = job.flush
        BY <1>1, <3>3 DEF JobType
      <4>2. job.purpose = "final" => LogTail = [tid |-> next_tid, block |-> head]
        BY FlushNeeds
      <4>3. QED
        BY <2>1, <3>1, <3>2, <4>1, <4>2 DEF FlushInv
    <3>4. ASSUME LogTail.tid <= tail_seq, NEW p \in {"process", "after", "unlock", "wait", "empty"},
                 job' = [job EXCEPT !.at = p, !.target = CheckpointTransaction],
                 p = "empty" <=> job.purpose = "final"
          PROVE  FlushInv'
      <4>1. job'.at = p /\ job'.tail = job.tail /\ job'.purpose = job.purpose /\ job'.flush = job.flush
        BY <1>1, <3>4 DEF JobType
      <4>2. job.purpose = "final" => tail_seq = next_tid /\ head = tail
        <5> SUFFICES ASSUME job.purpose = "final" PROVE tail_seq = next_tid /\ head = tail
          OBVIOUS
        <5>1. next_tid = LastSwitched + 1 /\ next_tid <= tail_seq
          BY <3>4, FlushNeeds
        <5>2. tail_seq <= LastSwitched \/ (tail_seq = LastSwitched + 1 /\ tail = head)
          BY <3>1 DEF PosInv, LogFrom
        <5>3. QED
          BY <5>1, <5>2
      <4>3. QED
        BY <2>1, <3>1, <3>2, <3>4, <4>1, <4>2 DEF FlushInv
    <3>5. QED
      BY <2>6, <3>3, <3>4, FindTailGoesOn
  <2>7. CASE FlushTail
    <3>1. UNCHANGED <<cp, tail, tail_seq>>
      BY <2>7 DEF FlushTail, tailVars, listVars
    <3>2. QED
      BY <1>1, <2>1, <2>3, <2>7, <3>1, TaskMoves DEF FlushInv, Kept
  <2>8. CASE MoveTail
    <3>1. UNCHANGED cp /\ tail' = job.tail.block /\ tail_seq' = job.tail.tid
      BY <2>8 DEF MoveTail, UpdateLogTail, listVars
    <3>2. job.purpose = "final" => tail_seq' = next_tid /\ tail' = head
      BY <1>1, <2>8, <3>1, TaskMoves DEF FlushInv
    <3>3. QED
      BY <1>1, <2>1, <2>3, <2>8, <3>1, <3>2, TaskMoves DEF FlushInv
  <2>9. CASE AwaitBuffer \/ Processed \/ WaitCommit
    <3>1. UNCHANGED cp
      BY <2>9 DEF AwaitBuffer, Processed, WaitCommit, GoTo, listVars
    <3>2. QED
      BY <1>1, <2>1, <2>3, <2>9, <3>1, TaskMoves DEF FlushInv, Kept
  <2>10. CASE Unlock
    <3>1. job.at = "unlock" /\ job'.purpose = "none" /\ job'.flush = job.flush
      BY <1>1, <2>10, TaskMoves
    <3>2. CASE job'.at = "idle" /\ job' = NoJob
      BY <1>2, <3>2
    <3>3. CASE job'.at = "drain" /\ job.flush
      BY <1>1, <2>1, <2>3, <3>1, <3>3 DEF FlushInv
    <3>4. QED
      BY <1>1, <2>10, <3>2, <3>3, TaskMoves
  <2>11. CASE JournalFlush
    <3>1. job = NoJob /\ Up
      BY <1>1, <2>11, TaskMoves DEF FlushInv
    <3>2. job'.at = "force" /\ job'.flush = TRUE /\ job'.purpose = "none"
          /\ job'.awaited = IF running.tid # 0 THEN running.tid ELSE committing.tid
      BY <1>1, <2>11, <3>1, TaskMoves
    <3>3. QED
      BY <2>1, <3>1, <3>2 DEF FlushInv
  <2>12. CASE ForceCommit
    <3>1. /\ job.at = "force" /\ sequence >= job.awaited /\ job'.at = "drain" /\ job.purpose = "none" /\ job.flush
          /\ job'.purpose = job.purpose /\ job'.flush = job.flush
      BY <1>1, <2>12, TaskMoves DEF FlushInv, Kept
    <3>2. running.tid = 0
      <4> SUFFICES ASSUME running.tid # 0 PROVE FALSE
        OBVIOUS
      <4>1. job.awaited = running.tid /\ running.tid = LastSwitched + 1
        BY <3>1 DEF FlushInv, TransInv
      <4>2. LastSwitched >= sequence
        BY DEF LastSwitched, TransInv
      <4>3. QED
        BY <3>1, <4>1, <4>2
    <3>3. committing.tid = 0
      <4> SUFFICES ASSUME committing.tid # 0 PROVE FALSE
        OBVIOUS
      <4>1. job.awaited = committing.tid /\ committing.tid = sequence + 1
        BY <3>1, <3>2 DEF FlushInv, TransInv
      <4>2. QED
        BY <3>1, <4>1
    <3>4. kpc = "idle"
      <4>1. kpc \in Phases /\ Up
        BY <2>3, <3>1 DEF TypeOK
      <4>2. kpc \notin Committing /\ kpc \notin {"flushed", "switch"}
        BY <3>2, <3>3 DEF TransInv
      <4>3. QED
        BY <4>1, <4>2 DEF Phases, Committing, Up
    <3>5. QED
      BY <1>1, <2>1, <2>3, <3>1, <3>2, <3>4 DEF FlushInv
  <2>13. CASE DrainList
    <3>1. /\ job.at = "drain" /\ job'.at = "find" /\ job'.flush = job.flush
          /\ job'.purpose = IF CheckpointTransaction # 0 THEN "before" ELSE "final"
      BY <1>1, <2>13, TaskMoves
    <3>2. job.flush /\ running.tid = 0 /\ kpc = "idle"
      BY <3>1 DEF FlushInv
    <3>3. job'.purpose = "final" => \A b \in Blocks : cp'[b] = 0
      BY <3>1, <2>2, CheckpointTransactionOK
    <3>4. QED
      BY <1>1, <2>1, <2>3, <3>1, <3>2, <3>3 DEF FlushInv
  <2>14. CASE MarkEmpty
    <3>1. UNCHANGED <<cp, tail, tail_seq>>
      BY <2>14 DEF MarkEmpty, listVars, tailVars
    <3>2. QED
      BY <1>1, <2>1, <2>3, <2>14, <3>1, TaskMoves DEF FlushInv, Kept
  <2>15. CASE FlushReturns
    BY <1>1, <1>2, <2>15, TaskMoves
  <2>16. CASE ProcessBuffer \/ WaitIO
    <3>1. UNCHANGED <<job, tail, tail_seq>>
      BY <2>16 DEF ProcessBuffer, WaitIO, superVars, tailVars
    <3>2. QED
      BY <1>3, <2>1, <2>2, <3>1
  <2>17. QED
    BY <1>8, <2>4, <2>5, <2>6, <2>7, <2>8, <2>9, <2>10, <2>11, <2>12, <2>13, <2>14, <2>15, <2>16 DEF TaskStep
<1>9. CASE Crash
  BY <1>2, <1>9 DEF Crash
<1>10. CASE Replay \/ Reset
  <2>1. job' = job /\ ~Up
    BY <1>10 DEF Replay, Reset, taskVars, Up
  <2>2. QED
    BY <1>2, <2>1 DEF FlushInv
<1>11. QED
  BY <1>4, <1>5, <1>6, <1>7, <1>8, <1>9, <1>10 DEF Next

-----------------------------------------------------------------------------
(* The types of the rest                                                    *)

\* the transactions and the buffers
LEMMA TransTyped ==
  ASSUME TypeOK, TransInv, Next
  PROVE  /\ wrote' \in [Trans -> SUBSET Blocks] /\ acked' \in Nat /\ mem' \in [Blocks -> 0..MaxTrans]
         /\ running' \in TransType /\ committing' \in TransType /\ next_tid' \in Nat /\ sequence' \in Nat
         /\ log_start' \in [Trans -> Log \cup {0}]
         /\ cp' \in [Blocks -> 0..MaxTrans] /\ io' \in SUBSET Blocks /\ dirty' \in SUBSET Blocks
<1> USE Numbers
<1> DEFINE Goal == /\ wrote' \in [Trans -> SUBSET Blocks] /\ acked' \in Nat /\ mem' \in [Blocks -> 0..MaxTrans]
                   /\ running' \in TransType /\ committing' \in TransType /\ next_tid' \in Nat /\ sequence' \in Nat
                   /\ log_start' \in [Trans -> Log \cup {0}]
                   /\ cp' \in [Blocks -> 0..MaxTrans] /\ io' \in SUBSET Blocks /\ dirty' \in SUBSET Blocks
<1>1. /\ wrote \in [Trans -> SUBSET Blocks] /\ acked \in Nat /\ mem \in [Blocks -> 0..MaxTrans]
      /\ running \in TransType /\ committing \in TransType
      /\ log_start \in [Trans -> Log \cup {0}] /\ io \in SUBSET Blocks /\ dirty \in SUBSET Blocks
      /\ cp \in [Blocks -> 0..MaxTrans]
      /\ NoTrans \in TransType
  BY DEF TypeOK, TransType, NoTrans
<1>2. ASSUME NEW b \in Blocks, Modify(b) PROVE Goal
  <2> DEFINE t == IF running.tid = 0 THEN next_tid ELSE running.tid
             r == [tid |-> t, blocks |-> running.blocks \cup {b}]
  <2>1. /\ running.tid # 0 \/ next_tid <= MaxTrans
        /\ running' = r /\ next_tid' = IF running.tid = 0 THEN next_tid + 1 ELSE next_tid
        /\ mem' = [mem EXCEPT ![b] = running'.tid]
        /\ wrote' = [wrote EXCEPT ![running'.tid] = @ \cup {b}]
        /\ dirty' = dirty \ {b}
        /\ UNCHANGED <<acked, committing, sequence, log_start, cp, io>>
    BY <1>2 DEF Modify
  <2>2. t \in 0..MaxTrans
    BY <2>1
  <2>3. running'.tid = t /\ running' \in TransType
    BY <2>1, <2>2 DEF TransType
  <2> HIDE DEF t
  <2>4. mem' \in [Blocks -> 0..MaxTrans] /\ wrote' \in [Trans -> SUBSET Blocks]
    BY <1>1, <2>1, <2>2, <2>3
  <2>5. next_tid' \in Nat /\ dirty' \in SUBSET Blocks
    BY <1>1, <2>1
  <2>6. UNCHANGED <<acked, committing, sequence, log_start, cp, io>>
    BY <2>1
  <2>7. QED
    BY <1>1, <2>3, <2>4, <2>5, <2>6
<1>3. CASE \E b \in Blocks : WriteBack(b)
  BY <1>1, <1>3 DEF WriteBack, historyVars, transVars
<1>4. ASSUME NEW b \in Blocks, TryToFree(b) PROVE Goal
  BY <1>1, <1>4 DEF TryToFree, historyVars, transVars
<1>5. CASE Start \/ UndoFlush \/ WriteLog \/ ReadTail \/ CommitRecord \/ CommitUpdateTail
  BY <1>1, <1>5 DEF Start, UndoFlush, WriteLog, ReadTail, CommitRecord, CommitUpdateTail, historyVars, transVars, bufferVars
<1>6. CASE Switch
  <2>1. log_start' = [log_start EXCEPT ![running.tid] = head] /\ head \in Log \cup {0}
    BY <1>6 DEF Switch
  <2>2. log_start' \in [Trans -> Log \cup {0}]
    BY <1>1, <2>1
  <2>3. QED
    BY <1>1, <1>6, <2>2 DEF Switch, historyVars, bufferVars
<1>7. CASE WaitRecord
  BY <1>1, <1>7 DEF WaitRecord, transVars, bufferVars
<1>8. CASE Forget
  BY <1>1, <1>8 DEF Forget, historyVars
<1>9. CASE TaskStep
  BY <1>1, <1>9, TaskKeeps, TaskLists
<1>10. CASE Crash
  BY <1>1, <1>10 DEF Crash, historyVars
<1>11. CASE Replay
  <2>1. Found.tid \in Nat /\ Found.fs \in [Blocks -> 0..MaxTrans]
    BY FoundTyped DEF TypeOK, DiskTypeOK
  <2>2. wrote' \in [Trans -> SUBSET Blocks]
    BY <1>1, <1>11 DEF Replay
  <2>3. acked' \in Nat
    <3> DEFINE S == {0} \cup {t \in Trans : wrote'[t] # {}}
    <3>1. S \in SUBSET (0..MaxTrans) /\ S # {}
      OBVIOUS
    <3>2. acked' = Max(S)
      BY <1>11 DEF Replay
    <3> HIDE DEF S
    <3>3. Max(S) \in S
      BY <3>1, MaxIsIn
    <3>4. Max(S) \in 0..MaxTrans
      BY <3>1, <3>3
    <3>5. QED
      BY <3>2, <3>4
  <2>4. mem' \in [Blocks -> 0..MaxTrans] /\ next_tid' \in Nat
    BY <1>11, <2>1 DEF Replay
  <2>5. UNCHANGED <<running, committing, sequence, log_start, cp, io, dirty>>
    BY <1>11 DEF Replay
  <2>6. QED
    BY <1>1, <2>2, <2>3, <2>4, <2>5
<1>12. CASE Reset
  <2>1. next_tid # 0
    BY <1>12 DEF Reset, TransInv
  <2>2. sequence' \in Nat
    BY <1>12, <2>1 DEF Reset
  <2>3. QED
    BY <1>1, <1>12, <2>2 DEF Reset, historyVars, bufferVars
<1>13. QED
  BY <1>2, <1>3, <1>4, <1>5, <1>6, <1>7, <1>8, <1>9, <1>10, <1>11, <1>12 DEF Next, CommitStep

\* the log and where the commit function is
LEMMA LogTyped ==
  ASSUME Inv, Next
  PROVE  /\ head' \in Log /\ tail' \in Log /\ free' \in 0..LogBlocks /\ tail_seq' \in Nat
         /\ kpc' \in Phases /\ ktail' \in TailType /\ flushed' \in BOOLEAN
<1>0. TypeOK /\ TransInv /\ PosInv /\ MutexInv /\ RoomInv /\ FlushInv
  BY DEF Inv
<1> USE <1>0, Numbers
<1>1. kpc \in Phases /\ flushed \in BOOLEAN /\ NoTail \in TailType
  BY DEF TypeOK, NoTail, TailType
<1>2. ASSUME NEW f \in TailType, Up, TailFound(f), f.tid > tail_seq, UpdateLogTail(f)
      PROVE  tail' \in Log /\ free' \in 0..LogBlocks /\ tail_seq' \in Nat /\ flushed' \in BOOLEAN
  <2>1. f.block \in Log /\ LogFrom(f.block, f.tid, free + Freed(f))
    BY <1>2, TailMoves DEF PosInv
  <2>2. free + Freed(f) \in 1..LogBlocks
    BY <2>1 DEF LogFrom
  <2>3. tail' = f.block /\ tail_seq' = f.tid /\ free' = free + Freed(f) /\ flushed' = FALSE
    BY <1>2 DEF UpdateLogTail
  <2>4. f.tid \in Nat /\ free + Freed(f) \in 0..LogBlocks
    BY <2>2 DEF TailType
  <2>5. QED
    BY <2>1, <2>3, <2>4
<1>3. tail' \in Log /\ free' \in 0..LogBlocks /\ tail_seq' \in Nat /\ flushed' \in BOOLEAN
  <2>1. CASE UNCHANGED <<tail, free, tail_seq>> /\ flushed' \in BOOLEAN
    BY <2>1
  <2>2. CASE CommitUpdateTail
    <3>1. CASE UNCHANGED <<diskVars, tailVars, flushed>>
      BY <1>1, <2>1, <3>1 DEF tailVars
    <3>2. CASE ktail.tid > tail_seq /\ UpdateLogTail(ktail)
      <4>1. PICK f : f = ktail
        OBVIOUS
      <4>2. f \in TailType /\ TailFound(f) /\ Up
        BY <2>2, <3>2, <4>1 DEF MutexInv, TailFound, NoTail, CommitUpdateTail, Up
      <4>3. QED
        BY <1>2, <3>2, <4>1, <4>2
    <3>3. QED
      BY <2>2, <3>1, <3>2 DEF CommitUpdateTail
  <2>3. CASE MoveTail
    <3>1. PICK f : f = job.tail
      OBVIOUS
    <3>2. f \in TailType /\ TailFound(f) /\ f.tid > tail_seq /\ UpdateLogTail(f)
      BY <2>3, <3>1 DEF MoveTail, MutexInv, TailFound
    <3>3. Up
      BY <2>3 DEF MoveTail, FlushInv, NoJob
    <3>4. QED
      BY <1>2, <3>2, <3>3
  <2>4. CASE WriteLog \/ WaitRecord
    <3>1. UNCHANGED <<tail, tail_seq, flushed>>
      BY <2>4 DEF WriteLog, WaitRecord
    <3>2. Up'
      BY <2>4 DEF WriteLog, WaitRecord, Up
    <3>3. free' \in 1..LogBlocks
      BY <3>2, PosStep DEF PosInv, LogFrom
    <3>4. QED
      BY <1>1, <3>1, <3>3
  <2>5. CASE Reset
    <3>1. tail' = 1 /\ free' = LogBlocks /\ tail_seq' = next_tid
      BY <2>5 DEF Reset
    <3>2. flushed' \in BOOLEAN
      BY <2>5 DEF Reset
    <3>3. 1 \in Log /\ LogBlocks \in 0..LogBlocks
      BY Sizes DEF Log
    <3>4. QED
      BY <3>1, <3>2, <3>3
  <2>6. CASE (\E b \in Blocks : Modify(b) \/ WriteBack(b) \/ TryToFree(b)) \/ Crash \/ Replay
    BY <1>1, <2>1, <2>6 DEF Modify, WriteBack, TryToFree, Crash, Replay, tailVars
  <2>7. CASE Start \/ UndoFlush \/ Switch \/ ReadTail \/ CommitRecord \/ Forget
    BY <1>1, <2>1, <2>7 DEF Start, UndoFlush, Switch, ReadTail, CommitRecord, Forget, tailVars
  <2>8. CASE TaskStep /\ ~MoveTail
    <3>1. UNCHANGED <<tail, free, tail_seq>>
      BY <2>8, TaskTail
    <3>2. flushed' \in BOOLEAN
      BY <1>1, <2>8
      DEF TaskStep, WaitForSpace, LockCheckpoint, FindTail, FlushTail, AwaitBuffer, ProcessBuffer, WaitIO, Processed,
          WaitCommit, Unlock, JournalFlush, ForceCommit, DrainList, MarkEmpty, FlushReturns, GoTo, superVars
    <3>3. QED
      BY <2>1, <3>1, <3>2
  <2>9. QED
    BY <2>2, <2>3, <2>4, <2>5, <2>6, <2>7, <2>8 DEF Next, CommitStep
<1>4. head' \in Log
  <2>1. CASE WriteLog \/ WaitRecord
    <3>1. PICK n : n \in Nat /\ n > 0 /\ head' = ((head + n - 1) % LogBlocks) + 1
      <4>1. CASE WriteLog
        <5>1. PICK n : n = Len(SetToSeq(committing.blocks)) + 1
          OBVIOUS
        <5>2. n \in Nat /\ n > 0
          BY <5>1, BlocksInOrder
        <5>3. Allocate(n)
          BY <4>1, <5>1 DEF WriteLog
        <5>4. QED
          BY <5>2, <5>3 DEF Allocate
      <4>2. CASE WaitRecord
        <5>1. PICK n : n = 1
          OBVIOUS
        <5>2. Allocate(n)
          BY <4>2, <5>1 DEF WaitRecord
        <5>3. n \in Nat /\ n > 0
          BY <5>1
        <5>4. head' = ((head + n - 1) % LogBlocks) + 1
          BY <5>2 DEF Allocate
        <5>5. QED
          BY <5>3, <5>4
      <4>3. QED
        BY <2>1, <4>1, <4>2
    <3>2. head' = After1(head, n)
      BY <3>1 DEF After1
    <3>3. QED
      BY <3>1, <3>2, AfterIsInLog
  <2>2. CASE Reset
    BY <2>2, Sizes DEF Reset, Log
  <2>3. CASE TaskStep
    BY <2>3, TaskKeeps
  <2>4. CASE UNCHANGED head
    BY <2>4
  <2>5. QED
    BY <2>1, <2>2, <2>3, <2>4
    DEF Next, Modify, WriteBack, TryToFree, CommitStep, Start, UndoFlush, Switch, ReadTail, CommitRecord, CommitUpdateTail,
        Forget, Crash, Replay
<1>5. kpc' \in Phases
  <2>1. CASE TaskStep
    BY <1>1, <2>1, TaskKeeps
  <2>2. CASE CommitStep
    BY <1>1, <2>2
    DEF CommitStep, Start, UndoFlush, Switch, WriteLog, ReadTail, CommitRecord, WaitRecord, CommitUpdateTail, Forget, Phases
  <2>3. QED
    BY <1>1, <2>1, <2>2 DEF Next, Modify, WriteBack, TryToFree, Crash, Replay, Reset, threadVars, Phases
<1>6. ktail' \in TailType
  <2>1. CASE ReadTail
    BY <1>1, <2>1, LogTailFound DEF ReadTail, Up
  <2>2. CASE TaskStep
    BY <2>2, TaskKeeps
  <2>3. QED
    BY <1>1, <2>1, <2>2
    DEF Next, Modify, WriteBack, TryToFree, CommitStep, Start, UndoFlush, Switch, WriteLog, CommitRecord, WaitRecord,
        CommitUpdateTail, Forget, Crash, Replay, Reset, threadVars
<1>7. QED
  BY <1>3, <1>4, <1>5, <1>6

LEMMA TypeStep ==
  ASSUME Inv, Next
  PROVE  TypeOK'
<1>1. TypeOK /\ TransInv
  BY DEF Inv
<1>2. DiskTypeOK'
  BY <1>1, DiskStep
<1>3. /\ disk' \in DiskType /\ cache' \in CacheType
  BY <1>2 DEF DiskTypeOK, DiskType, CacheType
<1>4. QED
  BY <1>1, <1>2, TransTyped, LogTyped, JobStep DEF TypeOK, DiskTypeOK

-----------------------------------------------------------------------------
(* Results                                                                  *)

LEMMA InvInit == Init => Inv
<1> SUFFICES ASSUME Init PROVE Inv
  OBVIOUS
<1> USE DEF Init
<1>1. /\ LogBlocks \in Nat /\ LogBlocks > 0 /\ 1 \in Log /\ MaxTrans \in Nat /\ 0 \in 0..MaxTrans
      /\ MaxBuffers \in Nat /\ Cardinality({}) = 0 /\ NoWrites \in CacheType
  BY Sizes, FS_EmptySet, NoWritesTyped DEF Log
<1>2. NoTrans \in TransType /\ NoTail \in TailType /\ NoTrans.tid = 0 /\ NoTrans.blocks = {}
  BY <1>1 DEF NoTrans, TransType, NoTail, TailType
<1>3. NoJob \in JobType /\ NoJob.at = "idle" /\ NoJob.purpose = "none" /\ NoJob.flush = FALSE
  BY <1>1, <1>2 DEF NoJob, JobType, Places
<1>4. Empty \in Entry
  BY <1>1 DEF Empty, Entry
<1>5. [start |-> 0, seq |-> 1] \in Super
  BY DEF Super
<1>6. disk \in DiskType
  BY <1>1, <1>4, <1>5 DEF DiskType
<1>7. TypeOK
  <2>1. /\ wrote \in [Trans -> SUBSET Blocks] /\ acked \in Nat /\ mem \in [Blocks -> 0..MaxTrans]
        /\ running \in TransType /\ committing \in TransType /\ next_tid \in Nat /\ sequence \in Nat
        /\ log_start \in [Trans -> Log \cup {0}]
        /\ cp \in [Blocks -> 0..MaxTrans] /\ io \in SUBSET Blocks /\ dirty \in SUBSET Blocks
    BY <1>1, <1>2
  <2>2. /\ head \in Log /\ tail \in Log /\ free \in 0..LogBlocks /\ tail_seq \in Nat
        /\ kpc \in Phases /\ ktail \in TailType /\ flushed \in BOOLEAN
    BY <1>1, <1>2 DEF Phases
  <2>3. job \in JobType /\ mutex \in BOOLEAN /\ cache \in CacheType
    BY <1>1, <1>3
  <2>4. QED
    BY <1>6, <2>1, <2>2, <2>3 DEF TypeOK
<1>8. LastSwitched = 1 /\ Up /\ committing.tid = 0
  BY <1>2 DEF LastSwitched, Up
<1>9. TransInv
  BY <1>1, <1>2, <1>8 DEF TransInv, Committing, Up
<1>10. PosInv
  <2>1. 2..1 = {} /\ LogBlocks \in 1..LogBlocks /\ Dist(1, 1) = 0
    BY <1>1 DEF Dist
  <2>2. QED
    BY <1>1, <1>8, <2>1 DEF PosInv, LogFrom
<1>11. MutexInv /\ WayInv /\ FlushInv /\ RoomInv
  BY <1>2, <1>3 DEF MutexInv, WayInv, FlushInv, RoomInv, Up
<1>12. QED
  BY <1>7, <1>9, <1>10, <1>11 DEF Inv

LEMMA InvStep == Inv /\ [Next]_vars => Inv'
<1> SUFFICES ASSUME Inv, [Next]_vars PROVE Inv'
  OBVIOUS
<1>1. CASE Next
  BY <1>1, TypeStep, TransStep, PosStep, MutexStep, RoomStep, WayStep, FlushStep DEF Inv
<1>2. CASE UNCHANGED vars
  <2> USE DEF Inv, vars, historyVars, transVars, bufferVars, tailVars, threadVars, taskVars, diskVars, boundVars
  <2>1. TypeOK'
    BY <1>2 DEF TypeOK
  <2>2. UNCHANGED <<LastSwitched, Up>>
    BY <1>2 DEF LastSwitched, Up
  <2>3. TransInv'
    BY <1>2, <2>2 DEF TransInv
  <2>4. PosInv'
    BY <1>2, <2>2 DEF PosInv, LogFrom
  <2>5. MutexInv'
    BY <1>2, <2>2 DEF MutexInv, TailFound
  <2>6. RoomInv' /\ WayInv' /\ FlushInv'
    BY <1>2, <2>2 DEF RoomInv, WayInv, FlushInv
  <2>7. QED
    BY <2>1, <2>3, <2>4, <2>5, <2>6
<1>3. QED
  BY <1>1, <1>2

LEMMA InvHolds == Spec => []Inv
BY InvInit, InvStep, PTL DEF Spec

\* The types, for every size of the log: the head and the tail stay in it, and the room that
\* is counted is never below zero or above the size (j_free).
THEOREM TypeCorrect == Spec => []TypeOK
<1>1. Inv => TypeOK
  BY DEF Inv
<1>2. QED
  BY <1>1, InvHolds, PTL

\* jbd2_journal_next_log_block never meets a full log: the tests of space in the handles have
\* kept enough back for all that the commits write.
THEOREM RoomForEveryCommit == Spec => []LogHasRoom
<1>1. Inv => LogHasRoom
  <2> SUFFICES ASSUME Inv PROVE LogHasRoom
    OBVIOUS
  <2>1. Cardinality(committing.blocks) \in Nat /\ free \in Nat
    BY Numbers, Sizes DEF Inv
  <2>2. QED
    BY <2>1 DEF Inv, RoomInv, LogHasRoom, Up
<1>2. QED
  BY <1>1, InvHolds, PTL

\* __jbd2_log_wait_for_space always finds something to do: its abort of the journal is dead code.
THEOREM AlwaysAWay == Spec => []NeverNoWay
<1>1. Inv => NeverNoWay
  BY DEF Inv, WayInv, NeverNoWay
<1>2. QED
  BY <1>1, InvHolds, PTL

\* The assertions at the end of jbd2_journal_flush hold.
THEOREM FlushedIsEmpty == Spec => []FlushEmpties
<1>1. Inv => FlushEmpties
  <2> SUFFICES ASSUME Inv, job.at = "emptied" PROVE FlushEmpties
    BY DEF FlushEmpties
  <2>1. job.purpose = "final" /\ tail_seq = next_tid /\ head = tail
    BY DEF Inv, FlushInv
  <2>2. running.tid = 0 /\ committing.tid = 0 /\ CheckpointTransaction = 0
    BY <2>1, FlushNeeds DEF Inv
  <2>3. running.blocks = {} /\ committing.blocks = {}
    BY <2>2 DEF Inv, TransInv
  <2>4. running = NoTrans /\ committing = NoTrans
    BY <2>2, <2>3 DEF Inv, TypeOK, TransType, NoTrans
  <2>5. QED
    BY <2>1, <2>2, <2>4 DEF FlushEmpties
<1>2. QED
  BY <1>1, InvHolds, PTL

=============================================================================
