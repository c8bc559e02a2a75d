--------------------------- MODULE FsyncTag_proofs ---------------------------
(***************************************************************************)
(* Proofs about fsync and its tags, for any number of tasks, inodes,       *)
(* transactions, writes and failing commits.                               *)
(***************************************************************************)
EXTENDS FsyncTag, JournalCommit_proofs

-----------------------------------------------------------------------------
(* Comparing transaction numbers                                            *)

LEMMA RemainderIsUnique ==
  ASSUME NEW m \in Nat \ {0}, NEW j \in Int, NEW k \in Int, NEW x \in 0..(m - 1), NEW y \in 0..(m - 1),
         m * j + x = m * k + y
  PROVE  x = y
<1>1. m * (j - k) = y - x /\ m * (k - j) = x - y
  OBVIOUS
<1>2. ~(j - k >= 1)
  <2> SUFFICES ASSUME j - k >= 1 PROVE FALSE
    OBVIOUS
  <2>1. m * (j - k) >= m
    OBVIOUS
  <2>2. QED
    BY <1>1, <2>1
<1>3. ~(k - j >= 1)
  <2> SUFFICES ASSUME k - j >= 1 PROVE FALSE
    OBVIOUS
  <2>1. m * (k - j) >= m
    OBVIOUS
  <2>2. QED
    BY <1>1, <2>1
<1>4. j = k
  BY <1>2, <1>3
<1>5. QED
  BY <1>1, <1>4

\* the distance of two numbers tells the distance of their transactions
LEMMA Distance ==
  ASSUME NEW s \in 0..MaxTrans, NEW t \in 0..MaxTrans
  PROVE  (Tid(t) - Tid(s)) % TidMod = IF t >= s THEN t - s ELSE TidMod + t - s
<1>0. MaxTrans \in Nat /\ TidMod \in Nat \ {0} /\ FirstTid \in Int /\ MaxTrans < TidMod /\ s \in Int /\ t \in Int
  BY Numbers
<1> DEFINE i == (FirstTid + s) \div TidMod
           j == (FirstTid + t) \div TidMod
           d == Tid(t) - Tid(s)
           r == IF t >= s THEN t - s ELSE TidMod + t - s
           k == IF t >= s THEN i - j ELSE i - j - 1
<1>1. /\ FirstTid + s = TidMod * i + Tid(s) /\ FirstTid + t = TidMod * j + Tid(t)
      /\ i \in Int /\ j \in Int
  BY <1>0 DEF Tid
<1>2. Tid(s) \in Int /\ Tid(t) \in Int
  BY <1>0, Numbers
<1> HIDE DEF i, j
<1>3. d = TidMod * (i - j) + (t - s)
  <2>1. PICK a \in Int, b \in Int : a = Tid(s) /\ b = Tid(t)
    BY <1>2
  <2>2. FirstTid + s = TidMod * i + a /\ FirstTid + t = TidMod * j + b
    BY <1>1, <2>1
  <2>3. TidMod * (i - j) = TidMod * i - TidMod * j
    BY <1>0, <1>1
  <2>4. b - a = TidMod * (i - j) + (t - s)
    BY <1>0, <1>1, <2>2, <2>3
  <2>5. QED
    BY <2>1, <2>4
<1>4. d = TidMod * k + r /\ k \in Int /\ r \in 0..(TidMod - 1) /\ d \in Int
  BY <1>0, <1>1, <1>2, <1>3
<1> HIDE DEF d, k, r
<1>5. d = TidMod * (d \div TidMod) + (d % TidMod) /\ d \div TidMod \in Int /\ d % TidMod \in 0..(TidMod - 1)
  BY <1>0, <1>4
<1>6. d % TidMod = r
  BY <1>0, <1>4, <1>5, RemainderIsUnique
<1>7. QED
  BY <1>6 DEF d, r

\* the signs of the differences are right, since fewer than half of all numbers are given out
LEMMA TidOrder ==
  ASSUME NEW s \in 0..MaxTrans, NEW t \in 0..MaxTrans
  PROVE  /\ tid_gt(Tid(t), Tid(s)) <=> t > s
         /\ tid_geq(Tid(t), Tid(s)) <=> t >= s
<1>1. MaxTrans \in Nat /\ TidMod \in Nat \ {0} /\ 2 * MaxTrans < TidMod /\ TidMod % 2 = 0
  BY Numbers, WrapAssumption, TidAssumption
<1>2. MaxTrans <= TidMod \div 2 - 1
  BY <1>1
<1>3. (Tid(t) - Tid(s)) % TidMod = IF t >= s THEN t - s ELSE TidMod + t - s
  BY Distance
<1>4. TidMod + 0 - MaxTrans > TidMod \div 2 - 1
  BY <1>1
<1>5. QED
  BY <1>1, <1>2, <1>3, <1>4 DEF tid_gt, tid_geq

-----------------------------------------------------------------------------
(* The invariant of fsync                                                   *)

\* the last transaction that the commit thread is through with
LastDone == IF committing # 0 THEN committing - 1 ELSE IF running # 0 THEN running - 1 ELSE created

\* those whose commit record has been written, or left out in an aborted journal
Recorded(s) == s <= LastDone \/ (s = committing /\ kpc = "record")

\* transactions are committed one after the other
OrderInv ==
  /\ sequence = Tid(LastDone)
  /\ running # 0 => running = created
  /\ committing # 0 => committing = IF running # 0 THEN created - 1 ELSE created
  /\ committing # 0 => trans[committing].state = IF kpc = "record" THEN "jflush" ELSE kpc

DurableInv == ~aborted => \A s \in Trans : Recorded(s) => s \in durable

\* data goes from the page cache to the disk and through the disk's cache
InodeInv ==
  /\ inode \in [Inodes -> [tid : Int, last : Int, mutex : Tasks \cup {Null}, written : Nat, cached : Nat, stable : Nat]]
  /\ \A i \in Inodes : /\ inode[i].last \in 0..created /\ inode[i].tid = Tid(inode[i].last)
                       /\ inode[i].stable <= inode[i].cached /\ inode[i].cached <= inode[i].written

\* the number p waits for is that of a transaction that has what p is to make durable; once it
\* is recorded the data is stable, if its commit is to do the flush
Aims(p, s) ==
  /\ task[p].tid = Tid(s)
  /\ \/ task[p].pc = "barrier" \/ task[p].flush \/ aborted \/ ~Recorded(s)
     \/ task[p].wrote <= inode[task[p].inode].stable

Reached(p) ==
  /\ task[p].modified \in durable \cup {0}
  /\ (task[p].pc = "flush" /\ task[p].flush) \/ task[p].wrote <= inode[task[p].inode].stable

\* how far p has come in its fsync
FsyncInv(p) ==
  /\ task[p].pc \in {"idle", "nested"} => ~InFsync(p)
  /\ task[p].pc \in {"writeout", "mutex", "barrier", "flush", "return", "clear"} => InFsync(p)
  /\ task[p].pc \notin {"flush", "return", "clear"} => ~task[p].waited
  /\ InFsync(p) =>
       /\ task[p].modified <= inode[task[p].inode].last
       /\ task[p].wrote <= inode[task[p].inode].written
       /\ task[p].pc # "writeout" => task[p].wrote <= inode[task[p].inode].cached
       /\ task[p].pc \in {"barrier", "complete", "request", "wait"} => \E s \in task[p].modified..created : Aims(p, s)
       /\ task[p].pc \in {"flush", "return"} /\ ~task[p].error /\ (task[p].waited \/ ~aborted) => Reached(p)

DataInv == OrderInv /\ DurableInv /\ InodeInv

SyncInv == Inv /\ DataInv /\ durable \subseteq Trans /\ \A p \in Tasks : FsyncInv(p)

-----------------------------------------------------------------------------
(* The invariant of the tags                                                *)

Regular == Inodes \ Journalled

\* each inode is synced by one task only
OneSyncer == \A p, q \in Tasks : p # q => Open[p] \cap Open[q] = {}

\* how p is in an fsync, and that its inode has p's tag as long
PlaceInv(p) ==
  InFsync(p) =>
    /\ task[p].pc \in {"writeout", "mutex", "repeat", "create", "ask", "handle", "stop", "barrier", "complete",
                       "request", "wait", "flush", "return", "clear"}
    /\ task[p].pc \in {"repeat", "create", "ask", "handle", "stop"} => task[p].sync
    /\ task[p].pc \in {"barrier", "complete", "request"} => task[p].inode \notin Journalled
    /\ task[p].inode \in Open[p] /\ tag[task[p].inode] = p

\* a task whose tag is on an inode is in an fsync of it
TagInv ==
  /\ tag \in [Inodes -> Tasks \cup {Null}]
  /\ \A i \in Inodes : tag[i] # Null => task[tag[i]].inode = i

\* which inodes have had a commit asked for
MappedInv ==
  /\ fs_mapping \in Journalled \cup {Null}
  /\ \A t \in Trans : t > created => trans[t].mapping = Null

Waits(p, t) == task[p].pc = "wait" /\ task[p].inode = trans[t].mapping /\ task[p].tid = Tid(t)

\* a regular file is the mapping of a transaction as long as its fsync waits for it
WaiterInv ==
  \A t \in {running, committing} \ {0} :
    trans[t].mapping \in Regular => \E q \in Tasks : Waits(q, t)

DeviceInv ==
  /\ devTag # Null => bh_meta /\ source # Null
  /\ bh_meta => kpc \in {"dflush", "jflush", "record", "callback", "wake", "end"}

MarkInv == (\A p \in Tasks : PlaceInv(p)) /\ TagInv /\ MappedInv /\ WaiterInv /\ DeviceInv /\ CommitTagged

-----------------------------------------------------------------------------
(* What the tasks in an fsync rely on                                       *)

\* whatever moves, data and transactions go forwards only
Forward ==
  /\ created <= created' /\ durable \subseteq durable' /\ (aborted => aborted')
  /\ \A i \in Inodes : /\ inode[i].last <= inode'[i].last /\ inode[i].written <= inode'[i].written
                       /\ inode[i].cached <= inode'[i].cached /\ inode[i].stable <= inode'[i].stable
  /\ \A s \in 0..created : Recorded(s)' => \/ Recorded(s) \/ aborted'
                                           \/ \A i \in Inodes : inode[i].cached <= inode'[i].stable

\* the fields of p that only the calls of fsync change
SameFsync(p) ==
  /\ task'[p].inode = task[p].inode /\ task'[p].modified = task[p].modified /\ task'[p].wrote = task[p].wrote
  /\ task'[p].flush = task[p].flush /\ task'[p].waited = task[p].waited /\ task'[p].error = task[p].error

LEMMA SyncRanges ==
  ASSUME SyncInv, NEW p \in Tasks
  PROVE  /\ task[p] \in TaskShape /\ task[p].modified \in 0..MaxTrans /\ task[p].wrote \in Nat
         /\ task[p].inode \in Inodes \cup {Null} /\ task[p].pc \in Labels
         /\ InFsync(p) => task[p].inode \in Inodes
         /\ created \in 0..MaxTrans /\ MaxTrans \in Nat
         /\ \A i \in Inodes : /\ inode[i].last \in 0..created
                              /\ inode[i].written \in Nat /\ inode[i].cached \in Nat /\ inode[i].stable \in Nat
                              /\ inode[i].stable <= inode[i].cached /\ inode[i].cached <= inode[i].written
<1>1. task[p] \in TaskShape /\ created \in 0..MaxTrans /\ MaxTrans \in Nat
  BY Numbers DEF SyncInv, Inv, Shape
<1>2. /\ task[p].modified \in 0..MaxTrans /\ task[p].wrote \in Nat
      /\ task[p].inode \in Inodes \cup {Null} /\ task[p].pc \in Labels
  BY <1>1 DEF TaskShape
<1>3. QED
  BY <1>1, <1>2 DEF SyncInv, DataInv, InodeInv, InFsync

LEMMA StillAims ==
  ASSUME SyncInv, NEW p \in Tasks, NEW s \in 0..created, InFsync(p), Aims(p, s), Forward, SameFsync(p),
         InodeInv', task'[p].tid = task[p].tid,
         task[p].pc = "barrier" => task'[p].pc = "barrier", task[p].pc # "writeout"
  PROVE  Aims(p, s)'
<1>1. task[p].inode \in Inodes /\ task[p].wrote \in Nat
  BY SyncRanges
<1>2. task[p].wrote <= inode[task[p].inode].cached
  BY DEF SyncInv, FsyncInv
<1>3. task'[p].tid = Tid(s)
  BY DEF Aims
<1>4. CASE task[p].pc = "barrier" \/ task[p].flush \/ aborted
  BY <1>3, <1>4 DEF Aims, SameFsync, Forward
<1>5. CASE task[p].wrote <= inode[task[p].inode].stable
  <2>1. inode[task[p].inode].stable <= inode'[task[p].inode].stable
    BY <1>1 DEF Forward
  <2>2. inode[task[p].inode].stable \in Nat /\ inode'[task[p].inode].stable \in Nat
    BY <1>1 DEF SyncInv, DataInv, InodeInv
  <2>3. QED
    BY <1>1, <1>3, <1>5, <2>1, <2>2 DEF Aims, SameFsync
<1>6. CASE ~Recorded(s)
  <2>1. CASE ~Recorded(s)' \/ aborted'
    BY <1>3, <2>1 DEF Aims
  <2>2. CASE inode[task[p].inode].cached <= inode'[task[p].inode].stable
    <3>1. inode[task[p].inode].cached \in Nat /\ inode'[task[p].inode].stable \in Nat
      BY <1>1 DEF SyncInv, DataInv, InodeInv
    <3>2. QED
      BY <1>1, <1>2, <1>3, <2>2, <3>1 DEF Aims, SameFsync
  <2>3. QED
    BY <1>1, <1>6, <2>1, <2>2 DEF Forward
<1>7. QED
  BY <1>4, <1>5, <1>6 DEF Aims

\* the files of p are at least as far as before
LEMMA StillReached ==
  ASSUME SyncInv, NEW p \in Tasks, InFsync(p), Forward, InodeInv', SameFsync(p)
  PROVE  /\ task'[p].modified <= inode'[task'[p].inode].last
         /\ task'[p].wrote <= inode'[task'[p].inode].written
         /\ task[p].pc # "writeout" => task'[p].wrote <= inode'[task'[p].inode].cached
         /\ task[p].wrote <= inode[task[p].inode].stable => task'[p].wrote <= inode'[task'[p].inode].stable
<1> DEFINE i == task[p].inode
           a == inode[i]
           b == inode'[i]
<1>1. i \in Inodes /\ task[p].wrote \in Nat /\ task[p].modified \in Nat
  BY SyncRanges
<1>2. /\ a.last \in Int /\ a.written \in Nat /\ a.cached \in Nat /\ a.stable \in Nat
      /\ b.last \in Int /\ b.written \in Nat /\ b.cached \in Nat /\ b.stable \in Nat
  BY <1>1 DEF SyncInv, DataInv, InodeInv
<1>3. a.last <= b.last /\ a.written <= b.written /\ a.cached <= b.cached /\ a.stable <= b.stable
  BY <1>1 DEF Forward
<1>4. /\ task[p].modified <= a.last /\ task[p].wrote <= a.written
      /\ task[p].pc # "writeout" => task[p].wrote <= a.cached
  BY DEF SyncInv, FsyncInv
<1>5. task'[p].inode = i /\ task'[p].modified = task[p].modified /\ task'[p].wrote = task[p].wrote
  BY DEF SameFsync
<1> HIDE DEF i, a, b
<1>6. QED
  BY <1>1, <1>2, <1>3, <1>4, <1>5 DEF a, b, i

\* a task that does not move is as far in its fsync as it was
LEMMA OthersSync ==
  ASSUME SyncInv, NEW p \in Tasks, Forward, InodeInv', created' \in Int, task'[p] = task[p]
  PROVE  FsyncInv(p)'
<1>0. FsyncInv(p) /\ SameFsync(p) /\ (InFsync(p)' <=> InFsync(p))
  BY DEF SyncInv, SameFsync, InFsync
<1>1. CASE ~InFsync(p)
  BY <1>0, <1>1 DEF FsyncInv
<1>2. CASE InFsync(p)
  <2>1. /\ task'[p].modified <= inode'[task'[p].inode].last
        /\ task'[p].wrote <= inode'[task'[p].inode].written
        /\ task'[p].pc # "writeout" => task'[p].wrote <= inode'[task'[p].inode].cached
    BY <1>0, <1>2, StillReached
  <2>2. ASSUME task'[p].pc \in {"barrier", "complete", "request", "wait"}
        PROVE  \E s \in task'[p].modified..created' : Aims(p, s)'
    <3>1. PICK s \in task[p].modified..created : Aims(p, s)
      BY <1>0, <1>2, <2>2 DEF FsyncInv
    <3>2. s \in 0..created /\ s \in task'[p].modified..created'
      BY <3>1, SyncRanges DEF Forward
    <3>3. Aims(p, s)'
      BY <1>0, <1>2, <2>2, <3>1, <3>2, StillAims
    <3>4. QED
      BY <3>2, <3>3
  <2>3. ASSUME task'[p].pc \in {"flush", "return"}, ~task'[p].error, task'[p].waited \/ ~aborted'
        PROVE  Reached(p)'
    <3>1. Reached(p)
      BY <1>0, <1>2, <2>3 DEF FsyncInv, Forward
    <3>2. task'[p].modified \in durable' \cup {0}
      BY <3>1 DEF Reached, Forward
    <3>3. (task'[p].pc = "flush" /\ task'[p].flush) \/ task'[p].wrote <= inode'[task'[p].inode].stable
      BY <1>0, <1>2, <3>1, StillReached DEF Reached
    <3>4. QED
      BY <3>2, <3>3 DEF Reached
  <2>4. QED
    BY <1>0, <1>2, <2>1, <2>2, <2>3 DEF FsyncInv
<1>3. QED
  BY <1>1, <1>2

\* a task on its way to a handle, with one, or locking updates
Handling == {"repeat", "create", "ask", "handle", "stop"}
Underway == Handling \cup {"quiesce", "quieted", "quiet"}

LEMMA UnderwaySync ==
  ASSUME SyncInv, NEW p \in Tasks, Forward, InodeInv', SameFsync(p),
         task[p].pc \in Underway \cup {"idle"}, task'[p].pc \in Underway
  PROVE  FsyncInv(p)'
<1>0. FsyncInv(p) /\ (InFsync(p)' <=> InFsync(p)) /\ ~task'[p].waited
  BY DEF SyncInv, SameFsync, InFsync, FsyncInv, Underway, Handling
<1>1. CASE ~InFsync(p)
  BY <1>0, <1>1 DEF FsyncInv, Underway, Handling
<1>2. CASE InFsync(p)
  BY <1>0, <1>2, StillReached DEF FsyncInv, Underway, Handling
<1>3. QED
  BY <1>1, <1>2

LEMMA OutsideSync ==
  ASSUME NEW p \in Tasks, task'[p].inode = Null, task'[p].waited = FALSE,
         task'[p].pc \notin {"writeout", "mutex", "barrier", "flush", "return", "clear"}
  PROVE  FsyncInv(p)'
BY DEF FsyncInv, InFsync

-----------------------------------------------------------------------------
(* Data and transactions                                                    *)

LEMMA Order ==
  ASSUME SyncInv
  PROVE  /\ created \in 0..MaxTrans /\ running \in 0..created /\ committing \in 0..created /\ LastDone \in 0..created
         /\ committing # 0 => LastDone = committing - 1 /\ committing # running
         /\ running # 0 => LastDone < running
         /\ \A s \in 0..created : s <= LastDone \/ (s = running /\ s # 0) \/ (s = committing /\ s # 0)
         /\ sequence = Tid(LastDone)
<1>1. created \in 0..MaxTrans /\ running \in 0..created /\ committing \in 0..created /\ MaxTrans \in Nat
  BY Numbers DEF SyncInv, Inv, Shape
<1>2. OrderInv
  BY DEF SyncInv, DataInv
<1>3. QED
  BY <1>1, <1>2 DEF OrderInv, LastDone

\* neither a transaction's state nor data moves
StillData ==
  /\ UNCHANGED <<created, running, committing, sequence, aborted, kpc, inode, durable>>
  /\ \A t \in Trans : trans'[t].state = trans[t].state

DataStep == DataInv' /\ Forward /\ durable' \subseteq Trans

LEMMA SameOrder ==
  ASSUME SyncInv, UNCHANGED <<created, running, committing, sequence>>,
         committing # 0 => trans'[committing].state = IF kpc' = "record" THEN "jflush" ELSE kpc'
  PROVE  OrderInv' /\ LastDone' = LastDone
<1>1. OrderInv
  BY DEF SyncInv, DataInv
<1>2. LastDone' = LastDone
  BY DEF LastDone
<1>3. QED
  BY <1>1, <1>2 DEF OrderInv, Tid

LEMMA SameInodes ==
  ASSUME SyncInv, UNCHANGED inode, created' >= created, created' \in Int
  PROVE  InodeInv' /\ \A i \in Inodes : /\ inode[i].last <= inode'[i].last /\ inode[i].written <= inode'[i].written
                                         /\ inode[i].cached <= inode'[i].cached /\ inode[i].stable <= inode'[i].stable
<1>1. InodeInv /\ created \in Int
  BY Order DEF SyncInv, DataInv
<1>2. InodeInv'
  BY <1>1 DEF InodeInv, Tid
<1>3. \A i \in Inodes : inode[i].last \in Int /\ inode[i].written \in Nat /\ inode[i].cached \in Nat /\ inode[i].stable \in Nat
  BY <1>1 DEF InodeInv
<1>4. QED
  BY <1>2, <1>3

LEMMA MovedData ==
  ASSUME SyncInv, UNCHANGED <<created, running, committing, sequence, inode, durable>>, aborted => aborted',
         committing # 0 => /\ kpc' = "record" => kpc = "record"
                           /\ trans'[committing].state = IF kpc' = "record" THEN "jflush" ELSE kpc'
  PROVE  DataStep
<1>1. OrderInv' /\ LastDone' = LastDone
  BY SameOrder
<1>2. \A s \in 0..created : Recorded(s)' => Recorded(s) \/ s = 0
  BY <1>1 DEF Recorded
<1>3. created \in 0..MaxTrans /\ committing \in 0..created /\ LastDone \in 0..created /\ MaxTrans \in Nat
  BY Order, Numbers
<1>4. \A s \in 0..MaxTrans : Recorded(s)' => Recorded(s)
  BY <1>1, <1>3 DEF Recorded
<1>5. DurableInv'
  BY <1>4 DEF SyncInv, DataInv, DurableInv, Trans
<1>6. QED
  BY <1>1, <1>3, <1>4, <1>5, SameInodes DEF DataStep, DataInv, Forward, SyncInv

LEMMA QuietData ==
  ASSUME SyncInv, StillData
  PROVE  DataStep
<1>1. committing # 0 => committing \in Trans
  BY Ranges DEF SyncInv
<1>2. committing # 0 => trans'[committing].state = IF kpc' = "record" THEN "jflush" ELSE kpc'
  BY <1>1 DEF StillData, SyncInv, DataInv, OrderInv
<1>3. QED
  BY <1>2, MovedData DEF StillData

\* the steps of the journal's tasks, but for jbd2_get_transaction, touch neither
LEMMA TasksStillData ==
  ASSUME SyncInv, NEW p \in Tasks,
         \/ StartAborted(p) \/ StartBarrier(p) \/ StartNone(p) \/ StartLocked(p) \/ StartTooLarge(p)
         \/ AskForCommit(p) \/ StartThisHandle(p) \/ StopRequest(p) \/ Stop(p)
         \/ Commits(p) \/ Choice(p) \/ Barrier(p)
  PROVE  StillData
<1>1. trans \in [Trans -> TransShape]
  BY DEF SyncInv, Inv, Shape
<1>2. ASSUME UNCHANGED <<created, running, committing, sequence, aborted, kpc, inode, durable>>, UNCHANGED trans
      PROVE  StillData
  BY <1>2 DEF StillData
<1>3. ASSUME UNCHANGED <<created, running, committing, sequence, aborted, kpc, inode, durable>>,
             NEW t, NEW m, LogStartCommit(t, m)
      PROVE  StillData
  <2>1. trans' = trans \/ trans' = [trans EXCEPT ![running].mapping = m]
    BY <1>3 DEF LogStartCommit
  <2>2. ASSUME trans' = [trans EXCEPT ![running].mapping = m] PROVE \A u \in Trans : trans'[u].state = trans[u].state
    BY <1>1, <2>2 DEF TransShape
  <2>3. QED
    BY <1>3, <2>1, <2>2 DEF StillData
<1>4. ASSUME UNCHANGED <<created, running, committing, sequence, aborted, kpc, inode, durable>>, DropUpdate(p)
      PROVE  StillData
  BY <1>1, <1>4 DEF StillData, DropUpdate
<1>5. CASE StartAborted(p) \/ StartBarrier(p) \/ StartNone(p) \/ StartLocked(p) \/ StartTooLarge(p)
  BY <1>2, <1>5 DEF StartAborted, StartBarrier, StartNone, StartLocked, StartTooLarge, Usable,
                    journalVars, stateVars, threadVars, fsVars
<1>6. CASE AskForCommit(p) \/ RequestNested(p)
  BY <1>3, <1>6 DEF AskForCommit, RequestNested, stateVars, fsVars
<1>7. CASE StartThisHandle(p)
  BY <1>1, <1>7 DEF StartThisHandle, StillData, stateVars, threadVars, fsVars
<1>8. CASE StopRequest(p)
  BY <1>2, <1>3, <1>8 DEF StopRequest, stateVars, fsVars
<1>9. CASE Stop(p)
  BY <1>4, <1>9 DEF Stop, stateVars, fsVars
<1>10. CASE WaitCommit(p)
  BY <1>2, <1>10 DEF WaitCommit, journalVars, stateVars, fsVars
<1>11. ASSUME NEW n, Restart(p, n) PROVE StillData
  BY <1>4, <1>11 DEF Restart, stateVars, fsVars
<1>12. ASSUME NEW n, NEW s, JournalStart(p, n, s) PROVE StillData
  BY <1>2, <1>12 DEF JournalStart, journalVars, stateVars, threadVars, fsVars
<1>13. CASE Extend(p)
  BY <1>1, <1>13 DEF Extend, StillData, stateVars, threadVars, fsVars
<1>14. CASE LockUpdates(p) \/ Barrier(p)
  BY <1>2, <1>14 DEF LockUpdates, Barrier, Quiesce, LockBarrier, UnlockUpdates, journalVars, stateVars, threadVars, fsVars
<1>15. CASE SyncFs(p)
  BY <1>2, <1>3, <1>15 DEF SyncFs, stateVars, fsVars
<1>16. CASE ForceNested(p)
  BY <1>2, <1>16 DEF ForceNested, journalVars, stateVars, threadVars, fsVars
<1>17. QED
  BY <1>5, <1>6, <1>7, <1>8, <1>9, <1>10, <1>11, <1>12, <1>13, <1>14, <1>15, <1>16 DEF Commits, Choice

LEMMA CreatedData ==
  ASSUME SyncInv, NEW p \in Tasks, GetTransaction(p)
  PROVE  DataStep
<1>1. CASE UNCHANGED <<created, running, trans, timer>>
  BY <1>1, QuietData DEF GetTransaction, StillData, threadVars, fsVars
<1>2. CASE /\ running = 0 /\ created < MaxTrans /\ created' = created + 1 /\ running' = created'
           /\ trans' = [trans EXCEPT ![created'].state = "running"]
  <2>1. UNCHANGED <<committing, sequence, aborted, kpc, inode, durable>>
    BY DEF GetTransaction, threadVars, fsVars
  <2>2. created \in 0..MaxTrans /\ committing \in 0..created /\ MaxTrans \in Nat /\ OrderInv /\ trans \in [Trans -> TransShape]
    BY Order, Numbers DEF SyncInv, DataInv, Inv, Shape
  <2>3. LastDone' = LastDone
    BY <1>2, <2>1, <2>2 DEF LastDone, OrderInv
  <2>4. OrderInv'
    <3>1. committing # 0 => committing \in Trans /\ committing # created'
      BY <1>2, <2>2 DEF Trans
    <3>2. committing # 0 => trans'[committing].state = trans[committing].state
      BY <1>2, <2>2, <3>1
    <3>3. QED
      BY <1>2, <2>1, <2>2, <2>3, <3>2 DEF OrderInv, Tid
  <2>5. \A s : Recorded(s)' <=> Recorded(s)
    BY <2>1, <2>3 DEF Recorded
  <2>6. DurableInv'
    BY <2>1, <2>5 DEF SyncInv, DataInv, DurableInv
  <2>7. created' \in Int /\ created <= created' /\ created' >= created
    BY <1>2, <2>2
  <2>8. QED
    BY <2>1, <2>4, <2>5, <2>6, <2>7, SameInodes DEF DataStep, DataInv, Forward, SyncInv
<1>3. QED
  BY <1>1, <1>2 DEF GetTransaction

LEMMA ThreadData ==
  ASSUME SyncInv, Inv', CommitThread \/ WriteLog \/ Leave \/ Expire \/ TimerFires \/ Abort \/ KillThread
  PROVE  DataStep
<1>0. /\ trans \in [Trans -> TransShape] /\ Shape /\ ThreadInv /\ Inv
      /\ running # 0 => running \in Trans
      /\ committing # 0 => committing \in Trans
  BY Ranges DEF SyncInv, Inv
<1>1. OrderInv /\ DurableInv /\ InodeInv /\ durable \subseteq Trans
  BY DEF SyncInv, DataInv
<1>2. /\ created \in 0..MaxTrans /\ running \in 0..created /\ committing \in 0..created /\ LastDone \in 0..created
      /\ MaxTrans \in Nat
  BY Order, Numbers
<1>3. CASE Loop \/ Woken \/ WakeWaiters \/ ThreadExit \/ FinalCommit \/ LockTransaction \/ Finish \/ Leave
  <2>1. /\ UNCHANGED <<created, running, committing, sequence, aborted, inode, durable>>
        /\ kpc \notin Writing
    BY <1>3 DEF Loop, Woken, WakeWaiters, ThreadExit, FinalCommit, LockTransaction, Finish, Leave, Writing,
                journalVars, stateVars, fsVars
  <2>2. committing = 0
    BY <1>0, <2>1 DEF ThreadInv
  <2>3. QED
    BY <2>1, <2>2, MovedData
<1>4. CASE TimerFires \/ KillThread
  BY <1>4, QuietData DEF TimerFires, KillThread, StillData, fsVars
<1>5. CASE Expire
  BY <1>0, <1>5, QuietData DEF Expire, StillData, stateVars, fsVars, threadVars, TransShape
<1>6. CASE Abort
  <2>1. UNCHANGED <<created, running, committing, sequence, kpc, inode, durable>> /\ aborted'
    BY <1>6 DEF Abort
  <2>2. \A t \in Trans : trans'[t].state = trans[t].state
    <3>1. CASE UNCHANGED trans
      BY <3>1
    <3>2. ASSUME NEW m, trans' = [trans EXCEPT ![running].mapping = m] PROVE \A t \in Trans : trans'[t].state = trans[t].state
      BY <1>0, <3>2 DEF TransShape
    <3>3. QED
      BY <1>6, <3>1, <3>2 DEF Abort, LogStartCommit
  <2>3. QED
    BY <1>0, <1>1, <2>1, <2>2, MovedData DEF OrderInv
<1>7. CASE WriteLog
  <2>1. /\ UNCHANGED <<created, running, committing, sequence, aborted, inode, durable>>
        /\ kpc' # "record" /\ SetState(committing, kpc')
    BY <1>7 DEF WriteLog, stateVars, fsVars
  <2>2. committing # 0 => trans'[committing].state = kpc'
    BY <1>0, <2>1 DEF SetState, TransShape
  <2>3. QED
    BY <2>1, <2>2, MovedData
<1>8. CASE Drain
  <2>1. /\ UNCHANGED <<created, sequence, aborted, inode, durable>>
        /\ kpc = "drain" /\ committing = 0 /\ running # 0
    BY <1>0, <1>8 DEF Drain, ThreadInv, Writing, fsVars
  <2>2. CASE UpdatesLeft
    BY <1>8, <2>1, <2>2, MovedData DEF Drain
  <2>3. CASE ~UpdatesLeft
    <3>1. /\ SetState(running, "flush") /\ committing' = running /\ running' = 0 /\ kpc' = "flush"
      BY <1>8, <2>3 DEF Drain
    <3>2. trans'[committing'].state = "flush"
      BY <1>0, <2>1, <3>1 DEF SetState, TransShape
    <3>3. LastDone' = LastDone
      BY <1>1, <2>1, <3>1 DEF LastDone
    <3>4. OrderInv'
      BY <1>1, <2>1, <3>1, <3>2, <3>3 DEF OrderInv, Tid
    <3>5. \A s \in 0..MaxTrans : Recorded(s)' => Recorded(s)
      BY <2>1, <3>1, <3>3 DEF Recorded
    <3>6. DurableInv'
      BY <1>1, <2>1, <3>5 DEF DurableInv, Trans
    <3>7. QED
      BY <1>1, <1>2, <2>1, <3>4, <3>5, <3>6, SameInodes DEF DataStep, DataInv, Forward
  <2>4. QED
    BY <2>2, <2>3
<1>9. CASE NoRecord
  <2>1. UNCHANGED <<created, running, committing, sequence, aborted, inode, durable, trans>> /\ kpc = "jflush" /\ kpc' = "record" /\ aborted
    BY <1>9 DEF NoRecord, journalVars, stateVars, fsVars
  <2>2. OrderInv' /\ LastDone' = LastDone
    BY <1>1, <2>1, SameOrder DEF OrderInv
  <2>3. QED
    BY <1>1, <1>2, <2>1, <2>2, SameInodes DEF DataStep, DataInv, Forward, DurableInv
<1>10. CASE CommitRecord
  <2>1. /\ UNCHANGED <<created, running, committing, sequence, aborted, trans>> /\ kpc = "jflush" /\ kpc' = "record"
        /\ durable' = durable \cup {committing} /\ inode' = Flushed /\ committing # 0 /\ committing \in Trans
    BY <1>0, <1>10 DEF CommitRecord, journalVars, stateVars, ThreadInv, Writing
  <2>2. OrderInv' /\ LastDone' = LastDone
    BY <1>1, <2>1, SameOrder DEF OrderInv
  <2>3. \A s \in Trans : Recorded(s)' => Recorded(s) \/ s = committing
    BY <2>1, <2>2 DEF Recorded
  <2>4. DurableInv'
    BY <1>1, <2>1, <2>3 DEF DurableInv
  <2>5. InodeInv' /\ \A i \in Inodes : /\ inode'[i].last = inode[i].last /\ inode'[i].written = inode[i].written
                                       /\ inode'[i].cached = inode[i].cached /\ inode'[i].stable = inode[i].cached
    BY <1>1, <2>1 DEF InodeInv, Flushed, Tid
  <2>6. Forward
    BY <1>1, <1>2, <2>1, <2>5 DEF Forward, InodeInv
  <2>7. QED
    BY <1>1, <2>1, <2>2, <2>4, <2>5, <2>6 DEF DataStep, DataInv
<1>11. CASE EndCommit
  <2>1. /\ kpc = "record" /\ kpc' = "callback" /\ committing # 0 /\ committing' = 0 /\ sequence' = Tid(committing)
        /\ UNCHANGED <<created, running, aborted, inode, durable>>
    BY <1>0, <1>11 DEF EndCommit, ThreadInv, Writing, fsVars
  <2>2. LastDone' = committing /\ LastDone = committing - 1
    BY <1>1, <1>2, <2>1 DEF LastDone, OrderInv
  <2>3. OrderInv'
    BY <1>1, <2>1, <2>2 DEF OrderInv, Tid
  <2>4. \A s \in 0..MaxTrans : Recorded(s)' => Recorded(s)
    BY <1>2, <2>1, <2>2 DEF Recorded
  <2>5. DurableInv'
    BY <1>1, <2>1, <2>4 DEF DurableInv, Trans
  <2>6. QED
    BY <1>1, <1>2, <2>1, <2>3, <2>4, <2>5, SameInodes DEF DataStep, DataInv, Forward
<1>12. QED
  BY <1>3, <1>4, <1>5, <1>6, <1>7, <1>8, <1>9, <1>10, <1>11 DEF CommitThread

\* a call of fsync that moves data: the new inode is at least as far as the old one
LEMMA InodeData ==
  ASSUME SyncInv, UNCHANGED <<created, running, committing, sequence, aborted, kpc, durable, trans>>,
         inode' \in [Inodes -> [tid : Int, last : Int, mutex : Tasks \cup {Null}, written : Nat, cached : Nat, stable : Nat]],
         \A i \in Inodes : /\ inode'[i].last \in inode[i].last..created /\ inode'[i].tid = Tid(inode'[i].last)
                           /\ inode[i].written <= inode'[i].written /\ inode[i].cached <= inode'[i].cached
                           /\ inode[i].stable <= inode'[i].stable
                           /\ inode'[i].stable <= inode'[i].cached /\ inode'[i].cached <= inode'[i].written
  PROVE  DataStep
<1>1. /\ OrderInv /\ DurableInv /\ InodeInv /\ durable \subseteq Trans
      /\ created \in 0..MaxTrans /\ MaxTrans \in Nat
  BY Order, Numbers DEF SyncInv, DataInv
<1>2. OrderInv' /\ LastDone' = LastDone
  BY <1>1, SameOrder DEF OrderInv
<1>3. \A s : Recorded(s)' <=> Recorded(s)
  BY <1>2 DEF Recorded
<1>4. DurableInv'
  BY <1>1, <1>3 DEF DurableInv
<1>5. \A i \in Inodes : inode'[i].last \in 0..created /\ inode[i].last <= inode'[i].last
  BY <1>1 DEF InodeInv
<1>6. InodeInv'
  BY <1>5 DEF InodeInv, Tid
<1>7. QED
  BY <1>1, <1>2, <1>3, <1>4, <1>5, <1>6 DEF DataStep, DataInv, Forward

-----------------------------------------------------------------------------
(* The tasks of JournalCommit, seen from fsync                              *)

LEMMA DoneSync ==
  ASSUME SyncInv, NEW p \in Tasks, Done(p)
  PROVE  FsyncInv(p)' /\ (\A q \in Tasks : q # p => task'[q] = task[q]) /\ ~InFsync(p)'
<1>1. /\ task'[p] = Idle /\ \A q \in Tasks : q # p => task'[q] = task[q]
  BY DEF Done, SyncInv, Inv, Shape
<1>2. task'[p].inode = Null /\ task'[p].waited = FALSE /\ task'[p].pc = "idle"
  BY <1>1 DEF Idle
<1>3. QED
  BY <1>1, <1>2, OutsideSync DEF InFsync

\* the steps that lead to a handle, or use one, or lock updates
LEMMA UnderwayTask ==
  ASSUME SyncInv, NEW p \in Tasks,
         \/ StartNone(p) \/ GetTransaction(p) \/ StartTooLarge(p) \/ AskForCommit(p) \/ StartThisHandle(p)
         \/ StopRequest(p) \/ Extend(p) \/ LockUpdates(p) \/ LockBarrier(p)
         \/ (Quiesce(p) /\ ~UNCHANGED task)
         \/ \E n \in Asks : Restart(p, n) \/ \E s \in BOOLEAN : JournalStart(p, n, s)
  PROVE  /\ SameFsync(p) /\ \A q \in Tasks : q # p => task'[q] = task[q]
         /\ task[p].pc \in Underway \cup {"idle"} /\ task'[p].pc \in Underway
         /\ task[p].pc = "idle" \/ task'[p].sync = task[p].sync
         /\ task[p].pc \in Handling => task'[p].pc \in Handling
<1>0. task \in [Tasks -> TaskShape]
  BY DEF SyncInv, Inv, Shape
<1> DEFINE G == /\ SameFsync(p) /\ \A q \in Tasks : q # p => task'[q] = task[q]
                /\ task[p].pc \in Underway \cup {"idle"} /\ task'[p].pc \in Underway
                /\ task[p].pc = "idle" \/ task'[p].sync = task[p].sync
                /\ task[p].pc \in Handling => task'[p].pc \in Handling
<1>1. ASSUME task[p].pc \in Underway \cup {"idle"}, NEW l \in Underway, Go(p, l),
             task[p].pc \in Handling => l \in Handling
      PROVE  G
  BY <1>0, <1>1 DEF Go, SameFsync, TaskShape
<1>2. CASE StartNone(p) \/ GetTransaction(p) \/ AskForCommit(p) \/ StopRequest(p)
  <2>1. PICK l \in {"create", "repeat", "stop"} : Go(p, l) /\ task[p].pc \in {"repeat", "create", "ask", "handle"}
    BY <1>2 DEF StartNone, GetTransaction, AskForCommit, StopRequest, Repeat, At
  <2>2. l \in Underway /\ l \in Handling /\ task[p].pc \in Underway \cup {"idle"}
    BY <2>1 DEF Underway, Handling
  <2>3. QED
    BY <1>1, <2>1, <2>2
<1>3. CASE LockUpdates(p) \/ LockBarrier(p) \/ (Quiesce(p) /\ ~UNCHANGED task)
  <2>1. PICK l \in {"quiesce", "quiet", "quieted"} : Go(p, l) /\ task[p].pc \in {"idle", "quieted", "quiesce"}
    BY <1>3 DEF LockUpdates, LockBarrier, Quiesce, At
  <2>2. l \in Underway /\ task[p].pc \in Underway \cup {"idle"} /\ task[p].pc \notin Handling
    BY <2>1 DEF Underway, Handling
  <2>3. QED
    BY <1>1, <2>1, <2>2
<1>4. CASE StartTooLarge(p)
  <2> DEFINE n == Tid(running)
             l == IF tid_geq(request, n) THEN "repeat" ELSE "ask"
  <2>1. task' = [task EXCEPT ![p].trans = running, ![p].tid = n, ![p].pc = l] /\ task[p].pc = "repeat"
    BY <1>4 DEF StartTooLarge, Usable, Repeat, At
  <2>2. l \in {"repeat", "ask"}
    OBVIOUS
  <2> HIDE DEF l, n
  <2>3. QED
    BY <1>0, <2>1, <2>2 DEF SameFsync, TaskShape, Underway, Handling
<1>5. CASE StartThisHandle(p)
  <2>1. task' = [task EXCEPT ![p].pc = "handle", ![p].trans = running] /\ task[p].pc = "repeat"
    BY <1>5 DEF StartThisHandle, Usable, Repeat, At
  <2>2. QED
    BY <1>0, <2>1 DEF SameFsync, TaskShape, Underway, Handling
<1>6. CASE Extend(p)
  <2>1. PICK c : task' = [task EXCEPT ![p].credits = c] /\ task[p].pc = "handle"
    BY <1>6 DEF Extend, At
  <2>2. QED
    BY <1>0, <2>1 DEF SameFsync, TaskShape, Underway, Handling
<1>7. ASSUME NEW n \in Asks, Restart(p, n) PROVE G
  <2> DEFINE d == Tid(task[p].trans)
             l == IF tid_geq(request, d) THEN "repeat" ELSE "ask"
  <2>1. task' = [task EXCEPT ![p].tid = d, ![p].credits = n, ![p].pc = l] /\ task[p].pc = "handle"
    BY <1>7 DEF Restart, At
  <2>2. l \in {"repeat", "ask"}
    OBVIOUS
  <2> HIDE DEF l, d
  <2>3. QED
    BY <1>0, <2>1, <2>2 DEF SameFsync, TaskShape, Underway, Handling
<1>8. ASSUME NEW n \in Asks, NEW s \in BOOLEAN, JournalStart(p, n, s) PROVE G
  <2>1. task' = [task EXCEPT ![p].pc = "repeat", ![p].credits = n, ![p].sync = s] /\ task[p].pc = "idle"
    BY <1>8 DEF JournalStart, At
  <2>2. QED
    BY <1>0, <2>1 DEF SameFsync, TaskShape, Underway, Handling
<1>9. QED
  BY <1>2, <1>3, <1>4, <1>5, <1>6, <1>7, <1>8

\* those that leave a task outside of fsync: it was, and goes on to wait or is done
LEMMA OutsideTask ==
  ASSUME SyncInv, NEW p \in Tasks, SyncFs(p) \/ ForceNested(p) \/ RequestNested(p)
  PROVE  /\ FsyncInv(p)' /\ ~InFsync(p) /\ ~InFsync(p)'
         /\ \A q \in Tasks : q # p => task'[q] = task[q]
<1>0. task \in [Tasks -> TaskShape] /\ FsyncInv(p)
  BY DEF SyncInv, Inv, Shape
<1>1. task[p].pc \in {"idle", "nested"}
  BY DEF SyncFs, ForceNested, RequestNested, At
<1>2. task[p].inode = Null /\ ~task[p].waited
  BY <1>0, <1>1 DEF FsyncInv, InFsync
<1>3. /\ task'[p].inode = task[p].inode /\ task'[p].waited = task[p].waited /\ task'[p].pc \in {"wait", "nested"}
      /\ \A q \in Tasks : q # p => task'[q] = task[q]
  <2>1. CASE SyncFs(p)
    <3>1. PICK d : task' = [task EXCEPT ![p].pc = "wait", ![p].tid = d]
      BY <2>1 DEF SyncFs
    <3>2. QED
      BY <1>0, <3>1 DEF TaskShape
  <2>2. CASE ForceNested(p)
    <3> DEFINE t == IF running # 0 THEN running ELSE committing
               l == IF t = running /\ ~tid_geq(request, Tid(t)) THEN "nested" ELSE "wait"
    <3>1. task' = [task EXCEPT ![p].trans = t, ![p].tid = Tid(t), ![p].pc = l] /\ l \in {"wait", "nested"}
      BY <2>2 DEF ForceNested
    <3> HIDE DEF l, t
    <3>2. QED
      BY <1>0, <3>1 DEF TaskShape
  <2>3. CASE RequestNested(p)
    <3>1. task' = [task EXCEPT ![p].pc = "wait"]
      BY <2>3 DEF RequestNested, Go
    <3>2. QED
      BY <1>0, <3>1 DEF TaskShape
  <2>4. QED
    BY <2>1, <2>2, <2>3
<1>4. FsyncInv(p)'
  BY <1>2, <1>3 DEF FsyncInv, InFsync
<1>5. QED
  BY <1>2, <1>3, <1>4 DEF InFsync

\* who waits for a recorded transaction has what it needs of an earlier one, too
LEMMA RecordedReached ==
  ASSUME SyncInv, NEW p \in Tasks, NEW s \in task[p].modified..created, Aims(p, s), Recorded(s), ~aborted,
         task[p].pc # "barrier"
  PROVE  /\ task[p].modified \in durable \cup {0}
         /\ task[p].flush \/ task[p].wrote <= inode[task[p].inode].stable
<1>1. task[p].modified \in 0..MaxTrans /\ created \in 0..MaxTrans /\ MaxTrans \in Nat
  BY SyncRanges
<1>2. Recorded(task[p].modified)
  BY <1>1, Order DEF Recorded
<1>3. task[p].modified # 0 => task[p].modified \in Trans
  BY <1>1 DEF Trans
<1>4. QED
  BY <1>2, <1>3 DEF SyncInv, DataInv, DurableInv, Aims

\* the other steps of the tasks of JournalCommit; after them an fsync waits, flushes or fails
LEMMA WaitingTask ==
  ASSUME SyncInv, NEW p \in Tasks, StartAborted(p) \/ Stop(p) \/ WaitCommit(p) \/ UnlockUpdates(p)
  PROVE  /\ FsyncInv(p)' /\ \A q \in Tasks : q # p => task'[q] = task[q]
<1>0. task \in [Tasks -> TaskShape] /\ FsyncInv(p) /\ task[p] \in TaskShape /\ StillData
  BY TasksStillData DEF SyncInv, Inv, Shape, Commits, Barrier
<1>1. UNCHANGED <<created, running, committing, sequence, aborted, kpc, inode, durable>>
  BY <1>0 DEF StillData
<1>2. DataStep
  BY <1>0, QuietData
<1>3. CASE Done(p)
  BY <1>3, DoneSync
<1>4. CASE UnlockUpdates(p)
  BY <1>3, <1>4 DEF UnlockUpdates
<1>5. CASE UNCHANGED task
  <2>1. created' \in Int
    BY <1>1, Order
  <2>2. QED
    BY <1>2, <1>5, <2>1, OthersSync DEF DataStep, DataInv
<1>6. CASE StartAborted(p) /\ ~Done(p)
  <2>1. task[p].inode # Null /\ task' = [task EXCEPT ![p] = [task[p] EXCEPT !.pc = "return", !.error = TRUE]]
    BY <1>6 DEF StartAborted, Fail, Done
  <2>2. /\ task'[p].inode = task[p].inode /\ task'[p].modified = task[p].modified /\ task'[p].wrote = task[p].wrote
        /\ task'[p].pc = "return" /\ task'[p].error = TRUE /\ \A q \in Tasks : q # p => task'[q] = task[q]
    BY <1>0, <2>1 DEF TaskShape
  <2>3. task[p].pc = "repeat"
    BY <1>6 DEF StartAborted, Repeat, At
  <2>4. QED
    BY <1>0, <1>1, <2>1, <2>2, <2>3 DEF FsyncInv, InFsync
<1>7. CASE Stop(p) /\ ~Done(p)
  <2>1. /\ task[p].pc = "stop" /\ task[p].trans = running /\ running # 0 /\ running \in Trans
    BY <1>7, Ranges DEF Stop, At, SyncInv, Inv, HandleInv, Holds
  <2> DEFINE r == [task[p] EXCEPT !.pc = "wait", !.tid = Tid(running), !.trans = 0, !.credits = 0, !.sync = FALSE]
  <2>2. task' = [task EXCEPT ![p] = r]
    BY <1>7, <2>1 DEF Stop, Done
  <2>3. /\ r.pc = "wait" /\ r.tid = Tid(running) /\ r.inode = task[p].inode /\ r.modified = task[p].modified
        /\ r.wrote = task[p].wrote /\ r.flush = task[p].flush /\ r.waited = task[p].waited
    BY <1>0 DEF TaskShape
  <2> HIDE DEF r
  <2>4. task'[p] = r /\ \A q \in Tasks : q # p => task'[q] = task[q]
    BY <1>0, <2>2
  <2>5. running = created /\ created \in Nat
    BY <2>1, Order DEF SyncInv, DataInv, OrderInv
  <2>6. ~Recorded(running)'
    BY <1>1, <2>1, Order DEF Recorded, LastDone
  <2>7. Aims(p, running)'
    BY <1>1, <2>3, <2>4, <2>6 DEF Aims, Tid
  <2>8. InFsync(p) => running \in task'[p].modified..created'
    <3>1. InFsync(p) => task[p].modified <= inode[task[p].inode].last /\ inode[task[p].inode].last \in 0..created
      BY <1>0, SyncRanges DEF FsyncInv
    <3>2. task[p].modified \in Int
      BY SyncRanges
    <3>3. QED
      BY <1>1, <2>3, <2>4, <2>5, <3>1, <3>2
  <2>9. QED
    BY <1>0, <1>1, <2>1, <2>3, <2>4, <2>7, <2>8 DEF FsyncInv, InFsync
<1>8. CASE WaitCommit(p) /\ ~Done(p) /\ ~UNCHANGED task
  <2>1. /\ task[p].pc = "wait" /\ ~tid_gt(task[p].tid, sequence) /\ task[p].inode # Null
        /\ task' = [task EXCEPT ![p].pc = "flush", ![p].waited = TRUE, ![p].error = aborted]
    BY <1>8 DEF WaitCommit, At, Done, CommitError
  <2>2. /\ task'[p].inode = task[p].inode /\ task'[p].modified = task[p].modified /\ task'[p].wrote = task[p].wrote
        /\ task'[p].flush = task[p].flush
        /\ task'[p].pc = "flush" /\ task'[p].error = aborted /\ \A q \in Tasks : q # p => task'[q] = task[q]
    BY <1>0, <2>1 DEF TaskShape
  <2>3. PICK s \in task[p].modified..created : Aims(p, s)
    BY <1>0, <2>1 DEF FsyncInv, InFsync
  <2>4. s \in 0..MaxTrans /\ LastDone \in 0..MaxTrans
    BY SyncRanges, Order
  <2>5. s <= LastDone
    <3>1. ~(s > LastDone)
      BY <2>1, <2>3, <2>4, Order, TidOrder DEF Aims
    <3>2. QED
      BY <2>4, <3>1
  <2>6. ~aborted => Reached(p)'
    <3>1. Recorded(s)
      BY <2>5 DEF Recorded
    <3>2. QED
      BY <1>1, <2>1, <2>2, <2>3, <3>1, RecordedReached DEF Reached
  <2>7. QED
    BY <1>0, <1>1, <2>1, <2>2, <2>6 DEF FsyncInv, InFsync
<1>9. QED
  BY <1>3, <1>4, <1>5, <1>6, <1>7, <1>8

LEMMA JournalTask ==
  ASSUME SyncInv, NEW p \in Tasks, Handle(p) \/ Commits(p) \/ Choice(p) \/ Barrier(p)
  PROVE  SyncInv'
<1>0. Inv'
  BY StepInv DEF SyncInv, Next
<1>1. DataStep
  BY QuietData, TasksStillData, CreatedData DEF Handle
<1>2. FsyncInv(p)' /\ \A q \in Tasks : q # p => task'[q] = task[q]
  <2>1. ASSUME UNCHANGED task PROVE FsyncInv(p)'
    BY <1>0, <1>1, <2>1, OthersSync DEF DataStep, DataInv, Inv, Shape
  <2>2. CASE UNCHANGED task
    BY <2>1, <2>2
  <2>3. CASE \/ StartNone(p) \/ GetTransaction(p) \/ StartTooLarge(p) \/ AskForCommit(p) \/ StartThisHandle(p)
             \/ StopRequest(p) \/ Extend(p) \/ LockUpdates(p) \/ LockBarrier(p)
             \/ (Quiesce(p) /\ ~UNCHANGED task)
             \/ \E n \in Asks : Restart(p, n) \/ \E s \in BOOLEAN : JournalStart(p, n, s)
    BY <1>1, <2>3, UnderwayTask, UnderwaySync DEF DataStep, DataInv
  <2>4. CASE SyncFs(p) \/ ForceNested(p) \/ RequestNested(p)
    BY <2>4, OutsideTask
  <2>5. CASE StartAborted(p) \/ Stop(p) \/ WaitCommit(p) \/ UnlockUpdates(p)
    BY <2>5, WaitingTask
  <2>6. CASE StartBarrier(p) \/ StartLocked(p)
    BY <2>2, <2>6 DEF StartBarrier, StartLocked
  <2>7. ASSUME NEW n \in Asks, JournalStart(p, n, FALSE) \/ JournalStart(p, n, TRUE)
        PROVE  \E m \in Asks : Restart(p, m) \/ \E s \in BOOLEAN : JournalStart(p, m, s)
    BY <2>7
  <2>8. QED
    BY <2>2, <2>3, <2>4, <2>5, <2>6, <2>7 DEF Handle, Commits, Choice, Barrier
<1>3. \A q \in Tasks : FsyncInv(q)'
  <2>1. created' \in Int
    BY <1>0, Numbers DEF Inv, Shape
  <2>2. QED
    BY <1>1, <1>2, <2>1, OthersSync DEF DataStep, DataInv
<1>4. QED
  BY <1>0, <1>1, <1>3 DEF SyncInv, DataStep

LEMMA JournalThread ==
  ASSUME SyncInv, CommitThread \/ WriteLog \/ Leave \/ Expire \/ TimerFires \/ Abort \/ KillThread
  PROVE  SyncInv'
<1>1. Inv'
  BY StepInv DEF SyncInv, Next
<1>2. DataStep
  BY <1>1, ThreadData
<1>3. UNCHANGED task
  BY DEF CommitThread, Loop, Woken, LockTransaction, Drain, CommitRecord, NoRecord, EndCommit, Finish, WakeWaiters,
         ThreadExit, FinalCommit, WriteLog, Leave, Expire, TimerFires, Abort, KillThread
<1>4. \A q \in Tasks : FsyncInv(q)'
  BY <1>1, <1>2, <1>3, Numbers, OthersSync DEF DataStep, DataInv, Inv, Shape
<1>5. QED
  BY <1>1, <1>2, <1>4 DEF SyncInv, DataStep

-----------------------------------------------------------------------------
(* The steps of fsync                                                       *)

LEMMA InvStays ==
  ASSUME Inv, UNCHANGED <<trans, request, created, running, committing, sequence, barrier, timer, thread, aborted, kpc, task>>
  PROVE  Inv'
<1>0. /\ trans' \in [Trans -> TransShape]
      /\ \A t \in Trans : trans'[t].updates = trans[t].updates /\ trans'[t].mapping # Garbage
  BY Ranges DEF Inv, MappingInv
<1>1. HandleInv' /\ BarrierInv' /\ MappingInv'
  BY <1>0, OthersStay
<1>2. Shape'
  BY DEF Inv, Shape
<1>3. ThreadInv' /\ RequestInv'
  BY DEF Inv, ThreadInv, RequestInv, Writing, Tid
<1>4. UnmountInv'
  BY DEF Inv, UnmountInv
<1>5. QED
  BY <1>1, <1>2, <1>3, <1>4 DEF Inv

\* a step of p in its fsync that leaves the journal alone
LEMMA FileInv ==
  ASSUME Inv, NEW p \in Tasks, NEW r \in TaskShape, task' = [task EXCEPT ![p] = r],
         UNCHANGED <<created, running, committing, sequence, barrier, timer, thread, aborted, kpc>>, SameTrans, Requested,
         task[p].pc # "idle" \/ thread = "runs",
         \/ r.pc \notin {"quieted", "quiet", "ask", "nested", "handle", "stop", "quiesce"} /\ ~Holds(p) /\ ~Bars(p)
         \/ r.pc = "handle" /\ task[p].pc = "handle" /\ r.trans = task[p].trans
  PROVE  Inv' /\ task'[p] = r /\ \A q \in Tasks : q # p => task'[q] = task[q]
<1>1. task' \in [Tasks -> TaskShape] /\ task'[p] = r /\ \A q \in Tasks : q # p => task'[q] = task[q]
  BY Setting
<1>2. QED
  BY <1>1, TaskStep DEF Holds, Bars

LEMMA FileSync ==
  ASSUME SyncInv, NEW p \in Tasks, Inv', DataStep, FsyncInv(p)', \A q \in Tasks : q # p => task'[q] = task[q]
  PROVE  SyncInv'
<1>1. created' \in Int
  BY Numbers DEF Inv, Shape
<1>2. \A q \in Tasks : FsyncInv(q)'
  BY <1>1, OthersSync DEF DataStep, DataInv
<1>3. QED
  BY <1>2 DEF SyncInv, DataStep

\* the journal's variables, as most steps of fsync leave them
LEMMA JournalStays ==
  ASSUME SyncInv, UNCHANGED <<trans, request>>
  PROVE  SameTrans /\ Requested
BY SameTransStays DEF SyncInv, Requested

LEMMA WriteSync ==
  ASSUME SyncInv, NEW i \in Inodes, Write(i)
  PROVE  SyncInv'
<1>1. /\ UNCHANGED <<trans, request, created, running, committing, sequence, barrier, timer, thread, aborted, kpc, task, durable>>
      /\ inode' = [inode EXCEPT ![i].written = @ + 1]
  BY DEF Write, journalVars, stateVars, threadVars
<1>2. Inv'
  BY <1>1, InvStays DEF SyncInv
<1>3. InodeInv /\ created \in Nat
  BY Order DEF SyncInv, DataInv
<1>4. PICK n \in Nat : n = inode[i].written + 1
  BY <1>3 DEF InodeInv
<1>5. inode' = [inode EXCEPT ![i].written = n]
  BY <1>1, <1>4
<1>6. DataStep
  BY <1>1, <1>3, <1>4, <1>5, InodeData DEF InodeInv
<1>7. \A q \in Tasks : FsyncInv(q)'
  BY <1>1, <1>3, <1>6, OthersSync DEF DataStep, DataInv
<1>8. QED
  BY <1>2, <1>6, <1>7 DEF SyncInv, DataStep

LEMMA FsyncSync ==
  ASSUME SyncInv, NEW p \in Tasks, NEW i \in Inodes, Fsync(p, i)
  PROVE  SyncInv' /\ task'[p].inode = i /\ task'[p].pc = "writeout" /\ \A q \in Tasks : q # p => task'[q] = task[q]
<1> DEFINE r == [task[p] EXCEPT !.pc = "writeout", !.inode = i, !.modified = inode[i].last, !.wrote = inode[i].written]
<1>1. /\ UNCHANGED <<trans, request, created, running, committing, sequence, barrier, timer, thread, aborted, kpc, inode, durable>>
      /\ task[p].pc = "idle" /\ thread = "runs"
      /\ task' = [task EXCEPT ![p].pc = "writeout", ![p].inode = i,
                              ![p].modified = inode[i].last, ![p].wrote = inode[i].written]
  BY DEF Fsync, At, journalVars, stateVars, threadVars, fsVars
<1>2. /\ inode[i].last \in 0..MaxTrans /\ inode[i].written \in Nat /\ inode[i].last \in Int /\ task[p] \in TaskShape
      /\ task \in [Tasks -> TaskShape]
  BY SyncRanges DEF SyncInv, Inv, Shape
<1>3. /\ r \in TaskShape /\ r.pc = "writeout" /\ r.inode = i /\ r.modified = inode[i].last /\ r.wrote = inode[i].written
      /\ r.waited = task[p].waited
  BY <1>2 DEF TaskShape, Labels
<1>4. task' = [task EXCEPT ![p] = r]
  BY <1>1, <1>2
<1> HIDE DEF r
<1>5. Inv' /\ task'[p] = r /\ \A q \in Tasks : q # p => task'[q] = task[q]
  BY <1>1, <1>3, <1>4, FileInv, JournalStays DEF SyncInv, Holds, Bars
<1>6. DataStep
  BY <1>1, QuietData DEF StillData
<1>7. FsyncInv(p)'
  <2>1. ~task[p].waited
    BY <1>1 DEF SyncInv, FsyncInv
  <2>2. i # Null
    BY NameAssumption
  <2>3. QED
    BY <1>1, <1>2, <1>3, <1>5, <2>1, <2>2 DEF FsyncInv, InFsync
<1>8. QED
  BY <1>3, <1>5, <1>6, <1>7, FileSync

LEMMA EndFsyncSync ==
  ASSUME SyncInv, NEW p \in Tasks, EndFsync(p)
  PROVE  SyncInv' /\ ~InFsync(p)' /\ \A q \in Tasks : q # p => task'[q] = task[q]
<1>1. /\ UNCHANGED <<trans, request, created, running, committing, sequence, barrier, timer, thread, aborted, kpc, inode, durable>>
      /\ task[p].pc = "clear" /\ Done(p)
  BY DEF EndFsync, At, journalVars, stateVars, threadVars, fsVars
<1>2. Inv'
  BY <1>1, BeingDone, TaskStep, JournalStays DEF SyncInv, Holds, Bars
<1>3. DataStep
  BY <1>1, QuietData DEF StillData
<1>4. QED
  BY <1>1, <1>2, <1>3, DoneSync, FileSync

\* where a step of p in its fsync can lead
FileMove(p) ==
  /\ \A q \in Tasks : q # p => task'[q] = task[q]
  /\ task[p].pc # "wait" /\ task'[p].inode = task[p].inode
  /\ InFsync(p) => /\ task'[p].pc \in {"mutex", "repeat", "barrier", "complete", "request", "wait", "flush", "return", "clear"}
                   /\ task'[p].pc = "repeat" => task'[p].sync
                   /\ task'[p].pc = "barrier" => task[p].inode \notin Journalled
                   /\ task'[p].pc \in {"complete", "request", "wait"} => task[p].pc \in {"barrier", "complete", "request"}

LEMMA WriteAndWaitSync ==
  ASSUME SyncInv, NEW p \in Tasks, WriteAndWait(p)
  PROVE  SyncInv' /\ FileMove(p)
<1> DEFINE i == task[p].inode
           r == [task[p] EXCEPT !.pc = "mutex"]
<1>1. /\ UNCHANGED <<trans, request, created, running, committing, sequence, barrier, timer, thread, aborted, kpc, durable>>
      /\ task[p].pc = "writeout" /\ task' = [task EXCEPT ![p].pc = "mutex"]
      /\ inode' = [inode EXCEPT ![i].cached = inode[i].written]
  BY DEF WriteAndWait, At, Go, journalVars, stateVars, threadVars
<1>2. FsyncInv(p) /\ InFsync(p) /\ i \in Inodes /\ InodeInv /\ created \in Nat /\ task[p] \in TaskShape /\ task \in [Tasks -> TaskShape]
  BY <1>1, SyncRanges DEF SyncInv, DataInv, FsyncInv, Inv, Shape
<1>3. /\ r \in TaskShape /\ r.pc = "mutex" /\ r.inode = i /\ r.modified = task[p].modified /\ r.wrote = task[p].wrote
      /\ r.waited = task[p].waited /\ r.flush = task[p].flush /\ r.error = task[p].error
  BY <1>2 DEF TaskShape, Labels
<1>4. task' = [task EXCEPT ![p] = r]
  BY <1>1, <1>2
<1> HIDE DEF r
<1>5. Inv' /\ task'[p] = r /\ \A q \in Tasks : q # p => task'[q] = task[q]
  BY <1>1, <1>3, <1>4, FileInv, JournalStays DEF SyncInv, Holds, Bars
<1>6. DataStep
  <2>1. PICK n \in Nat : n = inode[i].written
    BY <1>2 DEF InodeInv
  <2>2. inode' = [inode EXCEPT ![i].cached = n]
    BY <1>1, <2>1
  <2> HIDE DEF i
  <2>3. QED
    BY <1>1, <1>2, <2>1, <2>2, InodeData DEF InodeInv
<1>7. FsyncInv(p)'
  <2>1. /\ inode'[i].cached = inode[i].written /\ inode'[i].written = inode[i].written /\ inode'[i].last = inode[i].last
    BY <1>1, <1>2 DEF InodeInv
  <2>2. QED
    BY <1>1, <1>2, <1>3, <1>5, <2>1 DEF FsyncInv, InFsync
<1>8. QED
  BY <1>1, <1>3, <1>5, <1>6, <1>7, FileSync DEF FileMove

LEMMA LockInodeSync ==
  ASSUME SyncInv, NEW p \in Tasks, LockInode(p)
  PROVE  SyncInv' /\ FileMove(p)
<1> DEFINE i == task[p].inode
<1>1. /\ UNCHANGED <<trans, request, created, running, committing, sequence, barrier, timer, thread, aborted, kpc, durable>>
      /\ task[p].pc = "mutex" /\ inode' = [inode EXCEPT ![i].mutex = p]
  BY DEF LockInode, At, threadVars
<1>2. FsyncInv(p) /\ InFsync(p) /\ i \in Inodes /\ InodeInv /\ created \in Nat /\ task[p] \in TaskShape /\ task \in [Tasks -> TaskShape]
  BY <1>1, SyncRanges DEF SyncInv, DataInv, FsyncInv, Inv, Shape
<1>3. DataStep
  BY <1>1, <1>2, InodeData DEF InodeInv
<1>4. SameTrans /\ Requested /\ ~Holds(p) /\ ~Bars(p) /\ Inv
  BY <1>1, JournalStays DEF SyncInv, Holds, Bars
<1>5. CASE task' = [task EXCEPT ![p].pc = "repeat", ![p].credits = 1, ![p].sync = TRUE]
  <2> DEFINE r == [task[p] EXCEPT !.pc = "repeat", !.credits = 1, !.sync = TRUE]
  <2>1. /\ r \in TaskShape /\ r.pc = "repeat" /\ r.inode = i /\ r.modified = task[p].modified /\ r.wrote = task[p].wrote
        /\ r.waited = task[p].waited /\ r.flush = task[p].flush /\ r.error = task[p].error /\ r.sync
    <3>1. TRUE \in BOOLEAN /\ 1 \in Int /\ "repeat" \in Labels
      BY DEF Labels
    <3>2. r \in TaskShape
      BY <1>2, <3>1 DEF TaskShape
    <3>3. QED
      BY <1>2, <3>2 DEF TaskShape
  <2>2. task' = [task EXCEPT ![p] = r]
    BY <1>2, <1>5
  <2> HIDE DEF r
  <2>3. Inv' /\ task'[p] = r /\ \A q \in Tasks : q # p => task'[q] = task[q]
    BY <1>1, <1>4, <2>1, <2>2, FileInv
  <2>4. FsyncInv(p)'
    <3>1. SameFsync(p) /\ InodeInv' /\ Forward
      BY <1>3, <2>1, <2>3 DEF SameFsync, DataStep, DataInv
    <3>2. /\ task'[p].modified <= inode'[task'[p].inode].last
          /\ task'[p].wrote <= inode'[task'[p].inode].written
          /\ task'[p].wrote <= inode'[task'[p].inode].cached
      BY <1>1, <1>2, <3>1, StillReached
    <3>3. QED
      BY <1>1, <1>2, <2>1, <2>3, <3>2 DEF FsyncInv, InFsync
  <2>5. QED
    BY <1>1, <1>3, <2>1, <2>3, <2>4, FileSync DEF FileMove
<1>6. CASE i \notin Journalled /\ task' = [task EXCEPT ![p].pc = "barrier", ![p].tid = inode[i].tid]
  <2> DEFINE r == [task[p] EXCEPT !.pc = "barrier", !.tid = inode[i].tid]
  <2>0. PICK s \in 0..created : s = inode[i].last /\ inode[i].tid = Tid(s) /\ Tid(s) \in 0..(TidMod - 1)
    BY <1>2, Numbers DEF InodeInv
  <2>1. /\ r \in TaskShape /\ r.pc = "barrier" /\ r.inode = i /\ r.modified = task[p].modified /\ r.wrote = task[p].wrote
        /\ r.waited = task[p].waited /\ r.flush = task[p].flush /\ r.error = task[p].error /\ r.tid = Tid(s)
    BY <1>2, <2>0 DEF TaskShape, Labels
  <2>2. task' = [task EXCEPT ![p] = r]
    BY <1>2, <1>6
  <2> HIDE DEF r
  <2>3. Inv' /\ task'[p] = r /\ \A q \in Tasks : q # p => task'[q] = task[q]
    BY <1>1, <1>4, <2>1, <2>2, FileInv
  <2>4. FsyncInv(p)'
    <3>1. SameFsync(p) /\ InodeInv' /\ Forward
      BY <1>3, <2>1, <2>3 DEF SameFsync, DataStep, DataInv
    <3>2. /\ task'[p].modified <= inode'[task'[p].inode].last
          /\ task'[p].wrote <= inode'[task'[p].inode].written
          /\ task'[p].wrote <= inode'[task'[p].inode].cached
      BY <1>1, <1>2, <3>1, StillReached
    <3>3. s \in task'[p].modified..created'
      BY <1>1, <1>2, <2>0, <2>1, <2>3, SyncRanges DEF FsyncInv
    <3>4. Aims(p, s)'
      BY <2>1, <2>3 DEF Aims, Tid
    <3>5. QED
      BY <1>1, <1>2, <2>1, <2>3, <3>2, <3>3, <3>4 DEF FsyncInv, InFsync
  <2>5. QED
    BY <1>1, <1>3, <1>6, <2>1, <2>3, <2>4, FileSync DEF FileMove
<1>7. QED
  BY <1>5, <1>6 DEF LockInode

\* no data moves
LEMMA PlainData ==
  ASSUME SyncInv, UNCHANGED <<created, running, committing, sequence, aborted, kpc, inode, durable, trans>>
  PROVE  DataStep
BY QuietData DEF StillData

LEMMA TestBarrierSync ==
  ASSUME SyncInv, NEW p \in Tasks, TestBarrier(p)
  PROVE  SyncInv' /\ FileMove(p)
<1>1. /\ UNCHANGED <<trans, request, created, running, committing, sequence, barrier, timer, thread, aborted, kpc, inode, durable>>
      /\ task[p].pc = "barrier" /\ task' = [task EXCEPT ![p].pc = "complete", ![p].flush = ~WillSendBarrier(task[p].tid)]
  BY DEF TestBarrier, At, journalVars, stateVars, threadVars, fsVars
<1>2. FsyncInv(p) /\ InFsync(p) /\ task[p] \in TaskShape /\ task \in [Tasks -> TaskShape]
  BY <1>1, SyncRanges DEF SyncInv, FsyncInv, Inv, Shape
<1>3. DataStep
  BY <1>1, PlainData
<1>4. SameTrans /\ Requested /\ ~Holds(p) /\ ~Bars(p) /\ Inv
  BY <1>1, JournalStays DEF SyncInv, Holds, Bars
<1>5. PICK f \in BOOLEAN : f = ~WillSendBarrier(task[p].tid)
  OBVIOUS
<1> DEFINE r == [task[p] EXCEPT !.pc = "complete", !.flush = f]
<1>6. /\ r \in TaskShape /\ r.pc = "complete" /\ r.inode = task[p].inode /\ r.modified = task[p].modified /\ r.wrote = task[p].wrote
      /\ r.waited = task[p].waited /\ r.flush = f /\ r.tid = task[p].tid
  BY <1>2 DEF TaskShape, Labels
<1>7. task' = [task EXCEPT ![p] = r]
  BY <1>1, <1>2, <1>5
<1> HIDE DEF r
<1>8. Inv' /\ task'[p] = r /\ \A q \in Tasks : q # p => task'[q] = task[q]
  BY <1>1, <1>4, <1>6, <1>7, FileInv
<1>9. PICK s \in task[p].modified..created : Aims(p, s)
  BY <1>1, <1>2 DEF FsyncInv
<1>10. Aims(p, s)'
  <2>1. CASE f
    BY <1>6, <1>8, <1>9, <2>1 DEF Aims, Tid
  <2>2. CASE ~f
    <3>1. s \in 0..MaxTrans /\ LastDone \in 0..MaxTrans /\ committing \in 0..MaxTrans /\ task[p].tid = Tid(s)
      BY <1>9, SyncRanges, Order DEF Aims
    <3>2. WillSendBarrier(task[p].tid)
      BY <1>5, <2>2
    <3>3. ~tid_geq(Tid(LastDone), Tid(s))
      BY <3>1, <3>2, Order DEF WillSendBarrier
    <3>4. ~(s <= LastDone)
      BY <3>1, <3>3, TidOrder
    <3>5. ~(s = committing /\ kpc = "record")
      <4> SUFFICES ASSUME s = committing, kpc = "record" PROVE FALSE
        OBVIOUS
      <4>1. committing # 0
        BY DEF SyncInv, Inv, ThreadInv, Writing
      <4>2. trans[committing].state = "jflush"
        BY <4>1 DEF SyncInv, DataInv, OrderInv
      <4>3. QED
        BY <3>1, <3>2, <4>1, <4>2 DEF WillSendBarrier
    <3>6. ~Recorded(s)'
      BY <1>1, <3>4, <3>5 DEF Recorded, LastDone
    <3>7. QED
      BY <1>6, <1>8, <3>1, <3>6 DEF Aims, Tid
  <2>3. QED
    BY <2>1, <2>2
<1>11. FsyncInv(p)'
  BY <1>1, <1>2, <1>6, <1>8, <1>9, <1>10 DEF FsyncInv, InFsync
<1>12. QED
  BY <1>1, <1>3, <1>6, <1>8, <1>11, FileSync DEF FileMove

LEMMA GoingKeeps ==
  ASSUME SyncInv, NEW p \in Tasks, NEW l \in Labels, Go(p, l)
  PROVE  /\ SameFsync(p) /\ task'[p].tid = task[p].tid /\ task'[p].pc = l
         /\ (\A q \in Tasks : q # p => task'[q] = task[q])
         /\ \E r \in TaskShape : r.pc = l /\ r.trans = task[p].trans /\ task' = [task EXCEPT ![p] = r]
<1>1. task[p] \in TaskShape /\ task \in [Tasks -> TaskShape]
  BY SyncRanges DEF SyncInv, Inv, Shape
<1> DEFINE r == [task[p] EXCEPT !.pc = l]
<1>2. task' = [task EXCEPT ![p] = r]
  BY <1>1 DEF Go
<1>3. /\ r \in TaskShape /\ r.pc = l /\ r.trans = task[p].trans /\ r.tid = task[p].tid
      /\ r.inode = task[p].inode /\ r.modified = task[p].modified /\ r.wrote = task[p].wrote
      /\ r.waited = task[p].waited /\ r.flush = task[p].flush /\ r.error = task[p].error
  BY <1>1 DEF TaskShape
<1> HIDE DEF r
<1>4. task'[p] = r /\ \A q \in Tasks : q # p => task'[q] = task[q]
  BY <1>1, <1>2
<1>5. QED
  BY <1>2, <1>3, <1>4 DEF SameFsync

\* on the way to the commit
LEMMA OnItsWay ==
  ASSUME SyncInv, NEW p \in Tasks, NEW l \in {"request", "wait"}, Go(p, l), task[p].pc \in {"complete", "request"},
         UNCHANGED <<created, running, committing, sequence, barrier, timer, thread, aborted, kpc, inode, durable>>,
         SameTrans, Requested
  PROVE  SyncInv' /\ FileMove(p)
<1>1. /\ SameFsync(p) /\ task'[p].tid = task[p].tid /\ task'[p].pc = l /\ \A q \in Tasks : q # p => task'[q] = task[q]
  BY GoingKeeps DEF Labels
<1>2. PICK r \in TaskShape : r.pc = l /\ task' = [task EXCEPT ![p] = r]
  BY GoingKeeps DEF Labels
<1>3. Inv'
  BY <1>2, FileInv DEF SyncInv, Holds, Bars
<1>4. DataStep
  BY QuietData DEF StillData, SameTrans
<1>5. FsyncInv(p)'
  <2>1. FsyncInv(p) /\ created \in Nat
    BY SyncRanges DEF SyncInv
  <2>2. CASE ~InFsync(p)
    BY <1>1, <2>1, <2>2 DEF FsyncInv, InFsync, SameFsync
  <2>3. CASE InFsync(p)
    <3>1. PICK s \in task[p].modified..created : Aims(p, s)
      BY <2>1, <2>3 DEF FsyncInv
    <3>2. s \in 0..created
      BY <3>1, SyncRanges
    <3>3. Aims(p, s)'
      BY <1>1, <1>4, <2>3, <3>1, <3>2, StillAims DEF DataStep, DataInv
    <3>4. s \in task'[p].modified..created'
      BY <1>1, <3>1 DEF SameFsync
    <3>5. /\ task'[p].modified <= inode'[task'[p].inode].last
          /\ task'[p].wrote <= inode'[task'[p].inode].written
          /\ task'[p].wrote <= inode'[task'[p].inode].cached
      BY <1>1, <1>4, <2>3, StillReached DEF DataStep, DataInv
    <3>6. QED
      BY <1>1, <2>1, <2>3, <3>3, <3>4, <3>5 DEF FsyncInv, InFsync, SameFsync
  <2>4. QED
    BY <2>2, <2>3
<1>6. QED
  BY <1>1, <1>3, <1>4, <1>5, FileSync DEF FileMove, SameFsync

LEMMA CompleteSync ==
  ASSUME SyncInv, NEW p \in Tasks, Complete(p)
  PROVE  SyncInv' /\ FileMove(p)
<1>1. /\ UNCHANGED <<trans, request, created, running, committing, sequence, barrier, timer, thread, aborted, kpc, inode, durable>>
      /\ task[p].pc = "complete"
  BY DEF Complete, At, journalVars, stateVars, threadVars, fsVars
<1>2. FsyncInv(p) /\ DataStep
  BY <1>1, PlainData DEF SyncInv
<1>3. SameTrans /\ Requested /\ ~Holds(p) /\ ~Bars(p) /\ Inv
  BY <1>1, JournalStays DEF SyncInv, Holds, Bars
<1>4. CASE Go(p, "request") \/ Go(p, "wait")
  BY <1>1, <1>3, <1>4, OnItsWay
<1>5. CASE Done(p) /\ task[p].inode = Null
  <2>1. Inv'
    BY <1>1, <1>3, <1>5, BeingDone, TaskStep DEF Holds, Bars
  <2>2. task'[p].inode = Null
    BY <1>5, DoneSync DEF InFsync
  <2>3. QED
    BY <1>1, <1>2, <1>5, <2>1, <2>2, DoneSync, FileSync DEF FileMove, InFsync
<1>6. CASE /\ ~IsRunning(task[p].tid) /\ ~(committing # 0 /\ Tid(committing) = task[p].tid)
           /\ InFsync(p) /\ Go(p, "flush")
  <2>1. /\ SameFsync(p) /\ task'[p].pc = "flush" /\ \A q \in Tasks : q # p => task'[q] = task[q]
    BY <1>6, GoingKeeps DEF Labels
  <2>2. PICK r \in TaskShape : r.pc = "flush" /\ task' = [task EXCEPT ![p] = r]
    BY <1>6, GoingKeeps DEF Labels
  <2>3. Inv'
    BY <1>1, <1>3, <2>2, FileInv
  <2>4. PICK s \in task[p].modified..created : Aims(p, s)
    BY <1>1, <1>2, <1>6 DEF FsyncInv
  <2>5. Recorded(s)
    <3>1. s \in 0..created /\ task[p].tid = Tid(s)
      BY <2>4, SyncRanges DEF Aims
    <3>2. QED
      BY <1>6, <3>1, Order DEF IsRunning, Recorded
  <2>6. ~aborted => Reached(p)'
    BY <1>1, <2>1, <2>4, <2>5, RecordedReached DEF Reached, SameFsync
  <2>7. /\ task'[p].modified <= inode'[task'[p].inode].last
        /\ task'[p].wrote <= inode'[task'[p].inode].written
        /\ task'[p].wrote <= inode'[task'[p].inode].cached
    BY <1>1, <1>2, <1>6, <2>1, StillReached DEF DataStep, DataInv
  <2>8. ~task'[p].waited
    BY <1>1, <1>2, <2>1 DEF FsyncInv, SameFsync
  <2>9. FsyncInv(p)'
    BY <1>1, <1>6, <2>1, <2>6, <2>7, <2>8 DEF FsyncInv, InFsync, SameFsync
  <2>10. QED
    BY <1>1, <1>2, <2>1, <2>3, <2>9, FileSync DEF FileMove, SameFsync
<1>7. QED
  BY <1>4, <1>5, <1>6 DEF Complete, InFsync

LEMMA EvictSync ==
  ASSUME SyncInv, NEW p \in Tasks, NEW i \in Inodes, Evict(p, i)
  PROVE  SyncInv' /\ FileMove(p)
<1>1. /\ UNCHANGED <<trans, request, created, running, committing, sequence, barrier, timer, thread, aborted, kpc, inode, durable>>
      /\ task[p].pc = "idle" /\ thread = "runs" /\ task' = [task EXCEPT ![p].pc = "complete", ![p].tid = inode[i].tid]
  BY DEF Evict, At, journalVars, stateVars, threadVars, fsVars
<1>2. FsyncInv(p) /\ ~InFsync(p) /\ task[p] \in TaskShape /\ task \in [Tasks -> TaskShape]
  BY <1>1, SyncRanges DEF SyncInv, FsyncInv, Inv, Shape
<1>3. PICK n \in 0..(TidMod - 1) : n = inode[i].tid
  <2>1. PICK s \in 0..created : inode[i].tid = Tid(s)
    BY DEF SyncInv, DataInv, InodeInv
  <2>2. s \in Int
    BY SyncRanges
  <2>3. QED
    BY <2>1, <2>2, Numbers
<1> DEFINE r == [task[p] EXCEPT !.pc = "complete", !.tid = n]
<1>4. r \in TaskShape /\ r.pc = "complete" /\ r.inode = task[p].inode /\ r.waited = task[p].waited
  BY <1>2, <1>3 DEF TaskShape, Labels
<1>5. task' = [task EXCEPT ![p] = r]
  BY <1>1, <1>2, <1>3
<1> HIDE DEF r
<1>6. Inv' /\ task'[p] = r /\ \A q \in Tasks : q # p => task'[q] = task[q]
  BY <1>1, <1>4, <1>5, FileInv, JournalStays DEF SyncInv, Holds, Bars
<1>7. FsyncInv(p)'
  BY <1>1, <1>2, <1>4, <1>6 DEF FsyncInv, InFsync
<1>8. QED
  BY <1>1, <1>2, <1>4, <1>6, <1>7, PlainData, FileSync DEF FileMove

\* with fs_mapping a proper mapping, or the task's own inode
LEMMA RequestSync ==
  ASSUME SyncInv, NEW p \in Tasks, Request(p), fs_mapping \in Inodes \cup {Null}
  PROVE  SyncInv' /\ FileMove(p)
<1>1. /\ UNCHANGED <<created, running, committing, sequence, barrier, timer, thread, aborted, kpc, inode, durable>>
      /\ task[p].pc = "request" /\ Go(p, "wait")
  BY DEF Request, At, stateVars, fsVars
<1>2. SameTrans /\ Requested
  <2>1. task[p].inode \in Inodes \cup {Null}
    BY SyncRanges
  <2>2. PICK m \in Inodes \cup {Null} : LogStartCommit(task[p].tid, m)
    BY <2>1 DEF Request
  <2>3. QED
    BY <2>2, StartCommit DEF SyncInv
<1>3. QED
  BY <1>1, <1>2, OnItsWay

LEMMA FlushSync ==
  ASSUME SyncInv, NEW p \in Tasks, Flush(p)
  PROVE  SyncInv' /\ FileMove(p)
<1>1. /\ UNCHANGED <<trans, request, created, running, committing, sequence, barrier, timer, thread, aborted, kpc, durable>>
      /\ task[p].pc = "flush" /\ Go(p, "return") /\ inode' = IF task[p].flush THEN Flushed ELSE inode
  BY DEF Flush, At, journalVars, stateVars, threadVars
<1>2. FsyncInv(p) /\ InFsync(p) /\ InodeInv /\ task[p].inode \in Inodes /\ created \in Nat
  BY <1>1, SyncRanges DEF SyncInv, FsyncInv, DataInv
<1>3. DataStep
  <2>1. CASE inode' = Flushed
    <3>1. /\ inode' \in [Inodes -> [tid : Int, last : Int, mutex : Tasks \cup {Null}, written : Nat, cached : Nat, stable : Nat]]
          /\ \A i \in Inodes : /\ inode'[i].last = inode[i].last /\ inode'[i].tid = inode[i].tid
                               /\ inode'[i].written = inode[i].written /\ inode'[i].cached = inode[i].cached
                               /\ inode'[i].stable = inode[i].cached
      BY <1>2, <2>1 DEF Flushed, InodeInv
    <3>2. QED
      BY <1>1, <1>2, <3>1, InodeData DEF InodeInv
  <2>2. CASE inode' = inode
    BY <1>1, <2>2, PlainData
  <2>3. QED
    BY <1>1, <2>1, <2>2
<1>4. /\ SameFsync(p) /\ task'[p].pc = "return" /\ \A q \in Tasks : q # p => task'[q] = task[q]
  BY <1>1, GoingKeeps DEF Labels
<1>5. PICK r \in TaskShape : r.pc = "return" /\ task' = [task EXCEPT ![p] = r]
  BY <1>1, GoingKeeps DEF Labels
<1>6. Inv'
  BY <1>1, <1>5, FileInv, JournalStays DEF SyncInv, Holds, Bars
<1>7. /\ task'[p].modified <= inode'[task'[p].inode].last
      /\ task'[p].wrote <= inode'[task'[p].inode].written
      /\ task'[p].wrote <= inode'[task'[p].inode].cached
      /\ task[p].wrote <= inode[task[p].inode].stable => task'[p].wrote <= inode'[task'[p].inode].stable
  BY <1>1, <1>2, <1>3, <1>4, StillReached DEF DataStep, DataInv
<1>8. ASSUME ~task'[p].error, task'[p].waited \/ ~aborted' PROVE Reached(p)'
  <2>1. Reached(p)
    BY <1>1, <1>2, <1>4, <1>8 DEF FsyncInv, SameFsync
  <2>2. CASE task[p].flush
    <3>1. inode'[task[p].inode].stable = inode[task[p].inode].cached
      BY <1>1, <1>2, <2>2 DEF Flushed, InodeInv
    <3>2. QED
      BY <1>1, <1>2, <1>4, <2>1, <3>1 DEF Reached, SameFsync, FsyncInv
  <2>3. CASE ~task[p].flush
    BY <1>1, <1>4, <1>7, <2>1, <2>3 DEF Reached, SameFsync
  <2>4. QED
    BY <2>2, <2>3
<1>9. FsyncInv(p)'
  BY <1>2, <1>4, <1>7, <1>8 DEF FsyncInv, InFsync, SameFsync
<1>10. QED
  BY <1>1, <1>3, <1>4, <1>6, <1>9, FileSync DEF FileMove, SameFsync

LEMMA ReturnSync ==
  ASSUME SyncInv, NEW p \in Tasks, Return(p)
  PROVE  SyncInv' /\ FileMove(p)
<1> DEFINE i == task[p].inode
<1>1. /\ UNCHANGED <<trans, request, created, running, committing, sequence, barrier, timer, thread, aborted, kpc, durable>>
      /\ task[p].pc = "return" /\ Go(p, "clear") /\ inode' = [inode EXCEPT ![i].mutex = Null]
  BY DEF Return, At, journalVars, stateVars, threadVars
<1>2. FsyncInv(p) /\ InFsync(p) /\ InodeInv /\ i \in Inodes /\ created \in Nat
  BY <1>1, SyncRanges DEF SyncInv, FsyncInv, DataInv
<1>3. DataStep
  BY <1>1, <1>2, InodeData DEF InodeInv
<1>4. /\ SameFsync(p) /\ task'[p].pc = "clear" /\ \A q \in Tasks : q # p => task'[q] = task[q]
  BY <1>1, GoingKeeps DEF Labels
<1>5. PICK r \in TaskShape : r.pc = "clear" /\ task' = [task EXCEPT ![p] = r]
  BY <1>1, GoingKeeps DEF Labels
<1>6. Inv'
  BY <1>1, <1>5, FileInv, JournalStays DEF SyncInv, Holds, Bars
<1>7. /\ task'[p].modified <= inode'[task'[p].inode].last
      /\ task'[p].wrote <= inode'[task'[p].inode].written
      /\ task'[p].wrote <= inode'[task'[p].inode].cached
  BY <1>1, <1>2, <1>3, <1>4, StillReached DEF DataStep, DataInv
<1>8. FsyncInv(p)'
  BY <1>2, <1>4, <1>7 DEF FsyncInv, InFsync, SameFsync
<1>9. QED
  BY <1>1, <1>3, <1>4, <1>6, <1>8, FileSync DEF FileMove, SameFsync

LEMMA ModifySync ==
  ASSUME SyncInv, NEW p \in Tasks, NEW i \in Inodes, Modify(p, i)
  PROVE  SyncInv' /\ FileMove(p)
<1>1. /\ UNCHANGED <<trans, request, created, running, committing, sequence, barrier, timer, thread, aborted, kpc, durable>>
      /\ task[p].pc = "handle" /\ task[p].inode = Null /\ task' = [task EXCEPT ![p].credits = @ - 1]
      /\ inode' = [inode EXCEPT ![i].tid = Tid(task[p].trans), ![i].last = task[p].trans]
  BY DEF Modify, At, journalVars, stateVars, threadVars
<1>2. /\ FsyncInv(p) /\ InodeInv /\ created \in Nat /\ task[p] \in TaskShape /\ task \in [Tasks -> TaskShape]
      /\ task[p].trans = created
  <2>1. task[p].trans = running /\ running # 0
    BY <1>1 DEF SyncInv, Inv, HandleInv, Holds
  <2>2. running = created
    BY <2>1 DEF SyncInv, DataInv, OrderInv
  <2>3. QED
    BY <2>1, <2>2, SyncRanges DEF SyncInv, FsyncInv, DataInv, Inv, Shape
<1>3. DataStep
  <2>1. PICK n \in Int : n = Tid(created)
    BY <1>2, Numbers
  <2>2. inode' = [inode EXCEPT ![i].tid = n, ![i].last = created]
    BY <1>1, <1>2, <2>1
  <2>3. /\ inode' \in [Inodes -> [tid : Int, last : Int, mutex : Tasks \cup {Null}, written : Nat, cached : Nat, stable : Nat]]
        /\ \A j \in Inodes : /\ inode'[j].last = (IF j = i THEN created ELSE inode[j].last)
                             /\ inode'[j].tid = (IF j = i THEN n ELSE inode[j].tid)
                             /\ inode'[j].written = inode[j].written /\ inode'[j].cached = inode[j].cached
                             /\ inode'[j].stable = inode[j].stable
    <3> DEFINE e == [inode[i] EXCEPT !.tid = n, !.last = created]
    <3>1. inode' = [inode EXCEPT ![i] = e]
      BY <1>2, <2>2 DEF InodeInv
    <3>2. /\ e \in [tid : Int, last : Int, mutex : Tasks \cup {Null}, written : Nat, cached : Nat, stable : Nat]
          /\ e.last = created /\ e.tid = n /\ e.written = inode[i].written /\ e.cached = inode[i].cached
          /\ e.stable = inode[i].stable
      <4>1. /\ inode[i] \in [tid : Int, last : Int, mutex : Tasks \cup {Null}, written : Nat, cached : Nat, stable : Nat]
            /\ created \in Int
        BY <1>2 DEF InodeInv
      <4>2. QED
        BY <2>1, <4>1
    <3> HIDE DEF e
    <3>3. QED
      BY <1>2, <3>1, <3>2 DEF InodeInv
  <2>4. QED
    BY <1>1, <1>2, <2>1, <2>3, InodeData DEF InodeInv
<1>4. PICK c \in Int : c = task[p].credits - 1
  BY <1>2 DEF TaskShape
<1> DEFINE r == [task[p] EXCEPT !.credits = c]
<1>5. /\ r \in TaskShape /\ r.pc = "handle" /\ r.trans = task[p].trans /\ r.inode = task[p].inode
      /\ r.waited = task[p].waited
  BY <1>1, <1>2, <1>4 DEF TaskShape
<1>6. task' = [task EXCEPT ![p] = r]
  BY <1>1, <1>2, <1>4
<1> HIDE DEF r
<1>7. Inv' /\ task'[p] = r /\ \A q \in Tasks : q # p => task'[q] = task[q]
  BY <1>1, <1>5, <1>6, FileInv, JournalStays DEF SyncInv
<1>8. FsyncInv(p)'
  BY <1>1, <1>2, <1>5, <1>7 DEF FsyncInv, InFsync
<1>9. QED
  BY <1>1, <1>3, <1>5, <1>7, <1>8, FileSync DEF FileMove, InFsync

-----------------------------------------------------------------------------
(* A file that is synced is durable                                         *)

\* only a lock of the inode leaves a mapping to the journal
LEMMA MappingOfJournal ==
  ASSUME SyncInv, fs_mapping \in Inodes \cup {Null}, [TagNext]_<<vars, tagVars>>
  PROVE  /\ fs_mapping' \in Inodes \cup {Null}
         /\ fs_mapping' = fs_mapping \/ fs_mapping' \in Journalled
<1>1. CASE JournalStep
  <2>1. ASSUME NEW p \in Tasks, Handle(p) PROVE UNCHANGED fs_mapping
    BY <2>1 DEF Handle, StartAborted, StartBarrier, StartNone, GetTransaction, StartLocked, StartTooLarge,
                AskForCommit, StartThisHandle, StopRequest, Stop, journalVars, stateVars
  <2>2. ASSUME NEW p \in Tasks, Commits(p) \/ Barrier(p) PROVE UNCHANGED fs_mapping
    BY <2>2 DEF Commits, WaitCommit, RequestNested, Barrier, Quiesce, LockBarrier, UnlockUpdates, journalVars, stateVars
  <2>3. ASSUME NEW p \in Tasks, Choice(p) PROVE UNCHANGED fs_mapping
    BY <2>3 DEF Choice, Restart, JournalStart, Extend, LockUpdates, SyncFs, ForceNested, journalVars, stateVars
  <2>4. CASE CommitThread
    BY <2>4 DEF CommitThread, Loop, Woken, LockTransaction, Drain, CommitRecord, NoRecord, EndCommit, Finish, WakeWaiters,
                ThreadExit, FinalCommit, journalVars, stateVars
  <2>5. CASE Expire \/ TimerFires \/ Abort \/ KillThread
    BY <2>5 DEF Expire, TimerFires, Abort, KillThread, stateVars
  <2>6. QED
    BY <1>1, <2>1, <2>2, <2>3, <2>4, <2>5 DEF JournalStep
<1>2. CASE \/ \E i \in Inodes : Write(i)
           \/ \E p \in Tasks : EndFsync(p) \/ \E i \in Inodes : Fsync(p, i)
           \/ WriteLog \/ Leave \/ UNCHANGED <<vars, tagVars>>
  BY <1>2 DEF Write, EndFsync, Fsync, WriteLog, Leave, vars, journalVars, stateVars
<1>3. ASSUME NEW p \in Tasks, FileStep(p)
      PROVE  /\ fs_mapping' \in Inodes \cup {Null}
             /\ fs_mapping' = fs_mapping \/ fs_mapping' \in Journalled
  <2>1. CASE LockInode(p)
    <3>1. task[p].pc = "mutex"
      BY <2>1 DEF LockInode, At
    <3>2. task[p].inode \in Inodes
      BY <3>1, SyncRanges DEF SyncInv, FsyncInv
    <3>3. QED
      BY <2>1, <3>2 DEF LockInode
  <2>2. CASE ~LockInode(p)
    BY <1>3, <2>2 DEF FileStep, WriteAndWait, TestBarrier, Complete, Request, Flush, Return, Modify, Evict,
         journalVars, stateVars
  <2>3. QED
    BY <2>1, <2>2
<1>4. QED
  BY <1>1, <1>2, <1>3 DEF TagNext

LEMMA TagInitSync == TagInit => SyncInv /\ fs_mapping \in Inodes \cup {Null}
<1> SUFFICES ASSUME TagInit PROVE SyncInv /\ fs_mapping \in Inodes \cup {Null}
  OBVIOUS
<1>1. Init /\ Inv
  BY InitInv DEF TagInit
<1>2. /\ \A p \in Tasks : task[p].pc = "idle" /\ task[p].inode = Null /\ task[p].waited = FALSE
      /\ created = 0 /\ running = 0 /\ committing = 0 /\ sequence = FirstTid /\ kpc = "loop" /\ durable = {}
      /\ inode = [i \in Inodes |-> [tid |-> FirstTid, last |-> 0, mutex |-> Null,
                                    written |-> 0, cached |-> 0, stable |-> 0]]
      /\ fs_mapping = Null
  BY <1>1 DEF Init, Idle
<1>3. Tid(0) = FirstTid /\ FirstTid \in Int
  BY Numbers, TidAssumption DEF Tid
<1>4. OrderInv
  BY <1>2, <1>3 DEF OrderInv, LastDone
<1>5. DurableInv
  BY <1>2, Numbers DEF DurableInv, Recorded, LastDone, Trans
<1>6. InodeInv
  BY <1>2, <1>3 DEF InodeInv
<1>7. \A p \in Tasks : FsyncInv(p)
  BY <1>2 DEF FsyncInv, InFsync
<1>8. QED
  BY <1>1, <1>2, <1>4, <1>5, <1>6, <1>7 DEF SyncInv, DataInv

LEMMA TagStepSync ==
  ASSUME SyncInv, fs_mapping \in Inodes \cup {Null}, [TagNext]_<<vars, tagVars>>
  PROVE  SyncInv' /\ fs_mapping' \in Inodes \cup {Null}
<1>1. CASE JournalStep
  BY <1>1, JournalTask, JournalThread, MappingOfJournal DEF JournalStep
<1>2. CASE WriteLog \/ Leave
  BY <1>2, JournalThread, MappingOfJournal
<1>3. CASE \E i \in Inodes : Write(i)
  BY <1>3, WriteSync, MappingOfJournal
<1>4. CASE \E p \in Tasks : FileStep(p)
  BY <1>4, MappingOfJournal, WriteAndWaitSync, LockInodeSync, TestBarrierSync, CompleteSync, RequestSync, FlushSync,
     ReturnSync, ModifySync, EvictSync DEF FileStep
<1>5. CASE \E p \in Tasks : EndFsync(p) \/ \E i \in Inodes : Fsync(p, i)
  BY <1>5, MappingOfJournal, EndFsyncSync, FsyncSync
<1>6. CASE UNCHANGED <<vars, tagVars>>
  <2>1. UNCHANGED <<trans, request, created, running, committing, sequence, barrier, timer, thread, aborted, kpc, task, inode, durable>>
    BY <1>6 DEF vars, journalVars, stateVars, threadVars, fsVars
  <2>2. Inv' /\ DataStep
    BY <2>1, InvStays, PlainData DEF SyncInv
  <2>3. \A q \in Tasks : FsyncInv(q)'
    BY <2>1, <2>2, Order, OthersSync DEF DataStep, DataInv
  <2>4. QED
    BY <2>2, <2>3, <1>6, MappingOfJournal DEF SyncInv, DataStep
<1>7. QED
  BY <1>1, <1>2, <1>3, <1>4, <1>5, <1>6 DEF TagNext

LEMMA SyncInvariance == TagSpec => [](SyncInv /\ fs_mapping \in Inodes \cup {Null})
<1>1. SyncInv /\ fs_mapping \in Inodes \cup {Null} /\ [TagNext]_<<vars, tagVars>>
        => (SyncInv /\ fs_mapping \in Inodes \cup {Null})'
  BY TagStepSync
<1>2. QED
  BY <1>1, TagInitSync, PTL DEF TagSpec

\* An fsync that returns 0 has what it was called for durable: the last change of the inode is
\* in a transaction whose record is on the disk, and the data is past the disk's cache, by
\* blkdev_issue_flush or by the flush of a commit that jbd2_trans_will_send_data_barrier relied on.
THEOREM SyncedIsDurable == TagSpec => []FsyncDurable
<1>1. SyncInv => FsyncDurable
  <2> SUFFICES ASSUME SyncInv, NEW p \in Tasks, At(p, "return"), ~task[p].error, task[p].waited \/ ~aborted
               PROVE  Snapshot(p)
    BY DEF FsyncDurable
  <2>1. task[p].pc = "return" /\ FsyncInv(p) /\ InFsync(p)
    BY DEF At, SyncInv, FsyncInv
  <2>2. Reached(p)
    BY <2>1 DEF FsyncInv
  <2>3. task[p].wrote \in Nat /\ inode[task[p].inode].stable \in Nat
    BY <2>1, SyncRanges
  <2>4. QED
    BY <2>1, <2>2, <2>3 DEF Reached, Snapshot
<1>2. QED
  BY <1>1, SyncInvariance, PTL

-----------------------------------------------------------------------------
(* The tags, when no inode is synced by two tasks                           *)

Places == {"writeout", "mutex", "repeat", "create", "ask", "handle", "stop", "barrier", "complete",
           "request", "wait", "flush", "return", "clear"}

\* a step of p, in an fsync or not, as the tags see it
TagMove(p) ==
  /\ \A q \in Tasks : q # p => task'[q] = task[q]
  /\ task'[p].inode = task[p].inode
  /\ InFsync(p) => /\ task'[p].pc \in Places
                   /\ task'[p].pc \in {"repeat", "create", "ask", "handle", "stop"} => task'[p].sync
                   /\ task'[p].pc \in {"barrier", "complete", "request"} => task[p].inode \notin Journalled
                   /\ (task'[p].pc = "wait" /\ task[p].pc # "wait") =>
                        \/ task'[p].tid = Tid(running) /\ running # 0
                        \/ task[p].inode \notin Journalled
  /\ task[p].pc = "wait" => task'[p] = task[p] \/ (task'[p].pc # "wait" /\ ~tid_gt(task[p].tid, sequence))

SameMappings == \A t \in Trans : trans'[t].mapping = trans[t].mapping

LEMMA MappingsKept ==
  ASSUME SyncInv, NEW p \in Tasks, Handle(p) \/ Commits(p) \/ Choice(p) \/ Barrier(p)
  PROVE  SameMappings
<1>1. trans \in [Trans -> TransShape] /\ (running # 0 => running \in Trans) /\ Inv
  BY Ranges DEF SyncInv
<1>2. ASSUME UNCHANGED trans PROVE SameMappings
  BY <1>2 DEF SameMappings
<1>3. ASSUME NEW t, NEW m, LogStartCommit(t, m), IsRunning(t) => m = trans[running].mapping PROVE SameMappings
  <2>1. trans' = trans \/ (trans' = [trans EXCEPT ![running].mapping = m] /\ m = trans[running].mapping)
    BY <1>3 DEF LogStartCommit
  <2>2. ASSUME trans' = [trans EXCEPT ![running].mapping = m], m = trans[running].mapping PROVE SameMappings
    BY <1>1, <2>2 DEF TransShape, SameMappings
  <2>3. QED
    BY <1>2, <2>1, <2>2
<1>4. ASSUME DropUpdate(p) PROVE SameMappings
  BY <1>1, <1>4 DEF SameMappings, DropUpdate, TransShape
<1>5. CASE StartAborted(p) \/ StartBarrier(p) \/ StartNone(p) \/ StartLocked(p) \/ StartTooLarge(p)
  BY <1>2, <1>5 DEF StartAborted, StartBarrier, StartNone, StartLocked, StartTooLarge, Usable, journalVars
<1>6. CASE AskForCommit(p) \/ RequestNested(p)
  <2>1. PICK mapping \in Mappings(task[p].trans) : LogStartCommit(task[p].tid, mapping)
    BY <1>6 DEF AskForCommit, RequestNested
  <2>2. task[p].pc \in {"ask", "nested"}
    BY <1>6 DEF AskForCommit, RequestNested, At
  <2>3. QED
    BY <1>1, <1>3, <2>1, <2>2, MappingsAreProper
<1>7. CASE StartThisHandle(p)
  <2>1. PICK c, u : trans' = [trans EXCEPT ![running].credits = c, ![running].updates = u]
    BY <1>7 DEF StartThisHandle
  <2>2. QED
    BY <1>1, <2>1 DEF SameMappings, TransShape
<1>8. CASE StopRequest(p)
  <2>1. task[p].trans = running
    BY <1>8 DEF StopRequest, At, SyncInv, Inv, HandleInv, Holds
  <2>2. QED
    BY <1>2, <1>3, <1>8, <2>1 DEF StopRequest
<1>9. CASE Stop(p)
  BY <1>4, <1>9 DEF Stop
<1>10. CASE WaitCommit(p)
  BY <1>2, <1>10 DEF WaitCommit, journalVars
<1>11. ASSUME NEW n, Restart(p, n) PROVE SameMappings
  BY <1>4, <1>11 DEF Restart
<1>12. ASSUME NEW n, NEW s, JournalStart(p, n, s) PROVE SameMappings
  BY <1>2, <1>12 DEF JournalStart, journalVars
<1>13. CASE Extend(p)
  <2>1. PICK t, c : trans' = [trans EXCEPT ![t].credits = c]
    BY <1>13 DEF Extend
  <2>2. QED
    BY <1>1, <2>1 DEF SameMappings, TransShape
<1>14. CASE LockUpdates(p) \/ Barrier(p)
  BY <1>2, <1>14 DEF LockUpdates, Barrier, Quiesce, LockBarrier, UnlockUpdates, journalVars
<1>15. CASE SyncFs(p)
  BY <1>2, <1>3, <1>15 DEF SyncFs
<1>16. CASE ForceNested(p)
  BY <1>2, <1>16 DEF ForceNested, journalVars
<1>17. CASE GetTransaction(p)
  BY <1>1, <1>2, <1>17 DEF GetTransaction, SameMappings, TransShape
<1>18. QED
  BY <1>5, <1>6, <1>7, <1>8, <1>9, <1>10, <1>11, <1>12, <1>13, <1>14, <1>15, <1>16, <1>17
     DEF Handle, Commits, Choice, Barrier

\* the tasks of JournalCommit
LEMMA JournalMove ==
  ASSUME SyncInv, NEW p \in Tasks, PlaceInv(p), Handle(p) \/ Commits(p) \/ Choice(p) \/ Barrier(p)
  PROVE  TagMove(p)
<1>0. task \in [Tasks -> TaskShape] /\ FsyncInv(p) /\ task[p] \in TaskShape
  BY DEF SyncInv, Inv, Shape
<1>1. CASE UNCHANGED task
  BY <1>1 DEF TagMove, PlaceInv, InFsync, Places
<1>2. CASE Done(p) /\ ~InFsync(p) /\ task[p].pc # "wait"
  BY <1>0, <1>2 DEF TagMove, Done, Idle, InFsync
<1>3. CASE \/ StartNone(p) \/ GetTransaction(p) \/ StartTooLarge(p) \/ AskForCommit(p) \/ StartThisHandle(p)
           \/ StopRequest(p) \/ Extend(p) \/ LockUpdates(p) \/ LockBarrier(p)
           \/ (Quiesce(p) /\ ~UNCHANGED task)
           \/ \E n \in Asks : Restart(p, n) \/ \E s \in BOOLEAN : JournalStart(p, n, s)
  <2>1. /\ SameFsync(p) /\ \A q \in Tasks : q # p => task'[q] = task[q]
        /\ task[p].pc \in Underway \cup {"idle"} /\ task'[p].pc \in Underway
        /\ task[p].pc = "idle" \/ task'[p].sync = task[p].sync
        /\ task[p].pc \in Handling => task'[p].pc \in Handling
    BY <1>3, UnderwayTask
  <2>2. CASE InFsync(p)
    <3>1. task[p].pc \in Handling /\ task[p].sync
      BY <1>0, <2>1, <2>2 DEF PlaceInv, Underway, Handling, FsyncInv
    <3>2. task'[p].sync
      BY <2>1, <3>1 DEF Handling
    <3>3. task'[p].pc \in Handling
      BY <2>1, <3>1
    <3>4. QED
      BY <2>1, <3>1, <3>2, <3>3 DEF TagMove, SameFsync, Places, Handling
  <2>3. CASE ~InFsync(p)
    BY <2>1, <2>3 DEF TagMove, SameFsync, Underway, Handling
  <2>4. QED
    BY <2>2, <2>3
<1>4. CASE SyncFs(p) \/ ForceNested(p) \/ RequestNested(p)
  <2>1. ~InFsync(p) /\ ~InFsync(p)' /\ \A q \in Tasks : q # p => task'[q] = task[q]
    BY <1>4, OutsideTask
  <2>2. task[p].pc # "wait"
    BY <1>4 DEF SyncFs, ForceNested, RequestNested, At
  <2>3. QED
    BY <2>1, <2>2 DEF TagMove, InFsync
<1>5. CASE UnlockUpdates(p)
  <2>1. task[p].pc = "quiet" /\ Done(p)
    BY <1>5 DEF UnlockUpdates, At
  <2>2. QED
    BY <1>2, <2>1 DEF PlaceInv
<1>6. CASE StartAborted(p)
  <2>1. task[p].pc = "repeat" /\ Fail(p)
    BY <1>6 DEF StartAborted, Repeat, At
  <2>2. CASE ~InFsync(p)
    BY <1>2, <2>1, <2>2 DEF Fail, InFsync, Done
  <2>3. CASE InFsync(p)
    <3>1. task' = [task EXCEPT ![p] = [task[p] EXCEPT !.pc = "return", !.error = TRUE]]
      BY <2>1, <2>3 DEF Fail, InFsync
    <3>2. task'[p].inode = task[p].inode /\ task'[p].pc = "return" /\ \A q \in Tasks : q # p => task'[q] = task[q]
      BY <1>0, <3>1 DEF TaskShape
    <3>3. QED
      BY <2>1, <3>2 DEF TagMove, Places
  <2>4. QED
    BY <2>2, <2>3
<1>7. CASE Stop(p)
  <2>1. task[p].pc = "stop" /\ task[p].trans = running /\ running # 0
    BY <1>7 DEF Stop, At, SyncInv, Inv, HandleInv, Holds
  <2>2. CASE Done(p)
    <3>1. ~InFsync(p)
      <4> SUFFICES ASSUME InFsync(p) PROVE FALSE
        OBVIOUS
      <4>1. task[p].sync
        BY <2>1 DEF PlaceInv
      <4>2. task'[p].pc = "wait"
        <5> DEFINE r == [task[p] EXCEPT !.pc = "wait", !.tid = Tid(running), !.trans = 0, !.credits = 0, !.sync = FALSE]
        <5>1. task' = [task EXCEPT ![p] = r]
          BY <1>7, <2>1, <4>1 DEF Stop
        <5>2. r.pc = "wait"
          BY <1>0 DEF TaskShape
        <5> HIDE DEF r
        <5>3. QED
          BY <1>0, <5>1, <5>2
      <4>3. task'[p].pc = "idle"
        BY <1>0, <2>2 DEF Done, Idle
      <4>4. QED
        BY <4>2, <4>3
    <3>2. QED
      BY <1>2, <2>1, <2>2, <3>1
  <2>3. CASE ~Done(p)
    <3> DEFINE r == [task[p] EXCEPT !.pc = "wait", !.tid = Tid(running), !.trans = 0, !.credits = 0, !.sync = FALSE]
    <3>1. task' = [task EXCEPT ![p] = r]
      BY <1>7, <2>1, <2>3 DEF Stop, Done
    <3>2. r.pc = "wait" /\ r.tid = Tid(running) /\ r.inode = task[p].inode
      BY <1>0 DEF TaskShape
    <3> HIDE DEF r
    <3>3. task'[p] = r /\ \A q \in Tasks : q # p => task'[q] = task[q]
      BY <1>0, <3>1
    <3>4. QED
      BY <2>1, <3>2, <3>3 DEF TagMove, Places
  <2>4. QED
    BY <2>2, <2>3
<1>8. CASE WaitCommit(p) /\ ~UNCHANGED task
  <2>1. /\ task[p].pc = "wait" /\ ~tid_gt(task[p].tid, sequence)
        /\ task' = IF task[p].inode = Null THEN [task EXCEPT ![p] = Idle]
                   ELSE [task EXCEPT ![p].pc = "flush", ![p].waited = TRUE, ![p].error = CommitError]
    BY <1>8 DEF WaitCommit, At
  <2>2. CASE task[p].inode = Null
    BY <1>0, <2>1, <2>2 DEF TagMove, Idle, InFsync
  <2>3. CASE task[p].inode # Null
    <3>1. task'[p].inode = task[p].inode /\ task'[p].pc = "flush" /\ \A q \in Tasks : q # p => task'[q] = task[q]
      BY <1>0, <2>1, <2>3 DEF TaskShape
    <3>2. QED
      BY <2>1, <3>1 DEF TagMove, Places
  <2>4. QED
    BY <2>2, <2>3
<1>9. CASE StartBarrier(p) \/ StartLocked(p)
  BY <1>1, <1>9 DEF StartBarrier, StartLocked
<1>10. ASSUME NEW n \in Asks, JournalStart(p, n, FALSE) \/ JournalStart(p, n, TRUE)
       PROVE  \E m \in Asks : Restart(p, m) \/ \E s \in BOOLEAN : JournalStart(p, m, s)
  BY <1>10
<1>11. QED
  BY <1>1, <1>3, <1>4, <1>5, <1>6, <1>7, <1>8, <1>9, <1>10 DEF Handle, Commits, Choice, Barrier

\* the mapping of a transaction changes with a request for its commit only
MappingMove(p) ==
  \A t \in Trans : \/ trans'[t].mapping = trans[t].mapping
                   \/ t = running /\ (trans'[t].mapping \notin Regular \/ Waits(p, t)')

LEMMA MarkTask ==
  ASSUME SyncInv, SyncInv', MarkInv, NEW p \in Tasks, TagMove(p), MappingMove(p),
         UNCHANGED <<tag, devTag, source, bh_meta, kpc, committing, sequence>>,
         fs_mapping' \in Journalled \cup {Null},
         \/ UNCHANGED <<created, running>>
         \/ running = 0 /\ created' = created + 1 /\ running' = created'
  PROVE  MarkInv'
<1>0. /\ created \in Nat /\ MaxTrans \in Nat /\ running \in 0..created /\ committing \in 0..created
      /\ created' \in Nat /\ running' \in 0..MaxTrans /\ created \in 0..MaxTrans
      /\ committing # 0 => committing # running /\ kpc \in Writing
      /\ kpc \in Writing => committing # 0
  <2>1. created' \in 0..MaxTrans /\ running' \in 0..created'
    BY DEF SyncInv, Inv, Shape
  <2>2. /\ created \in 0..MaxTrans /\ running \in 0..created /\ committing \in 0..created /\ MaxTrans \in Nat
        /\ committing # 0 => committing # running
    BY Order, Numbers
  <2>3. kpc \in Writing <=> committing # 0
    BY DEF SyncInv, Inv, ThreadInv
  <2>4. QED
    BY <2>1, <2>2, <2>3
<1>1. ASSUME NEW q \in Tasks PROVE PlaceInv(q)'
  <2>1. PlaceInv(q)
    BY DEF MarkInv
  <2>2. CASE q # p
    BY <2>1, <2>2 DEF PlaceInv, InFsync, TagMove
  <2>3. CASE q = p
    BY <2>1, <2>3 DEF PlaceInv, InFsync, TagMove, Places
  <2>4. QED
    BY <2>2, <2>3
<1>2. TagInv'
  BY DEF MarkInv, TagInv, TagMove
<1>3. MappedInv'
  <2>1. \A t \in Trans : t > created => trans'[t].mapping = Null
    BY <1>0, Numbers DEF MarkInv, MappedInv, MappingMove
  <2>2. QED
    BY <1>0, <2>1, Numbers DEF MappedInv
<1>4. WaiterInv'
  <2> SUFFICES ASSUME NEW t \in {running', committing'} \ {0}, trans'[t].mapping \in Regular
               PROVE  \E q \in Tasks : Waits(q, t)'
    BY DEF WaiterInv, Waits, Regular, Tid
  <2>1. t \in Trans
    BY <1>0 DEF Trans
  <2>2. CASE trans'[t].mapping # trans[t].mapping
    BY <2>1, <2>2 DEF MappingMove
  <2>3. CASE trans'[t].mapping = trans[t].mapping
    <3>1. trans[t].mapping # Null
      BY <2>3, NameAssumption DEF Regular
    <3>2. t \in {running, committing} \ {0}
      BY <1>0, <2>1, <3>1 DEF MarkInv, MappedInv
    <3>3. PICK q \in Tasks : Waits(q, t)
      BY <2>3, <3>2 DEF MarkInv, WaiterInv
    <3>4. tid_gt(Tid(t), sequence)
      <4>1. LastDone \in 0..MaxTrans /\ t \in 0..MaxTrans /\ t > LastDone /\ sequence = Tid(LastDone)
        BY <1>0, <3>2, Order
      <4>2. QED
        BY <4>1, TidOrder
    <3>5. task'[q] = task[q]
      BY <3>3, <3>4 DEF TagMove, Waits
    <3>6. QED
      BY <2>3, <3>3, <3>5 DEF Waits
  <2>4. QED
    BY <2>2, <2>3
<1>5. DeviceInv'
  BY DEF MarkInv, DeviceInv
<1>6. CommitTagged'
  <2> SUFFICES ASSUME NEW q \in Tasks, bh_meta', WritesJournal', InFsync(q)', At(q, "wait")',
                      Tid(committing') = task'[q].tid, trans'[committing'].mapping = task'[q].inode
               PROVE  devTag' = q
    BY DEF CommitTagged
  <2>1. WritesJournal /\ committing # 0 /\ committing \in Trans
    BY <1>0 DEF WritesJournal, Writing, Trans
  <2>2. trans[committing].mapping = task'[q].inode
    BY <1>0, <2>1 DEF MappingMove
  <2>3. CASE task'[q] = task[q]
    BY <2>1, <2>2, <2>3 DEF MarkInv, CommitTagged, InFsync, At
  <2>4. CASE task'[q] # task[q]
    <3>1. q = p /\ task'[p].pc = "wait" /\ task[p].pc # "wait" /\ InFsync(p) /\ task'[p].inode = task[p].inode
      BY <2>4 DEF TagMove, At, InFsync
    <3>2. ~(task'[p].tid = Tid(running) /\ running # 0)
      BY <1>0, <2>1, <3>1, TidTells
    <3>3. task[p].inode \in Regular
      BY <3>1, <3>2, SyncRanges DEF TagMove, Regular
    <3>4. PICK w \in Tasks : Waits(w, committing)
      BY <2>1, <2>2, <3>1, <3>3 DEF MarkInv, WaiterInv
    <3>5. InFsync(w) /\ task[w].inode = task[p].inode
      BY <2>2, <3>1, <3>4 DEF Waits, InFsync
    <3>6. tag[task[p].inode] = w /\ tag[task[p].inode] = p
      BY <3>1, <3>5 DEF MarkInv, PlaceInv
    <3>7. QED
      BY <3>1, <3>4, <3>6 DEF Waits
  <2>5. QED
    BY <2>3, <2>4
<1>7. QED
  BY <1>1, <1>2, <1>3, <1>4, <1>5, <1>6 DEF MarkInv

LEMMA JournalMark ==
  ASSUME SyncInv, MarkInv, NEW p \in Tasks, Handle(p) \/ Commits(p) \/ Choice(p) \/ Barrier(p), UNCHANGED tagVars
  PROVE  MarkInv'
<1>1. TagMove(p) /\ MappingMove(p)
  <2>1. PlaceInv(p)
    BY DEF MarkInv
  <2>2. QED
    BY <2>1, JournalMove, MappingsKept DEF MappingMove, SameMappings
<1>2. /\ UNCHANGED <<kpc, committing, sequence, fs_mapping>>
      /\ \/ UNCHANGED <<created, running>>
         \/ running = 0 /\ created' = created + 1 /\ running' = created'
  <2>1. CASE GetTransaction(p)
    BY <2>1 DEF GetTransaction, threadVars
  <2>2. CASE Handle(p) /\ ~GetTransaction(p)
    BY <2>2 DEF Handle, StartAborted, StartBarrier, StartNone, StartLocked, StartTooLarge,
                AskForCommit, StartThisHandle, StopRequest, Stop, journalVars, stateVars, threadVars
  <2>3. CASE Commits(p) \/ Barrier(p)
    BY <2>3 DEF Commits, WaitCommit, RequestNested, Barrier, Quiesce, LockBarrier, UnlockUpdates, journalVars, stateVars,
                threadVars
  <2>4. CASE Choice(p)
    BY <2>4 DEF Choice, Restart, JournalStart, Extend, LockUpdates, SyncFs, ForceNested, journalVars, stateVars, threadVars
  <2>5. QED
    BY <2>1, <2>2, <2>3, <2>4
<1>3. SyncInv' /\ fs_mapping' \in Journalled \cup {Null}
  BY <1>2, JournalTask DEF MarkInv, MappedInv
<1>4. QED
  BY <1>1, <1>2, <1>3, MarkTask DEF tagVars

\* the steps of an fsync
LEMMA FileMark ==
  ASSUME SyncInv, MarkInv, NEW p \in Tasks, FileStep(p), UNCHANGED tagVars
  PROVE  MarkInv'
<1>0. PlaceInv(p) /\ fs_mapping \in Inodes \cup {Null} /\ fs_mapping \in Journalled \cup {Null} /\ FsyncInv(p)
  BY InodeAssumption DEF MarkInv, MappedInv, SyncInv
<1>1. SyncInv' /\ FileMove(p)
  BY <1>0, WriteAndWaitSync, LockInodeSync, TestBarrierSync, CompleteSync, RequestSync, FlushSync,
     ReturnSync, ModifySync, EvictSync DEF FileStep
<1>2. TagMove(p)
  BY <1>0, <1>1 DEF FileMove, TagMove, PlaceInv, Places
<1>3. UNCHANGED <<kpc, committing, sequence, created, running>>
  BY DEF FileStep, WriteAndWait, LockInode, TestBarrier, Complete, Request, Flush, Return, Modify, Evict,
         journalVars, stateVars, threadVars
<1>4. fs_mapping' \in Journalled \cup {Null}
  BY <1>0, MappingOfJournal DEF TagNext
<1>5. MappingMove(p)
  <2>1. CASE Request(p)
    <3>1. PICK m : LogStartCommit(task[p].tid, m) /\ (m = task[p].inode \/ m \in Journalled \cup {Null})
      BY <1>0, <2>1 DEF Request
    <3>2. CASE trans' = trans
      BY <3>2 DEF MappingMove
    <3>3. CASE trans' = [trans EXCEPT ![running].mapping = m] /\ IsRunning(task[p].tid)
      <4>1. running \in Trans /\ trans \in [Trans -> TransShape] /\ task \in [Tasks -> TaskShape]
        BY <3>3, Ranges DEF IsRunning, SyncInv
      <4>2. /\ \A t \in Trans : t # running => trans'[t] = trans[t]
            /\ trans'[running].mapping = m
        BY <3>3, <4>1 DEF TransShape
      <4>3. m \notin Regular \/ m = task[p].inode
        BY <3>1, NameAssumption DEF Regular
      <4>4. task'[p].pc = "wait" /\ task'[p].inode = task[p].inode /\ task'[p].tid = Tid(running)
        BY <2>1, <3>3, <4>1 DEF Request, Go, IsRunning, TaskShape
      <4>5. m = task[p].inode => Waits(p, running)'
        BY <1>3, <4>2, <4>4 DEF Waits, Tid
      <4>6. QED
        BY <1>3, <4>2, <4>3, <4>5 DEF MappingMove
    <3>4. QED
      BY <3>1, <3>2, <3>3 DEF LogStartCommit
  <2>2. CASE ~Request(p)
    <3>1. UNCHANGED trans
      BY <2>2 DEF FileStep, WriteAndWait, LockInode, TestBarrier, Complete, Flush, Return, Modify, Evict, journalVars
    <3>2. QED
      BY <3>1 DEF MappingMove
  <2>3. QED
    BY <2>1, <2>2
<1>6. QED
  BY <1>1, <1>2, <1>3, <1>4, <1>5, MarkTask DEF tagVars

LEMMA MarkThread ==
  ASSUME SyncInv, SyncInv', MarkInv, UNCHANGED <<task, tagVars, fs_mapping, created>>, SameMappings,
         {running', committing'} \subseteq {running, committing, 0},
         bh_meta => kpc' \in {"dflush", "jflush", "record", "callback", "wake", "end"},
         WritesJournal' => WritesJournal /\ committing' = committing
  PROVE  MarkInv'
<1>0. UNCHANGED <<tag, devTag, source, bh_meta>>
  BY DEF tagVars
<1>1. \A p \in Tasks : PlaceInv(p)'
  BY <1>0 DEF MarkInv, PlaceInv, InFsync
<1>2. TagInv' /\ MappedInv'
  BY <1>0 DEF MarkInv, TagInv, MappedInv, SameMappings
<1>3. WaiterInv'
  <2> SUFFICES ASSUME NEW t \in {running', committing'} \ {0}, trans'[t].mapping \in Regular
               PROVE  \E q \in Tasks : Waits(q, t)'
    BY DEF WaiterInv, Waits, Regular, Tid
  <2>1. t \in Trans /\ t \in {running, committing} \ {0}
    BY Ranges DEF SyncInv
  <2>2. trans'[t].mapping = trans[t].mapping
    BY <2>1 DEF SameMappings
  <2>3. PICK q \in Tasks : Waits(q, t)
    BY <2>1, <2>2 DEF MarkInv, WaiterInv
  <2>4. QED
    BY <2>2, <2>3 DEF Waits, Tid
<1>4. DeviceInv'
  BY <1>0 DEF MarkInv, DeviceInv
<1>5. CommitTagged'
  <2>1. ASSUME WritesJournal' PROVE trans'[committing].mapping = trans[committing].mapping
    BY <2>1, Ranges DEF WritesJournal, Writing, SyncInv, Inv, ThreadInv, SameMappings
  <2>2. QED
    BY <1>0, <2>1 DEF MarkInv, CommitTagged, InFsync, At, Tid
<1>6. QED
  BY <1>1, <1>2, <1>3, <1>4, <1>5 DEF MarkInv

\* those of the commit thread and the timers that are no part of FsyncTag
LEMMA ThreadMark ==
  ASSUME SyncInv, MarkInv, CommitThread \/ Expire \/ TimerFires \/ Abort \/ KillThread, UNCHANGED tagVars
  PROVE  MarkInv'
<1>0. /\ SyncInv' /\ trans \in [Trans -> TransShape] /\ running \in 0..MaxTrans /\ committing \in 0..MaxTrans
      /\ running # 0 => running \in Trans
      /\ committing # 0 => committing \in Trans
      /\ kpc \in Writing <=> committing # 0
      /\ kpc \in {"start", "drain"} => running # 0
  BY JournalThread, Ranges DEF SyncInv, Inv, ThreadInv
<1>1. UNCHANGED <<task, fs_mapping, created>>
  BY DEF CommitThread, Loop, Woken, LockTransaction, Drain, CommitRecord, NoRecord, EndCommit, Finish, WakeWaiters,
         ThreadExit, FinalCommit, Expire, TimerFires, Abort, KillThread, journalVars, stateVars
<1>2. SameMappings
  <2>1. CASE UNCHANGED trans
    BY <2>1 DEF SameMappings
  <2>2. ASSUME NEW t \in Trans, NEW s, SetState(t, s) PROVE SameMappings
    BY <1>0, <2>2 DEF SetState, SameMappings, TransShape
  <2>3. CASE Expire
    BY <1>0, <2>3 DEF Expire, SameMappings, TransShape
  <2>4. CASE Abort
    <3>1. trans' = trans \/ (running # 0 /\ trans' = [trans EXCEPT ![running].mapping = trans[running].mapping])
      BY <2>4 DEF Abort, LogStartCommit
    <3>2. QED
      BY <1>0, <2>1, <3>1 DEF SameMappings, TransShape
  <2>5. CASE CommitThread \/ TimerFires \/ KillThread
    BY <1>0, <2>1, <2>2, <2>5 DEF CommitThread, Loop, Woken, LockTransaction, Drain, CommitRecord, NoRecord, EndCommit,
       Finish, WakeWaiters, ThreadExit, FinalCommit, TimerFires, KillThread, journalVars, Writing
  <2>6. QED
    BY <2>3, <2>4, <2>5
<1>3. /\ {running', committing'} \subseteq {running, committing, 0}
      /\ WritesJournal' => WritesJournal /\ committing' = committing
      /\ kpc' = kpc \/ kpc \notin {"dflush", "jflush", "record", "callback", "wake", "end"}
           \/ kpc' \in {"dflush", "jflush", "record", "callback", "wake", "end"}
  <2>1. CASE CommitThread
    BY <2>1 DEF CommitThread, Loop, Woken, LockTransaction, Drain, CommitRecord, NoRecord, EndCommit, Finish, WakeWaiters,
       ThreadExit, FinalCommit, WritesJournal, journalVars, stateVars
  <2>2. CASE Expire \/ TimerFires \/ Abort \/ KillThread
    BY <2>2 DEF Expire, TimerFires, Abort, KillThread, WritesJournal, stateVars, threadVars
  <2>3. QED
    BY <2>1, <2>2
<1>4. bh_meta => kpc' \in {"dflush", "jflush", "record", "callback", "wake", "end"}
  BY <1>3 DEF MarkInv, DeviceInv
<1>5. QED
  BY <1>0, <1>1, <1>2, <1>3, <1>4, MarkThread

\* the log's blocks are written, those of the data first and then the tagged ones
LEMMA LogMark ==
  ASSUME SyncInv, MarkInv, WriteLog,
         \/ kpc = "commit" /\ CopyTag
         \/ kpc # "commit" /\ UNCHANGED tagVars
  PROVE  MarkInv'
<1>0. /\ SyncInv' /\ trans \in [Trans -> TransShape] /\ committing # 0 /\ committing \in Trans
      /\ UNCHANGED <<task, fs_mapping, created, running, committing, sequence>>
      /\ SetState(committing, kpc')
  BY JournalThread, Ranges DEF SyncInv, Inv, ThreadInv, WriteLog, Writing, stateVars
<1>1. SameMappings
  BY <1>0 DEF SetState, SameMappings, TransShape
<1>2. CASE kpc # "commit" /\ UNCHANGED tagVars
  <2>1. \/ kpc = "flush" /\ kpc' = "commit"
        \/ kpc = "dflush" /\ kpc' = "jflush"
    BY <1>2 DEF WriteLog
  <2>2. bh_meta => kpc' \in {"dflush", "jflush", "record", "callback", "wake", "end"}
    BY <2>1 DEF MarkInv, DeviceInv
  <2>3. WritesJournal' => WritesJournal
    BY <2>1 DEF WritesJournal
  <2>4. QED
    BY <1>0, <1>1, <1>2, <2>2, <2>3, MarkThread
<1>3. CASE kpc = "commit" /\ CopyTag
  <2>1. kpc' = "dflush" /\ UNCHANGED tag /\ ~bh_meta /\ devTag = Null
    BY <1>3 DEF WriteLog, CopyTag, MarkInv, DeviceInv
  <2>2. (\A p \in Tasks : PlaceInv(p)') /\ TagInv'
    BY <1>0, <2>1 DEF MarkInv, PlaceInv, InFsync, TagInv
  <2>3. MappedInv'
    BY <1>0, <1>1 DEF MarkInv, MappedInv, SameMappings
  <2>4. WaiterInv'
    <3>1. \A t \in {running, committing} \ {0} : trans'[t].mapping = trans[t].mapping
      BY <1>1, Ranges DEF SyncInv, SameMappings
    <3>2. QED
      BY <1>0, <3>1 DEF MarkInv, WaiterInv, Waits, Tid
  <2>5. DeviceInv'
    BY <1>3, <2>1 DEF CopyTag, DeviceInv
  <2>6. CommitTagged'
    <3> SUFFICES ASSUME NEW p \in Tasks, bh_meta', InFsync(p)', trans'[committing'].mapping = task'[p].inode
                 PROVE  devTag' = p
      BY DEF CommitTagged
    <3>1. trans[committing].mapping = task[p].inode /\ InFsync(p)
      BY <1>0, <1>1 DEF SameMappings, InFsync
    <3>2. Source = task[p].inode /\ Source # Null
      BY <3>1 DEF Source, InFsync
    <3>3. QED
      BY <1>3, <3>1, <3>2 DEF CopyTag, MarkInv, PlaceInv
  <2>7. QED
    BY <2>2, <2>3, <2>4, <2>5, <2>6 DEF MarkInv
<1>4. QED
  BY <1>2, <1>3

LEMMA LeaveMark ==
  ASSUME SyncInv, MarkInv, Leave, ClearDevice
  PROVE  MarkInv'
<1>0. /\ UNCHANGED <<task, tag, trans, fs_mapping, created, running, committing, sequence>>
      /\ kpc = "end" /\ kpc' \in {"loop", "exit"} /\ bh_meta' = FALSE /\ devTag' = Null
  BY DEF Leave, ClearDevice, journalVars, stateVars, MarkInv, DeviceInv
<1>1. (\A p \in Tasks : PlaceInv(p)') /\ TagInv' /\ MappedInv'
  BY <1>0 DEF MarkInv, PlaceInv, InFsync, TagInv, MappedInv
<1>2. WaiterInv'
  BY <1>0 DEF MarkInv, WaiterInv, Waits, Tid
<1>3. DeviceInv' /\ CommitTagged'
  BY <1>0 DEF DeviceInv, CommitTagged
<1>4. QED
  BY <1>1, <1>2, <1>3 DEF MarkInv

\* do_fsync, before and after
LEMMA FsyncMark ==
  ASSUME SyncInv, MarkInv, OneSyncer, NEW p \in Tasks, NEW i \in Inodes, Fsync(p, i), SetTag(p, i)
  PROVE  MarkInv'
<1>0. /\ UNCHANGED <<trans, fs_mapping, created, running, committing, sequence, kpc, devTag, source, bh_meta>>
      /\ i \in Open[p] /\ tag' = [tag EXCEPT ![i] = p] /\ ~InFsync(p) /\ task[p].pc = "idle"
      /\ tag \in [Inodes -> Tasks \cup {Null}]
  BY DEF Fsync, SetTag, At, journalVars, stateVars, threadVars, SyncInv, FsyncInv, MarkInv, TagInv
<1>1. task'[p].inode = i /\ task'[p].pc = "writeout" /\ \A q \in Tasks : q # p => task'[q] = task[q]
  BY FsyncSync
<1>2. ASSUME NEW q \in Tasks PROVE PlaceInv(q)'
  <2>1. CASE q = p
    BY <1>0, <1>1, <2>1 DEF PlaceInv
  <2>2. CASE q # p /\ InFsync(q)
    <3>1. PlaceInv(q)
      BY DEF MarkInv
    <3>2. task[q].inode # i
      BY <1>0, <2>2, <3>1 DEF PlaceInv, OneSyncer
    <3>3. QED
      BY <1>0, <1>1, <2>2, <3>1, <3>2 DEF PlaceInv, InFsync
  <2>3. CASE q # p /\ ~InFsync(q)
    BY <1>1, <2>3 DEF PlaceInv, InFsync
  <2>4. QED
    BY <2>1, <2>2, <2>3
<1>3. TagInv'
  <2>1. \A j \in Inodes : tag[j] # Null => task[tag[j]].inode = j /\ tag[j] # p
    BY <1>0, NameAssumption DEF MarkInv, TagInv, InFsync
  <2>2. QED
    BY <1>0, <1>1, <2>1 DEF TagInv
<1>4. MappedInv'
  BY <1>0 DEF MarkInv, MappedInv
<1>5. WaiterInv'
  BY <1>0, <1>1 DEF MarkInv, WaiterInv, Waits, Tid
<1>6. DeviceInv' /\ CommitTagged'
  BY <1>0, <1>1 DEF MarkInv, DeviceInv, CommitTagged, At, InFsync, WritesJournal, Tid
<1>7. QED
  BY <1>2, <1>3, <1>4, <1>5, <1>6 DEF MarkInv

LEMMA EndFsyncMark ==
  ASSUME SyncInv, MarkInv, NEW p \in Tasks, EndFsync(p), ClearTag(p)
  PROVE  MarkInv'
<1>0. /\ UNCHANGED <<trans, fs_mapping, created, running, committing, sequence, kpc, devTag, source, bh_meta>>
      /\ tag' = [tag EXCEPT ![task[p].inode] = Null] /\ InFsync(p) /\ task[p].pc = "clear" /\ PlaceInv(p)
      /\ tag \in [Inodes -> Tasks \cup {Null}]
  BY DEF EndFsync, ClearTag, At, journalVars, stateVars, threadVars, SyncInv, FsyncInv, MarkInv, TagInv
<1>1. task'[p] = Idle /\ (\A q \in Tasks : q # p => task'[q] = task[q]) /\ task[p].inode \in Inodes
  BY <1>0, Ranges, SyncRanges DEF EndFsync, Done, SyncInv
<1>2. ASSUME NEW q \in Tasks PROVE PlaceInv(q)'
  <2>1. CASE q = p
    BY <1>1, <2>1 DEF PlaceInv, InFsync, Idle
  <2>2. CASE q # p
    <3>1. PlaceInv(q)
      BY DEF MarkInv
    <3>2. QED
      BY <1>0, <1>1, <2>2, <3>1 DEF PlaceInv, InFsync
  <2>3. QED
    BY <2>1, <2>2
<1>3. TagInv'
  BY <1>0, <1>1 DEF MarkInv, TagInv
<1>4. MappedInv'
  BY <1>0 DEF MarkInv, MappedInv
<1>5. WaiterInv'
  BY <1>0, <1>1 DEF MarkInv, WaiterInv, Waits, Tid
<1>6. DeviceInv' /\ CommitTagged'
  BY <1>0, <1>1 DEF MarkInv, DeviceInv, CommitTagged, At, InFsync, WritesJournal, Tid, Idle
<1>7. QED
  BY <1>2, <1>3, <1>4, <1>5, <1>6 DEF MarkInv

LEMMA MarkInit == TagInit => MarkInv
<1> SUFFICES ASSUME TagInit PROVE MarkInv
  OBVIOUS
<1>1. /\ \A p \in Tasks : task[p].pc = "idle" /\ task[p].inode = Null
      /\ running = 0 /\ committing = 0 /\ fs_mapping = Null
      /\ \A t \in Trans : trans[t].mapping = Null
      /\ tag = [i \in Inodes |-> Null] /\ devTag = Null /\ bh_meta = FALSE
  BY DEF TagInit, Init, Idle, NoTrans
<1>2. (\A p \in Tasks : PlaceInv(p)) /\ TagInv /\ MappedInv
  BY <1>1 DEF PlaceInv, InFsync, TagInv, MappedInv
<1>3. WaiterInv /\ DeviceInv /\ CommitTagged
  BY <1>1 DEF WaiterInv, DeviceInv, CommitTagged
<1>4. QED
  BY <1>2, <1>3 DEF MarkInv

LEMMA MarkStep ==
  ASSUME SyncInv, MarkInv, OneSyncer, [TagNext]_<<vars, tagVars>>
  PROVE  MarkInv'
<1>0. fs_mapping \in Inodes \cup {Null}
  BY InodeAssumption DEF MarkInv, MappedInv
<1>1. CASE JournalStep /\ UNCHANGED tagVars
  BY <1>1, JournalMark, ThreadMark DEF JournalStep
<1>2. CASE \/ (\E i \in Inodes : Write(i)) /\ UNCHANGED tagVars
           \/ UNCHANGED <<vars, tagVars>>
  <2>1. UNCHANGED <<trans, task, fs_mapping, created, running, committing, kpc, tagVars>>
    BY <1>2 DEF Write, vars, journalVars, stateVars, threadVars
  <2>2. SyncInv' /\ SameMappings
    BY <1>0, <2>1, TagStepSync DEF SameMappings
  <2>3. bh_meta => kpc' \in {"dflush", "jflush", "record", "callback", "wake", "end"}
    BY <2>1 DEF MarkInv, DeviceInv
  <2>4. QED
    BY <2>1, <2>2, <2>3, MarkThread DEF WritesJournal
<1>3. CASE \E p \in Tasks : FileStep(p) /\ UNCHANGED tagVars
  BY <1>3, FileMark
<1>4. CASE \E p \in Tasks : \/ EndFsync(p) /\ ClearTag(p)
                            \/ \E i \in Inodes : Fsync(p, i) /\ SetTag(p, i)
  BY <1>4, FsyncMark, EndFsyncMark
<1>5. CASE \/ WriteLog /\ kpc = "commit" /\ CopyTag
           \/ WriteLog /\ kpc # "commit" /\ UNCHANGED tagVars
           \/ Leave /\ ClearDevice
  BY <1>5, LogMark, LeaveMark
<1>6. QED
  BY <1>1, <1>2, <1>3, <1>4, <1>5 DEF TagNext

LEMMA MarkInvariance == ASSUME OneSyncer PROVE TagSpec => [](SyncInv /\ MarkInv)
<1>1. TagInit => SyncInv /\ MarkInv
  BY TagInitSync, MarkInit
<1>2. SyncInv /\ MarkInv /\ [TagNext]_<<vars, tagVars>> => (SyncInv /\ MarkInv)'
  <2> SUFFICES ASSUME SyncInv, MarkInv, [TagNext]_<<vars, tagVars>> PROVE SyncInv' /\ MarkInv'
    OBVIOUS
  <2>1. fs_mapping \in Inodes \cup {Null}
    BY InodeAssumption DEF MarkInv, MappedInv
  <2>2. QED
    BY <2>1, TagStepSync, MarkStep
<1>3. QED
  BY <1>1, <1>2, PTL DEF TagSpec

\* A record of a write to a file carries the id of an fsync of that file which is still in
\* progress: its tag is taken off before its task leaves do_fsync.  The same of the blocks of
\* the journal that are written for a regular file, whose fsync is in jbd2_log_wait_commit.
\* That holds for any number of files and tasks, when no file is synced by two of them: do_fsync
\* keeps its tag in the file's mapping before it has any lock.
THEOREM TagsLive == ASSUME OneSyncer PROVE TagSpec => []TagsAreLive
<1>1. SyncInv /\ MarkInv => TagsAreLive
  <2> SUFFICES ASSUME SyncInv, MarkInv, NEW p \in Tasks,
                      \/ \E i \in Inodes : tag[i] = p
                      \/ WritesJournal /\ devTag = p /\ trans[committing].mapping \in Inodes \ Journalled
               PROVE  InFsync(p)
    BY DEF TagsAreLive
  <2>0. p # Null
    BY NameAssumption
  <2>1. ASSUME NEW i \in Inodes, tag[i] = p PROVE InFsync(p)
    BY <2>0, <2>1, NameAssumption DEF MarkInv, TagInv, InFsync
  <2>2. CASE WritesJournal /\ devTag = p /\ trans[committing].mapping \in Inodes \ Journalled
    <3>1. committing # 0 /\ bh_meta
      BY <2>0, <2>2 DEF WritesJournal, Writing, SyncInv, Inv, ThreadInv, MarkInv, DeviceInv
    <3>2. PICK q \in Tasks : Waits(q, committing)
      BY <2>2, <3>1 DEF MarkInv, WaiterInv, Regular
    <3>3. InFsync(q)
      BY <2>2, <3>2, NameAssumption DEF Waits, InFsync
    <3>4. devTag = q
      BY <2>2, <3>1, <3>2, <3>3 DEF MarkInv, CommitTagged, Waits, At
    <3>5. QED
      BY <2>2, <3>3, <3>4
  <2>3. QED
    BY <2>1, <2>2
<1>2. QED
  BY <1>1, MarkInvariance, PTL

\* "to identify why journal is forced": the blocks of the journal carry the tag of the fsync that
\* has asked for the commit, though jbd2_journal_commit_transaction copies the tag of a file
\* to the block device without knowing whose it is, and j_fs_mapping is never reset.
THEOREM CommitsTagged == ASSUME OneSyncer PROVE TagSpec => []CommitTagged
<1>1. MarkInv => CommitTagged
  BY DEF MarkInv
<1>2. QED
  BY <1>1, MarkInvariance, PTL

=============================================================================
