---------------------------- MODULE JournalSpace ----------------------------
(***************************************************************************)
(* The log of fs/jbd2: where a commit puts its blocks, how the log's tail  *)
(* is moved, checkpoints, and what is found after a crash.  A write stays  *)
(* in the cache of the disk until a flush, unless it is forced (FUA);      *)
(* after a crash each cached write has arrived or not.                     *)
(*                                                                         *)
(* Commits and handles as such are in JournalCommit: here a handle changes *)
(* one block in one step, and a transaction is the set of its blocks.      *)
(* Their content is the number of the transaction that changed them last.  *)
(* Left out: aborts, revoke records, an external journal device, and the   *)
(* wrap of transaction numbers.  recovery.c is not part of the tree; what  *)
(* the kernel has there is modelled as Found and Replay.                   *)
(***************************************************************************)
EXTENDS Naturals, FiniteSets, FiniteSetsExt, SequencesExt

CONSTANTS
  Blocks,           \* the metadata blocks of the file system
  LogBlocks,        \* j_maxlen: the log is 1..LogBlocks
  MaxBuffers,       \* j_max_transaction_buffers
  Reserved,         \* MIN_LOG_RESERVED_BLOCKS
  MaxTrans,         \* bound: transactions
  MaxCrashes,       \* bound: crashes
  MaxFlushes        \* bound: calls of jbd2_journal_flush

ASSUME SizeAssumption  ==
  /\ {LogBlocks, MaxBuffers, Reserved} \subseteq Nat \ {0}
  \* a transaction is a descriptor, its blocks and a commit block; one runs while one commits
  /\ Reserved >= 5 /\ LogBlocks >= Reserved + 2 * MaxBuffers
ASSUME BoundAssumption == {MaxTrans, MaxCrashes, MaxFlushes} \subseteq Nat /\ IsFiniteSet(Blocks)

VARIABLES
  wrote,       \* the blocks that each transaction has changed (history)
  acked,       \* the last transaction whose commit record is known to be on the disk
  mem,         \* the content of the buffers
  running,     \* number and blocks of j_running_transaction; number 0 for none
  committing,  \* and of j_committing_transaction
  next_tid,    \* j_transaction_sequence
  sequence,    \* j_commit_sequence
  log_start,   \* t_log_start of the transactions
  cp,          \* b_cp_transaction of each buffer, 0 for none
  io,          \* the buffers on a t_checkpoint_io_list
  dirty,       \* the buffers with BH_Dirty
  head, tail, free, tail_seq, \* j_head, j_tail, j_free, j_tail_sequence
  flushed,     \* JBD2_FLUSHED
  mutex,       \* the task that makes room holds j_checkpoint_mutex
  kpc, ktail,  \* where the commit function is, and first_tid, first_block of it
  job,         \* of the task that makes room: where it is, which call of
               \* jbd2_cleanup_journal_tail it makes and what that has found, the checkpoint
               \* transaction it deals with, the one it waits for, and whether it flushes
  disk,        \* on the medium: blocks, log, superblock
  cache,       \* what is in the disk's cache of each of these
  crashes, flushes

historyVars == <<wrote, acked>>
transVars   == <<running, committing, next_tid, sequence, log_start>>
bufferVars  == <<mem, cp, io, dirty>>
tailVars    == <<tail, free, tail_seq>>
listVars    == <<cp, io, dirty>>
threadVars  == <<kpc, ktail>>
taskVars    == <<job, mutex>>
diskVars    == <<disk, cache>>
superVars   == <<tailVars, flushed, disk, cache>>
boundVars   == <<crashes, flushes>>
vars == <<historyVars, transVars, bufferVars, head, tailVars, flushed, threadVars, taskVars,
          diskVars, boundVars>>

Trans    == 1..MaxTrans
Log      == 1..LogBlocks
NoTrans  == [tid |-> 0, blocks |-> {}]
NoTail   == [tid |-> 0, block |-> 0]
NoJob    == [at |-> "idle", purpose |-> "none", tail |-> NoTail, target |-> 0, awaited |-> 0, flush |-> FALSE]
Empty    == [kind |-> "empty", tid |-> 0, blocks |-> <<>>, data |-> 0]
NoWrites == [fs |-> [b \in Blocks |-> {}], log |-> [l \in Log |-> {}], sb |-> {}]

Init ==
  /\ wrote = [t \in Trans |-> {}] /\ acked = 0
  /\ mem = [b \in Blocks |-> 0]
  /\ running = NoTrans /\ committing = NoTrans
  /\ next_tid = 2 /\ sequence = 1
  /\ log_start = [t \in Trans |-> 0]
  /\ cp = [b \in Blocks |-> 0] /\ io = {} /\ dirty = {}
  /\ head = 1 /\ tail = 1 /\ free = LogBlocks /\ tail_seq = 2
  /\ flushed = TRUE
  /\ kpc = "idle" /\ ktail = NoTail
  /\ job = NoJob /\ mutex = FALSE
  /\ disk = [fs |-> mem, log |-> [l \in Log |-> Empty], sb |-> [start |-> 0, seq |-> 1]]
  /\ cache = NoWrites
  /\ crashes = 0 /\ flushes = 0

Up == kpc \notin {"down", "replayed"}

-----------------------------------------------------------------------------
(* The disk                                                                 *)

\* everything in the cache is on the medium
FlushedDisk ==
  [fs  |-> [b \in Blocks |-> Max({disk.fs[b]} \cup cache.fs[b])],
   log |-> [l \in Log |-> IF cache.log[l] = {} THEN disk.log[l] ELSE CHOOSE e \in cache.log[l] : TRUE],
   sb  |-> IF cache.sb = {} THEN disk.sb ELSE CHOOSE s \in cache.sb : TRUE]

\* jbd2_journal_update_sb_log_tail with WRITE_FUA
WriteSuper(start, seq) ==
  /\ disk' = [disk EXCEPT !.sb = [start |-> start, seq |-> seq]]
  /\ cache' = [cache EXCEPT !.sb = {}]

-----------------------------------------------------------------------------
(* Changing blocks                                                          *)

\* jbd_space_needed: the credits of the committing transaction are given back as it is written
SpaceNeeded == MaxBuffers + (IF kpc = "log" THEN Cardinality(committing.blocks) ELSE 0)

\* slip: nothing is kept back for descriptors and commit records
SpaceLeftAll == free

\* __jbd2_log_space_left
SpaceLeft == IF free <= Reserved THEN 0 ELSE free - Reserved - (free - Reserved) \div 8

\* a handle that changes block b
Modify(b) ==
  /\ Up /\ ~job.flush  \* the caller of jbd2_journal_flush has locked updates
  /\ SpaceLeft >= SpaceNeeded
  /\ Cardinality(running.blocks \cup {b}) <= MaxBuffers
  /\ running.tid # 0 \/ next_tid <= MaxTrans
  /\ running' = [tid |-> IF running.tid = 0 THEN next_tid ELSE running.tid, blocks |-> running.blocks \cup {b}]
  /\ next_tid' = IF running.tid = 0 THEN next_tid + 1 ELSE next_tid
  /\ mem' = [mem EXCEPT ![b] = running'.tid]
  /\ wrote' = [wrote EXCEPT ![running'.tid] = @ \cup {b}]
  /\ dirty' = dirty \ {b}
  /\ UNCHANGED <<acked, committing, sequence, log_start, cp, io, head, tailVars, flushed, threadVars, taskVars,
                diskVars, boundVars>>

\* the kernel's writeback of a dirty buffer
WriteBack(b) ==
  /\ Up /\ b \in dirty
  /\ dirty' = dirty \ {b}
  /\ cache' = [cache EXCEPT !.fs[b] = @ \cup {mem[b]}]
  /\ UNCHANGED <<historyVars, transVars, mem, cp, io, head, tailVars, flushed, threadVars, taskVars, disk, boundVars>>

InTransaction(b) == b \in running.blocks \cup committing.blocks

\* __try_to_free_cp_buf: a clean buffer leaves its checkpoint list
TryToFree(b) ==
  /\ Up /\ cp[b] # 0 /\ ~InTransaction(b) /\ b \notin dirty
  /\ cp' = [cp EXCEPT ![b] = 0] /\ io' = io \ {b}
  /\ UNCHANGED <<historyVars, transVars, mem, dirty, head, tailVars, flushed, threadVars, taskVars, diskVars, boundVars>>

-----------------------------------------------------------------------------
(* The tail of the log                                                      *)

\* j_checkpoint_transactions, 0 for none
CheckpointTransaction == Min({MaxTrans + 1} \cup ({cp[b] : b \in Blocks} \ {0})) % (MaxTrans + 1)

\* slip: the checkpoint list is not looked at
LogTailCommitted ==
  IF committing.tid # 0 THEN [tid |-> committing.tid, block |-> log_start[committing.tid]]
  ELSE [tid |-> IF running.tid # 0 THEN running.tid ELSE next_tid, block |-> head]

\* jbd2_journal_get_log_tail
LogTail ==
  LET t == CheckpointTransaction IN
  IF t # 0 THEN [tid |-> t, block |-> log_start[t]]
  ELSE IF committing.tid # 0 THEN [tid |-> committing.tid, block |-> log_start[committing.tid]]
  ELSE [tid |-> IF running.tid # 0 THEN running.tid ELSE next_tid, block |-> head]

\* slip: a tail before the old one frees nothing
FreedUnwrapped(found) == IF found.block < tail THEN 0 ELSE found.block - tail

\* the blocks from the old tail to the new one, round the end of the log
Freed(found) == (found.block - tail) % LogBlocks

\* __jbd2_update_log_tail
UpdateLogTail(found) ==
  /\ WriteSuper(found.block, found.tid)
  /\ free' = free + Freed(found)
  /\ tail' = found.block /\ tail_seq' = found.tid
  /\ flushed' = FALSE

-----------------------------------------------------------------------------
(* The commit function                                                      *)

Commit == UNCHANGED <<taskVars, boundVars>>

Start ==
  /\ kpc = "idle" /\ running.tid # 0
  /\ kpc' = IF flushed THEN "flushed" ELSE "switch"
  /\ UNCHANGED <<historyVars, transVars, bufferVars, head, tailVars, flushed, ktail, diskVars>> /\ Commit

\* "Do we need to erase the effects of a prior jbd2_journal_flush?": WRITE_SYNC, not forced
UndoFlush ==
  /\ kpc = "flushed" /\ ~mutex
  /\ cache' = [cache EXCEPT !.sb = {[start |-> tail, seq |-> tail_seq]}]
  /\ flushed' = FALSE
  /\ kpc' = "switch"
  /\ UNCHANGED <<historyVars, transVars, bufferVars, head, tailVars, ktail, disk>> /\ Commit

Switch ==
  /\ kpc = "switch"
  /\ committing' = running /\ running' = NoTrans
  /\ log_start' = [log_start EXCEPT ![running.tid] = head]
  /\ kpc' = "log"
  /\ UNCHANGED <<historyVars, next_tid, sequence, bufferVars, head, tailVars, flushed, ktail, diskVars>> /\ Commit

\* jbd2_journal_next_log_block, n times
Allocate(n) ==
  /\ head' = ((head + n - 1) % LogBlocks) + 1
  /\ free' = free - n

LogAt(n) == ((head + n - 1) % LogBlocks) + 1

\* the descriptor block and the buffers, as they were at the switch
WriteLog ==
  LET tid    == committing.tid
      blocks == SetToSeq(committing.blocks)
      n      == Len(blocks)
      entry(k) == IF k = 0 THEN [kind |-> "descriptor", tid |-> tid, blocks |-> blocks, data |-> 0]
                  ELSE [kind |-> "data", tid |-> 0, blocks |-> <<>>, data |-> tid] IN
  /\ kpc = "log"
  /\ cache' = [cache EXCEPT !.log = [l \in Log |-> IF \E k \in 0..n : LogAt(k) = l
                                                    THEN {entry(CHOOSE k \in 0..n : LogAt(k) = l)} ELSE @[l]]]
  /\ Allocate(n + 1)
  /\ kpc' = "tail"
  /\ UNCHANGED <<historyVars, transVars, bufferVars, tail, tail_seq, flushed, ktail, disk>> /\ Commit

\* the tail is read before the flush of the commit record
ReadTail ==
  /\ kpc = "tail"
  /\ ktail' = IF LogTail.tid > tail_seq /\ Freed(LogTail) >= LogBlocks \div 4 THEN LogTail ELSE NoTail
  /\ kpc' = "record"
  /\ UNCHANGED <<historyVars, transVars, bufferVars, head, tailVars, flushed, diskVars>> /\ Commit

CommitEntry == [Empty EXCEPT !.kind = "commit", !.tid = committing.tid]

\* slip: the commit record is forced, but what came before it is not flushed
CommitRecordUnflushed ==
  /\ kpc = "record"
  /\ cache' = [cache EXCEPT !.log[head] = {CommitEntry}]
  /\ kpc' = "wait"
  /\ UNCHANGED <<historyVars, transVars, bufferVars, head, tailVars, flushed, ktail, disk>> /\ Commit

\* journal_submit_commit_record: WRITE_FLUSH_FUA flushes what is in the cache first
CommitRecord ==
  /\ kpc = "record"
  /\ disk' = FlushedDisk
  /\ cache' = [NoWrites EXCEPT !.log[head] = {CommitEntry}]
  /\ kpc' = "wait"
  /\ UNCHANGED <<historyVars, transVars, bufferVars, head, tailVars, flushed, ktail>> /\ Commit

\* journal_wait_on_commit_record
WaitRecord ==
  /\ kpc = "wait"
  /\ disk' = [disk EXCEPT !.log[head] = CommitEntry]
  /\ cache' = [cache EXCEPT !.log[head] = {}]
  /\ Allocate(1)
  /\ acked' = committing.tid
  /\ kpc' = IF ktail = NoTail THEN "forget" ELSE "update"
  /\ UNCHANGED <<wrote, transVars, bufferVars, tail, tail_seq, flushed, ktail>> /\ Commit

\* jbd2_update_log_tail
CommitUpdateTail ==
  /\ kpc = "update" /\ ~mutex
  /\ IF ktail.tid > tail_seq THEN UpdateLogTail(ktail) ELSE UNCHANGED <<diskVars, tailVars, flushed>>
  /\ kpc' = "forget" /\ ktail' = NoTail
  /\ UNCHANGED <<historyVars, transVars, bufferVars, head>> /\ Commit

\* the buffers go to the checkpoint list of their transaction, and are dirty unless the
\* running transaction has them too
Forget ==
  /\ kpc = "forget"
  /\ cp' = [b \in Blocks |-> IF b \in committing.blocks THEN committing.tid ELSE cp[b]]
  /\ io' = io \ committing.blocks
  /\ dirty' = dirty \cup (committing.blocks \ running.blocks)
  /\ sequence' = committing.tid
  /\ committing' = NoTrans
  /\ kpc' = "idle"
  /\ UNCHANGED <<historyVars, mem, running, next_tid, log_start, head, tailVars, flushed, ktail, diskVars>> /\ Commit

-----------------------------------------------------------------------------
(* Making room: __jbd2_log_wait_for_space and jbd2_log_do_checkpoint        *)

Task == UNCHANGED <<historyVars, transVars, mem, head, threadVars, crashes>>

\* the task goes on to p and has changed nothing but its variables
GoTo(p) ==
  /\ job' = [job EXCEPT !.at = p]
  /\ UNCHANGED <<listVars, superVars, mutex, flushes>> /\ Task

WaitForSpace == Up /\ job.at = "idle" /\ SpaceLeft < SpaceNeeded /\ GoTo("lock")

\* with the mutex, test again and take one of the ways to make room
LockCheckpoint ==
  /\ job.at = "lock" /\ ~mutex
  /\ mutex' = TRUE
  /\ job' = IF SpaceLeft >= SpaceNeeded THEN [job EXCEPT !.at = "unlock"]
            ELSE [job EXCEPT !.at = "find", !.awaited = committing.tid,
                             !.purpose = IF CheckpointTransaction # 0 THEN "before" ELSE "only"]
  /\ UNCHANGED <<listVars, superVars, flushes>> /\ Task

\* where a caller of jbd2_cleanup_journal_tail goes on when there is nothing to clean up
GoesOn(purpose) ==
  CASE purpose = "before" -> IF CheckpointTransaction # 0 THEN "process" ELSE "after"
    [] purpose = "after"  -> "unlock"
    [] purpose = "only"   -> IF job.awaited # 0 THEN "wait" ELSE "abort"
    [] purpose = "final"  -> "empty"

\* jbd2_cleanup_journal_tail up to its flush
FindTail ==
  /\ job.at = "find"
  /\ job' = IF LogTail.tid > tail_seq THEN [job EXCEPT !.at = "flush", !.tail = LogTail]
            ELSE [job EXCEPT !.at = GoesOn(job.purpose), !.target = CheckpointTransaction]
  /\ UNCHANGED <<listVars, superVars, mutex, flushes>> /\ Task

\* slip: no flush before the tail is moved
FlushTailSkipped == job.at = "flush" /\ GoTo("update")

\* blkdev_issue_flush
FlushTail ==
  /\ job.at = "flush"
  /\ disk' = FlushedDisk /\ cache' = NoWrites
  /\ job' = [job EXCEPT !.at = "update"]
  /\ UNCHANGED <<listVars, tailVars, flushed, mutex, flushes>> /\ Task

MoveTail ==
  /\ job.at = "update"
  /\ UpdateLogTail(job.tail)
  /\ job' = [job EXCEPT !.tail = NoTail, !.at = IF job.purpose = "final" THEN "empty" ELSE "unlock"]
  /\ UNCHANGED <<listVars, mutex, flushes>> /\ Task

Processing == job.at = "process" /\ CheckpointTransaction = job.target
OnList     == {b \in Blocks : cp[b] = job.target} \ io

\* __process_buffer of a buffer in a transaction: its commit is started and waited for
AwaitBuffer ==
  /\ Processing
  /\ \E b \in OnList :
       /\ InTransaction(b)
       /\ job' = [job EXCEPT !.at = "wait", !.awaited = IF b \in committing.blocks THEN committing.tid ELSE running.tid]
  /\ UNCHANGED <<listVars, superVars, mutex, flushes>> /\ Task

\* __process_buffer of any other: it is written, or is already
ProcessBuffer ==
  /\ Processing
  /\ \E b \in OnList :
       /\ ~InTransaction(b)
       /\ IF b \in dirty
            THEN /\ cache' = [cache EXCEPT !.fs[b] = @ \cup {mem[b]}]
                 /\ dirty' = dirty \ {b} /\ io' = io \cup {b} /\ UNCHANGED cp
            ELSE cp' = [cp EXCEPT ![b] = 0] /\ UNCHANGED <<io, dirty, cache>>
  /\ UNCHANGED <<disk, tailVars, flushed, mutex, job, flushes>> /\ Task

\* __wait_cp_io: whatever state the buffer is in by now, it has been written
WaitIO ==
  /\ Processing /\ OnList = {}
  /\ \E b \in io : cp' = [cp EXCEPT ![b] = 0] /\ io' = io \ {b}
  /\ UNCHANGED <<dirty, superVars, mutex, job, flushes>> /\ Task

\* somebody, or this task, has taken the last buffer of the transaction from its list
Processed ==
  /\ job.at = "after" \/ (job.at = "process" /\ CheckpointTransaction # job.target)
  /\ job' = [job EXCEPT !.at = "find", !.purpose = "after"]
  /\ UNCHANGED <<listVars, superVars, mutex, flushes>> /\ Task

\* jbd2_log_wait_commit, with j_checkpoint_mutex
WaitCommit ==
  /\ job.at = "wait" /\ sequence >= job.awaited
  /\ GoTo(IF job.purpose = "only" THEN "unlock" ELSE "process")

Unlock ==
  /\ job.at = "unlock"
  /\ mutex' = FALSE
  /\ job' = [NoJob EXCEPT !.at = IF job.flush THEN "drain" ELSE "idle", !.flush = job.flush]
  /\ UNCHANGED <<listVars, superVars, flushes>> /\ Task

\* jbd2_journal_flush, the updates being locked
JournalFlush ==
  /\ Up /\ job.at = "idle" /\ flushes < MaxFlushes
  /\ flushes' = flushes + 1
  /\ job' = [job EXCEPT !.at = "force", !.flush = TRUE,
                        !.awaited = IF running.tid # 0 THEN running.tid ELSE committing.tid]
  /\ UNCHANGED <<listVars, superVars, mutex>> /\ Task

ForceCommit == job.at = "force" /\ sequence >= job.awaited /\ GoTo("drain")

\* slip: the tail alone
DrainListSkipped ==
  /\ job.at = "drain" /\ ~mutex
  /\ mutex' = TRUE
  /\ job' = [job EXCEPT !.at = "find", !.purpose = "final"]
  /\ UNCHANGED <<listVars, superVars, flushes>> /\ Task

\* checkpoint until there is nothing left, then see to the tail once more
DrainList ==
  /\ job.at = "drain" /\ ~mutex
  /\ mutex' = TRUE
  /\ job' = [job EXCEPT !.at = "find", !.purpose = IF CheckpointTransaction # 0 THEN "before" ELSE "final"]
  /\ UNCHANGED <<listVars, superVars, flushes>> /\ Task

SuperStart == IF cache.sb = {} THEN disk.sb.start ELSE (CHOOSE s \in cache.sb : TRUE).start

\* jbd2_mark_journal_empty
MarkEmpty ==
  /\ job.at = "empty"
  /\ IF SuperStart = 0 THEN UNCHANGED <<diskVars, flushed>>
     ELSE WriteSuper(0, tail_seq) /\ flushed' = TRUE
  /\ mutex' = FALSE
  /\ job' = [job EXCEPT !.at = "emptied"]
  /\ UNCHANGED <<listVars, tailVars, flushes>> /\ Task

FlushReturns ==
  /\ job.at = "emptied"
  /\ job' = NoJob
  /\ UNCHANGED <<listVars, superVars, mutex, flushes>> /\ Task

-----------------------------------------------------------------------------
(* Crashes                                                                  *)

\* the power fails: of each block, any of the cached writes has arrived, or none
Crash ==
  /\ kpc # "down" /\ crashes < MaxCrashes
  /\ crashes' = crashes + 1
  /\ \E fs \in [Blocks -> 0..MaxTrans], landed \in SUBSET {l \in Log : cache.log[l] # {}}, sb \in {disk.sb} \cup cache.sb :
       /\ \A b \in Blocks : fs[b] \in {disk.fs[b]} \cup cache.fs[b]
       /\ disk' = [fs |-> fs, sb |-> sb,
                   log |-> [l \in Log |-> IF l \in landed THEN CHOOSE e \in cache.log[l] : TRUE ELSE disk.log[l]]]
  /\ cache' = NoWrites
  /\ kpc' = "down" /\ ktail' = NoTail
  /\ running' = NoTrans /\ committing' = NoTrans
  /\ cp' = [b \in Blocks |-> 0] /\ io' = {} /\ dirty' = {}
  /\ job' = NoJob /\ mutex' = FALSE
  /\ UNCHANGED <<historyVars, mem, next_tid, sequence, log_start, head, tailVars, flushed, flushes>>

After1(l, n) == ((l + n - 1) % LogBlocks) + 1

\* recovery goes one transaction on, if the next one is there as a whole
NextFound(s) ==
  LET first == disk.log[s.at]
      size  == Len(first.blocks)
      last  == disk.log[After1(s.at, size + 1)]
      entry(b) == After1(s.at, CHOOSE k \in 1..size : first.blocks[k] = b) IN
  IF s.end \/ first.kind # "descriptor" \/ first.tid # s.tid \/ last.kind # "commit" \/ last.tid # s.tid
    THEN [s EXCEPT !.end = TRUE]
    ELSE [at |-> After1(s.at, size + 2), tid |-> s.tid + 1, end |-> FALSE,
          fs |-> [b \in Blocks |-> IF b \in ToSet(first.blocks) THEN disk.log[entry(b)].data ELSE s.fs[b]]]

\* what it finds in n steps from the tail in the superblock on
FoundIn[n \in 0..MaxTrans + 1] ==
  IF n = 0 THEN [at |-> disk.sb.start, tid |-> disk.sb.seq, fs |-> disk.fs, end |-> FALSE]
  ELSE NextFound(FoundIn[n - 1])

\* the number of the transaction it misses, and the blocks after replaying the ones before
Found ==
  IF disk.sb.start = 0 THEN [tid |-> disk.sb.seq, fs |-> disk.fs]
  ELSE [tid |-> FoundIn[MaxTrans + 1].tid, fs |-> FoundIn[MaxTrans + 1].fs]

\* jbd2_journal_recover: the blocks are written, and are in the cache
Replay ==
  /\ kpc = "down"
  /\ mem' = Found.fs
  /\ cache' = [cache EXCEPT !.fs = [b \in Blocks |-> IF Found.fs[b] = disk.fs[b] THEN {} ELSE {Found.fs[b]}]]
  /\ next_tid' = Found.tid + 1
  /\ wrote' = [t \in Trans |-> IF t < Found.tid THEN wrote[t] ELSE {}]
  /\ acked' = Max({0} \cup {t \in Trans : wrote'[t] # {}})
  /\ kpc' = "replayed"
  /\ UNCHANGED <<running, committing, sequence, log_start, cp, io, dirty, head, tailVars, flushed, mutex, ktail,
                taskVars, disk, boundVars>>

\* the end of jbd2_journal_recover flushes the disk; then journal_reset
Reset ==
  /\ kpc = "replayed"
  /\ head' = 1 /\ tail' = 1 /\ free' = LogBlocks
  /\ tail_seq' = next_tid /\ sequence' = next_tid - 1
  /\ flushed' = (disk.sb.start = 0)
  /\ disk' = [FlushedDisk EXCEPT !.sb = IF disk.sb.start = 0 THEN @ ELSE [start |-> 1, seq |-> next_tid]]
  /\ cache' = NoWrites
  /\ kpc' = "idle"
  /\ UNCHANGED <<historyVars, running, committing, next_tid, log_start, bufferVars, mutex, ktail, taskVars, boundVars>>

-----------------------------------------------------------------------------

CommitStep == Start \/ UndoFlush \/ Switch \/ WriteLog \/ ReadTail \/ CommitRecord \/ WaitRecord \/ CommitUpdateTail \/ Forget

TaskStep ==
  \/ WaitForSpace \/ LockCheckpoint \/ FindTail \/ FlushTail \/ MoveTail \/ AwaitBuffer \/ ProcessBuffer \/ WaitIO \/ Processed
  \/ WaitCommit \/ Unlock \/ JournalFlush \/ ForceCommit \/ DrainList \/ MarkEmpty \/ FlushReturns

Next ==
  \/ \E b \in Blocks : Modify(b) \/ WriteBack(b) \/ TryToFree(b)
  \/ CommitStep \/ TaskStep \/ Crash \/ Replay \/ Reset

Spec == Init /\ [][Next]_vars

-----------------------------------------------------------------------------
(* Correctness                                                              *)

TransType == [tid : 0..MaxTrans, blocks : SUBSET Blocks]
TailType  == [tid : Nat, block : Log \cup {0}]

Entry     == [kind : {"empty", "descriptor", "data", "commit"}, tid : 0..MaxTrans, blocks : Seq(Blocks), data : 0..MaxTrans]
Super     == [start : Log \cup {0}, seq : Nat]
Places    == {"idle", "lock", "find", "flush", "update", "process", "after", "wait", "unlock", "abort",
              "force", "drain", "empty", "emptied"}
Phases    == {"idle", "flushed", "switch", "log", "tail", "record", "wait", "update", "forget", "down", "replayed"}

JobType   == [at : Places, purpose : {"none", "before", "after", "only", "final"}, tail : TailType,
              target : 0..MaxTrans, awaited : 0..MaxTrans, flush : BOOLEAN]

DiskType  == [fs : [Blocks -> 0..MaxTrans], log : [Log -> Entry], sb : Super]
CacheType == [fs : [Blocks -> SUBSET (0..MaxTrans)], log : [Log -> SUBSET Entry], sb : SUBSET Super]

TypeOK ==
  /\ wrote \in [Trans -> SUBSET Blocks] /\ {acked, sequence, next_tid, tail_seq} \subseteq Nat
  /\ {running, committing} \subseteq TransType
  /\ mem \in [Blocks -> 0..MaxTrans] /\ cp \in [Blocks -> 0..MaxTrans] /\ log_start \in [Trans -> Log \cup {0}]
  /\ {io, dirty} \subseteq SUBSET Blocks
  /\ {head, tail} \subseteq Log /\ free \in 0..LogBlocks
  /\ kpc \in Phases /\ ktail \in TailType /\ {flushed, mutex} \subseteq BOOLEAN
  /\ job \in JobType /\ disk \in DiskType /\ cache \in CacheType

Store == INSTANCE AtomicStore WITH content <- mem

\* After a crash at any point the file system is what some number of transactions have made
\* of it, all of the durable ones among them, however the disk has reordered the writes, and
\* with a log that is used round and round.
ImplementsStore == Store!Spec

\* J_ASSERT(journal->j_free > 1) (journal.c:783): the log has room for what is written to
\* it, the tests of space having been made long before, by other processes.
LogHasRoom ==
  /\ kpc = "log"             => free > Cardinality(committing.blocks) + 1
  /\ kpc \in {"record", "wait"} => free > 1

\* "If there is absolutely no way to make progress, this is either a BUG or corrupted
\* filesystem" (checkpoint.c:136): the task that waits for space never aborts the journal.
NeverNoWay == job.at # "abort"

\* The assertions at the end of jbd2_journal_flush (journal.c:1975-1979).
FlushEmpties ==
  job.at = "emptied" =>
    /\ running = NoTrans /\ committing = NoTrans /\ CheckpointTransaction = 0
    /\ head = tail /\ tail_seq = next_tid

\* "if that doesn't work, by waiting for the currently committing transaction to complete"
\* (checkpoint.c:134): the transaction that is waited for can complete.  It cannot when it
\* needs j_checkpoint_mutex itself, for the superblock after a flush or for the tail.
WaitEnds == ~(job.at = "wait" /\ sequence < job.awaited /\ kpc \in {"flushed", "update"})

=============================================================================
