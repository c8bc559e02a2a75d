---------------------------- MODULE JournalCommit ----------------------------
(***************************************************************************)
(* Handles, transactions and the commit thread of fs/jbd2 as AndroTrace    *)
(* has patched them: start_this_handle, jbd2_journal_stop, _extend,        *)
(* _restart, _lock_updates, jbd2_journal_force_commit_nested,              *)
(* jbd2_log_start_commit, jbd2_log_wait_commit, kjournald2 and             *)
(* jbd2_journal_commit_transaction.  FsyncTag has fsync on top of them.    *)
(*                                                                         *)
(* A section under j_state_lock is one step.  The wait queues are sets: a  *)
(* process puts itself on one in the section in which it makes its test    *)
(* (prepare_to_wait), a wake_up empties it, and the process goes on once   *)
(* it is off.  Abstracted: what a transaction writes is only counted       *)
(* (credits); log space and checkpoints are in JournalSpace; a             *)
(* transaction is numbered, and t_tid is the number modulo TidMod.         *)
(***************************************************************************)
EXTENDS Integers, FiniteSets

CONSTANTS
  Tasks,       \* the processes that use the file system
  Calls,       \* for each of them, what it calls
  Inodes,
  Open,        \* for each task, the inodes it can fsync
  Journalled,  \* those whose data is journalled, directories too (ext4_should_journal_data)
  TidMod,      \* tid_t has this many values
  FirstTid,    \* j_commit_sequence when the journal is loaded
  MaxCredits,  \* j_max_transaction_buffers
  Asks,        \* what a handle can ask for
  MaxTrans,    \* bound: transactions
  MaxWrites,   \* bound: writes to an inode's data, in FsyncTag
  MaxErrors,   \* bound: failing commits
  kjournald, Null, Garbage

ASSUME NameAssumption  == IsFiniteSet(Tasks) /\ {Null, kjournald} \cap Tasks = {} /\ {Null, Garbage} \cap Inodes = {} /\ Null # Garbage
ASSUME InodeAssumption == Journalled \subseteq Inodes /\ Open \in [Tasks -> SUBSET Inodes]
ASSUME TidAssumption   == TidMod \in Nat \ {0} /\ TidMod % 2 = 0 /\ FirstTid \in 0..(TidMod - 1)
ASSUME CallAssumption  ==
  Calls \in [Tasks -> SUBSET {"start", "start_sync", "extend", "restart", "lock_updates", "sync_fs",
                             "force_nested", "evict"}]
ASSUME BoundAssumption == {MaxCredits, MaxTrans, MaxWrites, MaxErrors} \subseteq Nat /\ Asks \subseteq 1..MaxCredits
\* within the bound no tid is older than half the range
ASSUME WrapAssumption  == 2 * MaxTrans < TidMod

VARIABLES
  trans,       \* the transactions: t_state, t_updates, t_outstanding_credits, t_fs_mapping, expiry
  created,     \* how many transactions there have been
  running,     \* j_running_transaction, 0 when there is none
  committing,  \* j_committing_transaction
  request,     \* j_commit_request
  sequence,    \* j_commit_sequence
  barrier,     \* j_barrier_count
  fs_mapping,  \* j_fs_mapping
  timer,       \* whether j_commit_timer is pending
  thread,      \* JBD2_UNMOUNT and j_task: the thread "runs", is to be "killed", or is "gone"
  aborted,     \* JBD2_ABORT
  kpc,         \* where the commit thread is
  waiting,     \* the wait queues
  task,        \* what each task is doing
  inode,       \* i_sync_tid, i_mutex, and how far its data is written, on the disk, past its cache
  durable,     \* the transactions whose commit record is on the disk
  errors       \* how many commits have failed

threadVars  == <<kpc, waiting>>
fsVars      == <<inode, durable, errors>>
stateVars   == <<created, running, committing, sequence, barrier, timer, thread, aborted, fs_mapping>>
journalVars == <<trans, request, stateVars>>
vars        == <<journalVars, threadVars, task, fsVars>>

Trans  == 1..MaxTrans

Tid(t) == (FirstTid + t) % TidMod

\* tid_gt and tid_geq: the sign of the difference of two unsigned numbers
tid_gt(x, y)  == (x - y) % TidMod \in 1..(TidMod \div 2 - 1)
tid_geq(x, y) == (x - y) % TidMod \in 0..(TidMod \div 2 - 1)

NoTrans == [state |-> "none", updates |-> 0, credits |-> 0, mapping |-> Null, expired |-> FALSE]
Idle    == [pc |-> "idle", trans |-> 0, credits |-> 0, sync |-> FALSE, tid |-> 0, inode |-> Null,
            flush |-> FALSE, waited |-> FALSE, error |-> FALSE, modified |-> 0, wrote |-> 0]

Init ==
  /\ trans = [t \in Trans |-> NoTrans] /\ created = 0
  /\ running = 0 /\ committing = 0
  /\ sequence = FirstTid /\ request = FirstTid
  /\ barrier = 0 /\ timer = FALSE /\ thread = "runs" /\ aborted = FALSE
  /\ fs_mapping = Null
  /\ kpc = "loop"
  /\ waiting = [q \in {"commit", "updates", "locked", "done"} |-> {}]
  /\ task = [p \in Tasks |-> Idle]
  /\ inode = [i \in Inodes |-> [tid |-> FirstTid, last |-> 0, mutex |-> Null,
                               written |-> 0, cached |-> 0, stable |-> 0]]
  /\ durable = {} /\ errors = 0

At(p, label)  == task[p].pc = label
Go(p, label)  == task' = [task EXCEPT ![p].pc = label]
Done(p)       == task' = [task EXCEPT ![p] = Idle]
Fail(p)       == task' = [task EXCEPT ![p] = IF task[p].inode = Null THEN Idle
                                               ELSE [task[p] EXCEPT !.pc = "return", !.error = TRUE]]
Wait(q, p)    == [waiting EXCEPT ![q] = @ \cup {p}]
Wake(q)       == [waiting EXCEPT ![q] = {}]
Awake(q, p)   == p \notin waiting[q]

-----------------------------------------------------------------------------
(* Requesting a commit and waiting for it                                   *)

\* slip: whatever runs is asked to commit
IsRunningAny(tid) == running # 0

\* j_running_transaction->t_tid == target
IsRunning(tid) == running # 0 /\ Tid(running) = tid

\* __jbd2_log_start_commit(journal, tid, mapping)
LogStartCommit(tid, mapping) ==
  IF request # tid /\ IsRunning(tid)
    THEN /\ request' = tid
         /\ trans' = IF mapping = Null THEN trans ELSE [trans EXCEPT ![running].mapping = mapping]
         /\ waiting' = Wake("commit")
    ELSE UNCHANGED <<request, trans, waiting>>

\* what transaction->t_fs_mapping can be read as; without a lock or a handle the transaction
\* may be finished, which is freed, or will be with its last buffer's checkpoint
Mappings(t) == {trans[t].mapping} \cup IF trans[t].state = "finished" THEN {Garbage} ELSE {}

CommitError == aborted

\* jbd2_log_wait_commit
WaitCommit(p) ==
  /\ At(p, "wait") /\ Awake("done", p)
  /\ IF tid_gt(task[p].tid, sequence)
       THEN /\ waiting' = [Wait("done", p) EXCEPT !["commit"] = {}]
            /\ UNCHANGED task
       ELSE /\ task' = IF task[p].inode = Null THEN [task EXCEPT ![p] = Idle]
                       ELSE [task EXCEPT ![p].pc = "flush", ![p].waited = TRUE, ![p].error = CommitError]
            /\ UNCHANGED waiting
  /\ UNCHANGED <<journalVars, kpc, fsVars>>

-----------------------------------------------------------------------------
(* Starting a handle                                                        *)

\* jbd2__journal_start with nblocks credits; sync is what h_sync will be
JournalStart(p, nblocks, sync) ==
  /\ At(p, "idle") /\ thread = "runs"
  /\ task' = [task EXCEPT ![p].pc = "repeat", ![p].credits = nblocks, ![p].sync = sync]
  /\ UNCHANGED <<journalVars, threadVars, fsVars>>

\* start_this_handle, from its label repeat to where it releases j_state_lock
Repeat(p) == At(p, "repeat") /\ Awake("locked", p)

StartAborted(p) ==
  /\ Repeat(p) /\ aborted
  /\ Fail(p)
  /\ UNCHANGED <<journalVars, threadVars, fsVars>>

StartBarrier(p) ==
  /\ Repeat(p) /\ ~aborted /\ barrier > 0
  /\ waiting' = Wait("locked", p)
  /\ UNCHANGED <<journalVars, kpc, task, fsVars>>

StartNone(p) ==
  /\ Repeat(p) /\ ~aborted /\ barrier = 0 /\ running = 0
  /\ Go(p, "create")
  /\ UNCHANGED <<journalVars, threadVars, fsVars>>

\* jbd2_get_transaction, unless another task has been faster
GetTransaction(p) ==
  /\ At(p, "create")
  /\ IF running = 0 /\ barrier = 0
       THEN /\ created < MaxTrans
            /\ created' = created + 1
            /\ running' = created'
            /\ trans' = [trans EXCEPT ![created'].state = "running"]
            /\ timer' = TRUE
       ELSE UNCHANGED <<created, running, trans, timer>>
  /\ Go(p, "repeat")
  /\ UNCHANGED <<committing, request, sequence, barrier, thread, aborted, threadVars, fsVars, fs_mapping>>

\* slip: j_barrier_count is not tested again after the wait
UsableBarred(p) == Repeat(p) /\ ~aborted /\ running # 0

Usable(p) == Repeat(p) /\ ~aborted /\ barrier = 0 /\ running # 0

Locked == trans[running].state = "locked"

Fits(p) == trans[running].credits + task[p].credits <= MaxCredits

StartLocked(p) ==
  /\ Usable(p) /\ Locked
  /\ waiting' = Wait("locked", p)
  /\ UNCHANGED <<journalVars, kpc, task, fsVars>>

\* the transaction is too large: have it committed and wait for the next
StartTooLarge(p) ==
  /\ Usable(p) /\ ~Locked /\ ~Fits(p)
  /\ waiting' = Wait("locked", p)
  /\ task' = [task EXCEPT ![p].trans = running, ![p].tid = Tid(running),
                          ![p].pc = IF tid_geq(request, Tid(running)) THEN "repeat" ELSE "ask"]
  /\ UNCHANGED <<journalVars, kpc, fsVars>>

\* jbd2_log_start_commit(journal, tid, transaction->t_fs_mapping), by a task that neither
\* has the lock nor counts in t_updates any more
AskForCommit(p) ==
  /\ At(p, "ask")
  /\ \E mapping \in Mappings(task[p].trans) : LogStartCommit(task[p].tid, mapping)
  /\ Go(p, "repeat")
  /\ UNCHANGED <<stateVars, kpc, fsVars>>

StartThisHandle(p) ==
  /\ Usable(p) /\ ~Locked /\ Fits(p)
  /\ trans' = [trans EXCEPT ![running].credits = @ + task[p].credits, ![running].updates = @ + 1]
  /\ task' = [task EXCEPT ![p].pc = "handle", ![p].trans = running]
  /\ UNCHANGED <<request, stateVars, threadVars, fsVars>>

-----------------------------------------------------------------------------
(* Using and stopping a handle                                              *)

\* jbd2_journal_extend by one block; refused when it does not fit
Extend(p) ==
  /\ At(p, "handle") /\ ~aborted
  /\ trans[task[p].trans].state = "running" /\ trans[task[p].trans].credits < MaxCredits
  /\ trans' = [trans EXCEPT ![task[p].trans].credits = @ + 1]
  /\ task' = [task EXCEPT ![p].credits = @ + 1]
  /\ UNCHANGED <<request, stateVars, threadVars, fsVars>>

\* slip: t_updates is decremented and nobody is told
DropUpdateSilently(p) ==
  /\ trans' = [trans EXCEPT ![task[p].trans].updates = @ - 1,
                            ![task[p].trans].credits = @ - task[p].credits]
  /\ UNCHANGED waiting

\* atomic_dec_and_test(&transaction->t_updates), and back go the unused credits
DropUpdate(p) ==
  /\ trans' = [trans EXCEPT ![task[p].trans].updates = @ - 1,
                            ![task[p].trans].credits = @ - task[p].credits]
  /\ waiting' = IF trans[task[p].trans].updates = 1 THEN Wake("updates") ELSE waiting

\* jbd2_journal_restart up to where it releases j_state_lock
Restart(p, nblocks) ==
  /\ At(p, "handle") /\ ~aborted
  /\ DropUpdate(p)
  /\ task' = [task EXCEPT ![p].tid = Tid(task[p].trans), ![p].credits = nblocks,
                          ![p].pc = IF tid_geq(request, Tid(task[p].trans)) THEN "repeat" ELSE "ask"]
  /\ UNCHANGED <<request, stateVars, kpc, fsVars>>

\* jbd2_journal_stop: a synchronous handle, and one that has outlived its transaction's
\* time, ask for the commit while they still hold the transaction
StopRequest(p) ==
  /\ At(p, "handle")
  /\ IF task[p].sync \/ trans[task[p].trans].expired
       THEN LogStartCommit(Tid(task[p].trans), trans[task[p].trans].mapping)
       ELSE UNCHANGED <<request, trans, waiting>>
  /\ Go(p, "stop")
  /\ UNCHANGED <<stateVars, kpc, fsVars>>

Stop(p) ==
  /\ At(p, "stop")
  /\ DropUpdate(p)
  /\ task' = [task EXCEPT ![p] =
                 IF task[p].sync
                   THEN [task[p] EXCEPT !.pc = "wait", !.tid = Tid(task[p].trans),
                                        !.trans = 0, !.credits = 0, !.sync = FALSE]
                   ELSE Idle]
  /\ UNCHANGED <<request, stateVars, kpc, fsVars>>

-----------------------------------------------------------------------------
(* Stopping all handles                                                     *)

\* jbd2_journal_lock_updates
LockUpdates(p) ==
  /\ At(p, "idle") /\ thread = "runs"
  /\ barrier' = barrier + 1
  /\ Go(p, "quiesce")
  /\ UNCHANGED <<trans, created, running, committing, request, sequence, timer, thread, aborted, threadVars, fsVars, fs_mapping>>

\* its loop
Quiesce(p) ==
  /\ At(p, "quiesce") /\ Awake("updates", p)
  /\ IF running # 0 /\ trans[running].updates > 0
       THEN waiting' = Wait("updates", p) /\ UNCHANGED task
       ELSE Go(p, "quieted") /\ UNCHANGED waiting
  /\ UNCHANGED <<journalVars, kpc, fsVars>>

\* mutex_lock(&journal->j_barrier)
LockBarrier(p) ==
  /\ At(p, "quieted") /\ \A o \in Tasks : ~At(o, "quiet")
  /\ Go(p, "quiet")
  /\ UNCHANGED <<journalVars, threadVars, fsVars>>

UnlockUpdates(p) ==
  /\ At(p, "quiet")
  /\ barrier' = barrier - 1
  /\ waiting' = Wake("locked")
  /\ Done(p)
  /\ UNCHANGED <<trans, created, running, committing, request, sequence, timer, thread, aborted, kpc, fsVars, fs_mapping>>

-----------------------------------------------------------------------------
(* Other commits that are asked for                                         *)

\* jbd2_journal_start_commit, with the wait of ext4_sync_fs
SyncFs(p) ==
  /\ At(p, "idle") /\ thread = "runs" /\ running + committing > 0
  /\ IF running # 0
       THEN LogStartCommit(Tid(running), trans[running].mapping)
       ELSE UNCHANGED <<request, trans, waiting>>
  /\ task' = [task EXCEPT ![p].pc = "wait", ![p].tid = Tid(IF running # 0 THEN running ELSE committing)]
  /\ UNCHANGED <<stateVars, kpc, fsVars>>

\* jbd2_journal_force_commit_nested outside a handle, up to where it releases the lock
ForceNested(p) ==
  /\ At(p, "idle") /\ thread = "runs" /\ running + committing > 0
  /\ LET t == IF running # 0 THEN running ELSE committing IN
     task' = [task EXCEPT ![p].trans = t, ![p].tid = Tid(t),
                          ![p].pc = IF t = running /\ ~tid_geq(request, Tid(t)) THEN "nested" ELSE "wait"]
  /\ UNCHANGED <<journalVars, threadVars, fsVars>>

RequestNested(p) ==
  /\ At(p, "nested")
  /\ \E mapping \in Mappings(task[p].trans) : LogStartCommit(task[p].tid, mapping)
  /\ Go(p, "wait")
  /\ UNCHANGED <<stateVars, kpc, fsVars>>

-----------------------------------------------------------------------------
(* The commit thread                                                        *)

\* the expiry of the running transaction
Expire ==
  /\ running # 0 /\ ~trans[running].expired
  /\ trans' = [trans EXCEPT ![running].expired = TRUE]
  /\ UNCHANGED <<request, stateVars, threadVars, task, fsVars>>

\* j_commit_timer is rounded up to a later jiffy than the expiry: commit_timeout
TimerFires ==
  /\ timer /\ running # 0 /\ trans[running].expired
  /\ timer' = FALSE
  /\ waiting' = [waiting EXCEPT !["commit"] = @ \ {kjournald}]
  /\ UNCHANGED <<trans, created, running, committing, request, sequence, barrier, thread, aborted, kpc, task, fsVars, fs_mapping>>

Expired == running # 0 /\ trans[running].expired

\* slip: an expiry that came during the last commit is left to the timer
ShouldSleepThoughExpired == TRUE

\* of the tests before kjournald2 sleeps, the one of the transaction's time
ShouldSleep == ~Expired

\* kjournald2 at the label loop
Loop ==
  /\ kpc = "loop" /\ thread = "runs"
  /\ IF sequence # request
       THEN kpc' = "start" /\ timer' = FALSE /\ UNCHANGED waiting
       ELSE /\ kpc' = "woken" /\ UNCHANGED timer
            /\ waiting' = [waiting EXCEPT !["done"] = {},
                                          !["commit"] = IF ShouldSleep THEN {kjournald} ELSE {}]
  /\ UNCHANGED <<trans, created, running, committing, request, sequence, barrier, thread, aborted, task, fsVars, fs_mapping>>

Woken ==
  /\ kpc = "woken" /\ Awake("commit", kjournald)
  /\ request' = IF Expired THEN Tid(running) ELSE request
  /\ kpc' = "loop"
  /\ UNCHANGED <<trans, stateVars, waiting, task, fsVars>>

\* a flush of the disk's cache
Flushed == [i \in Inodes |-> [inode[i] EXCEPT !.stable = inode[i].cached]]

SetState(t, s) == trans' = [trans EXCEPT ![t].state = s]

\* jbd2_journal_commit_transaction: T_LOCKED
LockTransaction ==
  /\ kpc = "start"
  /\ SetState(running, "locked")
  /\ kpc' = "drain"
  /\ UNCHANGED <<request, stateVars, waiting, task, fsVars>>

\* slip: the handles in progress are not waited for
UpdatesLeftNone == FALSE

UpdatesLeft == trans[running].updates > 0

\* the wait for t_updates; then the transaction becomes the committing one
Drain ==
  /\ kpc = "drain" /\ Awake("updates", kjournald)
  /\ IF UpdatesLeft
       THEN waiting' = Wait("updates", kjournald) /\ UNCHANGED <<trans, running, committing, kpc>>
       ELSE /\ SetState(running, "flush")
            /\ committing' = running /\ running' = 0
            /\ waiting' = Wake("locked")
            /\ kpc' = "flush"
  /\ UNCHANGED <<created, request, sequence, barrier, timer, thread, aborted, task, fsVars, fs_mapping>>

\* the data, then T_COMMIT; the metadata blocks, then T_COMMIT_DFLUSH; their end, then T_COMMIT_JFLUSH
WriteLog ==
  /\ kpc \in {"flush", "commit", "dflush"}
  /\ kpc' = CASE kpc = "flush" -> "commit" [] kpc = "commit" -> "dflush" [] kpc = "dflush" -> "jflush"
  /\ SetState(committing, kpc')
  /\ UNCHANGED <<request, stateVars, waiting, task, fsVars>>

\* journal_submit_commit_record, WRITE_FLUSH_FUA, and the wait for it
CommitRecord ==
  /\ kpc = "jflush" /\ ~aborted
  /\ durable' = durable \cup {committing}
  /\ inode' = Flushed
  /\ kpc' = "record"
  /\ UNCHANGED <<journalVars, waiting, task, errors>>

\* an aborted journal gets no commit record
NoRecord ==
  /\ kpc = "jflush" /\ aborted
  /\ kpc' = "record"
  /\ UNCHANGED <<journalVars, waiting, task, fsVars>>

\* an I/O error on the log, the data or the commit record: __jbd2_journal_abort_hard
Abort ==
  /\ kpc \in {"commit", "dflush", "jflush"} /\ errors < MaxErrors /\ ~aborted
  /\ errors' = errors + 1
  /\ aborted' = TRUE
  /\ IF running # 0
       THEN LogStartCommit(Tid(running), trans[running].mapping)
       ELSE UNCHANGED <<request, trans, waiting>>
  /\ UNCHANGED <<created, running, committing, sequence, barrier, timer, thread, kpc, task, inode, durable, fs_mapping>>

\* T_COMMIT_CALLBACK
EndCommit ==
  /\ kpc = "record"
  /\ SetState(committing, "callback")
  /\ sequence' = Tid(committing)
  /\ committing' = 0
  /\ kpc' = "callback"
  /\ UNCHANGED <<created, running, request, barrier, timer, thread, aborted, waiting, task, fsVars, fs_mapping>>

\* T_FINISHED
Finish ==
  /\ kpc = "callback"
  /\ \E t \in Trans : trans[t].state = "callback" /\ SetState(t, "finished")
  /\ kpc' = "wake"
  /\ UNCHANGED <<request, stateVars, waiting, task, fsVars>>

WakeWaiters ==
  /\ kpc = "wake"
  /\ waiting' = Wake("done")
  /\ kpc' = "end"
  /\ UNCHANGED <<journalVars, task, fsVars>>

\* the rest of the function, which clears the tag of the block device (see FsyncTag)
Leave ==
  /\ kpc = "end"
  /\ kpc' = IF thread # "gone" THEN "loop" ELSE "exit"
  /\ UNCHANGED <<journalVars, waiting, task, fsVars>>

-----------------------------------------------------------------------------
(* Unmounting                                                               *)

\* jbd2_journal_destroy, journal_kill_thread: no task is in the file system any more
KillThread ==
  /\ thread = "runs" /\ \A p \in Tasks : At(p, "idle")
  /\ thread' = "killed"
  /\ waiting' = Wake("commit")
  /\ UNCHANGED <<trans, created, running, committing, request, sequence, barrier, timer, aborted, kpc, task, fsVars, fs_mapping>>

ThreadExit ==
  /\ kpc = "loop" /\ thread = "killed"
  /\ kpc' = "exit" /\ thread' = "gone" /\ timer' = FALSE
  /\ waiting' = Wake("done")
  /\ UNCHANGED <<trans, created, running, committing, request, sequence, barrier, aborted, task, fsVars, fs_mapping>>

\* "Force a final log commit": by the unmounting process itself
FinalCommit ==
  /\ kpc = "exit" /\ running # 0
  /\ kpc' = "start"
  /\ UNCHANGED <<journalVars, waiting, task, fsVars>>

-----------------------------------------------------------------------------

Handle(p) ==
  \/ StartAborted(p) \/ StartBarrier(p) \/ StartNone(p) \/ GetTransaction(p) \/ StartLocked(p)
  \/ StartTooLarge(p) \/ AskForCommit(p) \/ StartThisHandle(p) \/ StopRequest(p) \/ Stop(p)

Commits(p) == WaitCommit(p) \/ RequestNested(p)

\* what a task does of its own will
Choice(p) ==
  LET Does(call) == call \in Calls[p] IN
  \/ \E n \in Asks : \/ Does("restart") /\ Restart(p, n)
                     \/ Does("start") /\ JournalStart(p, n, FALSE)
                     \/ Does("start_sync") /\ JournalStart(p, n, TRUE)
  \/ Does("extend") /\ Extend(p)
  \/ Does("lock_updates") /\ LockUpdates(p)
  \/ Does("sync_fs") /\ SyncFs(p)
  \/ Does("force_nested") /\ ForceNested(p)

Barrier(p) == Quiesce(p) \/ LockBarrier(p) \/ UnlockUpdates(p)

CommitThread ==
  \/ Loop \/ Woken \/ LockTransaction \/ Drain \/ CommitRecord \/ NoRecord
  \/ EndCommit \/ Finish \/ WakeWaiters \/ ThreadExit \/ FinalCommit

Next ==
  \/ \E p \in Tasks : Handle(p) \/ Commits(p) \/ Choice(p) \/ Barrier(p)
  \/ CommitThread \/ Expire \/ TimerFires \/ Abort \/ KillThread
  \/ WriteLog \/ Leave

\* The caller of a handle stops or restarts it, and the commit thread and the timer run.
Fairness ==
  /\ WF_vars(CommitThread \/ WriteLog \/ Leave) /\ WF_vars(Expire) /\ WF_vars(TimerFires)
  /\ \A p \in Tasks : WF_vars(Handle(p)) /\ WF_vars(Commits(p)) /\ WF_vars(Barrier(p))

Spec == Init /\ [][Next]_vars /\ Fairness

-----------------------------------------------------------------------------
(* Correctness                                                              *)

Labels == {"idle", "repeat", "create", "ask", "handle", "stop", "quiesce", "quieted", "quiet", "nested",
           "writeout", "mutex", "barrier", "complete", "request", "wait", "flush", "return", "clear"}
States == {"none", "running", "locked", "flush", "commit", "dflush", "jflush", "callback", "finished"}

TransType == [state : States, updates : Nat, credits : Nat, mapping : Inodes \cup {Null, Garbage}, expired : BOOLEAN]
TaskType  == [pc : Labels, trans : 0..MaxTrans, credits : Nat, sync : BOOLEAN, tid : 0..(TidMod - 1),
              inode : Inodes \cup {Null}, flush : BOOLEAN, waited : BOOLEAN, error : BOOLEAN,
              modified : 0..MaxTrans, wrote : Nat]
InodeType == [tid : 0..(TidMod - 1), last : 0..MaxTrans, mutex : Tasks \cup {Null},
              written : Nat, cached : Nat, stable : Nat]

TypeOK ==
  /\ trans \in [Trans -> TransType]
  /\ {created, running, committing} \subseteq 0..MaxTrans
  /\ {request, sequence} \subseteq 0..(TidMod - 1)
  /\ fs_mapping \in Inodes \cup {Null}
  /\ barrier \in Nat /\ {timer, aborted} \subseteq BOOLEAN /\ thread \in {"runs", "killed", "gone"}
  /\ kpc \in {"loop", "woken", "start", "drain", "flush", "commit", "dflush", "jflush", "record",
             "callback", "wake", "end", "exit"}
  /\ waiting \in [{"commit", "updates", "locked", "done"} -> SUBSET (Tasks \cup {kjournald})]
  /\ task \in [Tasks -> TaskType]
  /\ inode \in [Inodes -> InodeType]
  /\ durable \subseteq Trans /\ errors \in 0..MaxErrors

\* The tasks that hold a handle of transaction t.
Holders(t) == {p \in Tasks : task[p].pc \in {"handle", "stop"} /\ task[p].trans = t}

\* A transaction past T_LOCKED has no handle left that could still change what is being
\* written, and t_updates is exactly the number of its handles (jbd2_journal_restart and
\* jbd2_journal_stop decrement it in different orders).
CommitsQuietly ==
  \A t \in Trans : /\ trans[t].updates = Cardinality(Holders(t))
                    /\ Holders(t) # {} => trans[t].state \in {"running", "locked"}

\* jbd2_journal_lock_updates: "we will wait for any existing updates to complete before
\* returning".  While a task has updates locked nobody holds a handle.
UpdatesStayLocked == (\E p \in Tasks : At(p, "quiet")) => \A t \in Trans : Holders(t) = {}

\* The assertions of jbd2_journal_commit_transaction when it starts (commit.c:427-431):
\* whoever raised j_commit_request, and however kjournald2 was woken, there is a running
\* transaction of that number and none is being committed.
CommitHasTransaction ==
  kpc = "start" => /\ running # 0 /\ committing = 0 /\ trans[running].state = "running" /\ ~timer
                   /\ thread # "gone" => Tid(running) = request

\* start_this_handle and jbd2_journal_restart read t_fs_mapping of a transaction that may
\* have been committed and freed since they left the lock.  What they read then never
\* becomes the mapping of a transaction.
NoGarbageMapping == \A t \in Trans : trans[t].mapping # Garbage

\* Whoever waits for a commit is woken in the end, also when the journal is aborted.
WaitersReturn == \A p \in Tasks : At(p, "wait") ~> ~At(p, "wait")

\* Every transaction is committed in the end, be it only for its age.
TransactionsCommit ==
  \A t \in Trans : trans[t].state = "running" ~> trans[t].state = "finished"

=============================================================================
