------------------------------ MODULE FsyncTag ------------------------------
(***************************************************************************)
(* fsync and its tags, on top of JournalCommit.  First the calls that go   *)
(* through the journal for an inode: do_fsync and ext4_sync_file,          *)
(* jbd2_complete_transaction, jbd2_trans_will_send_data_barrier,           *)
(* ext4_evict_inode.  Then the tags: do_fsync puts fs_id and               *)
(* fs_flags on the mapping of the file, the commit thread copies them to   *)
(* the mapping of the block device, whose pages the journal's blocks are,  *)
(* and takes them off at the end; androtrace_add_io stores whatever it     *)
(* finds there in the record of a synchronous write.                       *)
(*                                                                         *)
(* An id stands for the fsync it was counted for: a tag is the task that   *)
(* set it, Null is id 0 with no flags.  at_fs_id itself (8 bits, counted   *)
(* up without a lock) is left out.                                         *)
(***************************************************************************)
EXTENDS JournalCommit

VARIABLES
  tag,      \* fs_id and fs_flags of each inode's mapping
  devTag,   \* those of the block device's mapping
  source,   \* fs_mapping of the commit function
  bh_meta   \* whether the transaction had a metadata buffer

tagVars == <<tag, devTag, source, bh_meta>>

TagInit ==
  /\ Init
  /\ tag = [i \in Inodes |-> Null]
  /\ devTag = Null /\ source = Null /\ bh_meta = FALSE

-----------------------------------------------------------------------------
(* fsync, on the inodes of JournalCommit                                    *)

\* write(2) into the page cache of a regular file
Write(i) ==
  /\ i \notin Journalled /\ inode[i].written < MaxWrites
  /\ inode' = [inode EXCEPT ![i].written = @ + 1]
  /\ UNCHANGED <<journalVars, threadVars, task, durable, errors>>

\* do_fsync and ext4_sync_file; `modified' and `wrote' remember what it is called for
Fsync(p, i) ==
  /\ At(p, "idle") /\ thread = "runs" /\ i \in Open[p]
  /\ task' = [task EXCEPT ![p].pc = "writeout", ![p].inode = i,
                          ![p].modified = inode[i].last, ![p].wrote = inode[i].written]
  /\ UNCHANGED <<journalVars, threadVars, fsVars>>

\* filemap_write_and_wait_range: the data gets as far as the cache of the disk
WriteAndWait(p) ==
  /\ At(p, "writeout")
  /\ inode' = [inode EXCEPT ![task[p].inode].cached = inode[task[p].inode].written]
  /\ Go(p, "mutex")
  /\ UNCHANGED <<journalVars, threadVars, durable, errors>>

LockInode(p) ==
  /\ At(p, "mutex") /\ inode[task[p].inode].mutex = Null
  /\ inode' = [inode EXCEPT ![task[p].inode].mutex = p]
  /\ IF task[p].inode \in Journalled
       THEN \* ext4_force_commit: a synchronous handle of one credit
            /\ fs_mapping' = task[p].inode
            /\ task' = [task EXCEPT ![p].pc = "repeat", ![p].credits = 1, ![p].sync = TRUE]
       ELSE /\ task' = [task EXCEPT ![p].pc = "barrier", ![p].tid = inode[task[p].inode].tid]
            /\ UNCHANGED fs_mapping
  /\ UNCHANGED <<trans, request, created, running, committing, sequence, barrier, timer, thread, aborted,
                threadVars, durable, errors>>

\* slip: the flush of the commit is counted on until the commit is over
WillSendBarrierLate(tid) == ~tid_geq(sequence, tid)

\* jbd2_trans_will_send_data_barrier, file system and journal on one device
WillSendBarrier(tid) ==
  /\ ~tid_geq(sequence, tid)
  /\ committing = 0 \/ Tid(committing) # tid \/ trans[committing].state \in {"flush", "commit", "dflush"}

TestBarrier(p) ==
  /\ At(p, "barrier")
  /\ task' = [task EXCEPT ![p].pc = "complete", ![p].flush = ~WillSendBarrier(task[p].tid)]
  /\ UNCHANGED <<journalVars, threadVars, fsVars>>

\* jbd2_complete_transaction, up to where it releases j_state_lock
Complete(p) ==
  LET tid == task[p].tid IN
  /\ At(p, "complete")
  /\ CASE IsRunning(tid) -> Go(p, IF request # tid THEN "request" ELSE "wait")
       [] ~IsRunning(tid) /\ committing # 0 /\ Tid(committing) = tid -> Go(p, "wait")
       [] OTHER -> IF task[p].inode = Null THEN Done(p) ELSE Go(p, "flush")
  /\ UNCHANGED <<journalVars, threadVars, fsVars>>

Request(p) ==
  /\ At(p, "request")
  /\ LogStartCommit(task[p].tid, IF task[p].inode = Null THEN fs_mapping ELSE task[p].inode)
  /\ Go(p, "wait")
  /\ UNCHANGED <<stateVars, kpc, fsVars>>

\* ext4_evict_inode of a symbolic link or of a file with journalled data
Evict(p, i) ==
  /\ At(p, "idle") /\ thread = "runs" /\ i \in Journalled
  /\ task' = [task EXCEPT ![p].pc = "complete", ![p].tid = inode[i].tid]
  /\ UNCHANGED <<journalVars, threadVars, fsVars>>

\* blkdev_issue_flush, when no commit does it
Flush(p) ==
  /\ At(p, "flush")
  /\ inode' = IF task[p].flush THEN Flushed ELSE inode
  /\ Go(p, "return")
  /\ UNCHANGED <<journalVars, threadVars, durable, errors>>

Return(p) ==
  /\ At(p, "return")
  /\ inode' = [inode EXCEPT ![task[p].inode].mutex = Null]
  /\ Go(p, "clear")
  /\ UNCHANGED <<journalVars, threadVars, durable, errors>>

\* the rest of do_fsync
EndFsync(p) ==
  /\ At(p, "clear")
  /\ Done(p)
  /\ UNCHANGED <<journalVars, threadVars, fsVars>>

\* ext4_update_inode_fsync_trans, for one of the handle's credits
Modify(p, i) ==
  /\ At(p, "handle") /\ task[p].credits > 0 /\ task[p].inode = Null
  /\ task' = [task EXCEPT ![p].credits = @ - 1]
  /\ inode' = [inode EXCEPT ![i].tid = Tid(task[p].trans), ![i].last = task[p].trans]
  /\ UNCHANGED <<journalVars, threadVars, durable, errors>>

-----------------------------------------------------------------------------
(* The tags                                                                 *)

\* do_fsync before vfs_fsync
SetTag(p, i) ==
  /\ tag' = [tag EXCEPT ![i] = p]
  /\ UNCHANGED <<devTag, source, bh_meta>>

\* slip: the tag stays
ClearTagNever(p) == UNCHANGED tagVars

\* do_fsync after it, whoever has set the tag
ClearTag(p) ==
  /\ tag' = [tag EXCEPT ![task[p].inode] = Null]
  /\ UNCHANGED <<devTag, source, bh_meta>>

\* slip: the journal's mapping goes before that of the transaction
SourceJournalFirst == IF fs_mapping # Null THEN fs_mapping ELSE trans[committing].mapping

\* the mapping that is kept for the transaction, else the one that is kept for the journal
Source == IF trans[committing].mapping # Null THEN trans[committing].mapping ELSE fs_mapping

\* jbd2_journal_commit_transaction before the metadata buffers, if there are any
CopyTag ==
  /\ bh_meta' \in BOOLEAN
  /\ source' = IF bh_meta' THEN Source ELSE Null
  /\ devTag' = IF ~bh_meta' THEN devTag
               ELSE IF Source = Null THEN Null ELSE tag[Source]
  /\ UNCHANGED tag

\* its very end, after j_wait_done_commit has been woken
ClearDevice ==
  /\ devTag' = IF bh_meta /\ source # Null THEN Null ELSE devTag
  /\ bh_meta' = FALSE /\ source' = Null
  /\ UNCHANGED tag

\* the steps on inodes that leave the tags alone
FileStep(p) ==
  \/ WriteAndWait(p) \/ LockInode(p) \/ TestBarrier(p) \/ Complete(p) \/ Request(p)
  \/ Flush(p) \/ Return(p)
  \/ \E i \in Inodes : Modify(p, i)
  \/ "evict" \in Calls[p] /\ \E i \in Inodes : Evict(p, i)

\* those of JournalCommit
JournalStep ==
  \/ \E p \in Tasks : Handle(p) \/ Commits(p) \/ Choice(p) \/ Barrier(p)
  \/ CommitThread \/ Expire \/ TimerFires \/ Abort \/ KillThread

TagNext ==
  \/ JournalStep /\ UNCHANGED tagVars
  \/ (\E i \in Inodes : Write(i)) /\ UNCHANGED tagVars
  \/ \E p \in Tasks : FileStep(p) /\ UNCHANGED tagVars
  \/ \E p \in Tasks : EndFsync(p) /\ ClearTag(p)
  \/ \E p \in Tasks : \E i \in Inodes : Fsync(p, i) /\ SetTag(p, i)
  \/ WriteLog /\ kpc = "commit" /\ CopyTag
  \/ WriteLog /\ kpc # "commit" /\ UNCHANGED tagVars
  \/ Leave /\ ClearDevice

TagSpec == TagInit /\ [][TagNext]_<<vars, tagVars>>

-----------------------------------------------------------------------------
(* Correctness                                                              *)

TagTypeOK ==
  /\ tag \in [Inodes -> Tasks \cup {Null}]
  /\ devTag \in Tasks \cup {Null} /\ source \in Inodes \cup {Null}
  /\ bh_meta \in BOOLEAN

InFsync(p) == task[p].inode # Null

\* until the commit record is written; the waiters may go on before the tag is cleared
WritesJournal == kpc \in {"dflush", "jflush", "record"}

\* A record of a write to a file carries the id of an fsync of it that is still in progress,
\* and so does that of a block of the journal when a regular file has had the transaction
\* committed: its fsync waits until the blocks are written.
TagsAreLive ==
  \A p \in Tasks :
    \/ \E i \in Inodes : tag[i] = p
    \/ WritesJournal /\ devTag = p /\ trans[committing].mapping \in Inodes \ Journalled
    => InFsync(p)

\* "to identify why journal is forced" (include/linux/jbd2.h:735): the journal blocks of a
\* commit that an fsync has asked for carry the id of that fsync.  (Others may carry it too:
\* j_fs_mapping is never reset, and the next commit of whatever sort takes a tag from it.)
CommitTagged ==
  \A p \in Tasks :
    bh_meta /\ WritesJournal /\ InFsync(p) /\ At(p, "wait") /\ Tid(committing) = task[p].tid
      /\ trans[committing].mapping = task[p].inode
    => devTag = p

Snapshot(p) ==
  /\ task[p].modified \in durable \cup {0}
  /\ inode[task[p].inode].stable >= task[p].wrote

\* An fsync that returns 0 has the last change of the inode committed and its data past the
\* cache of the disk, by its own flush or by the one of the commit record: always while the
\* journal is not aborted, and when it has waited for the commit whatever happens.
FsyncDurable ==
  \A p \in Tasks : At(p, "return") /\ ~task[p].error /\ (task[p].waited \/ ~aborted) => Snapshot(p)

=============================================================================
