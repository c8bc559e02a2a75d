--------------------------- MODULE MCJournalCommit ---------------------------
(* Small instances of JournalCommit for TLC.                                *)
EXTENDS JournalCommit, TLC

CONSTANTS p1, p2

TwoTasks == {p1, p2}

\* two tasks that change metadata, with each sort of commit request and of wait between them
MetadataCalls ==
  (p1 :> {"start", "restart", "force_nested"}) @@ (p2 :> {"start_sync", "extend", "lock_updates", "sync_fs"})

NothingOpen == [p \in TwoTasks |-> {}]

=============================================================================
