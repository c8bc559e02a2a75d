------------------------------ MODULE MCFsyncTag ------------------------------
(* A small instance of FsyncTag for TLC.                                    *)
EXTENDS FsyncTag, TLC

CONSTANTS p1, p2, i1, i2

TwoTasks == {p1, p2}

\* a file, and a directory
Both == {i1, i2}

\* one task changes the file system and syncs the directory, the other syncs the file and
\* evicts the directory's inode
TagCalls == (p1 :> {"start"}) @@ (p2 :> {"evict"})

\* no inode is synced by both
OwnInodes == (p1 :> {i2}) @@ (p2 :> {i1})

=============================================================================
