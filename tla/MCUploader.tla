----------------------------- MODULE MCUploader -----------------------------
(* Small instances of Uploader for TLC.                                     *)
EXTENDS Uploader

\* the daemon of this tree writes I/O traces only
IoFiles == [f \in Files |-> "uio"]

\* files of all kinds; the last one of each directory stays open
MixedFiles ==
  <<"uio", "ufls", "umd", "other", "umd", "um", "uio", "ufls", "um", "umd">>

\* files are written in different seconds
Apart == [f \in Files |-> f]

=============================================================================
