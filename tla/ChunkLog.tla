------------------------------ MODULE ChunkLog ------------------------------
(***************************************************************************)
(* What the trace ring promises, without its mechanism.  Records are       *)
(* numbered as they are accepted and gathered into chunks; a chunk is      *)
(* sealed, taken by the daemon and stored as a whole.  Nothing is          *)
(* duplicated, split or reordered inside a chunk, at most Pending chunks   *)
(* wait, and nothing is lost unless the device is released.  Chunks may    *)
(* overtake one another.                                                   *)
(***************************************************************************)
EXTENDS Naturals, Sequences, FiniteSets

CONSTANT Pending   \* how many sealed chunks can wait

VARIABLES
  accepted,  \* how many records were accepted
  open,      \* the chunk being filled
  sealed,    \* the chunks waiting for the daemon
  taken,     \* the chunk the daemon holds
  stored     \* the chunks in the log files

vars == <<accepted, open, sealed, taken, stored>>

Init == accepted = 0 /\ open = <<>> /\ sealed = {} /\ taken = <<>> /\ stored = <<>>

Accept ==
  /\ Cardinality(sealed) < Pending
  /\ accepted' = accepted + 1
  /\ open' = Append(open, accepted')
  /\ UNCHANGED <<sealed, taken, stored>>

Seal ==
  /\ open # <<>>
  /\ sealed' = sealed \cup {open}
  /\ open' = <<>>
  /\ UNCHANGED <<accepted, taken, stored>>

Take ==
  /\ taken = <<>>
  /\ \E chunk \in sealed : sealed' = sealed \ {chunk} /\ taken' = chunk
  /\ UNCHANGED <<accepted, open, stored>>

Store ==
  /\ taken # <<>>
  /\ stored' = Append(stored, taken)
  /\ taken' = <<>>
  /\ UNCHANGED <<accepted, open, sealed>>

\* the device is released: what was not stored is gone
Lose == open' = <<>> /\ sealed' = {} /\ taken' = <<>> /\ UNCHANGED <<accepted, stored>>

Next == Accept \/ Seal \/ Take \/ Store \/ Lose

Spec == Init /\ [][Next]_vars

=============================================================================
