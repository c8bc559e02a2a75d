---------------------------- MODULE AtomicStore ----------------------------
(***************************************************************************)
(* What a journal promises to a file system: the blocks change by          *)
(* transactions, and a crash takes away whole transactions, the last ones, *)
(* and none that is durable.  The content of a block is the number of the  *)
(* transaction that changed it last.                                       *)
(***************************************************************************)
EXTENDS Naturals, FiniteSets, FiniteSetsExt

CONSTANTS
  Blocks,    \* the metadata blocks of the file system
  MaxTrans   \* bound: transactions

VARIABLES
  wrote,     \* the blocks that each transaction has changed
  acked,     \* the last transaction that is known to be durable
  content    \* what the file system reads

Trans == 1..MaxTrans

\* the content after the transactions up to k
After(w, k) == [b \in Blocks |-> Max({0} \cup {t \in 1..k : b \in w[t]})]

Started == {0} \cup {t \in Trans : wrote[t] # {}}

Init ==
  /\ wrote = [t \in Trans |-> {}]
  /\ acked = 0
  /\ content = After(wrote, 0)

\* the last transaction, or one more, changes a block
Modify ==
  \E t \in Trans, b \in Blocks :
    /\ t >= Max(Started) /\ t > acked
    /\ wrote' = [wrote EXCEPT ![t] = @ \cup {b}]
    /\ content' = [content EXCEPT ![b] = t]
    /\ UNCHANGED acked

\* the next transaction is durable
Commit ==
  \E t \in Trans :
    /\ t > acked /\ wrote[t] # {} /\ \A s \in acked + 1..t - 1 : wrote[s] = {}
    /\ acked' = t
    /\ UNCHANGED <<wrote, content>>

\* what is left then is durable
Crash ==
  \E k \in acked..MaxTrans :
    /\ wrote' = [t \in Trans |-> IF t <= k THEN wrote[t] ELSE {}]
    /\ content' = After(wrote, k)
    /\ acked' = Max(Started')

Spec == Init /\ [][Modify \/ Commit \/ Crash]_<<wrote, acked, content>>

=============================================================================
