------------------------------ MODULE TraceLog ------------------------------
(***************************************************************************)
(* The trace ring with the records it carries.  Every action is the one of *)
(* TraceRing with its effect on the records added: which buffer a record   *)
(* lands in, what the daemon takes out, what reaches the log file.         *)
(* Records are numbered in the order in which they are copied.             *)
(***************************************************************************)
EXTENDS TraceRing, SequencesExt

CONSTANT MaxRecords   \* bound: no call starts after this many records

VARIABLES
  added,   \* how many records androtrace_add_* has copied
  data,    \* the records in each buffer: number, and offset of the end
  taken,   \* what the daemon has read and not yet written to the log file
  log,     \* the chunks written to the log file
  refused, \* for each call, the buffers it found full or sealed itself; all, once the
           \* ring is released under it (history)
  dropped  \* the value of added at the last release (history)

recordVars == <<added, data, taken, log, refused, dropped>>
logVars    == <<vars, recordVars>>

Numbers(records) == [i \in DOMAIN records |-> records[i].number]

\* copy_to_user(user_buf, io_buf_head->data, IO_BUF_SIZE): what lies past the end
\* of the buffer does not reach the daemon
CopyToUser(records) ==
  LET whole == {k \in DOMAIN records : records[k].end <= BufSize} IN
  Numbers(SubSeq(records, 1, Cardinality(whole)))

LogInit ==
  /\ Init
  /\ added = 0
  /\ data = [b \in Bufs |-> <<>>]
  /\ taken = <<>>
  /\ log = <<>>
  /\ refused = [p \in Producers |-> {}]
  /\ dropped = 0

LogAdd(p) ==
  /\ added < MaxRecords
  /\ AddEvent(p)
  /\ refused' = [refused EXCEPT ![p] = {}]
  /\ UNCHANGED <<added, data, taken, log, dropped>>

LogRefuse(p) ==
  /\ SkipFull(p) \/ MarkFull(p)
  /\ refused' = [refused EXCEPT ![p] = @ \cup {io_buf_hand}]
  /\ UNCHANGED <<added, data, taken, log, dropped>>

LogCopy(p) ==
  /\ CopyRecord(p)
  /\ added' = added + 1
  /\ data' = [data EXCEPT ![io_buf_hand] =
                Append(@, [number |-> added', end |-> offset'[io_buf_hand]])]
  /\ UNCHANGED <<taken, log, refused, dropped>>

LogStep(p) ==
  /\ TestFull(p) \/ TestRoom(p) \/ WakeUp(p) \/ NextBuffer(p) \/ GiveUp(p) \/ TestLeft(p) \/ Oops(p)
  /\ UNCHANGED recordVars

LogOpen ==
  /\ Open
  /\ data' = [b \in Bufs |-> <<>>]
  /\ UNCHANGED <<added, taken, log, refused, dropped>>

LogRead ==
  /\ Read
  /\ taken' = CopyToUser(data[io_buf_head])
  /\ data' = [data EXCEPT ![io_buf_head] = <<>>]
  /\ UNCHANGED <<added, log, refused, dropped>>

\* slip: the branch that starts a new file does not write to it
LogWriteLost ==
  /\ Write
  /\ taken' = <<>>
  /\ UNCHANGED <<added, data, log, refused, dropped>>

\* io_file_write: nothing is written when read returned 0 bytes
LogWrite ==
  /\ Write
  /\ log' = IF taken = <<>> THEN log ELSE Append(log, taken)
  /\ taken' = <<>>
  /\ UNCHANGED <<added, data, refused, dropped>>

\* the ring is freed with what it holds, and the daemon dies with what it has read
LogRelease ==
  /\ Release
  /\ data' = [b \in Bufs |-> <<>>]
  /\ taken' = <<>>
  /\ dropped' = added
  /\ refused' = [p \in Producers |-> Bufs]
  /\ UNCHANGED <<added, log>>

LogDaemon == (Poll \/ Enqueue \/ Sleep \/ Interrupt) /\ UNCHANGED recordVars

LogNext ==
  \/ \E p \in Producers : LogAdd(p) \/ LogRefuse(p) \/ LogCopy(p) \/ LogStep(p)
  \/ LogOpen \/ LogRead \/ LogWrite \/ LogRelease \/ LogDaemon

LogSpec == LogInit /\ [][LogNext]_logVars

-----------------------------------------------------------------------------
(* Correctness                                                              *)

\* The ring keeps the promise of ChunkLog: the unsealed hand buffer is the open chunk,
\* the full buffers are the sealed ones.
Chunks == INSTANCE ChunkLog WITH
  Pending  <- BufCount,
  accepted <- added,
  open     <- IF io_buf_hand = NULL \/ full[io_buf_hand] THEN <<>> ELSE Numbers(data[io_buf_hand]),
  sealed   <- {Numbers(data[b]) : b \in {c \in Bufs : full[c] /\ data[c] # <<>>}},
  taken    <- taken,
  stored   <- log

ImplementsChunkLog == Chunks!Spec

\* A stored chunk has at most BufCount - 1 later chunks in front of it: the reader may
\* start a turn of the ring behind buffers that were filled before, never more.
Overtakes(i, j) == Last(log[j]) < log[i][1]

BoundedOvertaking ==
  \A j \in DOMAIN log : Cardinality({i \in 1..(j - 1) : Overtakes(i, j)}) < BufCount

\* "buffer full!" is said, and the record dropped, only by a call that has seen every
\* buffer of the ring full (or has filled it up itself), or under which the ring was freed.
DropsOnlyWhenFull ==
  [][\A p \in Producers : GiveUp(p) => refused[p] = Bufs]_logVars

\* "All of collected traces are held in memory buffer temporally until user daemon moves
\* it to storage": an accepted record is in the ring, with the daemon, or stored, unless
\* the daemon has died since.
KeptUntilStored ==
  \A n \in (dropped + 1)..added :
    \/ \E b \in Bufs : \E i \in DOMAIN data[b] : data[b][i].number = n
    \/ \E i \in DOMAIN taken : taken[i] = n
    \/ \E i \in DOMAIN log : \E j \in DOMAIN log[i] : log[i][j] = n

=============================================================================
