----------------------------- MODULE TraceRing -----------------------------
(***************************************************************************)
(* The trace ring of the AndroTrace kernel module: the BufCount buffers    *)
(* (struct cbuf) that the I/O paths of the kernel fill and the daemon      *)
(* empties through /dev/androtrace_device.                                 *)
(*                                                                         *)
(* A producer is one concurrent caller of androtrace_add_io (the issue     *)
(* path runs under its queue's lock, the completion path under none) or of *)
(* androtrace_add_suspend.  Every section between raw_spin_lock_irq and    *)
(* raw_spin_unlock_irq is one step; every test made outside the lock is a  *)
(* step of its own that reads io_buf_hand afresh, as the C does.           *)
(*                                                                         *)
(* Abstracted: the bytes of a record.  An event is its kind and the number *)
(* of bytes it needs, with the 8-bit arithmetic the code does on it.       *)
(***************************************************************************)
EXTENDS Naturals

CONSTANTS
  Producers,   \* concurrent callers of androtrace_add_*
  BufCount,    \* IO_BUF_COUNT, 3 in the code
  BufSize,     \* IO_BUF_SIZE, 2^18 in the code
  Kinds,       \* which callers there are: "io" and "suspend"
  RawSizes,    \* bytes of uio + uio_ws + names of the I/O events, before the u8
  MaxOpens,    \* bound: opens of the device (1 = the daemon never dies)
  OffsetCap,   \* bound: no call starts once a buffer was filled past this
  NULL

ASSUME CountAssumption  == BufCount \in Nat \ {0}
ASSUME SizeAssumption   == BufSize \in Nat /\ OffsetCap \in Nat /\ MaxOpens \in Nat
ASSUME EventAssumption  == Kinds \subseteq {"io", "suspend"} /\ RawSizes \subseteq 15..292
ASSUME NullAssumption   == NULL \notin 1..BufCount

VARIABLES
  io_buf_hand,  \* the buffer the producers fill
  io_buf_head,  \* the buffer the daemon reads next
  full,         \* cbuf.full
  offset,       \* cbuf.offset
  pc,           \* where each producer is
  event,        \* the event of each producer's call
  idx,          \* the loop index of its __get_io_buffer_left
  copied,       \* whether its record is in the ring
  daemon,       \* where the daemon is
  opens         \* how many times the device was opened

ringVars     == <<io_buf_hand, io_buf_head, full, offset>>
callVars     == <<event, idx, copied>>
producerVars == <<pc, callVars>>
daemonVars   == <<daemon, opens>>
vars         == <<ringVars, producerVars, daemonVars>>

Bufs == 1..BufCount

\* cbuf.next: the last buffer's next is the first
NextBuf(b) == IF b = BufCount THEN 1 ELSE b + 1

-----------------------------------------------------------------------------
(* What the two callers ask of the ring.  sizeof(struct at_header) = 10.    *)

u8(n) == n % 256

Events ==
  {e \in [kind : Kinds, raw : RawSizes \cup {1}] : e.kind = "io" <=> e.raw # 1}

\* what the memcpys of the locked section add to offset
Bytes(e) == 10 + e.raw

\* the unsigned char the callers pass: log_size, or at_header + 1
LogSize(e) == IF e.kind = "io" THEN u8(e.raw) ELSE 11

\* slip: the room for the header is forgotten
NeedNoHeader(e) == LogSize(e)

\* what __get_io_buffer_left wants to find free: size += 20
Need(e) == u8(LogSize(e) + 20)

\* what __check_io_buffer_left wants to find free after the copy
Reserve(e) == IF e.kind = "io" THEN u8(LogSize(e) + 24) ELSE LogSize(e)

-----------------------------------------------------------------------------
(* Producers                                                                *)

Goto(p, from, to) == pc[p] = from /\ pc' = [pc EXCEPT ![p] = to]

\* the call returns
Return(p) ==
  /\ event' = [event EXCEPT ![p] = NULL]
  /\ idx' = [idx EXCEPT ![p] = 0]
  /\ copied' = [copied EXCEPT ![p] = FALSE]

\* the steps of a call that use *io_buf_hand
Deref == {"test_full", "test_room", "skip", "mark", "next", "copy", "test_left"}

\* androtrace_add_io / _suspend up to __get_io_buffer_left: returns at once
\* when no ring is allocated, otherwise brings one event
AddEvent(p) ==
  /\ io_buf_hand # NULL
  /\ \A b \in Bufs : offset[b] <= OffsetCap
  /\ Goto(p, "idle", "test_full")
  /\ \E e \in Events : event' = [event EXCEPT ![p] = e]
  /\ UNCHANGED <<ringVars, idx, copied, daemonVars>>

\* slip: the full flag is not looked at
TestFullIgnored(p) ==
  /\ io_buf_hand # NULL
  /\ idx[p] < BufCount
  /\ Goto(p, "test_full", "test_room")
  /\ UNCHANGED <<ringVars, callVars, daemonVars>>

\* slip: the producer waits for the daemon on the first full buffer
TestFullWaits(p) ==
  /\ io_buf_hand # NULL
  /\ ~full[io_buf_hand]
  /\ Goto(p, "test_full", "test_room")
  /\ UNCHANGED <<ringVars, callVars, daemonVars>>

\* for (idx = 0; idx < IO_BUF_COUNT; ++idx) if (io_buf_hand->full) ...
TestFull(p) ==
  /\ io_buf_hand # NULL
  /\ idx[p] < BufCount
  /\ Goto(p, "test_full", IF full[io_buf_hand] THEN "skip" ELSE "test_room")
  /\ UNCHANGED <<ringVars, callVars, daemonVars>>

\* else if (io_buf_hand->offset + size > IO_BUF_SIZE) ... else return true
TestRoom(p) ==
  /\ io_buf_hand # NULL
  /\ Goto(p, "test_room",
          IF offset[io_buf_hand] + Need(event[p]) > BufSize THEN "mark" ELSE "copy")
  /\ UNCHANGED <<ringVars, callVars, daemonVars>>

\* the buffer was full: io_buf_hand = io_buf_hand->next under the lock
SkipFull(p) ==
  /\ io_buf_hand # NULL
  /\ Goto(p, "skip", "test_full")
  /\ io_buf_hand' = NextBuf(io_buf_hand)
  /\ idx' = [idx EXCEPT ![p] = @ + 1]
  /\ UNCHANGED <<io_buf_head, full, offset, event, copied, daemonVars>>

\* slip: the buffer is left without its flag
MarkForgotten(p) ==
  /\ io_buf_hand # NULL
  /\ Goto(p, "mark", "wake")
  /\ UNCHANGED <<ringVars, callVars, daemonVars>>

\* io_buf_hand->full = true under the lock
MarkFull(p) ==
  /\ io_buf_hand # NULL
  /\ Goto(p, "mark", "wake")
  /\ full' = [full EXCEPT ![io_buf_hand] = TRUE]
  /\ UNCHANGED <<io_buf_hand, io_buf_head, offset, callVars, daemonVars>>

\* wake_up_interruptible(&wait_queue): the daemon re-tests its condition
WakeUp(p) ==
  /\ Goto(p, "wake", "next")
  /\ daemon' = IF daemon \in {"queued", "asleep"} THEN "poll" ELSE daemon
  /\ UNCHANGED <<ringVars, callVars, opens>>

\* io_buf_hand = io_buf_hand->next, then the next turn of the loop or the return
\* of __check_io_buffer_left
NextBuffer(p) ==
  /\ io_buf_hand # NULL
  /\ io_buf_hand' = NextBuf(io_buf_hand)
  /\ \/ copied[p] /\ Goto(p, "next", "idle") /\ Return(p)
     \/ /\ ~copied[p] /\ Goto(p, "next", "test_full")
        /\ idx' = [idx EXCEPT ![p] = @ + 1]
        /\ UNCHANGED <<event, copied>>
  /\ UNCHANGED <<io_buf_head, full, offset, daemonVars>>

\* slip: the loop ends one buffer early
GiveUpEarly(p) ==
  /\ idx[p] >= BufCount - 1
  /\ Goto(p, "test_full", "idle")
  /\ Return(p)
  /\ UNCHANGED <<ringVars, daemonVars>>

\* "buffer full!": return false, the record is dropped
GiveUp(p) ==
  /\ idx[p] = BufCount
  /\ Goto(p, "test_full", "idle")
  /\ Return(p)
  /\ UNCHANGED <<ringVars, daemonVars>>

\* the record goes to wherever io_buf_hand points by now
CopyRecord(p) ==
  /\ io_buf_hand # NULL
  /\ Goto(p, "copy", "test_left")
  /\ offset' = [offset EXCEPT ![io_buf_hand] = @ + Bytes(event[p])]
  /\ copied' = [copied EXCEPT ![p] = TRUE]
  /\ UNCHANGED <<io_buf_hand, io_buf_head, full, event, idx, daemonVars>>

\* __check_io_buffer_left: seal the buffer early when little room is left
TestLeft(p) ==
  /\ io_buf_hand # NULL
  /\ pc[p] = "test_left"
  /\ IF offset[io_buf_hand] + Reserve(event[p]) > BufSize
       THEN Goto(p, "test_left", "mark") /\ UNCHANGED callVars
       ELSE Goto(p, "test_left", "idle") /\ Return(p)
  /\ UNCHANGED <<ringVars, daemonVars>>

\* the ring was released under the producer's feet: a NULL dereference on the I/O
\* path, and the kernel stops
Oops(p) ==
  /\ io_buf_hand = NULL
  /\ pc[p] \in Deref
  /\ ~(pc[p] = "test_full" /\ idx[p] = BufCount)
  /\ pc' = [q \in Producers |-> "dead"]
  /\ daemon' = "dead"
  /\ UNCHANGED <<ringVars, callVars, opens>>

Produce(p) ==
  \/ TestFull(p) \/ TestRoom(p) \/ SkipFull(p) \/ MarkFull(p) \/ WakeUp(p)
  \/ NextBuffer(p) \/ GiveUp(p) \/ CopyRecord(p) \/ TestLeft(p) \/ Oops(p)

-----------------------------------------------------------------------------
(* The device and the daemon's loop: poll, read, write to the log file      *)

\* slip: the buffers are allocated without being cleared
OpenUncleared ==
  /\ daemon = "closed"
  /\ opens < MaxOpens
  /\ opens' = opens + 1
  /\ daemon' = "poll"
  /\ io_buf_hand' = 1
  /\ io_buf_head' = 1
  /\ UNCHANGED <<full, offset, producerVars>>

\* androtrace_open: a fresh ring, head and hand at its first buffer
Open ==
  /\ daemon = "closed"
  /\ opens < MaxOpens
  /\ opens' = opens + 1
  /\ daemon' = "poll"
  /\ full' = [b \in Bufs |-> FALSE]
  /\ offset' = [b \in Bufs |-> 0]
  /\ io_buf_hand' = 1
  /\ io_buf_head' = 1
  /\ UNCHANGED <<producerVars>>

\* androtrace_poll: return IO_LOG at once when the head buffer is full
Poll ==
  /\ daemon = "poll"
  /\ daemon' = IF full[io_buf_head] THEN "read" ELSE "enqueue"
  /\ UNCHANGED <<ringVars, producerVars, opens>>

\* wait_event_interruptible puts the daemon on wait_queue ...
Enqueue ==
  /\ daemon = "enqueue"
  /\ daemon' = "queued"
  /\ UNCHANGED <<ringVars, producerVars, opens>>

\* slip: the daemon goes to sleep without testing again
SleepUntested ==
  /\ daemon = "queued"
  /\ daemon' = "asleep"
  /\ UNCHANGED <<ringVars, producerVars, opens>>

\* ... and tests the condition again before it sleeps
Sleep ==
  /\ daemon = "queued"
  /\ daemon' = IF full[io_buf_head] THEN "read" ELSE "asleep"
  /\ UNCHANGED <<ringVars, producerVars, opens>>

\* slip: the daemon reads after an interrupted poll too
InterruptReads ==
  /\ daemon = "asleep"
  /\ daemon' = "read"
  /\ UNCHANGED <<ringVars, producerVars, opens>>

\* -ERESTARTSYS: a signal ends the wait and the daemon's loop polls again
Interrupt ==
  /\ daemon = "asleep"
  /\ daemon' = "poll"
  /\ UNCHANGED <<ringVars, producerVars, opens>>

\* slip: the head stays where it is
ReadStays ==
  /\ daemon = "read"
  /\ daemon' = "write"
  /\ offset' = [offset EXCEPT ![io_buf_head] = 0]
  /\ full' = [full EXCEPT ![io_buf_head] = FALSE]
  /\ UNCHANGED <<io_buf_hand, io_buf_head, producerVars, opens>>

\* slip: the head goes back to the first buffer
ReadRewinds ==
  /\ daemon = "read"
  /\ daemon' = "write"
  /\ offset' = [offset EXCEPT ![io_buf_head] = 0]
  /\ full' = [full EXCEPT ![io_buf_head] = FALSE]
  /\ io_buf_head' = IF full[1] /\ io_buf_head # 1 THEN 1 ELSE NextBuf(io_buf_head)
  /\ UNCHANGED <<io_buf_hand, producerVars, opens>>

\* androtrace_read(IO_LOG): take the head buffer, whatever its full flag says
Read ==
  /\ daemon = "read"
  /\ daemon' = "write"
  /\ offset' = [offset EXCEPT ![io_buf_head] = 0]
  /\ full' = [full EXCEPT ![io_buf_head] = FALSE]
  /\ io_buf_head' = NextBuf(io_buf_head)
  /\ UNCHANGED <<io_buf_hand, producerVars, opens>>

\* the daemon stores what it read and polls again
Write ==
  /\ daemon = "write"
  /\ daemon' = "poll"
  /\ UNCHANGED <<ringVars, producerVars, opens>>

\* the daemon dies: its descriptor is closed and androtrace_release frees the ring
Release ==
  /\ daemon \notin {"closed", "dead"}
  /\ opens < MaxOpens
  /\ daemon' = "closed"
  /\ io_buf_hand' = NULL
  /\ io_buf_head' = NULL
  /\ UNCHANGED <<full, offset, producerVars, opens>>

DaemonLoop == Poll \/ Enqueue \/ Sleep \/ Read \/ Write

-----------------------------------------------------------------------------
Init ==
  /\ io_buf_hand = NULL
  /\ io_buf_head = NULL
  /\ full = [b \in Bufs |-> FALSE]
  /\ offset = [b \in Bufs |-> 0]
  /\ pc = [p \in Producers |-> "idle"]
  /\ event = [p \in Producers |-> NULL]
  /\ idx = [p \in Producers |-> 0]
  /\ copied = [p \in Producers |-> FALSE]
  /\ daemon = "closed"
  /\ opens = 0

Next ==
  \/ \E p \in Producers : AddEvent(p) \/ Produce(p)
  \/ Open \/ DaemonLoop \/ Interrupt \/ Release

\* Kernel code that has entered the ring runs on (it never sleeps, and the loop
\* is bounded); the daemon is scheduled.  No event has to come, no signal and
\* no death of the daemon has to happen.
Fairness ==
  /\ \A p \in Producers : WF_vars(Produce(p))
  /\ WF_vars(DaemonLoop)

Spec == Init /\ [][Next]_vars /\ Fairness

-----------------------------------------------------------------------------
(* Correctness                                                              *)

Pcs == Deref \cup {"idle", "wake", "dead"}

RingTypeOK ==
  /\ io_buf_hand \in Bufs \cup {NULL}
  /\ io_buf_head \in Bufs \cup {NULL}
  /\ full \in [Bufs -> BOOLEAN]
  /\ offset \in [Bufs -> Nat]

CallTypeOK ==
  /\ pc \in [Producers -> Pcs]
  /\ event \in [Producers -> Events \cup {NULL}]
  /\ idx \in [Producers -> Nat]
  /\ copied \in [Producers -> BOOLEAN]
  /\ \A p \in Producers : pc[p] \notin {"idle", "dead"} => event[p] \in Events

DaemonTypeOK ==
  /\ daemon \in {"closed", "poll", "enqueue", "queued", "asleep", "read", "write", "dead"}
  /\ daemon \notin {"closed", "dead"} => io_buf_head \in Bufs /\ io_buf_hand \in Bufs
  /\ opens \in Nat

\* Type invariant: in particular an open device has a ring, and a call that has
\* begun has an event until it returns.
TypeOK == RingTypeOK /\ CallTypeOK /\ DaemonTypeOK

\* A record never runs past the end of its buffer: the room that
\* __get_io_buffer_left found unlocked is still there when the locked memcpys
\* of androtrace_add_io run.
RecordsFit == \A b \in Bufs : offset[b] <= BufSize

\* No wake-up is lost: when the daemon sleeps in wait_event_interruptible with
\* its head buffer full, the producer that filled it has yet to call
\* wake_up_interruptible.
NoLostWakeUp ==
  daemon = "asleep" /\ full[io_buf_head] => \E p \in Producers : pc[p] = "wake"

\* The daemon takes only sealed buffers: androtrace_read does not look at the
\* full flag, it relies on androtrace_poll having seen it and on nobody else
\* clearing it.
ReadsSealed == daemon = "read" => full[io_buf_head]

\* No record is left behind in a buffer the producers have moved on from: the
\* reader only ever waits for full buffers, so a part-filled buffer that is not
\* io_buf_hand's would hold its records back for a whole turn of the ring.
NothingStranded ==
  io_buf_hand # NULL =>
    \A b \in Bufs \ {io_buf_hand} : ~full[b] => offset[b] = 0

\* A producer writes into a buffer that is the daemon's to read (its full flag is
\* up) never, and never moves the flag of one it has not filled.
NoWriteIntoSealed ==
  [][\A b \in Bufs : full[b] /\ full'[b] => offset'[b] = offset[b]]_vars

\* Every call returns to the I/O path that made it, whatever the other producers
\* and the daemon do to io_buf_hand meanwhile.
CallReturns == \A p \in Producers : pc[p] # "idle" ~> pc[p] = "idle"

\* As long as records keep arriving every full buffer is emptied, the head's or
\* not: the ring never wedges with the reader waiting on a buffer the producers
\* do not come back to.
FullDelivered ==
  []<>(\E p \in Producers : pc[p] = "copy") =>
    \A b \in Bufs : full[b] ~> ~full[b]

=============================================================================
