----------------------------- MODULE BlockQueue -----------------------------
(***************************************************************************)
(* The request queue of block/blk-core.c, from submit_bio to the end of a  *)
(* request, with the two calls of androtrace_add_io in it: processes get   *)
(* requests from a limited list and sleep for them, gather them on their   *)
(* plugs, merge bios into them; the driver (mmcqd) starts them, puts them  *)
(* back, ends them part by part; blk_cleanup_queue drains the queue.       *)
(* A step under queue_lock is one action.                                  *)
(*                                                                         *)
(* A request is named after the bio it was allocated for.  Which bios are  *)
(* adjacent is left open: a merge may happen wherever the code tries one.  *)
(* One direction of I/O (each has its counters and its wait queue), one    *)
(* io_context for each process.  Left out: flush requests (their bios have *)
(* no data and leave no record), bypass mode, ELV_MQUEUE_NO, and failing   *)
(* allocations (GFP_NOIO waits).  The elevator is external.                *)
(***************************************************************************)
EXTENDS Naturals, FiniteSets, FiniteSetsExt, SequencesExt

CONSTANTS
  Procs,         \* who submits bios
  QueueSizes,    \* the values of q->nr_requests (set through sysfs)
  NrBatching,    \* q->nr_batching
  PlugLimit,     \* BLK_MAX_REQUEST_COUNT
  MaxBios,       \* bound: bios
  MaxRequeues,   \* bound: how often the driver defers a request or puts it back
  NULL

ASSUME LimitAssumption == QueueSizes \cup {NrBatching, PlugLimit} \subseteq Nat \ {0} /\ {MaxBios, MaxRequeues} \subseteq Nat
ASSUME ProcAssumption  == IsFiniteSet(Procs) /\ NULL \notin Procs

VARIABLES
  submitter,   \* the process of each bio
  ended,       \* the bios that have ended, well or not
  issued,      \* the bios that an issue record covers (history)
  reported,    \* the bios that a completion record covers (history)
  place,       \* where each request is
  bios,        \* the bios of each request
  started,     \* the requests with REQ_STARTED
  issues,      \* the issue records of each request since it was last put back (history)
  putBacks,    \* how often the driver has put a request back (a bound's counter)
  dispatch,    \* q->queue_head
  nr_requests, \* q->nr_requests
  count,       \* rl->count
  full,        \* blk_rl_full
  waiting,     \* rl->wait
  batch,       \* ioc->nr_batch_requests
  pc, bio,     \* where each process is in blk_queue_bio, and with which bio
  plugged,     \* the processes with a plug
  cleanup      \* blk_cleanup_queue: "alive", "dying", "dead"

bioVars     == <<submitter, ended, issued, reported>>
requestVars == <<place, bios, started, issues, putBacks, dispatch>>
listVars    == <<nr_requests, count, full, waiting>>
procVars    == <<pc, bio, plugged, batch>>
vars        == <<bioVars, requestVars, listVars, procVars, cleanup>>

Bios     == 1..MaxBios
Requests == Bios

In(where) == {r \in Requests : place[r] = where}
PlugOf(p) == {r \in In("plug") : submitter[r] = p}

Dying == cleanup # "alive"

Init ==
  /\ submitter = [b \in Bios |-> NULL] /\ ended = {}
  /\ issued = {} /\ reported = {}
  /\ place = [r \in Requests |-> "free"] /\ bios = [r \in Requests |-> {}]
  /\ started = {} /\ dispatch = <<>>
  /\ issues = [r \in Requests |-> 0] /\ putBacks = 0
  /\ nr_requests \in QueueSizes
  /\ count = 0 /\ full = FALSE /\ waiting = <<>>
  /\ batch = [p \in Procs |-> 0]
  /\ pc = [p \in Procs |-> "idle"] /\ bio = [p \in Procs |-> NULL] /\ plugged = {}
  /\ cleanup = "alive"

-----------------------------------------------------------------------------
(* The request list                                                         *)

\* wake_up, n times: each takes the first exclusive waiter off the queue
WakeUp(n) == waiting' = SubSeq(waiting, Min({n, Len(waiting)}) + 1, Len(waiting))

\* freed_request, for n requests one after the other
FreedRequests(n) ==
  LET below == Cardinality({k \in 1..n : count - k + 1 <= nr_requests}) IN
  /\ count' = count - n
  /\ full' = (full /\ below = 0)
  /\ WakeUp(below)
  /\ UNCHANGED nr_requests

\* ioc_batching; recent: BLK_BATCH_TIME has not passed
Batching(p, recent) == batch[p] = NrBatching \/ (batch[p] > 0 /\ recent)

-----------------------------------------------------------------------------
(* Submitting                                                               *)

Submitted == {b \in Bios : submitter[b] # NULL}

NextBio == Cardinality(Submitted) + 1

\* blk_start_plug
StartPlug(p) ==
  /\ pc[p] = "idle" /\ p \notin plugged
  /\ plugged' = plugged \cup {p}
  /\ UNCHANGED <<bioVars, requestVars, listVars, pc, bio, batch, cleanup>>

\* submit_bio and attempt_plug_merge
Submit(p) ==
  /\ pc[p] = "idle" /\ NextBio <= MaxBios
  /\ submitter' = [submitter EXCEPT ![NextBio] = p]
  /\ \/ \E r \in PlugOf(p) :
          /\ bios' = [bios EXCEPT ![r] = @ \cup {NextBio}]
          /\ UNCHANGED <<pc, bio>>
     \/ /\ pc' = [pc EXCEPT ![p] = "queue"] /\ bio' = [bio EXCEPT ![p] = NextBio]
        /\ UNCHANGED bios
  /\ UNCHANGED <<ended, issued, reported, place, started, issues, putBacks, dispatch, listVars, plugged, batch, cleanup>>

Done(p) == pc' = [pc EXCEPT ![p] = "idle"] /\ bio' = [bio EXCEPT ![p] = NULL]

\* slip: the bio may go into a request that the driver has seen
MergeableStarted == In("elevator") \cup In("dispatch")

\* the requests elv_merge finds
Mergeable == In("elevator")

\* the bio goes into a queued request; a dying queue has QUEUE_FLAG_NOMERGES
MergeBio(p) ==
  /\ pc[p] = "queue" /\ ~Dying
  /\ \E r \in Mergeable : bios' = [bios EXCEPT ![r] = @ \cup {bio[p]}]
  /\ Done(p)
  /\ UNCHANGED <<bioVars, place, started, issues, putBacks, dispatch, listVars, plugged, batch, cleanup>>

\* attempt_back_merge, attempt_front_merge: with the bio two requests become one
MergeRequests(p) ==
  /\ pc[p] = "queue" /\ ~Dying
  /\ \E r, s \in In("elevator") :
       /\ r # s
       /\ bios' = [bios EXCEPT ![r] = @ \cup {bio[p]} \cup bios[s], ![s] = {}]
       /\ place' = [place EXCEPT ![s] = "free"]
  /\ FreedRequests(1)
  /\ Done(p)
  /\ UNCHANGED <<bioVars, started, issues, putBacks, dispatch, plugged, batch, cleanup>>

AtQueue(p) == pc[p] \in {"queue", "retry"}

\* get_request fails: bio_endio(bio, -ENODEV)
QueueDead(p) ==
  /\ AtQueue(p) /\ Dying
  /\ ended' = ended \cup {bio[p]}
  /\ Done(p)
  /\ UNCHANGED <<submitter, issued, reported, requestVars, listVars, plugged, batch, cleanup>>

WillFill == count + 1 >= nr_requests  \* the list will be full after this request

\* up to 50% over the limit
Limit == (3 * nr_requests) \div 2

\* __get_request
GetRequest(p) ==
  /\ AtQueue(p) /\ ~Dying
  /\ \E recent, late \in BOOLEAN :
       LET first  == WillFill /\ ~full
           mine   == IF first /\ ~Batching(p, recent) THEN NrBatching ELSE batch[p]
           batches == mine = NrBatching \/ (mine > 0 /\ late) IN
       /\ WillFill /\ full => Batching(p, recent)
       /\ count < Limit
       /\ full' = (full \/ WillFill)
       /\ batch' = [batch EXCEPT ![p] = IF batches THEN mine - 1 ELSE mine]
  /\ count' = count + 1
  /\ pc' = [pc EXCEPT ![p] = "got"]
  /\ UNCHANGED <<bioVars, requestVars, nr_requests, waiting, bio, plugged, cleanup>>

\* __get_request returns NULL: prepare_to_wait_exclusive
Wait(p) ==
  /\ AtQueue(p) /\ ~Dying
  /\ \E recent \in BOOLEAN :
       \/ /\ WillFill /\ full /\ ~Batching(p, recent)
          /\ UNCHANGED <<full, batch>>
       \/ /\ ~(WillFill /\ full /\ ~Batching(p, recent)) /\ count >= Limit
          /\ full' = (full \/ WillFill)
          /\ batch' = [batch EXCEPT ![p] = IF WillFill /\ ~full /\ ~Batching(p, recent) THEN NrBatching ELSE @]
  /\ waiting' = Append(waiting, p)
  /\ pc' = [pc EXCEPT ![p] = "schedule"]
  /\ UNCHANGED <<bioVars, requestVars, nr_requests, count, bio, plugged, cleanup>>

\* woken, that is taken off rl->wait: ioc_set_batching, then try again
Woken(p) ==
  /\ pc[p] = "asleep" /\ \A i \in DOMAIN waiting : waiting[i] # p
  /\ pc' = [pc EXCEPT ![p] = "retry"]
  /\ \E recent \in BOOLEAN : batch' = [batch EXCEPT ![p] = IF Batching(p, recent) THEN @ ELSE NrBatching]
  /\ UNCHANGED <<bioVars, requestVars, listVars, bio, plugged, cleanup>>

-----------------------------------------------------------------------------
(* Plugs                                                                    *)

\* slip: a request ended in the flush is not given back
FreedNone(p) == 0

\* the requests that a flush of a dying queue ends
Freed(p) == Cardinality(PlugOf(p))

\* blk_flush_plug_list on a dying queue: blk_update_request, with its record, and -ENODEV
EndPlug(p) ==
  LET over == UNION {bios[r] : r \in PlugOf(p)} IN
  /\ ended' = ended \cup over
  /\ reported' = reported \cup over
  /\ place' = [r \in Requests |-> IF r \in PlugOf(p) THEN "free" ELSE place[r]]
  /\ bios' = [r \in Requests |-> IF r \in PlugOf(p) THEN {} ELSE bios[r]]
  /\ FreedRequests(Freed(p))

\* on any other: to the elevator, which may merge them (ELEVATOR_INSERT_SORT_MERGE)
SortMerge(p) ==
  \E merged \in SUBSET PlugOf(p) : \E into \in [merged -> In("elevator") \cup (PlugOf(p) \ merged)] :
    /\ place' = [r \in Requests |-> IF r \in merged THEN "free" ELSE IF r \in PlugOf(p) THEN "elevator" ELSE place[r]]
    /\ bios' = [r \in Requests |-> IF r \in merged THEN {}
                                   ELSE bios[r] \cup UNION {bios[s] : s \in {t \in merged : into[t] = r}}]
    /\ FreedRequests(Cardinality(merged))
    /\ UNCHANGED <<ended, reported>>

FlushPlug(p) == IF Dying THEN EndPlug(p) ELSE SortMerge(p)

Asleep(p) == pc' = [pc EXCEPT ![p] = "asleep"]

\* slip: io_schedule leaves the plug alone
ScheduleUnflushed(p) ==
  /\ pc[p] = "schedule"
  /\ Asleep(p)
  /\ UNCHANGED <<bioVars, requestVars, listVars, bio, plugged, batch, cleanup>>

\* io_schedule: the plug is flushed, then the process sleeps
Schedule(p) ==
  /\ pc[p] = "schedule"
  /\ FlushPlug(p)
  /\ Asleep(p)
  /\ UNCHANGED <<submitter, issued, started, issues, putBacks, dispatch, bio, plugged, batch, cleanup>>

\* the plug holds as many requests as it may: blk_flush_plug_list first
FlushFullPlug(p) ==
  /\ pc[p] = "got" /\ p \in plugged
  /\ Cardinality(PlugOf(p)) >= PlugLimit
  /\ FlushPlug(p)
  /\ UNCHANGED <<submitter, issued, started, issues, putBacks, dispatch, pc, bio, plugged, batch, cleanup>>

\* init_request_from_bio, and the request goes to the plug or to the elevator
Insert(p) ==
  /\ pc[p] = "got"
  /\ p \in plugged => Cardinality(PlugOf(p)) < PlugLimit
  /\ place' = [place EXCEPT ![bio[p]] = IF p \in plugged THEN "plug" ELSE "elevator"]
  /\ bios' = [bios EXCEPT ![bio[p]] = {bio[p]}]
  /\ Done(p)
  /\ UNCHANGED <<bioVars, started, issues, putBacks, dispatch, listVars, plugged, batch, cleanup>>

\* blk_finish_plug
FinishPlug(p) ==
  /\ pc[p] = "idle" /\ p \in plugged
  /\ FlushPlug(p)
  /\ plugged' = plugged \ {p}
  /\ UNCHANGED <<submitter, issued, started, issues, putBacks, dispatch, pc, bio, batch, cleanup>>

-----------------------------------------------------------------------------
(* The driver                                                               *)

\* the elevator puts a request at the end of the queue (external)
Dispatch ==
  /\ \E r \in In("elevator") :
       place' = [place EXCEPT ![r] = "dispatch"] /\ dispatch' = Append(dispatch, r)
  /\ UNCHANGED <<bioVars, bios, started, issues, putBacks, listVars, procVars, cleanup>>

\* the first part of blk_peek_request: what the driver has not seen yet is marked and traced
Issue(r) ==
  IF r \in started THEN UNCHANGED <<issued, issues, started>>
  ELSE /\ issued' = issued \cup bios[r]
       /\ issues' = [issues EXCEPT ![r] = @ + 1]
       /\ started' = started \cup {r}

\* blk_fetch_request: BLKPREP_OK or no prep_rq_fn
Fetch ==
  /\ cleanup # "dead" /\ dispatch # <<>>
  /\ Issue(Head(dispatch))
  /\ place' = [place EXCEPT ![Head(dispatch)] = "driver"] /\ dispatch' = Tail(dispatch)
  /\ UNCHANGED <<submitter, ended, reported, bios, putBacks, listVars, procVars, cleanup>>

\* BLKPREP_DEFER: the request stays at the front
Defer ==
  /\ cleanup # "dead" /\ dispatch # <<>> /\ Head(dispatch) \notin started
  /\ Issue(Head(dispatch))
  /\ UNCHANGED <<submitter, ended, reported, place, bios, putBacks, dispatch, listVars, procVars, cleanup>>

\* slip: the request keeps REQ_STARTED
RequeueStarted ==
  /\ putBacks < MaxRequeues
  /\ \E r \in In("driver") :
       /\ place' = [place EXCEPT ![r] = "dispatch"] /\ dispatch' = <<r>> \o dispatch
       /\ issues' = [issues EXCEPT ![r] = 0]
  /\ putBacks' = putBacks + 1
  /\ UNCHANGED <<bioVars, bios, started, listVars, procVars, cleanup>>

\* blk_requeue_request: elv_requeue_request takes REQ_STARTED away
Requeue ==
  /\ putBacks < MaxRequeues
  /\ \E r \in In("driver") :
       /\ place' = [place EXCEPT ![r] = "dispatch"] /\ dispatch' = <<r>> \o dispatch
       /\ started' = started \ {r}
       /\ issues' = [issues EXCEPT ![r] = 0]
  /\ putBacks' = putBacks + 1
  /\ UNCHANGED <<bioVars, bios, listVars, procVars, cleanup>>

\* blk_update_request: the record covers what is left of the request, then some bios end
Update(r, over) ==
  /\ reported' = reported \cup bios[r]
  /\ ended' = ended \cup over
  /\ bios' = [bios EXCEPT ![r] = @ \ over]

\* blk_end_request of some of the bytes, or of all: then it goes on to blk_finish_request
EndRequest ==
  /\ \E r \in In("driver") : \E over \in SUBSET bios[r] \ {{}} :
       /\ Update(r, over)
       /\ place' = [place EXCEPT ![r] = IF over = bios[r] THEN "ended" ELSE @]
  /\ UNCHANGED <<submitter, issued, started, issues, putBacks, dispatch, listVars, procVars, cleanup>>

\* blk_finish_request and __blk_put_request, in the lock
FinishRequest ==
  /\ \E r \in In("ended") : place' = [place EXCEPT ![r] = "free"]
  /\ FreedRequests(1)
  /\ UNCHANGED <<bioVars, bios, started, issues, putBacks, dispatch, procVars, cleanup>>

\* BLKPREP_KILL: the request is ended within blk_peek_request
Kill ==
  /\ cleanup # "dead" /\ dispatch # <<>> /\ putBacks < MaxRequeues
  /\ LET r == Head(dispatch) IN
       /\ Issue(r)
       /\ Update(r, bios[r])
       /\ place' = [place EXCEPT ![r] = "free"]
  /\ dispatch' = Tail(dispatch)
  /\ FreedRequests(1)
  /\ UNCHANGED <<submitter, putBacks, procVars, cleanup>>

-----------------------------------------------------------------------------
(* blk_cleanup_queue                                                        *)

Die ==
  /\ cleanup = "alive"
  /\ cleanup' = "dying"
  /\ UNCHANGED <<bioVars, requestVars, listVars, procVars>>

\* slip: the requests are counted in the queues and the driver, not on the list
DrainedQueues == In("elevator") = {} /\ dispatch = <<>> /\ In("driver") = {}

\* __blk_drain_queue finds nothing to drain: nr_rqs is the count of the one list
Drained == count = 0 /\ dispatch = <<>> /\ In("driver") = {}

\* slip: the waiters are left to the wake-ups of freed requests
DeadUnwoken ==
  /\ cleanup = "dying" /\ Drained
  /\ cleanup' = "dead"
  /\ UNCHANGED <<bioVars, requestVars, listVars, procVars>>

\* the last turn of __blk_drain_queue wakes all waiters, and the queue is DEAD
Dead ==
  /\ cleanup = "dying" /\ Drained
  /\ cleanup' = "dead"
  /\ waiting' = <<>>
  /\ UNCHANGED <<bioVars, requestVars, nr_requests, count, full, procVars>>

-----------------------------------------------------------------------------

\* what a process does once it has submitted a bio, and that it lets go of its plug
Call(p) ==
  \/ MergeBio(p) \/ MergeRequests(p) \/ QueueDead(p) \/ GetRequest(p) \/ Wait(p) \/ Schedule(p) \/ Woken(p)
  \/ FlushFullPlug(p) \/ Insert(p) \/ FinishPlug(p)

Next ==
  \/ \E p \in Procs : StartPlug(p) \/ Submit(p) \/ Call(p)
  \/ Dispatch \/ Fetch \/ Defer \/ Requeue \/ EndRequest \/ FinishRequest \/ Kill
  \/ Die \/ Dead

\* processes run on and finish their plugs, the driver takes and ends what is queued, and
\* blk_cleanup_queue loops; nobody has to submit, defer or put back, and no queue has to die
Fairness ==
  /\ \A p \in Procs : WF_vars(Call(p))
  /\ WF_vars(Dispatch) /\ WF_vars(Fetch) /\ WF_vars(EndRequest) /\ WF_vars(FinishRequest)
  /\ WF_vars(Dead)

Spec == Init /\ [][Next]_vars /\ Fairness

-----------------------------------------------------------------------------
(* Correctness                                                              *)

Places == {"free", "plug", "elevator", "dispatch", "driver", "ended"}

TypeOK ==
  /\ submitter \in [Bios -> Procs \cup {NULL}]
  /\ {ended, issued, reported} \subseteq SUBSET Bios
  /\ place \in [Requests -> Places] /\ bios \in [Requests -> SUBSET Bios]
  /\ started \subseteq Requests /\ dispatch \in Seq(Requests)
  /\ issues \in [Requests -> Nat] /\ putBacks \in 0..MaxRequeues
  /\ nr_requests \in QueueSizes /\ count \in 0..(3 * nr_requests) \div 2 /\ full \in BOOLEAN /\ waiting \in Seq(Procs)
  /\ batch \in [Procs -> 0..NrBatching]
  /\ pc \in [Procs -> {"idle", "queue", "retry", "schedule", "asleep", "got"}]
  /\ bio \in [Procs -> Bios \cup {NULL}] /\ plugged \subseteq Procs
  /\ cleanup \in {"alive", "dying", "dead"}

\* rl->count is what freed_request decides by, and it goes down in five places (a finished
\* request, a killed one, one that was merged into another, and a plug flushed on a dying
\* queue, by the task or by io_schedule): it counts the requests that exist.
CountExact == count = Cardinality(Requests \ In("free")) + Cardinality({p \in Procs : pc[p] = "got"})

\* "Drain all requests queued before DYING marking. Set DEAD flag to prevent that
\* q->request_fn() gets invoked after draining finished" (blk-core.c:552): no request is
\* left anywhere, not on a plug or between get_request and its insertion.
DeadIsEmpty == cleanup = "dead" => In("free") = Requests /\ \A p \in Procs : pc[p] # "got"

\* Each time that the driver gets a request there is one issue record of it, however often
\* blk_peek_request has looked at it: REQ_STARTED says whether it was traced, and
\* blk_requeue_request takes it away.
IssuedOnce == \A r \in In("driver") : issues[r] = 1

\* A completion record tells of I/O whose issue is in the trace: no bio joins a request after
\* its issue record.  (Not so on a dying queue, where a plug is ended unissued.)
ReportsIssued == Dying \/ reported \subseteq issued

\* "With queue marked dead, any woken up waiter will fail the allocation path, so the wakeup
\* chaining is lost and we're left with hung waiters" (blk-core.c:453): every bio ends, merged,
\* plugged, requeued or failed; so nobody sleeps for a request for ever, dying queue or not.
BiosEnd == Submitted # {} ~> Submitted \subseteq ended

\* blk_cleanup_queue comes to its end: what it waits for is not waiting for it.
CleanupEnds == cleanup = "dying" ~> cleanup = "dead"

=============================================================================
