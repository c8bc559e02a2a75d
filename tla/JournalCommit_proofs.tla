------------------------- MODULE JournalCommit_proofs -------------------------
(***************************************************************************)
(* Proofs about the handles and the commit thread, for any number of       *)
(* tasks, transactions, transaction numbers and failing commits, and       *)
(* whatever the tasks call.                                                *)
(***************************************************************************)
EXTENDS JournalCommit, FiniteSetTheorems, TLAPS

-----------------------------------------------------------------------------
(* The invariant                                                            *)

TransShape == [state : States, updates : Int, credits : Int, mapping : Inodes \cup {Null, Garbage}, expired : BOOLEAN]
TaskShape  == [pc : Labels, trans : 0..MaxTrans, credits : Int, sync : BOOLEAN, tid : 0..(TidMod - 1),
               inode : Inodes \cup {Null}, flush : BOOLEAN, waited : BOOLEAN, error : BOOLEAN,
               modified : 0..MaxTrans, wrote : Nat]

Shape ==
  /\ trans \in [Trans -> TransShape]
  /\ task \in [Tasks -> TaskShape]
  /\ created \in 0..MaxTrans /\ running \in 0..created /\ committing \in 0..created
  /\ barrier \in Int /\ aborted \in BOOLEAN
  /\ kpc \in {"loop", "woken", "start", "drain", "flush", "commit", "dflush", "jflush", "record",
             "callback", "wake", "end", "exit"}

Writing == {"flush", "commit", "dflush", "jflush", "record"}

\* which transaction the commit thread has in hand
ThreadInv ==
  /\ kpc \in {"start", "drain"} => running # 0
  /\ kpc \in Writing <=> committing # 0
  /\ running # 0 => trans[running].state = IF kpc = "drain" THEN "locked" ELSE "running"
  /\ committing # 0 => trans[committing].state \in {"flush", "commit", "dflush", "jflush"}

Holds(p) == task[p].pc \in {"handle", "stop"}

\* handles belong to the running transaction, which counts them
HandleInv ==
  /\ \A p \in Tasks : Holds(p) => running # 0 /\ task[p].trans = running
  /\ \A t \in Trans : trans[t].updates = Cardinality(Holders(t))

\* the commit that is asked for is that of the running transaction, or it is done or being done
RequestInv ==
  thread # "gone" =>
    IF kpc \in {"start", "drain"} THEN request = Tid(running)
    ELSE \/ running # 0 /\ request = Tid(running)
         \/ request = IF committing # 0 THEN Tid(committing) ELSE sequence

\* the unmount
UnmountInv ==
  /\ thread # "runs" => \A p \in Tasks : task[p].pc = "idle"
  /\ kpc = "exit" => thread = "gone"
  /\ kpc = "start" \/ thread = "gone" => ~timer

Bars(p) == task[p].pc \in {"quiesce", "quieted", "quiet"}

Barring == {p \in Tasks : Bars(p)}

\* tasks that have updates locked, or wait for that
BarrierInv ==
  /\ barrier = Cardinality(Barring)
  /\ (\E p \in Tasks : task[p].pc \in {"quieted", "quiet"}) => \A q \in Tasks : ~Holds(q)

\* a task that will ask for a commit without a lock has the number of its transaction
MappingInv ==
  /\ \A t \in Trans : trans[t].mapping # Garbage
  /\ \A p \in Tasks : task[p].pc \in {"ask", "nested"} =>
       task[p].trans \in Trans /\ task[p].tid = Tid(task[p].trans)

Inv == Shape /\ ThreadInv /\ HandleInv /\ RequestInv /\ UnmountInv /\ BarrierInv /\ MappingInv

-----------------------------------------------------------------------------
(* Numbers                                                                  *)

LEMMA Numbers ==
  /\ MaxTrans \in Nat /\ TidMod \in Nat \ {0} /\ FirstTid \in Int /\ MaxTrans < TidMod
  /\ \A t \in Int : Tid(t) \in 0..(TidMod - 1)
  /\ Trans \subseteq Int /\ IsFiniteSet(Tasks)
<1>1. MaxTrans \in Nat /\ TidMod \in Nat \ {0} /\ FirstTid \in Int /\ MaxTrans < TidMod
  BY TidAssumption, BoundAssumption, WrapAssumption
<1>2. \A t \in Int : Tid(t) \in 0..(TidMod - 1)
  BY <1>1 DEF Tid
<1>3. QED
  BY <1>1, <1>2, NameAssumption DEF Trans

\* fewer transactions than numbers: a number tells the transaction
LEMMA TidTells ==
  ASSUME NEW s \in 0..MaxTrans, NEW t \in 0..MaxTrans, Tid(s) = Tid(t)
  PROVE  s = t
<1>0. MaxTrans \in Nat /\ TidMod \in Nat \ {0} /\ FirstTid \in Int /\ MaxTrans < TidMod /\ s \in Int /\ t \in Int
  BY Numbers
<1> DEFINE i == (FirstTid + s) \div TidMod
           j == (FirstTid + t) \div TidMod
<1>1. /\ FirstTid + s = TidMod * i + Tid(s) /\ FirstTid + t = TidMod * j + Tid(t)
      /\ i \in Int /\ j \in Int
  BY <1>0 DEF Tid
<1> HIDE DEF i, j
<1>2. s - t = TidMod * (i - j)
  BY <1>0, <1>1, Numbers
<1>3. s - t < TidMod /\ t - s < TidMod
  BY <1>0
<1>4. i = j
  <2>1. ~(i - j >= 1)
    <3> SUFFICES ASSUME i - j >= 1 PROVE FALSE
      OBVIOUS
    <3>1. TidMod * (i - j) >= TidMod
      BY <1>0, <1>1
    <3>2. QED
      BY <1>0, <1>2, <1>3, <3>1
  <2>2. ~(j - i >= 1)
    <3> SUFFICES ASSUME j - i >= 1 PROVE FALSE
      OBVIOUS
    <3>1. TidMod * (j - i) >= TidMod /\ TidMod * (j - i) = t - s
      BY <1>0, <1>1, <1>2
    <3>2. QED
      BY <1>0, <1>3, <3>1
  <2>3. QED
    BY <1>1, <2>1, <2>2
<1>5. QED
  BY <1>0, <1>1, <1>2, <1>4

LEMMA Ranges ==
  ASSUME Inv
  PROVE  /\ trans \in [Trans -> TransShape] /\ task \in [Tasks -> TaskShape]
         /\ running # 0 => running \in Trans
         /\ committing # 0 => committing \in Trans
         /\ running \in 0..MaxTrans /\ committing \in 0..MaxTrans
BY Numbers DEF Inv, Shape, Trans

LEMMA Counted ==
  ASSUME NEW t
  PROVE  IsFiniteSet(Holders(t)) /\ Cardinality(Holders(t)) \in Nat /\ IsFiniteSet(Barring) /\ Cardinality(Barring) \in Nat
<1>1. Holders(t) \subseteq Tasks /\ Barring \subseteq Tasks /\ IsFiniteSet(Tasks)
  BY Numbers DEF Holders, Barring
<1>2. IsFiniteSet(Holders(t)) /\ IsFiniteSet(Barring)
  BY <1>1, FS_Subset
<1>3. QED
  BY <1>2, FS_CardinalityType

LEMMA InitInv == Init => Inv
<1> SUFFICES ASSUME Init PROVE Inv
  OBVIOUS
<1>1. task = [p \in Tasks |-> Idle] /\ trans = [t \in Trans |-> NoTrans]
  BY DEF Init
<1>2. Idle \in TaskShape /\ NoTrans \in TransShape
  BY Numbers DEF Idle, NoTrans, TaskShape, TransShape, Labels, States
<1>3. Shape
  <2>1. trans \in [Trans -> TransShape] /\ task \in [Tasks -> TaskShape]
    BY <1>1, <1>2
  <2>2. created \in 0..MaxTrans /\ running \in 0..created /\ committing \in 0..created
    BY Numbers DEF Init
  <2>3. barrier \in Int /\ kpc = "loop"
    BY DEF Init
  <2>4. aborted \in BOOLEAN
    <3>1. aborted = FALSE
      BY DEF Init
    <3>2. QED
      BY <3>1, Zenon
  <2>5. QED
    BY <2>1, <2>2, <2>3, <2>4 DEF Shape
<1>4. \A p \in Tasks : task[p].pc = "idle"
  BY <1>1 DEF Idle
<1>5. \A t \in Trans : trans[t].updates = 0 /\ trans[t].mapping = Null
  BY <1>1 DEF NoTrans
<1>6. ThreadInv
  BY DEF Init, ThreadInv, Writing
<1>7. HandleInv
  <2>1. \A t \in Trans : Holders(t) = {}
    BY <1>4 DEF Holders
  <2>2. QED
    BY <1>4, <1>5, <2>1, FS_EmptySet DEF HandleInv, Holds
<1>8. RequestInv /\ UnmountInv
  BY <1>4 DEF Init, RequestInv, UnmountInv
<1>9. BarrierInv
  <2>1. Barring = {} /\ barrier = 0
    BY <1>4 DEF Barring, Bars, Init
  <2>2. QED
    BY <1>4, <2>1, FS_EmptySet DEF BarrierInv
<1>10. MappingInv
  BY <1>4, <1>5, NameAssumption DEF MappingInv
<1>11. QED
  BY <1>3, <1>6, <1>7, <1>8, <1>9, <1>10 DEF Inv

-----------------------------------------------------------------------------
(* Steps of a task                                                          *)

\* a transaction keeps its state, its handles and a proper mapping
SameTrans ==
  /\ trans' \in [Trans -> TransShape]
  /\ \A t \in Trans : trans'[t].state = trans[t].state /\ trans'[t].updates = trans[t].updates
                      /\ trans'[t].mapping # Garbage

\* the request is left alone or moved to the running transaction
Requested == request' = request \/ (running # 0 /\ request' = Tid(running))

LEMMA StartCommit ==
  ASSUME Inv, NEW tid, NEW mapping, LogStartCommit(tid, mapping),
         IsRunning(tid) => mapping \in Inodes \cup {Null}
  PROVE  SameTrans /\ Requested
<1>0. trans \in [Trans -> TransShape] /\ running \in 0..MaxTrans /\ \A t \in Trans : trans[t].mapping # Garbage
  BY Numbers DEF Inv, Shape, MappingInv
<1>1. CASE request # tid /\ IsRunning(tid)
  <2>1. /\ request' = tid /\ running # 0 /\ Tid(running) = tid
        /\ trans' = IF mapping = Null THEN trans ELSE [trans EXCEPT ![running].mapping = mapping]
        /\ mapping \in Inodes \cup {Null} /\ mapping # Garbage
    BY <1>1, NameAssumption DEF LogStartCommit, IsRunning
  <2>2. running \in Trans
    BY <1>0, <2>1, Numbers DEF Trans
  <2>3. SameTrans
    <3>1. CASE trans' = trans
      BY <1>0, <3>1 DEF SameTrans
    <3>2. CASE trans' = [trans EXCEPT ![running].mapping = mapping]
      BY <1>0, <2>1, <2>2, <3>2 DEF SameTrans, TransShape
    <3>3. QED
      BY <2>1, <3>1, <3>2
  <2>4. QED
    BY <2>1, <2>3 DEF Requested
<1>2. CASE ~(request # tid /\ IsRunning(tid))
  <2>1. request' = request /\ trans' = trans
    BY <1>2 DEF LogStartCommit
  <2>2. QED
    BY <1>0, <2>1 DEF SameTrans, Requested
<1>3. QED
  BY <1>1, <1>2

\* a step after which p holds a handle and has updates locked exactly if it did before
LEMMA TaskStep ==
  ASSUME Inv, NEW p \in Tasks, task[p].pc # "idle" \/ thread = "runs",
         UNCHANGED <<created, running, committing, sequence, barrier, timer, thread, aborted, kpc>>,
         SameTrans, Requested,
         task' \in [Tasks -> TaskShape], \A q \in Tasks : q # p => task'[q] = task[q],
         Holds(p)' <=> Holds(p), Holds(p) => task'[p].trans = task[p].trans,
         Bars(p)' <=> Bars(p), task'[p].pc \in {"quieted", "quiet"} => task[p].pc \in {"quieted", "quiet"},
         task'[p].pc \in {"ask", "nested"} => task'[p].trans \in Trans /\ task'[p].tid = Tid(task'[p].trans)
  PROVE  Inv'
<1>0. thread = "runs"
  BY DEF Inv, UnmountInv
<1>1. Shape'
  BY DEF Inv, Shape, SameTrans
<1>2. ThreadInv'
  BY Ranges DEF Inv, ThreadInv, SameTrans, Writing
<1>3. \A q \in Tasks : Holds(q)' <=> Holds(q)
  BY DEF Holds
<1>4. \A t : Holders(t)' = Holders(t)
  BY <1>3 DEF Holders, Holds
<1>5. HandleInv'
  <2>1. \A q \in Tasks : Holds(q)' => running' # 0 /\ task'[q].trans = running'
    BY <1>3 DEF Inv, HandleInv
  <2>2. \A t \in Trans : trans'[t].updates = Cardinality(Holders(t)')
    BY <1>4 DEF Inv, HandleInv, SameTrans
  <2>3. QED
    BY <2>1, <2>2 DEF HandleInv
<1>6. RequestInv'
  BY DEF Inv, RequestInv, Requested, Tid
<1>7. UnmountInv'
  BY <1>0 DEF Inv, UnmountInv
<1>8. BarrierInv'
  <2>1. Barring' = Barring
    BY DEF Barring, Bars
  <2>2. (\E q \in Tasks : task'[q].pc \in {"quieted", "quiet"}) => \A q \in Tasks : ~Holds(q)'
    BY <1>3 DEF Inv, BarrierInv
  <2>3. QED
    BY <2>1, <2>2 DEF Inv, BarrierInv
<1>9. MappingInv'
  <2>1. \A q \in Tasks : task'[q].pc \in {"ask", "nested"} => task'[q].trans \in Trans /\ task'[q].tid = Tid(task'[q].trans)
    BY DEF Inv, MappingInv
  <2>2. QED
    BY <2>1 DEF MappingInv, SameTrans, Tid
<1>10. QED
  BY <1>1, <1>2, <1>5, <1>6, <1>7, <1>8, <1>9 DEF Inv

\* what a task may find in t_fs_mapping is never used for another transaction
LEMMA MappingsAreProper ==
  ASSUME Inv, NEW p \in Tasks, task[p].pc \in {"ask", "nested"}, NEW mapping \in Mappings(task[p].trans),
         IsRunning(task[p].tid)
  PROVE  mapping \in Inodes \cup {Null} /\ mapping = trans[running].mapping
<1>1. /\ running \in 0..MaxTrans /\ running # 0 /\ Tid(running) = task[p].tid
      /\ task[p].trans \in Trans /\ task[p].tid = Tid(task[p].trans)
  BY Numbers DEF Inv, Shape, IsRunning, MappingInv
<1>2. task[p].trans = running /\ running \in Trans
  BY <1>1, Numbers, TidTells DEF Trans
<1>3. trans[running].state # "finished"
  BY <1>1 DEF Inv, ThreadInv
<1>4. mapping = trans[running].mapping
  BY <1>2, <1>3 DEF Mappings
<1>5. trans[running] \in TransShape /\ trans[running].mapping # Garbage
  BY <1>2 DEF Inv, Shape, MappingInv
<1>6. QED
  BY <1>4, <1>5 DEF TransShape

\* h is stopped
LEMMA HandleDropped ==
  ASSUME Inv, NEW p \in Tasks, Holds(p), DropUpdate(p),
         UNCHANGED <<request, created, running, committing, sequence, barrier, timer, thread, aborted, kpc>>,
         task' \in [Tasks -> TaskShape], \A q \in Tasks : q # p => task'[q] = task[q],
         task'[p].pc \in {"repeat", "ask", "wait", "idle"},
         task'[p].pc = "ask" => task'[p].trans \in Trans /\ task'[p].tid = Tid(task'[p].trans)
  PROVE  Inv'
<1> DEFINE h == task[p].trans
<1>0. /\ trans \in [Trans -> TransShape] /\ h = running /\ running # 0 /\ running \in Trans
      /\ task[p] \in TaskShape /\ thread = "runs"
  BY Ranges DEF Inv, HandleInv, Holds, UnmountInv
<1>1. trans' = [trans EXCEPT ![running].updates = @ - 1, ![running].credits = @ - task[p].credits]
  BY <1>0 DEF DropUpdate
<1>2. /\ trans' \in [Trans -> TransShape]
      /\ \A t \in Trans : trans'[t].state = trans[t].state /\ trans'[t].mapping = trans[t].mapping
      /\ trans'[running].updates = trans[running].updates - 1
      /\ \A t \in Trans : t # running => trans'[t].updates = trans[t].updates
  <2>1. PICK r \in TransShape : r = trans[running]
    BY <1>0
  <2>2. PICK u \in Int, c \in Int : u = r.updates - 1 /\ c = r.credits - task[p].credits
    BY <1>0 DEF TaskShape, TransShape
  <2> DEFINE n == [r EXCEPT !.updates = u, !.credits = c]
  <2>3. n \in TransShape /\ n.state = r.state /\ n.mapping = r.mapping /\ n.updates = r.updates - 1
    BY <2>2 DEF TransShape
  <2>4. trans' = [trans EXCEPT ![running] = n]
    BY <1>0, <1>1, <2>1, <2>2 DEF TransShape
  <2> HIDE DEF n
  <2>5. QED
    BY <1>0, <2>1, <2>3, <2>4
<1>3. Shape'
  BY <1>2 DEF Inv, Shape
<1>4. ThreadInv'
  BY <1>2, Ranges DEF Inv, ThreadInv, Writing
<1>5. \A q \in Tasks : Holds(q)' <=> Holds(q) /\ q # p
  BY DEF Holds
<1>6. Holders(running)' = Holders(running) \ {p} /\ p \in Holders(running)
  BY <1>0, <1>5 DEF Holders, Holds
<1>7. \A t \in Trans : t # running => Holders(t)' = Holders(t)
  BY <1>0, <1>5 DEF Holders, Holds
<1>8. Cardinality(Holders(running) \ {p}) = Cardinality(Holders(running)) - 1
  BY <1>6, Counted, FS_RemoveElement
<1>9. HandleInv'
  <2>1. \A q \in Tasks : Holds(q)' => running' # 0 /\ task'[q].trans = running'
    BY <1>5 DEF Inv, HandleInv
  <2>2. \A t \in Trans : trans'[t].updates = Cardinality(Holders(t)')
    BY <1>0, <1>2, <1>6, <1>7, <1>8 DEF Inv, HandleInv
  <2>3. QED
    BY <2>1, <2>2 DEF HandleInv
<1>10. RequestInv'
  BY DEF Inv, RequestInv, Tid
<1>11. UnmountInv'
  BY <1>0 DEF Inv, UnmountInv
<1>12. BarrierInv'
  <2>1. Barring' = Barring
    BY DEF Barring, Bars, Holds
  <2>2. (\E q \in Tasks : task'[q].pc \in {"quieted", "quiet"}) => \A q \in Tasks : ~Holds(q)'
    BY <1>5 DEF Inv, BarrierInv
  <2>3. QED
    BY <2>1, <2>2 DEF Inv, BarrierInv
<1>13. MappingInv'
  <2>1. \A q \in Tasks : task'[q].pc \in {"ask", "nested"} => task'[q].trans \in Trans /\ task'[q].tid = Tid(task'[q].trans)
    BY DEF Inv, MappingInv
  <2>2. QED
    BY <1>2, <2>1 DEF Inv, MappingInv, Tid
<1>14. QED
  BY <1>3, <1>4, <1>9, <1>10, <1>11, <1>12, <1>13 DEF Inv

LEMMA Setting ==
  ASSUME Inv, NEW p \in Tasks, NEW r \in TaskShape, task' = [task EXCEPT ![p] = r]
  PROVE  /\ task' \in [Tasks -> TaskShape] /\ \A q \in Tasks : q # p => task'[q] = task[q]
         /\ task'[p] = r
BY Ranges

LEMMA Going ==
  ASSUME Inv, NEW p \in Tasks, NEW l \in Labels, Go(p, l)
  PROVE  /\ task' \in [Tasks -> TaskShape] /\ \A q \in Tasks : q # p => task'[q] = task[q]
         /\ task'[p].pc = l /\ task'[p].trans = task[p].trans /\ task'[p].tid = task[p].tid
BY Ranges DEF Go, TaskShape

LEMMA BeingDone ==
  ASSUME Inv, NEW p \in Tasks, Done(p)
  PROVE  /\ task' \in [Tasks -> TaskShape] /\ \A q \in Tasks : q # p => task'[q] = task[q]
         /\ task'[p].pc = "idle"
<1>1. Idle \in TaskShape /\ Idle.pc = "idle"
  BY Numbers DEF Idle, TaskShape, Labels
<1>2. QED
  BY <1>1, Ranges DEF Done

LEMMA SameTransStays == ASSUME Inv, UNCHANGED trans PROVE SameTrans
BY Ranges DEF Inv, MappingInv, SameTrans

\* start_this_handle, up to where it has a handle
LEMMA StartingStep ==
  ASSUME Inv, NEW p \in Tasks,
         \/ StartAborted(p) \/ StartBarrier(p) \/ StartNone(p) \/ StartLocked(p) \/ StartTooLarge(p)
  PROVE  Inv'
<1>0. /\ task[p].pc = "repeat" /\ ~Holds(p) /\ ~Bars(p)
      /\ UNCHANGED <<trans, request, created, running, committing, sequence, barrier, timer, thread, aborted, kpc>>
  BY DEF StartAborted, StartBarrier, StartNone, StartLocked, StartTooLarge, Usable, Repeat, At, Holds, Bars,
         journalVars, stateVars, threadVars
<1>1. SameTrans /\ Requested
  BY <1>0, SameTransStays DEF Requested
<1>2. /\ task' \in [Tasks -> TaskShape] /\ \A q \in Tasks : q # p => task'[q] = task[q]
      /\ task'[p].pc \in {"idle", "return", "repeat", "create", "ask"}
      /\ task'[p].pc = "ask" => task'[p].trans \in Trans /\ task'[p].tid = Tid(task'[p].trans)
  <2>1. CASE StartAborted(p)
    <3>1. CASE task[p].inode = Null
      <4>1. Done(p)
        BY <2>1, <3>1 DEF StartAborted, Fail, Done
      <4>2. QED
        BY <4>1, BeingDone
    <3>2. CASE task[p].inode # Null
      <4>1. task' = [task EXCEPT ![p] = [task[p] EXCEPT !.pc = "return", !.error = TRUE]]
        BY <2>1, <3>2 DEF StartAborted, Fail
      <4> DEFINE r == [task[p] EXCEPT !.pc = "return", !.error = TRUE]
      <4>2. r \in TaskShape /\ r.pc = "return"
        BY ZenonT(30), Ranges DEF TaskShape, Labels
      <4>3. QED
        BY <4>1, <4>2, Setting
    <3>3. QED
      BY <3>1, <3>2
  <2>2. CASE StartBarrier(p) \/ StartLocked(p)
    BY <1>0, <2>2, Ranges DEF StartBarrier, StartLocked
  <2>3. CASE StartNone(p)
    <3>1. Go(p, "create") /\ "create" \in Labels
      BY <2>3 DEF StartNone, Labels
    <3>2. QED
      BY <3>1, Going
  <2>4. CASE StartTooLarge(p)
    <3>1. running \in Trans /\ running \in 0..MaxTrans /\ running \in Int
      BY <2>4, Ranges DEF StartTooLarge, Usable
    <3>2. PICK n \in 0..(TidMod - 1), l \in {"repeat", "ask"} :
            n = Tid(running) /\ task' = [task EXCEPT ![p].trans = running, ![p].tid = n, ![p].pc = l]
      BY <2>4, <3>1, Numbers DEF StartTooLarge
    <3> DEFINE r == [task[p] EXCEPT !.trans = running, !.tid = n, !.pc = l]
    <3>3. r \in TaskShape /\ r.pc = l /\ r.trans = running /\ r.tid = n
      BY ZenonT(30), <3>1, Ranges DEF TaskShape, Labels
    <3>4. task' = [task EXCEPT ![p] = r]
      BY <3>2, Ranges
    <3> HIDE DEF r
    <3>5. QED
      BY <3>1, <3>2, <3>3, <3>4, Setting
  <2>5. QED
    BY <2>1, <2>2, <2>3, <2>4
<1>3. QED
  BY <1>0, <1>1, <1>2, TaskStep DEF Holds, Bars

\* the other steps that neither take nor leave a handle
LEMMA CallingStep ==
  ASSUME Inv, NEW p \in Tasks,
         \/ AskForCommit(p) \/ StopRequest(p) \/ WaitCommit(p) \/ RequestNested(p)
         \/ SyncFs(p) \/ ForceNested(p) \/ Extend(p)
         \/ \E n \in Asks, s \in BOOLEAN : JournalStart(p, n, s)
  PROVE  Inv'
<1>0. \A t \in Trans : trans[t].mapping \in Inodes \cup {Null}
  BY DEF Inv, Shape, TransShape, MappingInv
<1>1. CASE AskForCommit(p) \/ RequestNested(p)
  <2>1. PICK mapping \in Mappings(task[p].trans) : LogStartCommit(task[p].tid, mapping)
    BY <1>1 DEF AskForCommit, RequestNested
  <2>2. /\ task[p].pc \in {"ask", "nested"}
        /\ UNCHANGED <<created, running, committing, sequence, barrier, timer, thread, aborted, kpc>>
    BY <1>1 DEF AskForCommit, RequestNested, At, stateVars
  <2>3. SameTrans /\ Requested
    <3>1. IsRunning(task[p].tid) => mapping \in Inodes \cup {Null}
      BY <2>2, MappingsAreProper
    <3>2. QED
      BY <2>1, <3>1, StartCommit
  <2>4. PICK l \in {"repeat", "wait"} : Go(p, l) /\ l \in Labels
    BY <1>1 DEF AskForCommit, RequestNested, Labels
  <2>5. QED
    BY <2>2, <2>3, <2>4, Going, TaskStep DEF Holds, Bars
<1>2. CASE StopRequest(p)
  <2>1. /\ task[p].pc = "handle" /\ task[p].trans = running /\ running \in Trans
        /\ UNCHANGED <<created, running, committing, sequence, barrier, timer, thread, aborted, kpc>>
    BY <1>2, Ranges DEF StopRequest, At, stateVars, Inv, HandleInv, Holds
  <2>2. SameTrans /\ Requested
    <3>1. CASE UNCHANGED <<request, trans>>
      BY <3>1, SameTransStays DEF Requested
    <3>2. CASE LogStartCommit(Tid(task[p].trans), trans[task[p].trans].mapping)
      BY <1>0, <2>1, <3>2, StartCommit
    <3>3. QED
      BY <1>2, <3>1, <3>2 DEF StopRequest
  <2>3. Go(p, "stop") /\ "stop" \in Labels
    BY <1>2 DEF StopRequest, Labels
  <2>4. QED
    BY <2>1, <2>2, <2>3, Going, TaskStep DEF Holds, Bars
<1>3. CASE WaitCommit(p)
  <2>1. /\ task[p].pc = "wait" /\ ~Holds(p) /\ ~Bars(p)
        /\ UNCHANGED <<trans, request, created, running, committing, sequence, barrier, timer, thread, aborted, kpc>>
    BY <1>3 DEF WaitCommit, At, Holds, Bars, journalVars, stateVars
  <2>2. SameTrans /\ Requested
    BY <2>1, SameTransStays DEF Requested
  <2>3. /\ task' \in [Tasks -> TaskShape] /\ \A q \in Tasks : q # p => task'[q] = task[q]
        /\ task'[p].pc \in {"wait", "idle", "flush"}
    <3>1. CASE task' = task
      BY <2>1, <3>1, Ranges
    <3>2. CASE task' = [task EXCEPT ![p] = Idle]
      BY <3>2, BeingDone DEF Done
    <3>3. ASSUME NEW e \in BOOLEAN, task' = [task EXCEPT ![p].pc = "flush", ![p].waited = TRUE, ![p].error = e]
          PROVE  /\ task' \in [Tasks -> TaskShape] /\ \A q \in Tasks : q # p => task'[q] = task[q]
                 /\ task'[p].pc \in {"wait", "idle", "flush"}
      <4> DEFINE r == [task[p] EXCEPT !.pc = "flush", !.waited = TRUE, !.error = e]
      <4>1. r \in TaskShape /\ r.pc = "flush"
        BY ZenonT(30), Ranges DEF TaskShape, Labels
      <4>2. task' = [task EXCEPT ![p] = r]
        BY <3>3, Ranges
      <4>3. QED
        BY <4>1, <4>2, Setting
    <3>4. CommitError \in BOOLEAN
      BY DEF CommitError, Inv, Shape
    <3>5. QED
      BY <1>3, <3>1, <3>2, <3>3, <3>4 DEF WaitCommit
  <2>4. QED
    BY <2>1, <2>2, <2>3, TaskStep DEF Holds, Bars
<1>4. CASE SyncFs(p) \/ ForceNested(p)
  <2>1. /\ task[p].pc = "idle" /\ thread = "runs" /\ running + committing > 0
        /\ UNCHANGED <<created, running, committing, sequence, barrier, timer, thread, aborted, kpc>>
    BY <1>4 DEF SyncFs, ForceNested, At, journalVars, stateVars, threadVars
  <2>2. SameTrans /\ Requested
    <3>1. CASE UNCHANGED <<request, trans>>
      BY <3>1, SameTransStays DEF Requested
    <3>2. CASE running # 0 /\ LogStartCommit(Tid(running), trans[running].mapping)
      <4>1. trans[running].mapping \in Inodes \cup {Null}
        BY <1>0, <3>2, Ranges
      <4>2. QED
        BY <3>2, <4>1, StartCommit
    <3>3. QED
      BY <1>4, <3>1, <3>2 DEF SyncFs, ForceNested, journalVars
  <2>3. PICK t \in Trans : t = IF running # 0 THEN running ELSE committing
    BY <2>1, Ranges
  <2>4. t \in 0..MaxTrans /\ Tid(t) \in 0..(TidMod - 1)
    BY Numbers DEF Trans
  <2>5. /\ task' \in [Tasks -> TaskShape] /\ \A q \in Tasks : q # p => task'[q] = task[q]
        /\ task'[p].pc \in {"wait", "nested"}
        /\ task'[p].pc = "nested" => task'[p].trans = t /\ task'[p].tid = Tid(t)
    <3>1. CASE SyncFs(p)
      <4>1. task' = [task EXCEPT ![p].pc = "wait", ![p].tid = Tid(t)]
        BY <2>3, <3>1 DEF SyncFs
      <4> DEFINE r == [task[p] EXCEPT !.pc = "wait", !.tid = Tid(t)]
      <4>2. r \in TaskShape /\ r.pc = "wait"
        BY ZenonT(30), <2>4, Ranges DEF TaskShape, Labels
      <4>3. task' = [task EXCEPT ![p] = r]
        BY <4>1, Ranges
      <4>4. QED
        BY <4>2, <4>3, Setting
    <3>2. CASE ForceNested(p)
      <4>1. PICK l \in {"wait", "nested"} : task' = [task EXCEPT ![p].trans = t, ![p].tid = Tid(t), ![p].pc = l]
        BY <2>3, <3>2 DEF ForceNested
      <4> DEFINE r == [task[p] EXCEPT !.trans = t, !.tid = Tid(t), !.pc = l]
      <4>2. r \in TaskShape /\ r.pc = l /\ r.trans = t /\ r.tid = Tid(t)
        BY ZenonT(30), <2>4, Ranges DEF TaskShape, Labels
      <4>3. task' = [task EXCEPT ![p] = r]
        BY <4>1, Ranges
      <4> HIDE DEF r
      <4>4. QED
        BY <4>1, <4>2, <4>3, Setting
    <3>3. QED
      BY <1>4, <3>1, <3>2
  <2>6. QED
    BY <2>1, <2>2, <2>5, TaskStep DEF Holds, Bars
<1>5. CASE Extend(p)
  <2>1. /\ task[p].pc = "handle" /\ task[p].trans = running /\ running \in Trans
        /\ UNCHANGED <<request, created, running, committing, sequence, barrier, timer, thread, aborted, kpc>>
        /\ trans' = [trans EXCEPT ![running].credits = @ + 1]
        /\ task' = [task EXCEPT ![p].credits = @ + 1]
    BY <1>5, Ranges DEF Extend, At, stateVars, threadVars, Inv, HandleInv, Holds
  <2>2. PICK c \in Int, d \in Int :
          trans' = [trans EXCEPT ![running].credits = c] /\ task' = [task EXCEPT ![p].credits = d]
    <3>1. trans[running] \in TransShape /\ task[p] \in TaskShape
      BY <2>1, Ranges
    <3>2. PICK c \in Int, d \in Int : c = trans[running].credits + 1 /\ d = task[p].credits + 1
      BY <3>1 DEF TransShape, TaskShape
    <3>3. QED
      BY <2>1, <3>2
  <2>3. SameTrans /\ Requested
    BY <2>1, <2>2, Ranges DEF SameTrans, Requested, TransShape, Inv, MappingInv
  <2>4. /\ task' \in [Tasks -> TaskShape] /\ \A q \in Tasks : q # p => task'[q] = task[q]
        /\ task'[p].pc = "handle" /\ task'[p].trans = running
    BY <2>1, <2>2, Ranges DEF TaskShape
  <2>5. QED
    BY <2>1, <2>3, <2>4, TaskStep DEF Holds, Bars
<1>6. ASSUME NEW n \in Asks, NEW s \in BOOLEAN, JournalStart(p, n, s) PROVE Inv'
  <2>0. n \in Int
    BY BoundAssumption
  <2>1. /\ task[p].pc = "idle" /\ thread = "runs"
        /\ UNCHANGED <<trans, request, created, running, committing, sequence, barrier, timer, thread, aborted, kpc>>
        /\ task' = [task EXCEPT ![p].pc = "repeat", ![p].credits = n, ![p].sync = s]
    BY <1>6 DEF JournalStart, At, journalVars, stateVars, threadVars
  <2>2. SameTrans /\ Requested
    BY <2>1, SameTransStays DEF Requested
  <2>3. /\ task' \in [Tasks -> TaskShape] /\ \A q \in Tasks : q # p => task'[q] = task[q]
        /\ task'[p].pc = "repeat"
    <3> DEFINE r == [task[p] EXCEPT !.pc = "repeat", !.credits = n, !.sync = s]
    <3>1. r \in TaskShape /\ r.pc = "repeat"
      BY ZenonT(30), <2>0, Ranges DEF TaskShape, Labels
    <3>2. task' = [task EXCEPT ![p] = r]
      BY <2>1, Ranges
    <3>3. QED
      BY <3>1, <3>2, Setting
  <2>4. QED
    BY <2>1, <2>2, <2>3, TaskStep DEF Holds, Bars
<1>7. QED
  BY <1>1, <1>2, <1>3, <1>4, <1>5, <1>6

\* a handle is restarted or stopped
LEMMA StoppingStep ==
  ASSUME Inv, NEW p \in Tasks, Stop(p) \/ \E n \in Asks : Restart(p, n)
  PROVE  Inv'
<1>1. CASE Stop(p)
  <2>1. /\ task[p].pc = "stop" /\ DropUpdate(p) /\ task[p].trans \in Trans /\ task[p] \in TaskShape
        /\ UNCHANGED <<request, created, running, committing, sequence, barrier, timer, thread, aborted, kpc>>
    BY <1>1, Ranges DEF Stop, At, stateVars, Inv, HandleInv, Holds
  <2>2. PICK n \in 0..(TidMod - 1) : n = Tid(task[p].trans)
    BY <2>1, Numbers
  <2> DEFINE r == [task[p] EXCEPT !.pc = "wait", !.tid = n, !.trans = 0, !.credits = 0, !.sync = FALSE]
  <2>3. r \in TaskShape /\ r.pc = "wait"
    <3>1. 0 \in 0..MaxTrans /\ 0 \in Int
      BY Numbers
    <3>2. QED
      BY <2>1, <3>1 DEF TaskShape, Labels
  <2>4. Idle \in TaskShape /\ Idle.pc = "idle"
    BY Numbers DEF Idle, TaskShape, Labels
  <2>5. task' = [task EXCEPT ![p] = IF task[p].sync THEN r ELSE Idle]
    BY <1>1, <2>2 DEF Stop
  <2> HIDE DEF r
  <2>6. PICK s \in {r, Idle} : task' = [task EXCEPT ![p] = s]
    BY <2>5
  <2>7. /\ task' \in [Tasks -> TaskShape] /\ \A q \in Tasks : q # p => task'[q] = task[q]
        /\ task'[p].pc \in {"wait", "idle"}
    BY <2>3, <2>4, <2>6, Setting
  <2>8. QED
    BY <2>1, <2>7, HandleDropped DEF Holds
<1>2. ASSUME NEW n \in Asks, Restart(p, n) PROVE Inv'
  <2>0. n \in Int
    BY BoundAssumption
  <2>1. /\ task[p].pc = "handle" /\ DropUpdate(p) /\ task[p].trans \in Trans /\ task[p] \in TaskShape
        /\ UNCHANGED <<request, created, running, committing, sequence, barrier, timer, thread, aborted, kpc>>
    BY <1>2, Ranges DEF Restart, At, stateVars, Inv, HandleInv, Holds
  <2>2. PICK d \in 0..(TidMod - 1), l \in {"repeat", "ask"} :
          d = Tid(task[p].trans) /\ task' = [task EXCEPT ![p].tid = d, ![p].credits = n, ![p].pc = l]
    BY <1>2, <2>1, Numbers DEF Restart
  <2> DEFINE r == [task[p] EXCEPT !.tid = d, !.credits = n, !.pc = l]
  <2>3. r \in TaskShape /\ r.pc = l /\ r.tid = d /\ r.trans = task[p].trans
    BY <2>0, <2>1 DEF TaskShape, Labels
  <2>4. task' = [task EXCEPT ![p] = r]
    BY <2>2, Ranges
  <2> HIDE DEF r
  <2>5. QED
    BY <2>1, <2>2, <2>3, <2>4, Setting, HandleDropped DEF Holds
<1>3. QED
  BY <1>1, <1>2

\* start_this_handle gets its handle
LEMMA HandleTaken ==
  ASSUME Inv, NEW p \in Tasks, StartThisHandle(p)
  PROVE  Inv'
<1>0. /\ task[p].pc = "repeat" /\ barrier = 0 /\ running # 0 /\ running \in Trans /\ thread = "runs"
      /\ kpc # "drain" /\ task[p] \in TaskShape /\ trans[running] \in TransShape
      /\ UNCHANGED <<request, created, running, committing, sequence, barrier, timer, thread, aborted, kpc>>
  BY Ranges DEF StartThisHandle, Usable, Repeat, At, Locked, stateVars, threadVars, Inv, ThreadInv, UnmountInv
<1>1. PICK r \in TransShape : trans' = [trans EXCEPT ![running] = r]
                              /\ r.state = trans[running].state /\ r.mapping = trans[running].mapping
                              /\ r.updates = trans[running].updates + 1
  <2>1. PICK u \in Int, c \in Int : u = trans[running].updates + 1 /\ c = trans[running].credits + task[p].credits
    BY <1>0 DEF TaskShape, TransShape
  <2> DEFINE r == [trans[running] EXCEPT !.credits = c, !.updates = u]
  <2>2. /\ r \in TransShape /\ r.updates = u
        /\ r.state = trans[running].state /\ r.mapping = trans[running].mapping
    BY <1>0 DEF TransShape
  <2>3. trans' = [trans EXCEPT ![running] = r]
    BY <1>0, <2>1, Ranges DEF StartThisHandle, TransShape
  <2> HIDE DEF r
  <2>4. QED
    BY <2>1, <2>2, <2>3
<1>2. /\ task' \in [Tasks -> TaskShape] /\ \A q \in Tasks : q # p => task'[q] = task[q]
      /\ task'[p].pc = "handle" /\ task'[p].trans = running
  <2> DEFINE h == [task[p] EXCEPT !.pc = "handle", !.trans = running]
  <2>1. h \in TaskShape /\ h.pc = "handle" /\ h.trans = running
    BY <1>0, Ranges DEF TaskShape, Labels
  <2>2. task' = [task EXCEPT ![p] = h]
    BY Ranges DEF StartThisHandle
  <2> HIDE DEF h
  <2>3. QED
    BY <2>1, <2>2, Setting
<1>3. /\ trans' \in [Trans -> TransShape]
      /\ \A t \in Trans : trans'[t].state = trans[t].state /\ trans'[t].mapping = trans[t].mapping
      /\ trans'[running].updates = trans[running].updates + 1
      /\ \A t \in Trans : t # running => trans'[t].updates = trans[t].updates
  BY <1>0, <1>1, Ranges
<1>4. Shape'
  BY <1>0, <1>2, <1>3 DEF Inv, Shape
<1>5. ThreadInv'
  BY <1>0, <1>3, Ranges DEF Inv, ThreadInv, Writing
<1>6. \A q \in Tasks : Holds(q)' <=> Holds(q) \/ q = p
  BY <1>0, <1>2 DEF Holds
<1>7. HandleInv'
  <2>1. \A q \in Tasks : Holds(q)' => running' # 0 /\ task'[q].trans = running'
    BY <1>0, <1>2, <1>6 DEF Inv, HandleInv
  <2>2. Holders(running)' = Holders(running) \cup {p} /\ p \notin Holders(running)
    BY <1>0, <1>2, <1>6 DEF Holders, Holds
  <2>3. \A t \in Trans : t # running => Holders(t)' = Holders(t)
    BY <1>0, <1>2 DEF Holders
  <2>4. Cardinality(Holders(running) \cup {p}) = Cardinality(Holders(running)) + 1
    BY <2>2, Counted, FS_AddElement
  <2>5. \A t \in Trans : trans'[t].updates = Cardinality(Holders(t)')
    BY <1>0, <1>3, <2>2, <2>3, <2>4 DEF Inv, HandleInv
  <2>6. QED
    BY <2>1, <2>5 DEF HandleInv
<1>8. RequestInv'
  BY <1>0 DEF Inv, RequestInv, Tid
<1>9. UnmountInv'
  BY <1>0 DEF Inv, UnmountInv
<1>10. BarrierInv'
  <2>1. Barring = {}
    BY <1>0, Counted, FS_EmptySet DEF Inv, BarrierInv
  <2>2. Barring' = {}
    BY <1>2, <2>1 DEF Barring, Bars
  <2>3. \A q \in Tasks : task'[q].pc \notin {"quieted", "quiet"}
    BY <2>2 DEF Barring, Bars
  <2>4. QED
    BY <1>0, <2>1, <2>2, <2>3 DEF Inv, BarrierInv
<1>11. MappingInv'
  <2>1. \A q \in Tasks : task'[q].pc \in {"ask", "nested"} => task'[q].trans \in Trans /\ task'[q].tid = Tid(task'[q].trans)
    BY <1>2 DEF Inv, MappingInv
  <2>2. QED
    BY <1>3, <2>1 DEF Inv, MappingInv, Tid
<1>12. QED
  BY <1>4, <1>5, <1>7, <1>8, <1>9, <1>10, <1>11 DEF Inv

\* jbd2_get_transaction
LEMMA TransactionCreated ==
  ASSUME Inv, NEW p \in Tasks, GetTransaction(p)
  PROVE  Inv'
<1>0. /\ task[p].pc = "create" /\ thread = "runs" /\ Go(p, "repeat") /\ "repeat" \in Labels
      /\ UNCHANGED <<request, committing, sequence, barrier, thread, aborted, kpc>>
  BY DEF GetTransaction, At, Labels, threadVars, Inv, UnmountInv
<1>1. /\ task' \in [Tasks -> TaskShape] /\ \A q \in Tasks : q # p => task'[q] = task[q]
      /\ task'[p].pc = "repeat" /\ task'[p].trans = task[p].trans
  BY <1>0, Going
<1>2. CASE UNCHANGED <<created, running, trans, timer>>
  BY <1>0, <1>1, <1>2, SameTransStays, TaskStep DEF Requested, Holds, Bars
<1>3. CASE /\ running = 0 /\ barrier = 0 /\ created < MaxTrans /\ created' = created + 1 /\ running' = created'
           /\ trans' = [trans EXCEPT ![created'].state = "running"] /\ timer' = TRUE
  <2>1. created' \in Trans /\ committing # created' /\ committing \in 0..created' /\ running' # 0
    BY <1>3, Numbers DEF Inv, Shape, Trans
  <2>2. /\ trans' \in [Trans -> TransShape] /\ trans'[created'].state = "running"
        /\ \A t \in Trans : t # created' => trans'[t].state = trans[t].state
        /\ \A t \in Trans : trans'[t].updates = trans[t].updates /\ trans'[t].mapping = trans[t].mapping
    BY <1>3, <2>1, Ranges DEF TransShape, States
  <2>3. \A q \in Tasks : ~Holds(q) /\ ~Holds(q)'
    BY <1>0, <1>1, <1>3 DEF Inv, HandleInv, Holds
  <2>4. Shape'
    BY <1>0, <1>1, <1>3, <2>1, <2>2, Numbers DEF Inv, Shape, Trans
  <2>5. ThreadInv'
    BY <1>0, <1>3, <2>1, <2>2, Ranges DEF Inv, ThreadInv, Writing
  <2>6. HandleInv'
    <3>1. \A t : Holders(t)' = Holders(t)
      BY <2>3 DEF Holders, Holds
    <3>2. \A t \in Trans : trans[t].updates = Cardinality(Holders(t))
      BY DEF Inv, HandleInv
    <3>3. \A t \in Trans : trans'[t].updates = Cardinality(Holders(t)')
      <4> SUFFICES ASSUME NEW t \in Trans PROVE trans'[t].updates = Cardinality(Holders(t)')
        OBVIOUS
      <4>1. trans'[t].updates = trans[t].updates
        BY <2>2
      <4>2. QED
        BY <3>1, <3>2, <4>1
    <3>4. QED
      BY <2>3, <3>3 DEF HandleInv
  <2>7. RequestInv' /\ UnmountInv'
    BY <1>0, <1>3 DEF Inv, RequestInv, UnmountInv, ThreadInv, Tid
  <2>8. BarrierInv'
    <3>1. Barring' = Barring
      BY <1>0, <1>1 DEF Barring, Bars
    <3>2. QED
      BY <1>0, <2>3, <3>1 DEF Inv, BarrierInv
  <2>9. MappingInv'
    <3>1. \A q \in Tasks : task'[q].pc \in {"ask", "nested"} => task'[q].trans \in Trans /\ task'[q].tid = Tid(task'[q].trans)
      BY <1>1 DEF Inv, MappingInv
    <3>2. \A t \in Trans : trans'[t].mapping # Garbage
      <4> SUFFICES ASSUME NEW t \in Trans PROVE trans'[t].mapping # Garbage
        OBVIOUS
      <4>1. trans'[t].mapping = trans[t].mapping
        BY <2>2
      <4>2. QED
        BY <4>1 DEF Inv, MappingInv
    <3>3. QED
      BY <3>1, <3>2 DEF MappingInv, Tid
  <2>10. QED
    BY <2>4, <2>5, <2>6, <2>7, <2>8, <2>9 DEF Inv
<1>4. QED
  BY <1>2, <1>3 DEF GetTransaction

\* jbd2_journal_lock_updates and _unlock_updates
LEMMA BarrierStep ==
  ASSUME Inv, NEW p \in Tasks, Barrier(p) \/ LockUpdates(p)
  PROVE  Inv'
<1>f. ASSUME UNCHANGED <<trans, request, created, running, committing, sequence, timer, thread, aborted, kpc>>,
             barrier' \in Int, task[p].pc # "idle" \/ thread = "runs", ~Holds(p),
             task' \in [Tasks -> TaskShape], \A q \in Tasks : q # p => task'[q] = task[q],
             task'[p].pc \in {"idle", "quiesce", "quieted"}, BarrierInv'
      PROVE  Inv'
  <2>0. thread = "runs"
    BY <1>f DEF Inv, UnmountInv
  <2>1. Shape'
    BY <1>f DEF Inv, Shape
  <2>2. ThreadInv' /\ RequestInv'
    BY <1>f DEF Inv, ThreadInv, RequestInv, Writing, Tid
  <2>3. \A q \in Tasks : /\ Holds(q)' <=> Holds(q)
                         /\ Holds(q) => task'[q] = task[q]
    BY <1>f DEF Holds
  <2>4. HandleInv'
    <3>1. \A t : Holders(t)' = Holders(t)
      BY <2>3 DEF Holders, Holds
    <3>2. QED
      BY <1>f, <2>3, <3>1 DEF Inv, HandleInv
  <2>5. UnmountInv'
    BY <1>f, <2>0 DEF Inv, UnmountInv
  <2>6. MappingInv'
    BY <1>f DEF Inv, MappingInv, Tid
  <2>7. QED
    BY <1>f, <2>1, <2>2, <2>4, <2>5, <2>6 DEF Inv
<1>1. CASE LockUpdates(p)
  <2>1. /\ task[p].pc = "idle" /\ thread = "runs" /\ barrier' = barrier + 1 /\ barrier \in Int
        /\ Go(p, "quiesce") /\ "quiesce" \in Labels
        /\ UNCHANGED <<trans, request, created, running, committing, sequence, timer, thread, aborted, kpc>>
    BY <1>1 DEF LockUpdates, At, threadVars, Labels, Inv, Shape
  <2>2. /\ task' \in [Tasks -> TaskShape] /\ \A q \in Tasks : q # p => task'[q] = task[q]
        /\ task'[p].pc = "quiesce"
    BY <2>1, Going
  <2>3. Barring' = Barring \cup {p} /\ p \notin Barring
    BY <2>1, <2>2 DEF Barring, Bars
  <2>4. Cardinality(Barring \cup {p}) = Cardinality(Barring) + 1
    BY <2>3, Counted, FS_AddElement
  <2>5. BarrierInv'
    <3>1. \A q \in Tasks : /\ task'[q].pc \in {"quieted", "quiet"} => task[q].pc \in {"quieted", "quiet"}
                           /\ Holds(q)' => Holds(q)
      BY <2>1, <2>2 DEF Holds
    <3>2. QED
      BY <2>1, <2>3, <2>4, <3>1 DEF Inv, BarrierInv
  <2>6. QED
    BY <1>f, <2>1, <2>2, <2>5 DEF Holds
<1>2. CASE Quiesce(p)
  <2>1. /\ task[p].pc = "quiesce"
        /\ UNCHANGED <<trans, request, created, running, committing, sequence, barrier, timer, thread, aborted, kpc>>
    BY <1>2 DEF Quiesce, At, journalVars, stateVars
  <2>2. CASE task' = task
    <3>1. SameTrans /\ Requested
      BY <2>1, SameTransStays DEF Requested
    <3>2. QED
      BY <2>1, <2>2, <3>1, Ranges, TaskStep DEF Holds, Bars
  <2>3. CASE ~(running # 0 /\ trans[running].updates > 0) /\ Go(p, "quieted")
    <3>1. /\ task' \in [Tasks -> TaskShape] /\ \A q \in Tasks : q # p => task'[q] = task[q]
          /\ task'[p].pc = "quieted"
      BY <2>3, Going DEF Labels
    <3>2. \A q \in Tasks : ~Holds(q)
      <4>1. CASE running = 0
        BY <4>1 DEF Inv, HandleInv
      <4>2. CASE running # 0
        <5>1. trans[running].updates = Cardinality(Holders(running))
          BY <4>2, Ranges DEF Inv, HandleInv
        <5>2. Cardinality(Holders(running)) = 0
          BY <2>3, <4>2, <5>1, Counted
        <5>3. Holders(running) = {}
          BY <5>2, Counted, FS_EmptySet
        <5>4. QED
          BY <5>3 DEF Inv, HandleInv, Holders, Holds
      <4>3. QED
        BY <4>1, <4>2
    <3>3. BarrierInv'
      <4>1. Barring' = Barring
        BY <2>1, <3>1 DEF Barring, Bars
      <4>2. \A q \in Tasks : ~Holds(q)'
        BY <3>1, <3>2 DEF Holds
      <4>3. QED
        BY <2>1, <4>1, <4>2 DEF Inv, BarrierInv
    <3>4. QED
      BY <1>f, <2>1, <3>1, <3>3 DEF Holds, Inv, Shape
  <2>4. QED
    BY <1>2, <2>2, <2>3 DEF Quiesce
<1>3. CASE LockBarrier(p)
  <2>1. /\ task[p].pc = "quieted" /\ Go(p, "quiet")
        /\ UNCHANGED <<trans, request, created, running, committing, sequence, barrier, timer, thread, aborted, kpc>>
    BY <1>3 DEF LockBarrier, At, journalVars, stateVars, threadVars
  <2>2. /\ task' \in [Tasks -> TaskShape] /\ \A q \in Tasks : q # p => task'[q] = task[q]
        /\ task'[p].pc = "quiet"
    BY <2>1, Going DEF Labels
  <2>3. SameTrans /\ Requested
    BY <2>1, SameTransStays DEF Requested
  <2>4. QED
    BY <2>1, <2>2, <2>3, TaskStep DEF Holds, Bars
<1>4. CASE UnlockUpdates(p)
  <2>1. /\ task[p].pc = "quiet" /\ barrier' = barrier - 1 /\ barrier \in Int /\ Done(p)
        /\ UNCHANGED <<trans, request, created, running, committing, sequence, timer, thread, aborted, kpc>>
    BY <1>4 DEF UnlockUpdates, At, Inv, Shape
  <2>2. /\ task' \in [Tasks -> TaskShape] /\ \A q \in Tasks : q # p => task'[q] = task[q]
        /\ task'[p].pc = "idle"
    BY <2>1, BeingDone
  <2>3. Barring' = Barring \ {p} /\ p \in Barring
    BY <2>1, <2>2 DEF Barring, Bars
  <2>4. Cardinality(Barring \ {p}) = Cardinality(Barring) - 1
    BY <2>3, Counted, FS_RemoveElement
  <2>5. BarrierInv'
    <3>1. \A q \in Tasks : /\ task'[q].pc \in {"quieted", "quiet"} => task[q].pc \in {"quieted", "quiet"}
                           /\ Holds(q)' => Holds(q)
      BY <2>1, <2>2 DEF Holds
    <3>2. QED
      BY <2>1, <2>3, <2>4, <3>1 DEF Inv, BarrierInv
  <2>6. QED
    BY <1>f, <2>1, <2>2, <2>5 DEF Holds
<1>5. QED
  BY <1>1, <1>2, <1>3, <1>4 DEF Barrier

-----------------------------------------------------------------------------
(* Steps of the commit thread, of the timer and of the unmount              *)

\* the tasks go on as they were, as long as no transaction is taken from a handle
LEMMA OthersStay ==
  ASSUME Inv, UNCHANGED <<task, barrier>>, trans' \in [Trans -> TransShape],
         \A t \in Trans : trans'[t].updates = trans[t].updates /\ trans'[t].mapping # Garbage,
         running' = running \/ \A p \in Tasks : ~Holds(p)
  PROVE  HandleInv' /\ BarrierInv' /\ MappingInv'
<1>1. \A q \in Tasks : Holds(q)' <=> Holds(q)
  BY DEF Holds
<1>2. \A t : Holders(t)' = Holders(t)
  BY DEF Holders
<1>3. HandleInv'
  BY <1>1, <1>2 DEF Inv, HandleInv
<1>4. Barring' = Barring
  BY DEF Barring, Bars
<1>5. BarrierInv'
  BY <1>1, <1>4 DEF Inv, BarrierInv
<1>6. MappingInv'
  BY DEF Inv, MappingInv, Tid
<1>7. QED
  BY <1>3, <1>5, <1>6

LEMMA StateSet ==
  ASSUME Inv, NEW t, NEW s \in States, SetState(t, s)
  PROVE  /\ trans' \in [Trans -> TransShape]
         /\ \A u \in Trans : /\ trans'[u].state = (IF u = t THEN s ELSE trans[u].state)
                             /\ trans'[u].updates = trans[u].updates /\ trans'[u].mapping # Garbage
<1>1. trans \in [Trans -> TransShape] /\ \A u \in Trans : trans[u].mapping # Garbage
  BY Ranges DEF Inv, MappingInv
<1>2. QED
  BY <1>1 DEF SetState, TransShape

LEMMA ThreadStep ==
  ASSUME Inv, \/ CommitThread \/ WriteLog \/ Leave \/ Expire \/ TimerFires \/ Abort \/ KillThread
              \/ UNCHANGED vars
  PROVE  Inv'
<1>0. Shape /\ ThreadInv /\ RequestInv /\ UnmountInv
  BY DEF Inv
<1>s. ASSUME UNCHANGED trans
      PROVE  /\ trans' \in [Trans -> TransShape]
             /\ \A t \in Trans : trans'[t].updates = trans[t].updates /\ trans'[t].mapping # Garbage
  BY <1>s, Ranges DEF Inv, MappingInv
<1>1. CASE Loop
  <2>1. /\ kpc = "loop" /\ thread = "runs" /\ committing = 0 /\ timer' \in {timer, FALSE}
        /\ (kpc' = "start" /\ sequence # request /\ timer' = FALSE) \/ kpc' = "woken"
        /\ UNCHANGED <<trans, task, created, running, committing, request, sequence, barrier, thread, aborted>>
    BY <1>0, <1>1 DEF Loop, ThreadInv, Writing
  <2>2. HandleInv' /\ BarrierInv' /\ MappingInv'
    BY <1>s, <2>1, OthersStay
  <2>3. Shape'
    BY <1>0, <2>1 DEF Shape
  <2>4. ThreadInv' /\ RequestInv'
    BY <1>0, <2>1 DEF ThreadInv, RequestInv, Writing, Tid
  <2>5. UnmountInv'
    BY <1>0, <2>1 DEF UnmountInv
  <2>6. QED
    BY <2>2, <2>3, <2>4, <2>5 DEF Inv
<1>2. CASE Woken
  <2>1. /\ kpc = "woken" /\ kpc' = "loop" /\ committing = 0
        /\ request' = request \/ (running # 0 /\ request' = Tid(running))
        /\ UNCHANGED <<trans, task, created, running, committing, sequence, barrier, thread, timer, aborted>>
    BY <1>0, <1>2 DEF Woken, Expired, ThreadInv, Writing, stateVars
  <2>2. HandleInv' /\ BarrierInv' /\ MappingInv'
    BY <1>s, <2>1, OthersStay
  <2>3. Shape'
    BY <1>0, <2>1 DEF Shape
  <2>4. ThreadInv' /\ RequestInv'
    BY <1>0, <2>1 DEF ThreadInv, RequestInv, Writing, Tid
  <2>5. UnmountInv'
    BY <1>0, <2>1 DEF UnmountInv
  <2>6. QED
    BY <2>2, <2>3, <2>4, <2>5 DEF Inv
<1>3. CASE LockTransaction
  <2>1. /\ kpc = "start" /\ kpc' = "drain" /\ running # 0 /\ committing = 0 /\ SetState(running, "locked")
        /\ UNCHANGED <<task, created, running, committing, request, sequence, barrier, thread, timer, aborted>>
    BY <1>0, <1>3 DEF LockTransaction, ThreadInv, Writing, stateVars
  <2>2. /\ trans' \in [Trans -> TransShape]
        /\ \A u \in Trans : /\ trans'[u].state = (IF u = running THEN "locked" ELSE trans[u].state)
                            /\ trans'[u].updates = trans[u].updates /\ trans'[u].mapping # Garbage
    BY <2>1, StateSet DEF States
  <2>3. HandleInv' /\ BarrierInv' /\ MappingInv'
    BY <2>1, <2>2, OthersStay
  <2>4. Shape'
    BY <1>0, <2>1, <2>2 DEF Shape
  <2>5. ThreadInv' /\ RequestInv'
    BY <1>0, <2>1, <2>2, Ranges DEF ThreadInv, RequestInv, Writing, Tid
  <2>6. UnmountInv'
    BY <1>0, <2>1 DEF UnmountInv
  <2>7. QED
    BY <2>3, <2>4, <2>5, <2>6 DEF Inv
<1>4. CASE Drain
  <2>1. /\ kpc = "drain" /\ running # 0 /\ running \in Trans /\ committing = 0
        /\ UNCHANGED <<task, created, request, sequence, barrier, thread, timer, aborted>>
    BY <1>0, <1>4, Ranges DEF Drain, ThreadInv, Writing
  <2>2. CASE UNCHANGED <<trans, running, committing, kpc>>
    BY <1>0, <1>s, <2>1, <2>2, OthersStay DEF Inv, Shape, ThreadInv, RequestInv, UnmountInv, Writing, Tid
  <2>3. CASE ~UpdatesLeft /\ SetState(running, "flush") /\ committing' = running /\ running' = 0 /\ kpc' = "flush"
    <3>1. /\ trans' \in [Trans -> TransShape]
          /\ \A u \in Trans : /\ trans'[u].state = (IF u = running THEN "flush" ELSE trans[u].state)
                              /\ trans'[u].updates = trans[u].updates /\ trans'[u].mapping # Garbage
      BY <2>3, StateSet DEF States
    <3>2. \A p \in Tasks : ~Holds(p)
      <4>1. trans[running].updates = Cardinality(Holders(running))
        BY <2>1 DEF Inv, HandleInv
      <4>2. Cardinality(Holders(running)) = 0
        BY <2>3, <4>1, Counted DEF UpdatesLeft
      <4>3. Holders(running) = {}
        BY <4>2, Counted, FS_EmptySet
      <4>4. QED
        BY <4>3 DEF Inv, HandleInv, Holders, Holds
    <3>3. HandleInv' /\ BarrierInv' /\ MappingInv'
      BY <2>1, <3>1, <3>2, OthersStay
    <3>4. Shape'
      BY <1>0, <2>1, <2>3, <3>1 DEF Shape
    <3>5. ThreadInv' /\ RequestInv'
      BY <1>0, <2>1, <2>3, <3>1 DEF ThreadInv, RequestInv, Writing, Tid
    <3>6. UnmountInv'
      BY <1>0, <2>1, <2>3 DEF UnmountInv
    <3>7. QED
      BY <3>3, <3>4, <3>5, <3>6 DEF Inv
  <2>4. QED
    BY <1>4, <2>2, <2>3 DEF Drain
<1>5. CASE WriteLog
  <2>1. /\ kpc \in {"flush", "commit", "dflush"} /\ kpc' \in {"commit", "dflush", "jflush"}
        /\ committing # 0 /\ committing \in Trans /\ committing # running
        /\ SetState(committing, kpc')
        /\ UNCHANGED <<task, created, running, committing, request, sequence, barrier, thread, timer, aborted>>
    BY <1>0, <1>5, Ranges DEF WriteLog, ThreadInv, Writing, stateVars
  <2>2. /\ trans' \in [Trans -> TransShape]
        /\ \A u \in Trans : /\ trans'[u].state = (IF u = committing THEN kpc' ELSE trans[u].state)
                            /\ trans'[u].updates = trans[u].updates /\ trans'[u].mapping # Garbage
    BY <2>1, StateSet DEF States
  <2>3. HandleInv' /\ BarrierInv' /\ MappingInv'
    BY <2>1, <2>2, OthersStay
  <2>4. Shape'
    BY <1>0, <2>1, <2>2 DEF Shape
  <2>5. ThreadInv' /\ RequestInv'
    BY <1>0, <2>1, <2>2, Ranges DEF ThreadInv, RequestInv, Writing, Tid
  <2>6. UnmountInv'
    BY <1>0, <2>1 DEF UnmountInv
  <2>7. QED
    BY <2>3, <2>4, <2>5, <2>6 DEF Inv
<1>6. CASE EndCommit
  <2>1. /\ kpc = "record" /\ kpc' = "callback" /\ committing # 0 /\ committing # running /\ committing' = 0
        /\ sequence' = Tid(committing) /\ SetState(committing, "callback")
        /\ UNCHANGED <<task, created, running, request, barrier, thread, timer, aborted>>
    BY <1>0, <1>6 DEF EndCommit, ThreadInv, Writing
  <2>2. /\ trans' \in [Trans -> TransShape]
        /\ \A u \in Trans : /\ trans'[u].state = (IF u = committing THEN "callback" ELSE trans[u].state)
                            /\ trans'[u].updates = trans[u].updates /\ trans'[u].mapping # Garbage
    BY <2>1, StateSet DEF States
  <2>3. HandleInv' /\ BarrierInv' /\ MappingInv'
    BY <2>1, <2>2, OthersStay
  <2>4. Shape'
    BY <1>0, <2>1, <2>2 DEF Shape
  <2>5. ThreadInv' /\ RequestInv'
    BY <1>0, <2>1, <2>2, Ranges DEF ThreadInv, RequestInv, Writing, Tid
  <2>6. UnmountInv'
    BY <1>0, <2>1 DEF UnmountInv
  <2>7. QED
    BY <2>3, <2>4, <2>5, <2>6 DEF Inv
<1>7. CASE Finish
  <2>1. PICK t \in Trans : trans[t].state = "callback" /\ SetState(t, "finished")
    BY <1>7 DEF Finish
  <2>2. /\ kpc = "callback" /\ kpc' = "wake" /\ committing = 0 /\ (running # 0 => t # running)
        /\ UNCHANGED <<task, created, running, committing, request, sequence, barrier, thread, timer, aborted>>
    BY <1>0, <1>7, <2>1 DEF Finish, ThreadInv, Writing, stateVars
  <2>3. /\ trans' \in [Trans -> TransShape]
        /\ \A u \in Trans : /\ trans'[u].state = (IF u = t THEN "finished" ELSE trans[u].state)
                            /\ trans'[u].updates = trans[u].updates /\ trans'[u].mapping # Garbage
    BY <2>1, StateSet DEF States
  <2>4. HandleInv' /\ BarrierInv' /\ MappingInv'
    BY <2>2, <2>3, OthersStay
  <2>5. Shape'
    BY <1>0, <2>2, <2>3 DEF Shape
  <2>6. ThreadInv' /\ RequestInv'
    BY <1>0, <2>2, <2>3, Ranges DEF ThreadInv, RequestInv, Writing, Tid
  <2>7. UnmountInv'
    BY <1>0, <2>2 DEF UnmountInv
  <2>8. QED
    BY <2>4, <2>5, <2>6, <2>7 DEF Inv
<1>8. CASE CommitRecord \/ NoRecord \/ WakeWaiters \/ Leave
  <2>1. /\ \/ kpc = "jflush" /\ kpc' = "record"
           \/ kpc = "wake" /\ kpc' = "end"
           \/ kpc = "end" /\ kpc' = (IF thread # "gone" THEN "loop" ELSE "exit")
        /\ UNCHANGED <<trans, task, created, running, committing, request, sequence, barrier, thread, timer, aborted>>
    BY <1>8 DEF CommitRecord, NoRecord, WakeWaiters, Leave, journalVars, stateVars
  <2>2. HandleInv' /\ BarrierInv' /\ MappingInv'
    BY <1>s, <2>1, OthersStay
  <2>3. Shape'
    BY <1>0, <2>1 DEF Shape
  <2>4. ThreadInv' /\ RequestInv'
    BY <1>0, <2>1 DEF ThreadInv, RequestInv, Writing, Tid
  <2>5. UnmountInv'
    BY <1>0, <2>1 DEF UnmountInv
  <2>6. QED
    BY <2>2, <2>3, <2>4, <2>5 DEF Inv
<1>9. CASE ThreadExit \/ FinalCommit \/ KillThread
  <2>1. /\ \/ kpc = "loop" /\ kpc' = "exit" /\ thread = "killed" /\ thread' = "gone" /\ timer' = FALSE
           \/ kpc = "exit" /\ kpc' = "start" /\ running # 0 /\ UNCHANGED <<thread, timer>>
           \/ thread = "runs" /\ thread' = "killed" /\ UNCHANGED <<kpc, timer>> /\ \A p \in Tasks : task[p].pc = "idle"
        /\ UNCHANGED <<trans, task, created, running, committing, request, sequence, barrier, aborted>>
    BY <1>9 DEF ThreadExit, FinalCommit, KillThread, At, journalVars, stateVars
  <2>2. HandleInv' /\ BarrierInv' /\ MappingInv'
    BY <1>s, <2>1, OthersStay
  <2>3. Shape'
    BY <1>0, <2>1 DEF Shape
  <2>4. ThreadInv' /\ RequestInv'
    BY <1>0, <2>1 DEF ThreadInv, RequestInv, UnmountInv, Writing, Tid
  <2>5. UnmountInv'
    BY <1>0, <2>1 DEF UnmountInv
  <2>6. QED
    BY <2>2, <2>3, <2>4, <2>5 DEF Inv
<1>10. CASE TimerFires \/ UNCHANGED vars
  <2>1. /\ timer' = timer \/ timer' = FALSE
        /\ UNCHANGED <<trans, task, created, running, committing, request, sequence, barrier, thread, aborted, kpc>>
    BY <1>10 DEF TimerFires, vars, journalVars, stateVars, threadVars
  <2>2. HandleInv' /\ BarrierInv' /\ MappingInv'
    BY <1>s, <2>1, OthersStay
  <2>3. Shape'
    BY <1>0, <2>1 DEF Shape
  <2>4. ThreadInv' /\ RequestInv'
    BY <1>0, <2>1 DEF ThreadInv, RequestInv, Writing, Tid
  <2>5. UnmountInv'
    <3>1. ~timer => ~timer'
      BY <2>1, Zenon
    <3>2. QED
      BY <1>0, <2>1, <3>1, Zenon DEF UnmountInv
  <2>6. QED
    BY <2>2, <2>3, <2>4, <2>5 DEF Inv
<1>11. CASE Expire \/ Abort
  <2>1. /\ SameTrans /\ Requested /\ aborted' \in BOOLEAN
        /\ UNCHANGED <<task, created, running, committing, sequence, barrier, thread, timer, kpc>>
    <3>1. CASE Expire
      <4>1. /\ running \in Trans /\ trans' = [trans EXCEPT ![running].expired = TRUE]
            /\ UNCHANGED <<request, task, created, running, committing, sequence, barrier, thread, timer, aborted, kpc>>
        BY <3>1, Ranges DEF Expire, stateVars, threadVars
      <4>2. SameTrans
        BY <4>1, Ranges DEF SameTrans, TransShape, Inv, MappingInv
      <4>3. QED
        BY <1>0, <4>1, <4>2 DEF Requested, Shape
    <3>2. CASE Abort
      <4>1. /\ aborted' = TRUE
            /\ UNCHANGED <<task, created, running, committing, sequence, barrier, thread, timer, kpc>>
        BY <3>2 DEF Abort
      <4>2. aborted' \in BOOLEAN
        BY <4>1, Zenon
      <4>3. SameTrans /\ Requested
        <5>1. CASE running # 0
          <6>1. trans[running].mapping \in Inodes \cup {Null}
            BY <5>1, Ranges DEF TransShape, Inv, MappingInv
          <6>2. LogStartCommit(Tid(running), trans[running].mapping)
            BY <3>2, <5>1 DEF Abort
          <6>3. QED
            BY <6>1, <6>2, StartCommit
        <5>2. CASE running = 0
          BY <3>2, <5>2, SameTransStays DEF Abort, Requested
        <5>3. QED
          BY <5>1, <5>2
      <4>4. QED
        BY <4>1, <4>2, <4>3
    <3>3. QED
      BY <1>11, <3>1, <3>2
  <2>2. HandleInv' /\ BarrierInv' /\ MappingInv'
    BY <2>1, OthersStay DEF SameTrans
  <2>3. Shape'
    BY <1>0, <2>1 DEF Shape, SameTrans
  <2>4. ThreadInv' /\ RequestInv'
    BY <1>0, <2>1, Ranges DEF ThreadInv, RequestInv, SameTrans, Requested, Writing, Tid
  <2>5. UnmountInv'
    BY <1>0, <2>1 DEF UnmountInv
  <2>6. QED
    BY <2>2, <2>3, <2>4, <2>5 DEF Inv
<1>12. QED
  BY <1>1, <1>2, <1>3, <1>4, <1>5, <1>6, <1>7, <1>8, <1>9, <1>10, <1>11 DEF CommitThread

LEMMA StepInv == Inv /\ [Next]_vars => Inv'
<1> SUFFICES ASSUME Inv, [Next]_vars PROVE Inv'
  OBVIOUS
<1>1. ASSUME NEW p \in Tasks, Handle(p) PROVE Inv'
  BY <1>1, StartingStep, TransactionCreated, CallingStep, HandleTaken, StoppingStep DEF Handle
<1>2. ASSUME NEW p \in Tasks, Commits(p) PROVE Inv'
  BY <1>2, CallingStep DEF Commits
<1>3. ASSUME NEW p \in Tasks, Choice(p) PROVE Inv'
  <2>1. CASE \E n \in Asks : Restart(p, n)
    BY <2>1, StoppingStep
  <2>2. CASE \E n \in Asks : JournalStart(p, n, FALSE) \/ JournalStart(p, n, TRUE)
    <3>1. \E n \in Asks, s \in BOOLEAN : JournalStart(p, n, s)
      BY <2>2
    <3>2. QED
      BY <3>1, CallingStep
  <2>3. CASE Extend(p) \/ SyncFs(p) \/ ForceNested(p)
    BY <2>3, CallingStep
  <2>4. CASE LockUpdates(p)
    BY <2>4, BarrierStep
  <2>5. QED
    BY <1>3, <2>1, <2>2, <2>3, <2>4 DEF Choice
<1>4. ASSUME NEW p \in Tasks, Barrier(p) PROVE Inv'
  BY <1>4, BarrierStep
<1>5. CASE \/ CommitThread \/ WriteLog \/ Leave \/ Expire \/ TimerFires \/ Abort \/ KillThread
           \/ UNCHANGED vars
  BY <1>5, ThreadStep
<1>6. QED
  BY <1>1, <1>2, <1>3, <1>4, <1>5 DEF Next

LEMMA Invariance == Spec => []Inv
<1>1. QED
  BY InitInv, StepInv, PTL DEF Spec

-----------------------------------------------------------------------------
(* The properties                                                           *)

\* t_updates is always the number of a transaction's handles, and a transaction past
\* T_LOCKED has none: what jbd2_journal_commit_transaction writes does not change under it.
THEOREM QuietCommit == Spec => []CommitsQuietly
<1>1. Inv => CommitsQuietly
  <2> SUFFICES ASSUME Inv, NEW t \in Trans
               PROVE  /\ trans[t].updates = Cardinality(Holders(t))
                      /\ Holders(t) # {} => trans[t].state \in {"running", "locked"}
    BY DEF CommitsQuietly
  <2>1. trans[t].updates = Cardinality(Holders(t))
    BY DEF Inv, HandleInv
  <2>2. ASSUME Holders(t) # {} PROVE trans[t].state \in {"running", "locked"}
    <3>1. PICK p \in Tasks : Holds(p) /\ task[p].trans = t
      BY <2>2 DEF Holders, Holds
    <3>2. running # 0 /\ t = running
      BY <3>1 DEF Inv, HandleInv
    <3>3. QED
      BY <3>2 DEF Inv, ThreadInv
  <2>3. QED
    BY <2>1, <2>2
<1>2. QED
  BY <1>1, Invariance, PTL

\* While a task has updates locked nobody holds a handle, however many tasks lock them at
\* once: j_barrier_count is raised before the handles are waited for.
THEOREM LockedUpdates == Spec => []UpdatesStayLocked
<1>1. Inv => UpdatesStayLocked
  BY DEF Inv, BarrierInv, UpdatesStayLocked, At, Holders, Holds
<1>2. QED
  BY <1>1, Invariance, PTL

\* The assertions with which jbd2_journal_commit_transaction starts hold, whoever raised
\* j_commit_request and with whatever number, and in the unmount's own commits.
THEOREM CommitStarts == Spec => []CommitHasTransaction
<1>1. Inv => CommitHasTransaction
  <2> SUFFICES ASSUME Inv, kpc = "start"
               PROVE  /\ running # 0 /\ committing = 0 /\ trans[running].state = "running" /\ ~timer
                      /\ thread # "gone" => Tid(running) = request
    BY DEF CommitHasTransaction
  <2>1. running # 0 /\ committing = 0 /\ trans[running].state = "running"
    BY DEF Inv, ThreadInv, Writing
  <2>2. ~timer
    BY Zenon DEF Inv, UnmountInv
  <2>3. thread # "gone" => Tid(running) = request
    BY DEF Inv, RequestInv
  <2>4. QED
    BY <2>1, <2>2, <2>3
<1>2. QED
  BY <1>1, Invariance, PTL

\* A mapping that start_this_handle, jbd2_journal_restart or force_commit_nested reads from
\* a freed transaction is never stored: as fewer transactions than numbers are in question,
\* the number it comes with is no running transaction's any more.
THEOREM MappingsStay == Spec => []NoGarbageMapping
<1>1. Inv => NoGarbageMapping
  BY DEF Inv, MappingInv, NoGarbageMapping
<1>2. QED
  BY <1>1, Invariance, PTL

=============================================================================
