-------------------------- MODULE BlockQueue_proofs --------------------------
(***************************************************************************)
(* Proofs about the request queue, for any number of processes, bios and   *)
(* requeues, any size of the list and of the plugs.                        *)
(***************************************************************************)
EXTENDS BlockQueue, FiniteSetTheorems, TLAPS

-----------------------------------------------------------------------------
(* What each request and each process may be doing                          *)

Shape ==
  /\ submitter \in [Bios -> Procs \cup {NULL}]
  /\ place \in [Requests -> Places] /\ bios \in [Requests -> SUBSET Bios]
  /\ started \subseteq Requests /\ issues \in [Requests -> Nat]
  /\ dispatch \in Seq(Requests)
  /\ pc \in [Procs -> {"idle", "queue", "retry", "schedule", "asleep", "got"}]
  /\ bio \in [Procs -> Bios \cup {NULL}]
  /\ count \in Int
  /\ cleanup \in {"alive", "dying", "dead"}

\* bios are numbered as they are submitted
InOrder == \E k \in 0..MaxBios : Submitted = 1..k

\* a process in blk_queue_bio has a bio of its own, whose request is not in use yet
OwnBio ==
  \A p \in Procs : pc[p] # "idle" =>
    bio[p] \in Bios /\ submitter[bio[p]] = p /\ place[bio[p]] = "free"

\* requests that are still to come
Future(r) == submitter[r] = NULL \/ \E p \in Procs : pc[p] # "idle" /\ bio[p] = r

NoneEarly == \A r \in Requests : submitter[r] = NULL => place[r] = "free"

\* the queue of the driver holds each dispatched request once
DispatchInv ==
  /\ \A i \in 1..Len(dispatch) : place[dispatch[i]] = "dispatch"
  /\ \A i, j \in 1..Len(dispatch) : dispatch[i] = dispatch[j] => i = j

\* what blk_flush_plug_list does to the places: the requests in `gone' are freed
FlushedTo(p, gone) ==
  /\ place' = [r \in Requests |-> IF r \in gone THEN "free"
                                  ELSE IF r \in PlugOf(p) THEN "elevator" ELSE place[r]]
  /\ count' = count - Cardinality(gone)
  /\ bios' \in [Requests -> SUBSET Bios]
  /\ \A r \in Requests : place[r] \notin {"plug", "elevator"} => bios'[r] = bios[r]
  /\ Dying \/ UNCHANGED reported

LEMMA Constants ==
  /\ MaxBios \in Nat /\ Bios = 1..MaxBios /\ Requests = 1..MaxBios
  /\ IsFiniteSet(Requests) /\ IsFiniteSet(Procs) /\ NULL \notin Procs
<1>1. MaxBios \in Nat /\ 1 \in Int
  BY LimitAssumption
<1>2. QED
  BY <1>1, ProcAssumption, FS_Interval DEF Bios, Requests

LEMMA Flushes ==
  ASSUME Shape, NEW p \in Procs, FlushPlug(p)
  PROVE  \E gone \in SUBSET PlugOf(p) : FlushedTo(p, gone)
<1>0. /\ place \in [Requests -> Places] /\ bios \in [Requests -> SUBSET Bios]
      /\ PlugOf(p) \subseteq Requests /\ \A r \in PlugOf(p) : place[r] = "plug"
  BY DEF Shape, PlugOf, In
<1>1. CASE Dying
  <2>1. /\ place' = [r \in Requests |-> IF r \in PlugOf(p) THEN "free" ELSE place[r]]
        /\ bios' = [r \in Requests |-> IF r \in PlugOf(p) THEN {} ELSE bios[r]]
        /\ count' = count - Cardinality(PlugOf(p))
    BY <1>1 DEF FlushPlug, EndPlug, FreedRequests, Freed
  <2>2. bios' \in [Requests -> SUBSET Bios]
    BY <1>0, <2>1
  <2>3. FlushedTo(p, PlugOf(p))
    BY <1>0, <1>1, <2>1, <2>2 DEF FlushedTo
  <2>4. QED
    BY <2>3
<1>2. CASE ~Dying
  <2>1. PICK merged \in SUBSET PlugOf(p) :
          \E into \in [merged -> In("elevator") \cup (PlugOf(p) \ merged)] :
            /\ place' = [r \in Requests |-> IF r \in merged THEN "free" ELSE IF r \in PlugOf(p) THEN "elevator" ELSE place[r]]
            /\ bios' = [r \in Requests |-> IF r \in merged THEN {}
                                           ELSE bios[r] \cup UNION {bios[s] : s \in {t \in merged : into[t] = r}}]
            /\ FreedRequests(Cardinality(merged))
            /\ UNCHANGED <<ended, reported>>
    BY <1>2 DEF FlushPlug, SortMerge
  <2>2. PICK into \in [merged -> In("elevator") \cup (PlugOf(p) \ merged)] :
          bios' = [r \in Requests |-> IF r \in merged THEN {}
                                      ELSE bios[r] \cup UNION {bios[s] : s \in {t \in merged : into[t] = r}}]
    BY <2>1
  <2>3. bios' \in [Requests -> SUBSET Bios]
    <3>1. \A r \in Requests : UNION {bios[s] : s \in {t \in merged : into[t] = r}} \subseteq Bios
      BY <1>0
    <3>2. QED
      BY <1>0, <2>2, <3>1
  <2>4. \A r \in Requests : place[r] \notin {"plug", "elevator"} => bios'[r] = bios[r]
    <3> SUFFICES ASSUME NEW r \in Requests, place[r] \notin {"plug", "elevator"}
                 PROVE  bios'[r] = bios[r]
      OBVIOUS
    <3>1. r \notin merged /\ {t \in merged : into[t] = r} = {}
      BY <1>0 DEF In
    <3>2. QED
      BY <2>2, <3>1
  <2>5. FlushedTo(p, merged)
    BY <2>1, <2>3, <2>4 DEF FlushedTo, FreedRequests
  <2>6. QED
    BY <2>5
<1>3. QED
  BY <1>1, <1>2

-----------------------------------------------------------------------------
(* Every step keeps to that                                                 *)

Base == Shape /\ InOrder /\ OwnBio /\ NoneEarly

LEMMA NextIsNew ==
  ASSUME Base, NextBio <= MaxBios
  PROVE  NextBio \in Bios /\ submitter[NextBio] = NULL /\ Submitted \cup {NextBio} = 1..NextBio
<1>1. PICK k \in 0..MaxBios : Submitted = 1..k
  BY DEF Base, InOrder
<1>2. k \in Nat /\ Cardinality(Submitted) = k
  BY <1>1, Constants, FS_Interval
<1>3. NextBio = k + 1 /\ NextBio \in Bios
  BY <1>2, Constants DEF NextBio
<1>4. QED
  BY <1>1, <1>2, <1>3 DEF Submitted

LEMMA BaseInit == Init => Base
<1> SUFFICES ASSUME Init PROVE Base
  OBVIOUS
<1>1. Shape
  BY DEF Init, Shape, Places
<1>2. Submitted = 1..0
  BY DEF Init, Submitted
<1>3. InOrder
  <2>1. 0 \in 0..MaxBios
    BY Constants
  <2>2. QED
    BY <1>2, <2>1 DEF InOrder
<1>4. QED
  BY <1>1, <1>3 DEF Init, Base, OwnBio, NoneEarly

\* a step of the list, the plugs, the elevator and the driver
LEMMA BaseRequests ==
  ASSUME Base, UNCHANGED <<submitter, procVars>>,
         place' \in [Requests -> Places], \A r \in Requests : place[r] = "free" => place'[r] = "free",
         bios' \in [Requests -> SUBSET Bios], started' \subseteq Requests, issues' \in [Requests -> Nat],
         dispatch' \in Seq(Requests), count' \in Int, cleanup' \in {"alive", "dying", "dead"}
  PROVE  Base'
<1>1. Shape' /\ InOrder'
  BY DEF Base, Shape, InOrder, Submitted, procVars
<1>2. OwnBio'
  BY DEF Base, OwnBio, procVars, Bios, Requests
<1>3. NoneEarly'
  BY DEF Base, NoneEarly
<1>4. QED
  BY <1>1, <1>2, <1>3 DEF Base

\* a process goes on
LEMMA BaseGoes ==
  ASSUME Base, NEW p \in Procs, pc[p] # "idle",
         NEW l \in {"queue", "retry", "schedule", "asleep", "got"}, pc' = [pc EXCEPT ![p] = l],
         UNCHANGED <<submitter, started, issues, dispatch, cleanup, bio>>,
         place' \in [Requests -> Places], \A r \in Requests : place[r] = "free" => place'[r] = "free",
         bios' \in [Requests -> SUBSET Bios], count' \in Int
  PROVE  Base'
<1>1. Shape' /\ InOrder' /\ NoneEarly'
  BY DEF Base, Shape, InOrder, NoneEarly, Submitted
<1>2. \A q \in Procs : pc'[q] # "idle" => pc[q] # "idle"
  BY DEF Base, Shape
<1>3. OwnBio'
  BY <1>2 DEF Base, OwnBio, Bios, Requests
<1>4. QED
  BY <1>1, <1>3 DEF Base

\* a process is done with its bio
LEMMA BaseDone ==
  ASSUME Base, NEW p \in Procs, pc[p] # "idle", Done(p),
         UNCHANGED <<submitter, started, issues, dispatch, cleanup>>,
         place' \in [Requests -> Places],
         \A r \in Requests : place[r] = "free" => place'[r] = "free" \/ r = bio[p],
         bios' \in [Requests -> SUBSET Bios], count' \in Int
  PROVE  Base'
<1>1. Shape' /\ InOrder'
  BY DEF Base, Shape, InOrder, Submitted, Done
<1>2. \A q \in Procs : pc'[q] # "idle" => q # p /\ pc[q] # "idle" /\ bio'[q] = bio[q]
  BY DEF Base, Shape, Done
<1>3. OwnBio'
  <2> SUFFICES ASSUME NEW q \in Procs, pc'[q] # "idle"
               PROVE  bio'[q] \in Bios /\ submitter'[bio'[q]] = q /\ place'[bio'[q]] = "free"
    BY DEF OwnBio
  <2>1. q # p /\ bio'[q] = bio[q] /\ bio[q] \in Bios /\ submitter[bio[q]] = q /\ place[bio[q]] = "free"
    BY <1>2 DEF Base, OwnBio
  <2>2. bio[q] # bio[p]
    BY <2>1 DEF Base, OwnBio
  <2>3. QED
    BY <2>1, <2>2 DEF Bios, Requests
<1>4. NoneEarly'
  <2> SUFFICES ASSUME NEW r \in Requests, submitter[r] = NULL PROVE place'[r] = "free"
    BY DEF NoneEarly
  <2>1. place[r] = "free"
    BY DEF Base, NoneEarly
  <2>2. r # bio[p]
    BY Constants DEF Base, OwnBio
  <2>3. QED
    BY <2>1, <2>2
<1>5. QED
  BY <1>1, <1>3, <1>4 DEF Base

LEMMA FirstDispatched ==
  ASSUME Base, DispatchInv, dispatch # <<>>
  PROVE  /\ Head(dispatch) \in Requests /\ place[Head(dispatch)] = "dispatch"
         /\ Tail(dispatch) \in Seq(Requests)
         /\ Len(Tail(dispatch)) = Len(dispatch) - 1
         /\ \A i \in 1..Len(Tail(dispatch)) :
              Tail(dispatch)[i] = dispatch[i + 1] /\ Tail(dispatch)[i] # Head(dispatch)
<1>1. dispatch \in Seq(Requests)
  BY DEF Base, Shape
<1>2. Head(dispatch) = dispatch[1] /\ 1 \in 1..Len(dispatch) /\ Len(dispatch) \in Nat
  BY <1>1
<1>3. /\ Tail(dispatch) \in Seq(Requests) /\ Len(Tail(dispatch)) = Len(dispatch) - 1
      /\ \A i \in 1..Len(Tail(dispatch)) : Tail(dispatch)[i] = dispatch[i + 1]
  BY <1>1
<1>4. ASSUME NEW i \in 1..Len(Tail(dispatch)) PROVE Tail(dispatch)[i] # Head(dispatch)
  <2>1. i + 1 \in 1..Len(dispatch) /\ i + 1 # 1
    BY <1>2, <1>3
  <2>2. QED
    BY <1>2, <1>3, <2>1 DEF DispatchInv
<1>5. QED
  BY <1>1, <1>2, <1>3, <1>4 DEF DispatchInv

LEMMA BaseStep == Base /\ DispatchInv /\ [Next]_vars => Base'
<1> SUFFICES ASSUME Base, DispatchInv, [Next]_vars PROVE Base'
  OBVIOUS
<1>0. /\ submitter \in [Bios -> Procs \cup {NULL}]
      /\ place \in [Requests -> Places] /\ bios \in [Requests -> SUBSET Bios]
      /\ started \subseteq Requests /\ issues \in [Requests -> Nat]
      /\ dispatch \in Seq(Requests)
      /\ pc \in [Procs -> {"idle", "queue", "retry", "schedule", "asleep", "got"}]
      /\ bio \in [Procs -> Bios \cup {NULL}]
      /\ count \in Int /\ cleanup \in {"alive", "dying", "dead"}
  BY DEF Base, Shape
<1>f. ASSUME NEW n \in Int, FreedRequests(n) PROVE count' \in Int
  BY <1>0, <1>f DEF FreedRequests
<1>1. ASSUME NEW p \in Procs, StartPlug(p) PROVE Base'
  BY <1>1 DEF StartPlug, bioVars, requestVars, listVars, Base, Shape, InOrder, Submitted, OwnBio, NoneEarly
<1>2. ASSUME NEW p \in Procs, Submit(p) PROVE Base'
  <2>1. /\ pc[p] = "idle" /\ NextBio <= MaxBios
        /\ submitter' = [submitter EXCEPT ![NextBio] = p]
        /\ UNCHANGED <<place, started, issues, dispatch, count, cleanup>>
    BY <1>2 DEF Submit, listVars
  <2>2. NextBio \in Bios /\ submitter[NextBio] = NULL /\ Submitted \cup {NextBio} = 1..NextBio
    BY <2>1, NextIsNew
  <2>3. bios' \in [Requests -> SUBSET Bios]
    <3>1. CASE bios' = bios
      BY <1>0, <3>1
    <3>2. ASSUME NEW r \in Requests, bios' = [bios EXCEPT ![r] = @ \cup {NextBio}]
          PROVE  bios' \in [Requests -> SUBSET Bios]
      BY <1>0, <2>2, <3>2
    <3>3. QED
      BY <1>2, <3>1, <3>2 DEF Submit, PlugOf, In
  <2>4. \/ UNCHANGED <<pc, bio>>
        \/ pc' = [pc EXCEPT ![p] = "queue"] /\ bio' = [bio EXCEPT ![p] = NextBio]
    BY <1>2 DEF Submit
  <2>5. Shape'
    BY <1>0, <2>1, <2>2, <2>3, <2>4 DEF Shape
  <2>6. InOrder'
    <3>1. Submitted' = Submitted \cup {NextBio}
      BY <1>0, <2>1, <2>2, Constants DEF Submitted
    <3>2. NextBio \in 0..MaxBios
      BY <2>2, Constants
    <3>3. QED
      BY <2>2, <3>1, <3>2 DEF InOrder
  <2>7. OwnBio'
    <3> SUFFICES ASSUME NEW q \in Procs, pc'[q] # "idle"
                 PROVE  bio'[q] \in Bios /\ submitter'[bio'[q]] = q /\ place'[bio'[q]] = "free"
      BY DEF OwnBio
    <3>1. CASE pc[q] # "idle"
      <4>1. bio[q] \in Bios /\ submitter[bio[q]] = q /\ place[bio[q]] = "free"
        BY <3>1 DEF Base, OwnBio
      <4>2. bio[q] # NextBio /\ bio'[q] = bio[q]
        BY <1>0, <2>1, <2>2, <2>4, <3>1, <4>1, Constants
      <4>3. QED
        BY <1>0, <2>1, <4>1, <4>2
    <3>2. CASE pc[q] = "idle"
      <4>1. q = p /\ bio'[q] = NextBio
        BY <1>0, <2>4, <3>2
      <4>2. place[NextBio] = "free"
        BY <2>2 DEF Base, NoneEarly, Bios, Requests
      <4>3. QED
        BY <1>0, <2>1, <2>2, <4>1, <4>2
    <3>3. QED
      BY <3>1, <3>2
  <2>8. NoneEarly'
    BY <1>0, <2>1, <2>2, Constants DEF Base, NoneEarly
  <2>9. QED
    BY <2>5, <2>6, <2>7, <2>8 DEF Base
<1>3. ASSUME NEW p \in Procs, Call(p) PROVE Base'
  <2>1. CASE MergeBio(p)
    <3>1. pc[p] # "idle" /\ bio[p] \in Bios
      BY <2>1 DEF MergeBio, Base, OwnBio
    <3>2. PICK r \in Mergeable : bios' = [bios EXCEPT ![r] = @ \cup {bio[p]}]
      BY <2>1 DEF MergeBio
    <3>3. bios' \in [Requests -> SUBSET Bios]
      <4>1. r \in Requests
        BY DEF Mergeable, In
      <4>2. QED
        BY <1>0, <3>1, <3>2, <4>1
    <3>4. UNCHANGED <<submitter, started, issues, dispatch, cleanup, place, count>> /\ Done(p)
      BY <2>1 DEF MergeBio, bioVars, listVars
    <3>5. QED
      BY <1>0, <3>1, <3>3, <3>4, BaseDone
  <2>2. CASE MergeRequests(p)
    <3>1. pc[p] # "idle" /\ bio[p] \in Bios
      BY <2>2 DEF MergeRequests, Base, OwnBio
    <3>2. PICK r \in In("elevator"), s \in In("elevator") :
            /\ bios' = [bios EXCEPT ![r] = @ \cup {bio[p]} \cup bios[s], ![s] = {}]
            /\ place' = [place EXCEPT ![s] = "free"]
      BY <2>2 DEF MergeRequests
    <3>3. r \in Requests /\ s \in Requests
      BY DEF In
    <3>4. bios' \in [Requests -> SUBSET Bios]
      BY <1>0, <3>1, <3>2, <3>3
    <3>5. place' \in [Requests -> Places] /\ \A q \in Requests : place[q] = "free" => place'[q] = "free"
      BY <1>0, <3>2, <3>3 DEF Places
    <3>6. UNCHANGED <<submitter, started, issues, dispatch, cleanup>> /\ Done(p) /\ FreedRequests(1)
      BY <2>2 DEF MergeRequests, bioVars
    <3>7. count' \in Int
      BY <1>f, <3>6
    <3>8. QED
      BY <3>1, <3>4, <3>5, <3>6, <3>7, BaseDone
  <2>3. CASE QueueDead(p)
    <3>1. pc[p] # "idle" /\ Done(p)
      BY <2>3 DEF QueueDead, AtQueue
    <3>2. UNCHANGED <<submitter, started, issues, dispatch, cleanup, place, bios, count>>
      BY <2>3 DEF QueueDead, requestVars, listVars
    <3>3. QED
      BY <1>0, <3>1, <3>2, BaseDone
  <2>4. CASE GetRequest(p)
    <3>1. count' \in Int /\ pc[p] # "idle" /\ pc' = [pc EXCEPT ![p] = "got"]
      BY <1>0, <2>4 DEF GetRequest, AtQueue
    <3>2. UNCHANGED <<submitter, started, issues, dispatch, cleanup, place, bios, bio>>
      BY <2>4 DEF GetRequest, bioVars, requestVars
    <3>3. QED
      BY <1>0, <3>1, <3>2, BaseGoes
  <2>5. CASE Wait(p)
    <3>1. pc[p] # "idle" /\ pc' = [pc EXCEPT ![p] = "schedule"]
      BY <2>5 DEF Wait, AtQueue
    <3>2. UNCHANGED <<submitter, started, issues, dispatch, cleanup, place, bios, bio, count>>
      BY <2>5 DEF Wait, bioVars, requestVars
    <3>3. QED
      BY <1>0, <3>1, <3>2, BaseGoes
  <2>6. ASSUME FlushPlug(p)
        PROVE  /\ place' \in [Requests -> Places] /\ bios' \in [Requests -> SUBSET Bios] /\ count' \in Int
               /\ \A r \in Requests : place[r] = "free" => place'[r] = "free"
    <3>1. PICK gone \in SUBSET PlugOf(p) : FlushedTo(p, gone)
      BY <2>6, Flushes DEF Base
    <3>2. gone \in SUBSET Requests
      BY DEF PlugOf, In
    <3>3. IsFiniteSet(gone)
      BY <3>2, Constants, FS_Subset
    <3>4. Cardinality(gone) \in Int
      BY <3>3, FS_CardinalityType
    <3>5. count' \in Int /\ bios' \in [Requests -> SUBSET Bios]
      BY <1>0, <3>1, <3>4 DEF FlushedTo
    <3>6. QED
      BY <1>0, <3>1, <3>5 DEF FlushedTo, PlugOf, In, Places
  <2>7. CASE Schedule(p)
    <3>1. FlushPlug(p) /\ pc[p] # "idle" /\ pc' = [pc EXCEPT ![p] = "asleep"]
      BY <2>7 DEF Schedule, Asleep
    <3>2. UNCHANGED <<submitter, started, issues, dispatch, cleanup, bio>>
      BY <2>7 DEF Schedule
    <3>3. QED
      BY <2>6, <3>1, <3>2, BaseGoes
  <2>8. CASE FlushFullPlug(p) \/ FinishPlug(p)
    <3>1. FlushPlug(p) /\ UNCHANGED <<submitter, started, issues, dispatch, pc, bio, cleanup>>
      BY <2>8 DEF FlushFullPlug, FinishPlug
    <3>2. Shape' /\ InOrder' /\ NoneEarly'
      BY <1>0, <2>6, <3>1 DEF Base, Shape, InOrder, Submitted, NoneEarly
    <3>3. OwnBio'
      BY <2>6, <3>1 DEF Base, OwnBio, Bios, Requests
    <3>4. QED
      BY <3>2, <3>3 DEF Base
  <2>9. CASE Woken(p)
    <3>1. pc[p] # "idle" /\ pc' = [pc EXCEPT ![p] = "retry"]
      BY <2>9 DEF Woken
    <3>2. UNCHANGED <<submitter, started, issues, dispatch, cleanup, place, bios, bio, count>>
      BY <2>9 DEF Woken, bioVars, requestVars, listVars
    <3>3. QED
      BY <1>0, <3>1, <3>2, BaseGoes
  <2>10. CASE Insert(p)
    <3>1. pc[p] # "idle" /\ bio[p] \in Requests /\ Bios = Requests
      BY <2>10 DEF Insert, Base, OwnBio, Requests
    <3>2. /\ place' \in [Requests -> Places]
          /\ \A r \in Requests : place[r] = "free" => place'[r] = "free" \/ r = bio[p]
      BY <1>0, <2>10, <3>1 DEF Insert, Places
    <3>3. bios' \in [Requests -> SUBSET Bios]
      BY <1>0, <2>10, <3>1 DEF Insert
    <3>4. UNCHANGED <<submitter, started, issues, dispatch, cleanup, count>> /\ Done(p)
      BY <2>10 DEF Insert, bioVars, listVars
    <3>5. QED
      BY <1>0, <3>1, <3>2, <3>3, <3>4, BaseDone
  <2>11. QED
    BY <1>3, <2>1, <2>2, <2>3, <2>4, <2>5, <2>7, <2>8, <2>9, <2>10 DEF Call
<1>i. ASSUME NEW r \in Requests, Issue(r)
      PROVE  started' \subseteq Requests /\ issues' \in [Requests -> Nat]
  <2>1. CASE r \in started
    BY <1>0, <1>i, <2>1 DEF Issue
  <2>2. CASE r \notin started
    <3>1. started' = started \cup {r} /\ issues' = [issues EXCEPT ![r] = @ + 1]
      BY <1>i, <2>2 DEF Issue
    <3>2. QED
      BY <1>0, <1>i, <3>1
  <2>3. QED
    BY <2>1, <2>2
<1>h. dispatch # <<>> => Head(dispatch) \in Requests /\ Tail(dispatch) \in Seq(Requests)
  BY <1>0
<1>4. CASE Dispatch
  <2>1. PICK r \in Requests : place[r] = "elevator" /\ place' = [place EXCEPT ![r] = "dispatch"]
                              /\ dispatch' = Append(dispatch, r)
    BY <1>4 DEF Dispatch, In
  <2>2. UNCHANGED <<submitter, procVars, bios, started, issues, count, cleanup>>
    BY <1>4 DEF Dispatch, bioVars, listVars
  <2>3. dispatch' \in Seq(Requests)
    BY <1>0, <2>1
  <2>4. QED
    BY <1>0, <2>1, <2>2, <2>3, BaseRequests DEF Places
<1>5. CASE Fetch \/ Defer
  <2>1. dispatch # <<>> /\ Issue(Head(dispatch)) /\ Head(dispatch) \in Requests
    BY <1>5, <1>h DEF Fetch, Defer
  <2>2. started' \subseteq Requests /\ issues' \in [Requests -> Nat]
    BY <1>i, <2>1
  <2>3. UNCHANGED <<submitter, procVars, bios, count, cleanup>>
    BY <1>5 DEF Fetch, Defer, listVars
  <2>4. dispatch' \in Seq(Requests)
    BY <1>0, <1>5, <1>h DEF Fetch, Defer
  <2>5. place' \in [Requests -> Places] /\ \A r \in Requests : place[r] = "free" => place'[r] = "free"
    <3>1. CASE Defer
      BY <1>0, <3>1 DEF Defer
    <3>2. CASE Fetch
      <4>1. place' = [place EXCEPT ![Head(dispatch)] = "driver"]
        BY <3>2 DEF Fetch
      <4>2. place[Head(dispatch)] = "dispatch"
        BY <2>1, FirstDispatched
      <4>3. QED
        BY <1>0, <4>1, <4>2 DEF Places
    <3>3. QED
      BY <1>5, <3>1, <3>2
  <2>6. QED
    BY <1>0, <2>2, <2>3, <2>4, <2>5, BaseRequests
<1>6. CASE Requeue
  BY <1>0, <1>6, BaseRequests DEF Requeue, In, Places, bioVars, listVars
<1>7. CASE EndRequest
  BY <1>0, <1>7, BaseRequests DEF EndRequest, Update, In, Places, listVars
<1>8. CASE FinishRequest
  BY <1>0, <1>f, <1>8, BaseRequests DEF FinishRequest, In, Places, bioVars
<1>9. CASE Kill
  BY <1>0, <1>f, <1>i, <1>h, <1>9, BaseRequests DEF Kill, Update, Places
<1>10. CASE Die \/ Dead
  BY <1>0, <1>10, BaseRequests DEF Die, Dead, bioVars, requestVars, listVars
<1>11. CASE UNCHANGED vars
  BY <1>0, <1>11, BaseRequests DEF vars, bioVars, requestVars, listVars
<1>12. QED
  BY <1>1, <1>2, <1>3, <1>4, <1>5, <1>6, <1>7, <1>8, <1>9, <1>10, <1>11 DEF Next

-----------------------------------------------------------------------------
(* Issue records                                                            *)

\* what has not reached the driver's queue is untraced; from there on REQ_STARTED tells
IssueInv ==
  \A r \in Requests :
    /\ place[r] \in {"plug", "elevator"} \/ Future(r) => r \notin started /\ issues[r] = 0
    /\ place[r] = "dispatch" => issues[r] = IF r \in started THEN 1 ELSE 0
    /\ place[r] = "driver" => r \in started /\ issues[r] = 1

\* the bios of a request that was issued are on record, and none joins it later
RecordInv ==
  /\ \A r \in Requests : r \in started /\ place[r] \in {"dispatch", "driver", "ended"} => bios[r] \subseteq issued
  /\ Dying \/ reported \subseteq issued

Records == DispatchInv /\ IssueInv /\ RecordInv

LEMMA RecordsInit == Init => Records
BY DEF Init, Records, DispatchInv, IssueInv, RecordInv, Dying

\* Which requests are to come only changes when a bio is submitted or its request put in.
LEMMA FutureStays ==
  ASSUME Base, NEW r \in Requests, UNCHANGED submitter, Future(r)',
         \A p \in Procs : pc'[p] # "idle" => pc[p] # "idle" /\ bio'[p] = bio[p]
  PROVE  Future(r)
BY DEF Future

LEMMA FutureFree ==
  ASSUME Base, NEW r \in Requests, Future(r)
  PROVE  place[r] = "free"
BY DEF Base, OwnBio, NoneEarly, Future

\* a step of a process that leaves the driver and its queue alone
LEMMA RecordsProc ==
  ASSUME Base, Records, UNCHANGED <<issued, started, issues, dispatch, cleanup>>,
         Dying \/ UNCHANGED reported,
         \A r \in Requests : Future(r)' => Future(r),
         \A r \in Requests :
           \/ place'[r] = place[r]
           \/ place'[r] = "free"  /\ place[r] \in {"plug", "elevator"}
           \/ place'[r] = "elevator" /\ place[r] = "plug"
           \/ place'[r] \in {"plug", "elevator"} /\ Future(r),
         \A r \in Requests : place[r] \in {"dispatch", "driver", "ended"} => bios'[r] = bios[r]
  PROVE  Records'
<1>1. DispatchInv'
  BY FutureFree DEF Records, DispatchInv, Base, Shape
<1>2. IssueInv'
  BY FutureFree DEF Records, IssueInv
<1>3. RecordInv'
  BY FutureFree DEF Records, RecordInv, Dying
<1>4. QED
  BY <1>1, <1>2, <1>3 DEF Records

LEMMA CallRecords ==
  ASSUME Base, Records, NEW p \in Procs, Call(p)
  PROVE  Records'
<1>0. /\ place \in [Requests -> Places] /\ bios \in [Requests -> SUBSET Bios]
      /\ pc \in [Procs -> {"idle", "queue", "retry", "schedule", "asleep", "got"}]
      /\ bio \in [Procs -> Bios \cup {NULL}]
  BY DEF Base, Shape
<1>f. ASSUME UNCHANGED submitter,
             \A q \in Procs : pc'[q] # "idle" => pc[q] # "idle" /\ bio'[q] = bio[q]
      PROVE  \A r \in Requests : Future(r)' => Future(r)
  BY <1>f, FutureStays
<1>1. CASE MergeBio(p)
  <2>1. \A r \in Requests : place[r] \in {"dispatch", "driver", "ended"} => bios'[r] = bios[r]
    BY <1>0, <1>1 DEF MergeBio, Mergeable, In
  <2>2. \A q \in Procs : pc'[q] # "idle" => pc[q] # "idle" /\ bio'[q] = bio[q]
    BY <1>0, <1>1 DEF MergeBio, Done
  <2>3. UNCHANGED <<submitter, issued, reported, started, issues, dispatch, cleanup, place>>
    BY <1>1 DEF MergeBio, bioVars
  <2>4. QED
    BY <1>f, <2>1, <2>2, <2>3, RecordsProc
<1>2. CASE MergeRequests(p)
  <2>1. /\ \A r \in Requests : place[r] \in {"dispatch", "driver", "ended"} => bios'[r] = bios[r]
        /\ \A r \in Requests : place'[r] = place[r] \/ (place'[r] = "free" /\ place[r] = "elevator")
    <3>1. PICK r \in In("elevator"), s \in In("elevator") :
            /\ bios' = [bios EXCEPT ![r] = @ \cup {bio[p]} \cup bios[s], ![s] = {}]
            /\ place' = [place EXCEPT ![s] = "free"]
      BY <1>2 DEF MergeRequests
    <3>2. QED
      BY <1>0, <3>1 DEF In
  <2>2. \A q \in Procs : pc'[q] # "idle" => pc[q] # "idle" /\ bio'[q] = bio[q]
    BY <1>0, <1>2 DEF MergeRequests, Done
  <2>3. UNCHANGED <<submitter, issued, reported, started, issues, dispatch, cleanup>>
    BY <1>2 DEF MergeRequests, bioVars
  <2>4. QED
    BY <1>f, <2>1, <2>2, <2>3, RecordsProc
<1>3. CASE QueueDead(p)
  <2>1. \A q \in Procs : pc'[q] # "idle" => pc[q] # "idle" /\ bio'[q] = bio[q]
    BY <1>0, <1>3 DEF QueueDead, Done
  <2>2. UNCHANGED <<submitter, issued, reported, started, issues, dispatch, cleanup, place, bios>>
    BY <1>3 DEF QueueDead, requestVars
  <2>3. QED
    BY <1>f, <2>1, <2>2, RecordsProc
<1>4. CASE GetRequest(p) \/ Wait(p) \/ Woken(p)
  <2>1. \A q \in Procs : pc'[q] # "idle" => pc[q] # "idle" /\ bio'[q] = bio[q]
    BY <1>0, <1>4 DEF GetRequest, Wait, Woken, AtQueue
  <2>2. UNCHANGED <<submitter, issued, reported, started, issues, dispatch, cleanup, place, bios>>
    BY <1>4 DEF GetRequest, Wait, Woken, bioVars, requestVars
  <2>3. QED
    BY <1>f, <2>1, <2>2, RecordsProc
<1>5. CASE Schedule(p) \/ FlushFullPlug(p) \/ FinishPlug(p)
  <2>1. PICK gone \in SUBSET PlugOf(p) : FlushedTo(p, gone)
    BY <1>5, Flushes DEF Schedule, FlushFullPlug, FinishPlug, Base
  <2>2. \A q \in Procs : pc'[q] # "idle" => pc[q] # "idle" /\ bio'[q] = bio[q]
    BY <1>0, <1>5 DEF Schedule, Asleep, FlushFullPlug, FinishPlug
  <2>3. UNCHANGED <<submitter, issued, started, issues, dispatch, cleanup>>
    BY <1>5 DEF Schedule, FlushFullPlug, FinishPlug
  <2>4. \A r \in Requests : \/ place'[r] = place[r]
                            \/ place'[r] = "free"  /\ place[r] \in {"plug", "elevator"}
                            \/ place'[r] = "elevator" /\ place[r] = "plug"
    BY <1>0, <2>1 DEF FlushedTo, PlugOf, In
  <2>5. \A r \in Requests : place[r] \in {"dispatch", "driver", "ended"} => bios'[r] = bios[r]
    BY <2>1 DEF FlushedTo
  <2>6. Dying \/ UNCHANGED reported
    BY <2>1 DEF FlushedTo
  <2>7. QED
    BY <1>f, <2>2, <2>3, <2>4, <2>5, <2>6, RecordsProc
<1>6. CASE Insert(p)
  <2>1. \A q \in Procs : pc'[q] # "idle" => pc[q] # "idle" /\ bio'[q] = bio[q]
    BY <1>0, <1>6 DEF Insert, Done
  <2>2. UNCHANGED <<submitter, issued, reported, started, issues, dispatch, cleanup>>
    BY <1>6 DEF Insert, bioVars
  <2>3. Future(bio[p]) /\ place[bio[p]] = "free" /\ bio[p] \in Requests
    BY <1>6 DEF Insert, Future, Base, OwnBio, Bios, Requests
  <2>4. /\ \A r \in Requests : place'[r] = place[r] \/ (r = bio[p] /\ place'[r] \in {"plug", "elevator"})
        /\ \A r \in Requests : r # bio[p] => bios'[r] = bios[r]
    BY <1>0, <1>6, <2>3 DEF Insert
  <2>5. QED
    BY <1>f, <2>1, <2>2, <2>3, <2>4, RecordsProc
<1>7. QED
  BY <1>1, <1>2, <1>3, <1>4, <1>5, <1>6 DEF Call

\* Issue, of a request that the driver or its queue has
LEMMA Issues ==
  ASSUME Base, Records, NEW h \in Requests, place[h] = "dispatch", Issue(h)
  PROVE  /\ issued \subseteq issued' /\ bios[h] \subseteq issued'
         /\ started' = started \cup {h} /\ issues'[h] = 1
         /\ \A r \in Requests : r # h => issues'[r] = issues[r]
<1>0. issues \in [Requests -> Nat] /\ issues[h] = IF h \in started THEN 1 ELSE 0
  BY DEF Base, Shape, Records, IssueInv
<1>1. CASE h \in started
  BY <1>0, <1>1 DEF Issue, Records, RecordInv
<1>2. CASE h \notin started
  <2>1. issued' = issued \cup bios[h] /\ issues' = [issues EXCEPT ![h] = @ + 1] /\ started' = started \cup {h}
    BY <1>2 DEF Issue
  <2>2. QED
    BY <1>0, <1>2, <2>1
<1>3. QED
  BY <1>1, <1>2

LEMMA RecordsStep == Base /\ Records /\ [Next]_vars => Records'
<1> SUFFICES ASSUME Base, Records, [Next]_vars PROVE Records'
  OBVIOUS
<1>0. /\ submitter \in [Bios -> Procs \cup {NULL}]
      /\ place \in [Requests -> Places] /\ bios \in [Requests -> SUBSET Bios]
      /\ started \subseteq Requests /\ issues \in [Requests -> Nat]
      /\ dispatch \in Seq(Requests)
      /\ pc \in [Procs -> {"idle", "queue", "retry", "schedule", "asleep", "got"}]
      /\ bio \in [Procs -> Bios \cup {NULL}]
  BY DEF Base, Shape
<1>i. DispatchInv /\ IssueInv /\ RecordInv
  BY DEF Records
<1>p. ASSUME UNCHANGED <<submitter, procVars>>, NEW r \in Requests
      PROVE  Future(r)' <=> Future(r)
  BY <1>p DEF Future, procVars
<1>h. dispatch # <<>> =>
        /\ Head(dispatch) \in Requests /\ place[Head(dispatch)] = "dispatch"
        /\ Tail(dispatch) \in Seq(Requests) /\ Len(Tail(dispatch)) = Len(dispatch) - 1
        /\ \A i \in 1..Len(Tail(dispatch)) :
             Tail(dispatch)[i] = dispatch[i + 1] /\ Tail(dispatch)[i] # Head(dispatch)
  BY <1>i, FirstDispatched
<1>1. ASSUME NEW p \in Procs, StartPlug(p) PROVE Records'
  <2>1. UNCHANGED <<submitter, issued, reported, started, issues, dispatch, cleanup, place, bios, pc, bio>>
    BY <1>1 DEF StartPlug, bioVars, requestVars
  <2>2. \A r \in Requests : Future(r)' => Future(r)
    BY <2>1 DEF Future
  <2>3. QED
    BY <2>1, <2>2, RecordsProc
<1>2. ASSUME NEW p \in Procs, Submit(p) PROVE Records'
  <2>1. /\ pc[p] = "idle" /\ NextBio <= MaxBios
        /\ submitter' = [submitter EXCEPT ![NextBio] = p]
        /\ UNCHANGED <<issued, reported, place, started, issues, dispatch, cleanup>>
    BY <1>2 DEF Submit
  <2>2. NextBio \in Bios /\ submitter[NextBio] = NULL
    BY <2>1, NextIsNew
  <2>3. \A q \in Procs : pc'[q] # "idle" => (pc[q] # "idle" /\ bio'[q] = bio[q]) \/ bio'[q] = NextBio
    BY <1>0, <1>2 DEF Submit
  <2>4. \A r \in Requests : Future(r)' => Future(r)
    BY <1>0, <2>1, <2>2, <2>3 DEF Future, Bios, Requests
  <2>5. \A r \in Requests : place[r] \in {"dispatch", "driver", "ended"} => bios'[r] = bios[r]
    BY <1>0, <1>2 DEF Submit, PlugOf, In
  <2>6. QED
    BY <2>1, <2>4, <2>5, RecordsProc
<1>3. ASSUME NEW p \in Procs, Call(p) PROVE Records'
  BY <1>3, CallRecords
<1>4. CASE Dispatch
  <2>1. PICK e \in Requests : place[e] = "elevator" /\ place' = [place EXCEPT ![e] = "dispatch"]
                              /\ dispatch' = Append(dispatch, e)
    BY <1>4 DEF Dispatch, In
  <2>2. UNCHANGED <<submitter, issued, reported, bios, started, issues, cleanup, procVars>>
    BY <1>4 DEF Dispatch, bioVars
  <2>3. DispatchInv'
    <3>1. /\ Len(dispatch') = Len(dispatch) + 1 /\ Len(dispatch) \in Nat
          /\ dispatch'[Len(dispatch) + 1] = e /\ \A i \in 1..Len(dispatch) : dispatch'[i] = dispatch[i]
      BY <1>0, <2>1
    <3>2. \A i \in 1..Len(dispatch) : dispatch[i] \in Requests /\ dispatch[i] # e
      BY <1>0, <1>i, <2>1 DEF DispatchInv
    <3>3. \A i \in 1..Len(dispatch') : place'[dispatch'[i]] = "dispatch"
      BY <1>0, <1>i, <2>1, <3>1, <3>2 DEF DispatchInv
    <3>4. \A i, j \in 1..Len(dispatch') : dispatch'[i] = dispatch'[j] => i = j
      BY <1>i, <3>1, <3>2 DEF DispatchInv
    <3>5. QED
      BY <3>3, <3>4 DEF DispatchInv
  <2>4. IssueInv'
    BY <1>0, <1>i, <1>p, <2>1, <2>2 DEF IssueInv
  <2>5. RecordInv'
    BY <1>0, <1>i, <2>1, <2>2 DEF IssueInv, RecordInv, Dying
  <2>6. QED
    BY <2>3, <2>4, <2>5 DEF Records
<1>5. CASE Fetch
  <2>0. PICK h : h = Head(dispatch)
    OBVIOUS
  <2>1. /\ dispatch # <<>> /\ Issue(h) /\ place' = [place EXCEPT ![h] = "driver"]
        /\ dispatch' = Tail(dispatch)
        /\ UNCHANGED <<submitter, reported, bios, cleanup, procVars>>
    BY <1>5, <2>0 DEF Fetch
  <2>2. h \in Requests /\ place[h] = "dispatch"
    BY <1>h, <2>0, <2>1
  <2>3. /\ issued \subseteq issued' /\ bios[h] \subseteq issued'
        /\ started' = started \cup {h} /\ issues'[h] = 1
        /\ \A r \in Requests : r # h => issues'[r] = issues[r]
    BY <2>1, <2>2, Issues
  <2>4. DispatchInv'
    BY <1>0, <1>h, <1>i, <2>0, <2>1 DEF DispatchInv
  <2>5. ~Future(h)
    BY <2>2, FutureFree
  <2>6. IssueInv'
    BY <1>0, <1>i, <1>p, <2>1, <2>2, <2>3, <2>5 DEF IssueInv
  <2>7. RecordInv'
    BY <1>0, <1>i, <2>1, <2>2, <2>3 DEF RecordInv, Dying
  <2>8. QED
    BY <2>4, <2>6, <2>7 DEF Records
<1>6. CASE Defer
  <2>0. PICK h : h = Head(dispatch)
    OBVIOUS
  <2>1. /\ dispatch # <<>> /\ Issue(h)
        /\ UNCHANGED <<submitter, reported, place, bios, dispatch, cleanup, procVars>>
    BY <1>6, <2>0 DEF Defer
  <2>2. h \in Requests /\ place[h] = "dispatch"
    BY <1>h, <2>0, <2>1
  <2>3. /\ issued \subseteq issued' /\ bios[h] \subseteq issued'
        /\ started' = started \cup {h} /\ issues'[h] = 1
        /\ \A r \in Requests : r # h => issues'[r] = issues[r]
    BY <2>1, <2>2, Issues
  <2>4. DispatchInv'
    BY <1>i, <2>1 DEF DispatchInv
  <2>5. ~Future(h)
    BY <2>2, FutureFree
  <2>6. IssueInv'
    BY <1>0, <1>i, <1>p, <2>1, <2>2, <2>3, <2>5 DEF IssueInv
  <2>7. RecordInv'
    BY <1>0, <1>i, <2>1, <2>2, <2>3 DEF RecordInv, Dying
  <2>8. QED
    BY <2>4, <2>6, <2>7 DEF Records
<1>7. CASE Requeue
  <2>1. PICK h \in Requests :
          /\ place[h] = "driver" /\ place' = [place EXCEPT ![h] = "dispatch"] /\ dispatch' = <<h>> \o dispatch
          /\ started' = started \ {h} /\ issues' = [issues EXCEPT ![h] = 0]
    BY <1>7 DEF Requeue, In
  <2>2. UNCHANGED <<submitter, issued, reported, bios, cleanup, procVars>>
    BY <1>7 DEF Requeue, bioVars
  <2>3. DispatchInv'
    <3>1. /\ Len(dispatch') = Len(dispatch) + 1 /\ Len(dispatch) \in Nat
          /\ dispatch'[1] = h /\ \A i \in 2..Len(dispatch') : i - 1 \in 1..Len(dispatch) /\ dispatch'[i] = dispatch[i - 1]
      BY <1>0, <2>1
    <3>2. \A i \in 1..Len(dispatch) : dispatch[i] \in Requests /\ dispatch[i] # h
      BY <1>0, <1>i, <2>1 DEF DispatchInv
    <3>3. \A i \in 1..Len(dispatch') : place'[dispatch'[i]] = "dispatch"
      BY <1>0, <1>i, <2>1, <3>1, <3>2 DEF DispatchInv
    <3>4. \A i, j \in 1..Len(dispatch') : dispatch'[i] = dispatch'[j] => i = j
      BY <1>i, <3>1, <3>2 DEF DispatchInv
    <3>5. QED
      BY <3>3, <3>4 DEF DispatchInv
  <2>4. ~Future(h)
    BY <2>1, FutureFree
  <2>5. IssueInv'
    BY <1>0, <1>i, <1>p, <2>1, <2>2, <2>4 DEF IssueInv
  <2>6. RecordInv'
    BY <1>0, <1>i, <2>1, <2>2 DEF RecordInv, Dying
  <2>7. QED
    BY <2>3, <2>5, <2>6 DEF Records
<1>8. CASE EndRequest
  <2>1. PICK h \in Requests : \E over \in SUBSET bios[h] :
          /\ place[h] = "driver" /\ Update(h, over)
          /\ place' = [place EXCEPT ![h] = IF over = bios[h] THEN "ended" ELSE @]
    BY <1>8 DEF EndRequest, In
  <2>o. PICK over \in SUBSET bios[h] :
          /\ place[h] = "driver" /\ Update(h, over)
          /\ place' = [place EXCEPT ![h] = IF over = bios[h] THEN "ended" ELSE @]
    BY <2>1
  <2>2. UNCHANGED <<submitter, issued, started, issues, dispatch, cleanup, procVars>>
    BY <1>8 DEF EndRequest
  <2>3. /\ reported' = reported \cup bios[h]
        /\ bios' = [bios EXCEPT ![h] = @ \ over]
    BY <2>o DEF Update
  <2>4. h \in started
    BY <1>i, <2>o DEF IssueInv
  <2>5. DispatchInv'
    BY <1>0, <1>i, <2>o, <2>2 DEF DispatchInv
  <2>6. IssueInv'
    <3>1. ~Future(h)
      BY <2>o, FutureFree
    <3>2. QED
      BY <1>0, <1>i, <1>p, <2>o, <2>2, <2>4, <3>1 DEF IssueInv
  <2>7. RecordInv'
    BY <1>0, <1>i, <2>o, <2>2, <2>3, <2>4 DEF RecordInv, Dying
  <2>8. QED
    BY <2>5, <2>6, <2>7 DEF Records
<1>9. CASE FinishRequest
  <2>1. PICK h \in Requests : place[h] = "ended" /\ place' = [place EXCEPT ![h] = "free"]
    BY <1>9 DEF FinishRequest, In
  <2>2. UNCHANGED <<submitter, issued, reported, bios, started, issues, dispatch, cleanup, procVars>>
    BY <1>9 DEF FinishRequest, bioVars
  <2>3. ~Future(h)
    BY <2>1, FutureFree
  <2>4. DispatchInv'
    BY <1>0, <1>i, <2>1, <2>2 DEF DispatchInv
  <2>5. IssueInv' /\ RecordInv'
    BY <1>0, <1>i, <1>p, <2>1, <2>2, <2>3 DEF IssueInv, RecordInv, Dying
  <2>6. QED
    BY <2>4, <2>5 DEF Records
<1>10. CASE Kill
  <2>0. PICK h : h = Head(dispatch)
    OBVIOUS
  <2>1. /\ dispatch # <<>> /\ Issue(h) /\ Update(h, bios[h]) /\ place' = [place EXCEPT ![h] = "free"]
        /\ dispatch' = Tail(dispatch)
        /\ UNCHANGED <<submitter, cleanup, procVars>>
    BY <1>10, <2>0 DEF Kill
  <2>2. h \in Requests /\ place[h] = "dispatch"
    BY <1>h, <2>0, <2>1
  <2>3. /\ issued \subseteq issued' /\ bios[h] \subseteq issued'
        /\ started' = started \cup {h} /\ issues'[h] = 1
        /\ \A r \in Requests : r # h => issues'[r] = issues[r]
    BY <2>1, <2>2, Issues
  <2>4. /\ reported' = reported \cup bios[h]
        /\ bios' = [bios EXCEPT ![h] = @ \ bios[h]]
    BY <2>1 DEF Update
  <2>5. DispatchInv'
    BY <1>0, <1>h, <1>i, <2>0, <2>1 DEF DispatchInv
  <2>6. ~Future(h)
    BY <2>2, FutureFree
  <2>7. IssueInv'
    BY <1>0, <1>i, <1>p, <2>1, <2>2, <2>3, <2>6 DEF IssueInv
  <2>8. RecordInv'
    BY <1>0, <1>i, <2>1, <2>2, <2>3, <2>4 DEF RecordInv, Dying
  <2>9. QED
    BY <2>5, <2>7, <2>8 DEF Records
<1>11. CASE Die \/ Dead \/ UNCHANGED vars
  <2>1. UNCHANGED <<submitter, issued, reported, place, bios, started, issues, dispatch, procVars>>
    BY <1>11 DEF Die, Dead, vars, bioVars, requestVars
  <2>2. Dying => Dying'
    BY <1>11 DEF Die, Dead, vars, Dying
  <2>3. QED
    BY <1>i, <1>p, <2>1, <2>2 DEF Records, DispatchInv, IssueInv, RecordInv
<1>12. QED
  BY <1>1, <1>2, <1>3, <1>4, <1>5, <1>6, <1>7, <1>8, <1>9, <1>10, <1>11 DEF Next

\* The invariant of the request's life.
LEMMA LifeInvariant == Spec => [](Base /\ Records)
<1>1. Init => Base /\ Records
  BY BaseInit, RecordsInit
<1>2. (Base /\ Records) /\ [Next]_vars => (Base /\ Records)'
  BY BaseStep, RecordsStep DEF Records
<1>3. QED
  BY <1>1, <1>2, PTL DEF Spec

\* IssuedOnce: a request that the driver has, whether it was deferred, put back and looked at
\* again or not, has one issue record in the trace since it was last put back.
THEOREM OneIssueRecord == Spec => []IssuedOnce
<1>1. Base /\ Records => IssuedOnce
  BY DEF Records, IssueInv, IssuedOnce, In
<1>2. QED
  BY <1>1, LifeInvariant, PTL

\* ReportsIssued: as long as the queue is alive, what a completion record covers was issued.
THEOREM CompletionsWereIssued == Spec => []ReportsIssued
<1>1. Base /\ Records => ReportsIssued
  BY DEF Records, RecordInv, ReportsIssued
<1>2. QED
  BY <1>1, LifeInvariant, PTL

-----------------------------------------------------------------------------
(* The count of the request list                                            *)

InUse   == Requests \ In("free")
Holding == {p \in Procs : pc[p] = "got"}

CountInv == CountExact /\ (cleanup = "dead" => count = 0)

LEMMA Finite == IsFiniteSet(InUse) /\ IsFiniteSet(Holding) /\ Cardinality(InUse) \in Nat /\ Cardinality(Holding) \in Nat
<1>1. InUse \subseteq Requests /\ Holding \subseteq Procs
  BY DEF InUse, Holding
<1>2. IsFiniteSet(InUse) /\ IsFiniteSet(Holding)
  BY <1>1, Constants, FS_Subset
<1>3. QED
  BY <1>2, FS_CardinalityType

LEMMA CountInit == Init => CountInv
<1> SUFFICES ASSUME Init PROVE CountInv
  OBVIOUS
<1>1. InUse = {} /\ Holding = {} /\ count = 0
  BY DEF Init, InUse, Holding, In
<1>2. QED
  BY <1>1, FS_EmptySet DEF CountInv, CountExact, InUse, Holding

\* nothing is taken or given back
LEMMA CountStays ==
  ASSUME CountInv, UNCHANGED count,
         \A r \in Requests : place'[r] = "free" <=> place[r] = "free",
         \A p \in Procs : pc'[p] = "got" <=> pc[p] = "got",
         cleanup' = "dead" => cleanup = "dead" \/ count = 0
  PROVE  CountInv'
<1>1. InUse' = InUse /\ Holding' = Holding
  BY DEF InUse, Holding, In
<1>2. QED
  BY <1>1 DEF CountInv, CountExact, InUse, Holding

\* the requests `gone' are given back
LEMMA CountFreed ==
  ASSUME CountInv, NEW gone, gone \subseteq InUse, count' = count - Cardinality(gone),
         \A r \in Requests : place'[r] = "free" <=> place[r] = "free" \/ r \in gone,
         \A p \in Procs : pc'[p] = "got" <=> pc[p] = "got",
         UNCHANGED cleanup
  PROVE  CountInv'
<1>1. InUse' = InUse \ gone /\ Holding' = Holding
  BY DEF InUse, Holding, In
<1>2. IsFiniteSet(gone) /\ IsFiniteSet(InUse \ gone) /\ InUse \cap gone = gone
  <2>1. gone \subseteq InUse /\ InUse \ gone \subseteq InUse /\ InUse \cap gone = gone
    OBVIOUS
  <2>2. IsFiniteSet(InUse)
    BY Finite
  <2>3. IsFiniteSet(gone)
    BY <2>1, <2>2, FS_Subset
  <2>4. IsFiniteSet(InUse \ gone)
    BY <2>1, <2>2, FS_Subset
  <2>5. QED
    BY <2>1, <2>3, <2>4
<1>3. Cardinality(InUse \ gone) = Cardinality(InUse) - Cardinality(gone)
  <2>1. IsFiniteSet(InUse)
    BY Finite
  <2>2. Cardinality(InUse \ gone) = Cardinality(InUse) - Cardinality(InUse \cap gone)
    BY <1>2, <2>1, FS_Difference
  <2>3. QED
    BY <1>2, <2>2
<1>4. Cardinality(gone) \in Nat /\ Cardinality(InUse \ gone) \in Nat
  BY <1>2, FS_CardinalityType
<1>5. count = Cardinality(InUse) + Cardinality(Holding)
  BY DEF CountInv, CountExact, InUse, Holding
<1>6. count' = Cardinality(InUse') + Cardinality(Holding')
  BY <1>1, <1>3, <1>4, <1>5, Finite
<1>7. cleanup' = "dead" => count' = 0
  BY <1>1, <1>4, <1>6, Finite DEF CountInv
<1>8. QED
  BY <1>6, <1>7 DEF CountInv, CountExact, InUse, Holding

\* one request is given back
LEMMA CountFreedOne ==
  ASSUME CountInv, NEW h \in InUse, FreedRequests(1),
         \A r \in Requests : place'[r] = "free" <=> place[r] = "free" \/ r = h,
         \A p \in Procs : pc'[p] = "got" <=> pc[p] = "got",
         UNCHANGED cleanup
  PROVE  CountInv'
<1>1. Cardinality({h}) = 1
  BY FS_Singleton
<1>2. count' = count - Cardinality({h})
  BY <1>1 DEF FreedRequests
<1>3. QED
  BY <1>2, CountFreed

LEMMA CountStep == Base /\ Records /\ CountInv /\ [Next]_vars => CountInv'
<1> SUFFICES ASSUME Base, Records, CountInv, [Next]_vars PROVE CountInv'
  OBVIOUS
<1>0. /\ place \in [Requests -> Places] /\ dispatch \in Seq(Requests)
      /\ pc \in [Procs -> {"idle", "queue", "retry", "schedule", "asleep", "got"}]
      /\ cleanup \in {"alive", "dying", "dead"}
  BY DEF Base, Shape
<1>c. count = Cardinality(InUse) + Cardinality(Holding)
  BY DEF CountInv, CountExact, InUse, Holding
<1>h. dispatch # <<>> => Head(dispatch) \in Requests /\ place[Head(dispatch)] = "dispatch"
  BY FirstDispatched DEF Records
<1>1. ASSUME NEW p \in Procs, StartPlug(p) \/ Submit(p) PROVE CountInv'
  <2>1. UNCHANGED <<place, count, cleanup>>
    BY <1>1 DEF StartPlug, Submit, requestVars, listVars
  <2>2. \A q \in Procs : pc'[q] = "got" <=> pc[q] = "got"
    BY <1>0, <1>1 DEF StartPlug, Submit
  <2>3. QED
    BY <2>1, <2>2, CountStays
<1>2. ASSUME NEW p \in Procs, MergeBio(p) \/ QueueDead(p) \/ Wait(p) \/ Woken(p) PROVE CountInv'
  <2>1. UNCHANGED <<place, count, cleanup>>
    BY <1>2 DEF MergeBio, QueueDead, Wait, Woken, requestVars, listVars
  <2>2. \A q \in Procs : pc'[q] = "got" <=> pc[q] = "got"
    BY <1>0, <1>2 DEF MergeBio, QueueDead, AtQueue, Wait, Woken, Done
  <2>3. QED
    BY <2>1, <2>2, CountStays
<1>3. ASSUME NEW p \in Procs, MergeRequests(p) PROVE CountInv'
  <2>1. PICK s \in Requests : place[s] = "elevator" /\ place' = [place EXCEPT ![s] = "free"]
    BY <1>3 DEF MergeRequests, In
  <2>2. s \in InUse
    BY <2>1 DEF InUse, In
  <2>3. \A q \in Procs : pc'[q] = "got" <=> pc[q] = "got"
    BY <1>0, <1>3 DEF MergeRequests, Done
  <2>4. FreedRequests(1) /\ UNCHANGED cleanup
    BY <1>3 DEF MergeRequests
  <2>5. \A r \in Requests : place'[r] = "free" <=> place[r] = "free" \/ r = s
    BY <1>0, <2>1
  <2>6. QED
    BY <2>2, <2>3, <2>4, <2>5, CountFreedOne
<1>4. ASSUME NEW p \in Procs, GetRequest(p) PROVE CountInv'
  <2>1. /\ pc[p] # "got" /\ pc' = [pc EXCEPT ![p] = "got"] /\ count' = count + 1
        /\ ~Dying /\ UNCHANGED <<place, cleanup>>
    BY <1>4 DEF GetRequest, AtQueue, requestVars
  <2>2. InUse' = InUse /\ Holding' = Holding \cup {p} /\ p \notin Holding
    BY <1>0, <2>1 DEF InUse, Holding, In
  <2>3. Cardinality(Holding \cup {p}) = Cardinality(Holding) + 1
    BY <2>2, Finite, FS_AddElement
  <2>4. count' = Cardinality(InUse') + Cardinality(Holding')
    BY <1>c, <2>1, <2>2, <2>3, Finite
  <2>5. cleanup' # "dead"
    BY <2>1 DEF Dying
  <2>6. QED
    BY <2>4, <2>5 DEF CountInv, CountExact, InUse, Holding
<1>5. ASSUME NEW p \in Procs, Insert(p) PROVE CountInv'
  <2>1. /\ pc[p] = "got" /\ UNCHANGED <<count, cleanup>> /\ pc' = [pc EXCEPT ![p] = "idle"]
        /\ place' = [place EXCEPT ![bio[p]] = IF p \in plugged THEN "plug" ELSE "elevator"]
    BY <1>5 DEF Insert, Done, listVars
  <2>2. bio[p] \in Requests /\ place[bio[p]] = "free"
    BY <2>1 DEF Base, OwnBio, Bios, Requests
  <2>3. /\ InUse' = InUse \cup {bio[p]} /\ bio[p] \notin InUse
        /\ Holding' = Holding \ {p} /\ p \in Holding
    BY <1>0, <2>1, <2>2 DEF InUse, Holding, In
  <2>4. /\ Cardinality(InUse \cup {bio[p]}) = Cardinality(InUse) + 1
        /\ Cardinality(Holding \ {p}) = Cardinality(Holding) - 1
    BY <2>3, Finite, FS_AddElement, FS_RemoveElement
  <2>5. count' = Cardinality(InUse') + Cardinality(Holding')
    BY <1>c, <2>1, <2>3, <2>4, Finite
  <2>6. QED
    BY <2>1, <2>5 DEF CountInv, CountExact, InUse, Holding
<1>6. ASSUME NEW p \in Procs, Schedule(p) \/ FlushFullPlug(p) \/ FinishPlug(p) PROVE CountInv'
  <2>1. PICK gone \in SUBSET PlugOf(p) : FlushedTo(p, gone)
    BY <1>6, Flushes DEF Schedule, FlushFullPlug, FinishPlug, Base
  <2>2. gone \subseteq InUse /\ count' = count - Cardinality(gone)
    BY <2>1 DEF FlushedTo, InUse, PlugOf, In
  <2>3. \A r \in Requests : place'[r] = "free" <=> place[r] = "free" \/ r \in gone
    BY <1>0, <2>1 DEF FlushedTo, PlugOf, In
  <2>4. UNCHANGED cleanup /\ \A q \in Procs : pc'[q] = "got" <=> pc[q] = "got"
    BY <1>0, <1>6 DEF Schedule, Asleep, FlushFullPlug, FinishPlug
  <2>5. QED
    BY <2>2, <2>3, <2>4, CountFreed
<1>7. CASE Dispatch \/ Fetch \/ Defer \/ Requeue \/ EndRequest \/ Die
  <2>1. \A r \in Requests : place'[r] = "free" <=> place[r] = "free"
    BY <1>0, <1>h, <1>7 DEF Dispatch, Fetch, Defer, Requeue, EndRequest, Die, In, requestVars
  <2>2. UNCHANGED <<count, pc>> /\ (cleanup' = "dead" => cleanup = "dead")
    BY <1>7 DEF Dispatch, Fetch, Defer, Requeue, EndRequest, Die, listVars, procVars
  <2>3. QED
    BY <2>1, <2>2, CountStays
<1>8. CASE FinishRequest \/ Kill
  <2>1. PICK h \in Requests : place[h] # "free" /\ place' = [place EXCEPT ![h] = "free"]
    BY <1>8, <1>h DEF FinishRequest, Kill, In
  <2>2. FreedRequests(1) /\ UNCHANGED <<pc, cleanup>>
    BY <1>8 DEF FinishRequest, Kill, procVars
  <2>3. h \in InUse
    BY <2>1 DEF InUse, In
  <2>4. \A r \in Requests : place'[r] = "free" <=> place[r] = "free" \/ r = h
    BY <1>0, <2>1
  <2>5. QED
    BY <2>2, <2>3, <2>4, CountFreedOne
<1>9. CASE Dead \/ UNCHANGED vars
  <2>1. UNCHANGED <<place, count, pc>> /\ (cleanup' = "dead" => cleanup = "dead" \/ count = 0)
    BY <1>9 DEF Dead, Drained, vars, requestVars, listVars, procVars
  <2>2. QED
    BY <2>1, CountStays
<1>10. QED
  BY <1>1, <1>2, <1>3, <1>4, <1>5, <1>6, <1>7, <1>8, <1>9 DEF Next, Call

LEMMA CountInvariant == Spec => []CountInv
<1>1. Init => Base /\ Records /\ CountInv
  BY BaseInit, RecordsInit, CountInit
<1>2. (Base /\ Records /\ CountInv) /\ [Next]_vars => (Base /\ Records /\ CountInv)'
  BY BaseStep, RecordsStep, CountStep DEF Records
<1>3. QED
  BY <1>1, <1>2, PTL DEF Spec

\* CountExact: rl->count is the number of requests, whichever of the five ways they go.
THEOREM ListCountsRequests == Spec => []CountExact
<1>1. CountInv => CountExact
  BY DEF CountInv
<1>2. QED
  BY <1>1, CountInvariant, PTL

\* DeadIsEmpty: what blk_cleanup_queue waits for, that the count is zero, is enough for
\* there to be no request left when the queue is DEAD, now or later.
THEOREM NothingAfterDeath == Spec => []DeadIsEmpty
<1>1. CountInv => DeadIsEmpty
  <2> SUFFICES ASSUME CountInv, cleanup = "dead"
               PROVE  In("free") = Requests /\ \A p \in Procs : pc[p] # "got"
    BY DEF DeadIsEmpty
  <2>1. Cardinality(InUse) + Cardinality(Holding) = 0
    BY DEF CountInv, CountExact, InUse, Holding
  <2>2. Cardinality(InUse) = 0 /\ Cardinality(Holding) = 0
    BY <2>1, Finite
  <2>3. InUse = {} /\ Holding = {}
    BY <2>2, Finite, FS_EmptySet
  <2>4. QED
    BY <2>3 DEF InUse, Holding, In
<1>2. QED
  BY <1>1, CountInvariant, PTL

=============================================================================
