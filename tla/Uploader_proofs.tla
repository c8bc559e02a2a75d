--------------------------- MODULE Uploader_proofs ---------------------------
(***************************************************************************)
(* Proofs about the transfer app, for every number of files, of waiting    *)
(* tasks and of faults, with broadcasts at any moment.                     *)
(***************************************************************************)
EXTENDS Uploader, FiniteSetTheorems, SequenceTheorems, TLAPS

\* the files that a later file of their directory has replaced
Superseded == {f \in Created : \E g \in Created : Directory(g) = Directory(f) /\ g > f}

\* Two files of a directory never have the same lastModified.
StampsDiffer ==
  \A f, g \in Files : Directory(f) = Directory(g) /\ f < g => Stamp[f] < Stamp[g]

-----------------------------------------------------------------------------
(* What onReceive puts on the list                                          *)

LEMMA Born ==
  ASSUME TypeOK
  PROVE  born \in Nat /\ Created \subseteq Files
<1>1. MaxFiles \in Nat
  BY BoundAssumption
<1>2. QED
  BY <1>1 DEF TypeOK, Files, Created

LEMMA SeqGrows ==
  ASSUME NEW S, NEW T, S \subseteq T, NEW s \in Seq(S)
  PROVE  s \in Seq(T)
BY SMT

LEMMA FileListIsSeq ==
  ASSUME TypeOK, NEW d, NEW s \in GetFileList(d)
  PROVE  /\ s \in Seq({f \in disk : Directory(f) = d})
         /\ \A j, k \in 1..Len(s) : j < k => s[j] # s[k] /\ Stamp[s[j]] <= Stamp[s[k]]
<1> DEFINE S == {f \in disk : Directory(f) = d}
<1>1. born \in Int /\ S \in SUBSET Created
  <2>1. S \subseteq Created
    BY DEF TypeOK
  <2>2. QED
    BY <2>1, Born
<1>2. IsFiniteSet(S)
  <2>1. IsFiniteSet(Created)
    BY <1>1, FS_Interval DEF Created
  <2> HIDE DEF S
  <2>2. QED
    BY <1>1, <2>1, FS_Subset
<1>3. Cardinality(S) \in Nat
  BY <1>2, FS_CardinalityType
<1> HIDE DEF S
<1>4. /\ s \in [1..Cardinality(S) -> S]
      /\ \A j, k \in 1..Cardinality(S) : j < k => s[j] # s[k] /\ Stamp[s[j]] <= Stamp[s[k]]
  BY DEF GetFileList, S
<1>5. s \in Seq(S) /\ Len(s) = Cardinality(S)
  BY <1>3, <1>4
<1>6. QED
  BY <1>4, <1>5 DEF S

LEMMA ClosedIsSeq ==
  ASSUME TypeOK, NEW d, NEW s \in GetFileList(d)
  PROVE  Closed(s) \in Seq(Created)
<1>1. s \in Seq(Created)
  <2>1. {f \in disk : Directory(f) = d} \subseteq Created
    BY DEF TypeOK
  <2>2. s \in Seq({f \in disk : Directory(f) = d})
    BY FileListIsSeq
  <2>3. QED
    BY <2>1, <2>2, SeqGrows
<1>2. \A j \in 1..(Len(s) - 1) : s[j] \in Created
  BY <1>1
<1>3. Len(s) - 1 \in Int
  BY <1>1
<1>4. QED
  BY <1>2, <1>3, SubSeqProperties DEF Closed

\* Without ties the newest file comes last, and the others are superseded.
LEMMA ClosedIsSuperseded ==
  ASSUME TypeOK, StampsDiffer, NEW d, NEW s \in GetFileList(d)
  PROVE  Closed(s) \in Seq(Superseded)
<1>1. s \in Seq({f \in disk : Directory(f) = d}) /\ Len(s) \in Nat
  BY FileListIsSeq
<1>2. ASSUME NEW j \in 1..(Len(s) - 1) PROVE s[j] \in Superseded
  <2>1. j \in 1..Len(s) /\ Len(s) \in 1..Len(s) /\ j < Len(s)
    BY <1>1, <1>2
  <2>2. /\ s[j] \in Created /\ s[Len(s)] \in Created
        /\ Directory(s[j]) = d /\ Directory(s[Len(s)]) = d
    <3>1. s[j] \in {f \in disk : Directory(f) = d}
      BY <1>1, <2>1
    <3>2. s[Len(s)] \in {f \in disk : Directory(f) = d}
      BY <1>1, <2>1
    <3>3. QED
      BY <3>1, <3>2 DEF TypeOK
  <2>3. s[j] # s[Len(s)] /\ Stamp[s[j]] <= Stamp[s[Len(s)]]
    BY <2>1, FileListIsSeq
  <2>4. s[j] \in Files /\ s[Len(s)] \in Files
    BY <2>2, Born
  <2>5. Stamp[s[j]] \in Nat /\ Stamp[s[Len(s)]] \in Nat
    BY <2>4, FileAssumption
  <2>6. ~(s[Len(s)] < s[j])
    BY <2>2, <2>3, <2>4, <2>5 DEF StampsDiffer
  <2>7. s[Len(s)] > s[j]
    BY <2>2, <2>3, <2>6, Born DEF Created
  <2>8. QED
    BY <2>2, <2>7 DEF Superseded
<1>3. Len(s) - 1 \in Int
  BY <1>1
<1>4. QED
  BY <1>2, <1>3, SubSeqProperties DEF Closed

LEMMA FourLists ==
  ASSUME NEW S, NEW s1 \in Seq(S), NEW s2 \in Seq(S), NEW s3 \in Seq(S), NEW s4 \in Seq(S)
  PROVE  s1 \o s2 \o s3 \o s4 \in Seq(S)
<1>1. s1 \o s2 \in Seq(S)
  BY ConcatProperties
<1>2. (s1 \o s2) \o s3 \in Seq(S)
  BY <1>1, ConcatProperties
<1>3. QED
  BY <1>2, ConcatProperties

-----------------------------------------------------------------------------
(* Types                                                                    *)

\* While onReceive is under way the queue has room for its task.
QueueRoom == main # "idle" => tasks < MaxTasks

LEMMA BoundsAreNat ==
  MaxFiles \in Nat /\ MaxTasks \in Nat /\ MaxFaults \in Nat /\ MaxSent \in Nat
BY BoundAssumption

LEMMA SlotIsFile ==
  ASSUME TypeOK, IsFile
  PROVE  Slot \in Created /\ i + 1 \in DOMAIN file_list /\ Slot = file_list[i + 1]
<1>1. i \in Nat /\ Len(file_list) \in Nat /\ file_list \in Seq(Created \cup {NULL})
  BY DEF TypeOK
<1>2. i + 1 \in 1..Len(file_list)
  BY <1>1 DEF IsFile
<1>3. file_list[i + 1] \in Created \cup {NULL}
  BY <1>1, <1>2
<1>4. QED
  BY <1>1, <1>2, <1>3 DEF Slot, IsFile

LEMMA SetEntry ==
  ASSUME NEW S, NEW s \in Seq(S), NEW k, NEW x \in S
  PROVE  [s EXCEPT ![k] = x] \in Seq(S)
<1> DEFINE t == [s EXCEPT ![k] = x]
<1>1. Len(s) \in Nat /\ s \in [1..Len(s) -> S]
  OBVIOUS
<1>2. t \in [1..Len(s) -> S]
  BY <1>1
<1>3. QED
  BY <1>1, <1>2

LEMMA CountUp ==
  ASSUME TypeOK, pc = "post", received' = [received EXCEPT ![file] = @ + 1]
  PROVE  received' \in [Files -> Nat]
<1>1. file \in Files /\ received \in [Files -> Nat]
  BY Born DEF TypeOK
<1>2. received[file] + 1 \in Nat
  BY <1>1
<1>3. QED
  BY <1>1, <1>2

LEMMA InitTypeOK == Init => TypeOK /\ QueueRoom
BY BoundsAreNat DEF Init, TypeOK, QueueRoom, Receiving, Sending

LEMMA StepTypeOK ==
  ASSUME TypeOK, QueueRoom, [Next]_vars
  PROVE  TypeOK' /\ QueueRoom'
<1> USE BoundsAreNat DEF TypeOK, QueueRoom, vars, serverVars, listVars, mainVars, taskVars
<1>1. CASE NewFile
  <2>1. born' \in 0..MaxFiles /\ Created \subseteq Created' /\ born' \in Created'
    BY <1>1, Born DEF NewFile, Created
  <2>2. disk' \subseteq Created'
    BY <1>1, <2>1 DEF NewFile
  <2>3. Created \cup {NULL} \subseteq Created' \cup {NULL}
    BY <2>1
  <2>4. found' \in Seq(Created') /\ file_list' \in Seq(Created' \cup {NULL})
    BY <1>1, <2>1, <2>3, SeqGrows DEF NewFile
  <2>5. QED
    BY <1>1, <2>1, <2>2, <2>3, <2>4 DEF NewFile
<1> UNCHANGED born => Created' = Created
  BY DEF Created
<1>2. CASE Broadcast
  <2>1. found' \in Seq(Created)
    <3>1. PICK io_list \in GetFileList("io"), ind_list \in GetFileList("filels"),
               mem_list \in GetFileList("mem"), minfo_list \in GetFileList("mdetail") :
            found' = Closed(io_list) \o Closed(ind_list) \o Closed(mem_list) \o Closed(minfo_list)
      BY <1>2 DEF Broadcast
    <3>2. /\ Closed(io_list) \in Seq(Created) /\ Closed(ind_list) \in Seq(Created)
          /\ Closed(mem_list) \in Seq(Created) /\ Closed(minfo_list) \in Seq(Created)
      BY ClosedIsSeq
    <3>3. QED
      BY <3>1, <3>2, FourLists
  <2>2. filled' \in 0..Len(found')
    BY <1>2, <2>1 DEF Broadcast
  <2>3. QED
    BY <1>2, <2>1, <2>2 DEF Broadcast, At, Receiving
<1>3. CASE ListAlloc
  <2>1. file_list' \in Seq(Created \cup {NULL})
    <3>1. Len(found) \in Nat
      OBVIOUS
    <3>2. QED
      BY <1>3, <3>1 DEF ListAlloc
  <2>2. QED
    BY <1>3, <2>1 DEF ListAlloc, At, Receiving
<1>4. CASE ListMax
  BY <1>4 DEF ListMax, At, Receiving
<1>5. CASE ListPos
  BY <1>5 DEF ListPos, At, Receiving
<1>6. CASE ListFill
  <2>1. filled' \in 1..Len(found) /\ found[filled'] \in Created
    BY <1>6 DEF ListFill
  <2>2. file_list' \in Seq(Created \cup {NULL})
    <3>1. file_list' = [file_list EXCEPT ![filled'] = found[filled']]
      BY <1>6 DEF ListFill
    <3>2. QED
      BY <2>1, <3>1, SetEntry
  <2>3. QED
    BY <1>6, <2>1, <2>2 DEF ListFill
<1>7. CASE Execute
  BY <1>7 DEF Execute, At, Receiving
<1>8. CASE Start
  BY <1>8 DEF Start, Goto, Sending
<1>9. CASE NextFile
  BY <1>9, SlotIsFile DEF NextFile, Goto, Sending
<1>10. CASE ListDone
  BY <1>10 DEF ListDone, Goto, Sending
<1>11. CASE TestLength
  BY <1>11 DEF TestLength, Goto, Sending
<1>12. CASE Transfer
  <2>1. Slot \in Created
    BY <1>12, SlotIsFile DEF Transfer, Goto
  <2>2. QED
    BY <1>12, <2>1 DEF Transfer, Goto, Sending
<1>13. CASE Answered
  <2>1. received' \in [Files -> Nat]
    BY <1>13, CountUp DEF Answered, Goto
  <2>2. QED
    BY <1>13, <2>1 DEF Answered, Goto, Sending
<1>14. CASE Refused
  BY <1>14 DEF Refused, HttpFail, Goto, Sending
<1>15. CASE AnswerLost
  <2>1. received' \in [Files -> Nat] /\ faults' \in 0..MaxFaults
    BY <1>15, CountUp DEF AnswerLost, HttpFail, Goto
  <2>2. QED
    BY <1>15, <2>1 DEF AnswerLost, HttpFail, Goto, Sending
<1>16. CASE Delete
  BY <1>16 DEF Delete, Goto, Sending
<1>17. CASE Advance
  BY <1>17 DEF Advance, Goto, Sending
<1>18. CASE NotAtEnd
  BY <1>18 DEF NotAtEnd, Goto, Sending
<1>19. CASE AtEnd
  BY <1>19 DEF AtEnd, Goto, Sending
<1>20. CASE Reset
  BY <1>20 DEF Reset, Goto, Sending
<1>21. CASE Wake
  BY <1>21 DEF Wake, Goto, Sending
<1>22. ASSUME Die, faults' \in 0..MaxFaults PROVE TypeOK' /\ QueueRoom'
  BY <1>22 DEF Die, Receiving, Sending
<1>23. CASE Throw
  BY <1>22, <1>23 DEF Throw
<1>24. CASE Kill
  BY <1>22, <1>24 DEF Kill
<1>25. CASE UNCHANGED vars
  BY <1>25
<1>26. QED
  BY <1>1, <1>2, <1>3, <1>4, <1>5, <1>6, <1>7, <1>8, <1>9, <1>10, <1>11, <1>12, <1>13,
     <1>14, <1>15, <1>16, <1>17, <1>18, <1>19, <1>20, <1>21, <1>23, <1>24, <1>25
  DEF Next, Receive, Task

\* The fields of Info, the two threads and the server stay well-formed; in particular
\* the file being sent is one that was created.
THEOREM TypeCorrect == Spec => []TypeOK
<1>1. Init => TypeOK /\ QueueRoom
  BY InitTypeOK
<1>2. TypeOK /\ QueueRoom /\ [Next]_vars => (TypeOK /\ QueueRoom)'
  BY StepTypeOK
<1>3. QED
  BY <1>1, <1>2, PTL DEF Spec

-----------------------------------------------------------------------------
(* The open files                                                           *)

\* Whatever is on the list, is about to get there or is being sent is superseded, and
\* only superseded files have been sent or deleted.
Listed ==
  /\ found \in Seq(Superseded)
  /\ file_list \in Seq(Superseded \cup {NULL})
  /\ pc = "post" => file \in Superseded
Untouched ==
  /\ Created \ Superseded \subseteq disk
  /\ \A f \in Files \ Superseded : received[f] = 0
OpenInv == Listed /\ Untouched

LEMMA OpenIsNotSuperseded ==
  ASSUME TypeOK, NEW f, Open(f)
  PROVE  f \in Created \ Superseded
BY Born DEF Open, Superseded, Created

\* Files are created one after the other: a superseded file stays superseded.
LEMMA SupersededGrows ==
  ASSUME TypeOK, born' \in Nat, born <= born'
  PROVE  Superseded \subseteq Superseded'
<1>1. Created \subseteq Created'
  BY Born DEF Created
<1>2. QED
  BY <1>1 DEF Superseded

LEMMA SlotIsSuperseded ==
  ASSUME TypeOK, Listed, IsFile
  PROVE  Slot \in Superseded
<1>1. i + 1 \in DOMAIN file_list /\ Slot = file_list[i + 1] /\ Slot # NULL
  BY SlotIsFile DEF IsFile
<1>2. file_list[i + 1] \in Superseded \cup {NULL}
  BY <1>1 DEF Listed
<1>3. QED
  BY <1>1, <1>2

\* steps that leave the files, the list and the file being sent alone
LEMMA QuietStep ==
  ASSUME OpenInv, UNCHANGED <<born, disk, received, file_list, found, file>>,
         pc' = "post" => pc = "post"
  PROVE  OpenInv'
<1>1. Superseded' = Superseded
  BY DEF Superseded, Created
<1>2. QED
  BY <1>1 DEF OpenInv, Listed, Untouched, Created

LEMMA StepOpenInv ==
  ASSUME StampsDiffer, TypeOK, OpenInv, [Next]_vars
  PROVE  OpenInv'
<1> USE DEF serverVars, listVars, mainVars, taskVars
<1>1. CASE NewFile
  <2>1. Superseded \subseteq Superseded'
    BY <1>1, SupersededGrows, Born DEF NewFile
  <2>2. Superseded \cup {NULL} \subseteq Superseded' \cup {NULL}
    BY <2>1
  <2>3. Listed'
    BY <1>1, <2>1, <2>2, SeqGrows DEF NewFile, OpenInv, Listed
  <2>4. Created' \subseteq Created \cup {born'}
    BY <1>1, Born DEF NewFile, Created
  <2>5. Untouched'
    BY <1>1, <2>1, <2>4 DEF NewFile, OpenInv, Untouched
  <2>6. QED
    BY <2>3, <2>5 DEF OpenInv
<1>2. ASSUME UNCHANGED born PROVE Superseded' = Superseded
  BY <1>2 DEF Superseded, Created
<1>3. CASE Broadcast
  <2>1. found' \in Seq(Superseded)
    <3>1. PICK io_list \in GetFileList("io"), ind_list \in GetFileList("filels"),
               mem_list \in GetFileList("mem"), minfo_list \in GetFileList("mdetail") :
            found' = Closed(io_list) \o Closed(ind_list) \o Closed(mem_list) \o Closed(minfo_list)
      BY <1>3 DEF Broadcast
    <3>2. /\ Closed(io_list) \in Seq(Superseded) /\ Closed(ind_list) \in Seq(Superseded)
          /\ Closed(mem_list) \in Seq(Superseded) /\ Closed(minfo_list) \in Seq(Superseded)
      BY ClosedIsSuperseded
    <3>3. QED
      BY <3>1, <3>2, FourLists
  <2>2. QED
    BY <1>2, <1>3, <2>1 DEF Broadcast, OpenInv, Listed, Untouched, Created
<1>4. CASE ListAlloc
  <2>1. file_list' \in Seq(Superseded \cup {NULL})
    <3>1. Len(found) \in Nat
      BY DEF TypeOK
    <3>2. QED
      BY <1>4, <3>1 DEF ListAlloc
  <2>2. QED
    BY <1>2, <1>4, <2>1 DEF ListAlloc, OpenInv, Listed, Untouched, Created
<1>5. CASE ListFill
  <2>1. found[filled'] \in Superseded
    BY <1>5 DEF ListFill, TypeOK, OpenInv, Listed
  <2>2. file_list' \in Seq(Superseded \cup {NULL})
    <3>1. file_list' = [file_list EXCEPT ![filled'] = found[filled']]
      BY <1>5 DEF ListFill
    <3>2. QED
      BY <2>1, <3>1, SetEntry DEF OpenInv, Listed
  <2>3. QED
    BY <1>2, <1>5, <2>2 DEF ListFill, OpenInv, Listed, Untouched, Created
<1>6. CASE Transfer
  <2>1. file' \in Superseded
    BY <1>6, SlotIsSuperseded DEF Transfer, OpenInv
  <2>2. QED
    BY <1>2, <1>6, <2>1 DEF Transfer, OpenInv, Listed, Untouched, Created
<1>7. ASSUME pc = "post", pc' # "post", received' = [received EXCEPT ![file] = @ + 1],
             UNCHANGED <<born, disk, file_list, found>>
      PROVE  OpenInv'
  <2>1. \A f \in Files \ Superseded : received'[f] = received[f]
    BY <1>7 DEF TypeOK, OpenInv, Listed
  <2>2. QED
    BY <1>2, <1>7, <2>1 DEF OpenInv, Listed, Untouched, Created
<1>8. CASE Answered
  BY <1>7, <1>8 DEF Answered, Goto
<1>9. CASE AnswerLost
  BY <1>7, <1>9 DEF AnswerLost, HttpFail, Goto
<1>10. CASE Delete
  <2>1. Slot \in Superseded
    BY <1>10, SlotIsSuperseded DEF Delete, OpenInv
  <2>2. QED
    BY <1>2, <1>10, <2>1 DEF Delete, Goto, OpenInv, Listed, Untouched, Created
<1>11. CASE ListMax
  BY <1>11, QuietStep DEF ListMax
<1>12. CASE ListPos
  BY <1>12, QuietStep DEF ListPos
<1>13. CASE Execute
  BY <1>13, QuietStep DEF Execute
<1>14. CASE Start
  BY <1>14, QuietStep DEF Start, Goto
<1>15. CASE NextFile
  BY <1>15, QuietStep DEF NextFile, Goto
<1>16. CASE ListDone
  BY <1>16, QuietStep DEF ListDone, Goto
<1>17. CASE TestLength
  BY <1>17, QuietStep DEF TestLength, Goto
<1>18. CASE Refused
  BY <1>18, QuietStep DEF Refused, HttpFail, Goto
<1>19. CASE Advance
  BY <1>19, QuietStep DEF Advance, Goto
<1>20. CASE NotAtEnd
  BY <1>20, QuietStep DEF NotAtEnd, Goto
<1>21. CASE AtEnd
  BY <1>21, QuietStep DEF AtEnd, Goto
<1>22. CASE Reset
  BY <1>22, QuietStep DEF Reset, Goto
<1>23. CASE Wake
  BY <1>23, QuietStep DEF Wake, Goto
<1>24. ASSUME Die PROVE OpenInv'
  BY <1>2, <1>24 DEF Die, OpenInv, Listed, Untouched, Created
<1>25. CASE Throw
  BY <1>24, <1>25 DEF Throw
<1>26. CASE Kill
  BY <1>24, <1>26 DEF Kill
<1>27. CASE UNCHANGED vars
  BY <1>27, QuietStep DEF vars
<1>28. QED
  BY <1>1, <1>3, <1>4, <1>5, <1>6, <1>8, <1>9, <1>10, <1>11, <1>12, <1>13, <1>14, <1>15,
     <1>16, <1>17, <1>18, <1>19, <1>20, <1>21, <1>22, <1>23, <1>25, <1>26, <1>27
  DEF Next, Receive, Task

\* While file times tell the files of a directory apart, the file that is being written
\* is neither sent nor deleted, however many files there are and however broadcasts,
\* tasks and deaths of the app interleave.
THEOREM OpenFilesAreSafe ==
  ASSUME StampsDiffer
  PROVE  Spec => []OpenFileUntouched
<1> DEFINE IInv == TypeOK /\ QueueRoom /\ OpenInv
<1>1. Init => OpenInv
  BY DEF Init, OpenInv, Listed, Untouched, Created
<1>2. Init => IInv
  BY <1>1, InitTypeOK
<1>3. IInv /\ [Next]_vars => IInv'
  BY StepTypeOK, StepOpenInv
<1>4. IInv => OpenFileUntouched
  BY OpenIsNotSuperseded DEF OpenInv, Untouched, OpenFileUntouched
<1>5. QED
  BY <1>2, <1>3, <1>4, PTL DEF Spec

-----------------------------------------------------------------------------
(* Nothing is deleted unsent, when broadcasts keep clear of the tasks       *)

\* onReceive and doInBackground take turns.
TakeTurns == pc # "idle" \/ tasks > 0 => main = "idle"

\* The entry that is about to be deleted is the file that was sent.
SameFile ==
  /\ pc = "post" => file = Slot
  /\ pc = "delete" => Slot \in Created /\ (Slot \notin disk \/ received[Slot] > 0)

SentInv == TakeTurns /\ SameFile /\ DeletedOnlyAfterUpload

\* steps of onReceive: no task is running
LEMMA ReceiveSentInv ==
  ASSUME SentInv, TypeOK, main # "idle", UNCHANGED <<born, disk, received, pc>>,
         tasks' > 0 => main' = "idle"
  PROVE  SentInv'
BY DEF SentInv, TakeTurns, SameFile, DeletedOnlyAfterUpload, TypeOK, Created

\* steps of a task that neither send nor delete
LEMMA TaskSentInv ==
  ASSUME SentInv, pc # "idle" \/ tasks > 0, pc' \notin {"post", "delete"},
         UNCHANGED <<born, disk, received, main>>
  PROVE  SentInv'
BY DEF SentInv, TakeTurns, SameFile, DeletedOnlyAfterUpload, Created

LEMMA StepSentInv ==
  ASSUME ~Overlap, Unreadable = {}, TypeOK, SentInv, [Next]_vars
  PROVE  SentInv'
<1> USE DEF serverVars, listVars, mainVars, taskVars
<1>1. CASE NewFile
  <2>1. born' \in disk' /\ Created' \subseteq Created \cup {born'} /\ disk' = disk \cup {born'}
    BY <1>1, Born DEF NewFile, Created
  <2>2. born' \notin Created /\ Slot' = Slot
    BY <1>1, Born DEF NewFile, Created, Slot
  <2>3. TakeTurns' /\ DeletedOnlyAfterUpload'
    <3>1. TakeTurns'
      BY <1>1 DEF NewFile, SentInv, TakeTurns
    <3>2. Created' \ disk' \subseteq Created \ disk /\ received' = received
      BY <1>1, <2>1 DEF NewFile
    <3>3. \A f \in Created \ disk : received[f] > 0
      BY DEF SentInv, DeletedOnlyAfterUpload
    <3>4. QED
      BY <3>1, <3>2, <3>3 DEF DeletedOnlyAfterUpload
  <2>4. SameFile'
    <3>1. UNCHANGED <<pc, file, received>>
      BY <1>1 DEF NewFile
    <3>2. Created \subseteq Created'
      BY <1>1, Born DEF NewFile, Created
    <3>3. QED
      BY <2>1, <2>2, <3>1, <3>2 DEF SentInv, SameFile
  <2>5. QED
    BY <2>3, <2>4 DEF SentInv
<1>2. CASE Broadcast
  BY <1>2 DEF Broadcast, At, SentInv, TakeTurns, SameFile, DeletedOnlyAfterUpload, Created
<1>3. CASE Receive
  BY <1>3, ReceiveSentInv
  DEF Receive, ListAlloc, ListMax, ListPos, ListFill, Execute, At, SentInv, TakeTurns
<1>4. CASE Transfer
  <2>1. Slot \in Created /\ Slot' = Slot /\ pc = "transfer"
    BY <1>4, SlotIsFile DEF Transfer, Goto, Slot
  <2>2. IF Slot \in disk THEN pc' = "post" ELSE pc' = "delete"
    BY <1>4 DEF Transfer, Goto
  <2>3. SameFile'
    BY <1>4, <2>1, <2>2 DEF Transfer, SameFile, Created
  <2>4. QED
    BY <1>4, <2>1, <2>3 DEF Transfer, SentInv, TakeTurns, DeletedOnlyAfterUpload, Created
<1>5. CASE Answered
  <2>1. /\ pc = "post" /\ pc' = "delete" /\ file = Slot /\ Slot' = Slot /\ file \in Created
        /\ received' = [received EXCEPT ![file] = @ + 1]
    BY <1>5 DEF Answered, Goto, SentInv, SameFile, Slot, TypeOK
  <2>2. \A f \in Created : received[f] \in Nat /\ received'[f] >= received[f]
    BY <2>1, Born DEF TypeOK
  <2>3. received'[file] > 0
    BY <2>1, Born DEF TypeOK
  <2>4. SameFile'
    BY <1>5, <2>1, <2>3 DEF Answered, SameFile, Created
  <2>5. DeletedOnlyAfterUpload'
    BY <1>5, <2>1, <2>2 DEF Answered, SentInv, DeletedOnlyAfterUpload, Created
  <2>6. QED
    BY <1>5, <2>1, <2>4, <2>5 DEF Answered, SentInv, TakeTurns
<1>6. CASE AnswerLost
  <2>1. /\ pc = "post" /\ pc' \in {"loop", "idle"} /\ file \in Created
        /\ received' = [received EXCEPT ![file] = @ + 1]
    BY <1>6 DEF AnswerLost, HttpFail, Goto, TypeOK
  <2>2. \A f \in Created : received[f] \in Nat /\ received'[f] >= received[f]
    BY <2>1, Born DEF TypeOK
  <2>3. DeletedOnlyAfterUpload'
    BY <1>6, <2>1, <2>2 DEF AnswerLost, HttpFail, SentInv, DeletedOnlyAfterUpload, Created
  <2>4. QED
    BY <1>6, <2>1, <2>3 DEF AnswerLost, HttpFail, SentInv, TakeTurns, SameFile
<1>7. CASE Delete
  <2>1. pc = "delete" /\ pc' = "advance" /\ disk' = disk \ {Slot} /\ UNCHANGED <<born, received, main>>
    BY <1>7 DEF Delete, Goto
  <2>2. DeletedOnlyAfterUpload'
    BY <2>1 DEF SentInv, SameFile, DeletedOnlyAfterUpload, Created
  <2>3. QED
    BY <1>7, <2>1, <2>2 DEF SentInv, TakeTurns, SameFile
<1>8. CASE Start
  BY <1>8, TaskSentInv DEF Start, Goto
<1>9. CASE NextFile
  BY <1>9, TaskSentInv DEF NextFile, Goto
<1>10. CASE ListDone \/ TestLength \/ Refused \/ Advance \/ NotAtEnd \/ AtEnd \/ Reset \/ Wake
  BY <1>10, TaskSentInv
  DEF ListDone, TestLength, Refused, HttpFail, Advance, NotAtEnd, AtEnd, Reset, Wake, Goto
<1>11. ASSUME Die PROVE SentInv'
  BY <1>11 DEF Die, SentInv, TakeTurns, SameFile, DeletedOnlyAfterUpload, Created
<1>12. CASE Throw \/ Kill
  BY <1>11, <1>12 DEF Throw, Kill
<1>13. CASE UNCHANGED vars
  BY <1>13 DEF vars, SentInv, TakeTurns, SameFile, DeletedOnlyAfterUpload, Created, Slot
<1>14. QED
  BY <1>1, <1>2, <1>3, <1>4, <1>5, <1>6, <1>7, <1>8, <1>9, <1>10, <1>12, <1>13 DEF Next, Task

\* When no broadcast arrives while a task runs or waits, and no read fails, the app
\* deletes a file only after the server has received it, through refused uploads, lost
\* answers and deaths of the app.
THEOREM DeletedFilesAreUploaded ==
  ASSUME ~Overlap, Unreadable = {}
  PROVE  Spec => []DeletedOnlyAfterUpload
<1> DEFINE IInv == TypeOK /\ QueueRoom /\ SentInv
<1>1. Init => SentInv
  BY DEF Init, SentInv, TakeTurns, SameFile, DeletedOnlyAfterUpload, Created
<1>2. Init => IInv
  BY <1>1, InitTypeOK
<1>3. IInv /\ [Next]_vars => IInv'
  BY StepTypeOK, StepSentInv
<1>4. IInv => DeletedOnlyAfterUpload
  BY DEF SentInv
<1>5. QED
  BY <1>2, <1>3, <1>4, PTL DEF Spec

-----------------------------------------------------------------------------
(* The list and the indices, when broadcasts keep clear of the tasks        *)

\* every entry is there, and list_max counts them
Whole == /\ \A k \in DOMAIN file_list : file_list[k] # NULL
         /\ list_max = Len(file_list)

\* one task at a time, and none while onReceive runs
OneTask ==
  /\ TakeTurns
  /\ tasks <= 1
  /\ pc # "idle" => tasks = 0

\* what onReceive has done to the list so far
Listing ==
  /\ main \in {"alloc", "max", "pos"} => filled = 0
  /\ main \in {"max", "pos", "fill"} => Len(file_list) = Len(found)
  /\ main \in {"pos", "fill"} => list_max = Len(found)
  /\ main = "fill" => \A k \in 1..filled : file_list[k] # NULL

\* the task's variable i stays inside the list until the list is given up
InList ==
  /\ tasks > 0 \/ pc \notin {"idle", "reset", "asleep"} => Whole
  /\ pc \in {"length", "transfer", "post", "delete", "advance"} => i < list_max

ListInv == OneTask /\ Listing /\ InList

LEMMA ListedFile ==
  ASSUME TypeOK, Whole, i < list_max
  PROVE  IsFile
<1>1. i \in Nat /\ Len(file_list) \in Nat /\ list_max = Len(file_list) /\ DOMAIN file_list = 1..Len(file_list)
  BY DEF TypeOK, Whole
<1>2. i + 1 \in DOMAIN file_list
  BY <1>1
<1>3. QED
  BY <1>1, <1>2 DEF Whole, IsFile, Slot

LEMMA NoThrow == ASSUME TypeOK, ListInv PROVE ~Throw
<1>1. ~(tasks > 0 /\ \E k \in DOMAIN file_list : file_list[k] = NULL)
  BY DEF ListInv, InList, Whole
<1>2. pc = "loop" /\ i < list_max => IsFile
  BY ListedFile DEF ListInv, InList
<1>3. pc \in {"length", "transfer", "delete"} => IsFile
  BY ListedFile DEF ListInv, InList
<1>4. QED
  BY <1>1, <1>2, <1>3 DEF Throw

LEMMA StepListInv ==
  ASSUME ~Overlap, TypeOK, ListInv, [Next]_vars
  PROVE  ListInv'
<1> USE DEF serverVars, listVars, mainVars, taskVars
<1>1. CASE NewFile \/ UNCHANGED vars
  BY <1>1 DEF NewFile, vars, ListInv, OneTask, TakeTurns, Listing, InList, Whole
<1>2. CASE Broadcast
  BY <1>2 DEF Broadcast, At, ListInv, OneTask, TakeTurns, Listing, InList, TypeOK
<1>3. CASE ListAlloc
  <2>1. Len(file_list') = Len(found)
    BY <1>3 DEF ListAlloc, TypeOK
  <2>2. QED
    BY <1>3, <2>1 DEF ListAlloc, At, ListInv, OneTask, TakeTurns, Listing, InList, TypeOK
<1>4. CASE ListMax
  BY <1>4 DEF ListMax, At, ListInv, OneTask, TakeTurns, Listing, InList, TypeOK
<1>5. CASE ListPos
  <2>1. main = "pos" /\ main' = "fill" /\ UNCHANGED <<file_list, list_max, found, filled, tasks, pc>>
    BY <1>5 DEF ListPos, At
  <2>2. QED
    BY <2>1 DEF ListInv, OneTask, TakeTurns, Listing, InList, TypeOK
<1>6. CASE ListFill
  <2>1. /\ main = "fill" /\ filled' = filled + 1 /\ filled' \in 1..Len(found)
        /\ file_list' = [file_list EXCEPT ![filled'] = found[filled']]
        /\ UNCHANGED <<main, list_max, found, tasks, pc>>
    BY <1>6 DEF ListFill, TypeOK
  <2>2. found[filled'] \in Files /\ filled' \in DOMAIN file_list /\ Len(file_list') = Len(file_list)
    BY <2>1, Born DEF TypeOK, ListInv, Listing
  <2>3. \A k \in 1..filled' : file_list'[k] # NULL
    BY <2>1, <2>2, FileAssumption DEF TypeOK, ListInv, Listing
  <2>4. QED
    BY <2>1, <2>2, <2>3 DEF ListInv, OneTask, TakeTurns, Listing, InList, TypeOK
<1>7. CASE Execute
  BY <1>7 DEF Execute, At, ListInv, OneTask, TakeTurns, Listing, InList, Whole, TypeOK
<1>8. CASE Start
  BY <1>8 DEF Start, Goto, ListInv, OneTask, TakeTurns, Listing, InList, Whole, TypeOK
<1>9. CASE NextFile \/ ListDone \/ TestLength \/ Transfer \/ Answered \/ Refused \/ AnswerLost \/ Delete
  BY <1>9 DEF NextFile, ListDone, TestLength, Transfer, Answered, Refused, AnswerLost, HttpFail, Delete,
     Goto, ListInv, OneTask, TakeTurns, Listing, InList, Whole, TypeOK
<1>10. CASE Advance \/ NotAtEnd \/ AtEnd \/ Reset \/ Wake
  BY <1>10 DEF Advance, NotAtEnd, AtEnd, Reset, Wake, Goto, ListInv, OneTask, TakeTurns, Listing, InList, Whole, TypeOK
<1>11. CASE Throw
  BY <1>11, NoThrow
<1>12. CASE Kill
  BY <1>12 DEF Kill, Die, ListInv, OneTask, TakeTurns, Listing, InList, TypeOK
<1>13. QED
  BY <1>1, <1>2, <1>3, <1>4, <1>5, <1>6, <1>7, <1>8, <1>9, <1>10, <1>11, <1>12 DEF Next, Receive, Task

LEMMA InitListInv == Init => ListInv
BY DEF Init, ListInv, OneTask, TakeTurns, Listing, InList

\* When no broadcast arrives while a task runs or waits, the three indices never lead a task past
\* the end of the list or to an entry that onReceive has not filled yet, whatever fails.
THEOREM NothingIsThrown ==
  ASSUME ~Overlap
  PROVE  Spec => NothingThrown
<1> DEFINE IInv == TypeOK /\ QueueRoom /\ ListInv
<1>1. Init => IInv
  BY InitTypeOK, InitListInv
<1>2. IInv /\ [Next]_vars => IInv'
  BY StepTypeOK, StepListInv
<1>3. IInv /\ [Next]_vars => [~Throw]_vars
  BY NoThrow
<1>4. QED
  BY <1>1, <1>2, <1>3, PTL DEF Spec, NothingThrown

-----------------------------------------------------------------------------
(* How often a file is sent                                                 *)

\* A file that is still there has been sent for every lost answer and every death at most,
\* and once more only if it is the one to be deleted next.
OnceInv ==
  /\ \A f \in Files : received[f] <= 1 + faults
  /\ \A f \in Files \ Created : received[f] = 0
  /\ \A f \in disk : received[f] <= faults \/ (pc = "delete" /\ f = Slot)
  /\ pc = "post" => file = Slot /\ file \in disk

\* steps that change neither the files nor what was sent
LEMMA QuietOnce ==
  ASSUME OnceInv, UNCHANGED <<born, disk, received, faults>>, pc # "delete", pc' # "post"
  PROVE  OnceInv'
BY DEF OnceInv, Created

LEMMA StepOnceInv ==
  ASSUME ~Overlap, TypeOK, ListInv, OnceInv, [Next]_vars
  PROVE  OnceInv'
<1> USE DEF serverVars, listVars, mainVars, taskVars
<1>0. /\ received \in [Files -> Nat] /\ faults \in Nat /\ disk \subseteq Created /\ Created \subseteq Files
      /\ main # "idle" => pc = "idle"
  BY Born, BoundsAreNat DEF TypeOK, ListInv, OneTask, TakeTurns
<1>1. CASE NewFile
  <2>1. /\ born' \in Files \ Created /\ Created' = Created \cup {born'} /\ disk' = disk \cup {born'}
        /\ UNCHANGED <<received, faults, pc, file>> /\ Slot' = Slot
    BY <1>1, Born, BoundsAreNat DEF NewFile, Created, Files, Slot
  <2>2. QED
    BY <1>0, <2>1 DEF OnceInv
<1>2. CASE Broadcast \/ Receive
  BY <1>0, <1>2, QuietOnce
  DEF Broadcast, Receive, ListAlloc, ListMax, ListPos, ListFill, Execute, At
<1>3. CASE Transfer
  <2>1. pc = "transfer" /\ pc' \in {"post", "delete"} /\ Slot \in Created /\ Slot' = Slot /\ file' = Slot
        /\ (pc' = "post" => Slot \in disk) /\ UNCHANGED <<born, disk, received, faults>>
    BY <1>3, SlotIsFile DEF Transfer, Goto, Slot
  <2>2. QED
    BY <2>1 DEF OnceInv, Created
<1>4. CASE Answered
  <2>1. /\ pc = "post" /\ pc' = "delete" /\ file = Slot /\ Slot' = Slot /\ file \in disk
        /\ received' = [received EXCEPT ![file] = @ + 1] /\ UNCHANGED <<born, disk, faults>>
    BY <1>4 DEF Answered, Goto, OnceInv, Slot
  <2>2. received'[file] = received[file] + 1 /\ \A f \in Files : f # file => received'[f] = received[f]
    BY <1>0, <2>1
  <2>3. received[file] <= faults
    BY <2>1 DEF OnceInv
  <2>4. QED
    BY <1>0, <2>1, <2>2, <2>3 DEF OnceInv, Created
<1>5. CASE AnswerLost
  <2>1. /\ pc = "post" /\ pc' \in {"loop", "idle"} /\ file \in disk /\ faults' = faults + 1
        /\ received' = [received EXCEPT ![file] = @ + 1] /\ UNCHANGED <<born, disk>>
    BY <1>5 DEF AnswerLost, HttpFail, Goto, OnceInv
  <2>2. received'[file] = received[file] + 1 /\ \A f \in Files : f # file => received'[f] = received[f]
    BY <1>0, <2>1
  <2>3. \A f \in disk : received[f] <= faults
    BY <2>1 DEF OnceInv
  <2>4. QED
    BY <1>0, <2>1, <2>2, <2>3 DEF OnceInv, Created
<1>6. CASE Delete
  <2>1. pc = "delete" /\ pc' = "advance" /\ disk' = disk \ {Slot} /\ UNCHANGED <<born, received, faults>>
    BY <1>6 DEF Delete, Goto
  <2>2. QED
    BY <2>1 DEF OnceInv, Created
<1>7. CASE \/ Start \/ NextFile \/ ListDone \/ TestLength \/ Refused \/ Advance \/ NotAtEnd \/ AtEnd
           \/ Reset \/ Wake
  BY <1>7, QuietOnce
  DEF Start, NextFile, ListDone, TestLength, Refused, HttpFail, Advance, NotAtEnd, AtEnd, Reset, Wake, Goto
<1>8. CASE Throw
  BY <1>8, NoThrow
<1>9. CASE Kill
  <2>1. pc' = "idle" /\ faults' = faults + 1 /\ UNCHANGED <<born, disk, received>>
    BY <1>9 DEF Kill, Die
  <2>2. QED
    BY <1>0, <2>1 DEF OnceInv, Created
<1>10. CASE UNCHANGED vars
  BY <1>10 DEF vars, OnceInv, Created, Slot
<1>11. QED
  BY <1>1, <1>2, <1>3, <1>4, <1>5, <1>6, <1>7, <1>8, <1>9, <1>10 DEF Next, Task

\* When no broadcast arrives while a task runs or waits, the server receives a file once, and once
\* more for every lost answer and every death of the app, however many files and tries there are.
THEOREM FilesAreSentOnce ==
  ASSUME ~Overlap
  PROVE  Spec => []SentOnce
<1> DEFINE IInv == TypeOK /\ QueueRoom /\ ListInv /\ OnceInv
<1>1. Init => OnceInv
  BY BoundsAreNat DEF Init, OnceInv
<1>2. Init => IInv
  BY <1>1, InitTypeOK, InitListInv
<1>3. IInv /\ [Next]_vars => IInv'
  BY StepTypeOK, StepListInv, StepOnceInv
<1>4. IInv => SentOnce
  BY DEF OnceInv, SentOnce
<1>5. QED
  BY <1>2, <1>3, <1>4, PTL DEF Spec

=============================================================================
