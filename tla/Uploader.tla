------------------------------ MODULE Uploader ------------------------------
(***************************************************************************)
(* The transfer app: WifiReceiver.onReceive lists the trace files that the *)
(* daemon has closed, Http.doInBackground sends them to the server and     *)
(* deletes them.  onReceive runs on the main thread, the Http tasks run    *)
(* one after the other on AsyncTask's worker; they share the static fields *)
(* file_list, list_pos and list_max of Info without a lock.  A step is one *)
(* access to those fields, to the file system or to the network.           *)
(*                                                                         *)
(* Abstracted: a file is the number of its creation; its content is        *)
(* readable or not, and small enough for the one read and the one POST     *)
(* that file_transfer makes.  Info.start_flag is left out: it starts true  *)
(* and is only ever set to true.                                           *)
(***************************************************************************)
EXTENDS Naturals, Sequences, FiniteSets

CONSTANTS
  MaxFiles,    \* bound: files that are created
  MaxTasks,    \* bound: Http tasks waiting for the worker
  MaxFaults,   \* bound: answers lost and deaths of the app
  MaxSent,     \* bound: how often the server can receive one file
  Ext,         \* the extension of each file: "uio", "ufls", "um", "umd", "other"
  Stamp,       \* the lastModified of each file
  Small,       \* the files of at most 1000 bytes
  Unreadable,  \* the files that are empty or that cannot be read
  Overlap,     \* whether broadcasts come while a task runs or waits
  NULL

Files == 1..MaxFiles

ASSUME BoundAssumption == {MaxFiles, MaxTasks, MaxFaults, MaxSent} \subseteq Nat
ASSUME FileAssumption  ==
  /\ Ext \in [Files -> {"uio", "ufls", "um", "umd", "other"}]
  /\ Stamp \in [Files -> Nat]
  /\ Small \subseteq Files /\ Unreadable \subseteq Files
  /\ NULL \notin Files
ASSUME OverlapAssumption == Overlap \in BOOLEAN

VARIABLES
  born,       \* how many files were created
  disk,       \* the files that exist
  received,   \* how often the server has received each file
  file_list,  \* Info.file_list
  list_pos,   \* Info.list_pos
  list_max,   \* Info.list_max
  main,       \* where onReceive is
  found,      \* the files it puts on the list
  filled,     \* how many of them it has put there
  tasks,      \* the Http tasks waiting
  pc,         \* where the running task is
  i,          \* its loop variable
  name,       \* the file whose name it has read
  file,       \* the file it sends
  faults      \* answers lost and deaths of the app

serverVars == <<received, faults>>
listVars   == <<file_list, list_pos, list_max>>
mainVars   == <<main, found, filled>>
taskVars   == <<pc, i, name, file>>
vars == <<born, disk, serverVars, listVars, mainVars, tasks, taskVars>>

-----------------------------------------------------------------------------
(* The trace directories                                                    *)

Directory(f) ==
  CASE Ext[f] \in {"uio", "other"} -> "io"
    [] Ext[f] = "ufls" -> "filels"
    [] Ext[f] = "um"   -> "mem"
    [] Ext[f] = "umd"  -> "mdetail"

\* the daemon closes the last file of the directory and creates the next
NewFile ==
  /\ born < MaxFiles
  /\ born' = born + 1
  /\ disk' = disk \cup {born'}
  /\ UNCHANGED <<serverVars, listVars, mainVars, tasks, taskVars>>

\* GetFileList: the files of a directory, sorted by lastModified
GetFileList(directory) ==
  LET S == {f \in disk : Directory(f) = directory} IN
  {s \in [1..Cardinality(S) -> S] :
     \A j, k \in 1..Cardinality(S) : j < k => s[j] # s[k] /\ Stamp[s[j]] <= Stamp[s[k]]}

\* slip: the open file is listed too
ClosedAndOpen(list) == list

\* the for loops up to length - 1: the newest file is still being written
Closed(list) == SubSeq(list, 1, Len(list) - 1)

-----------------------------------------------------------------------------
(* onReceive, with the battery charged and the wifi connected               *)

At(from, to) == main = from /\ main' = to

Broadcast ==
  /\ At("idle", "alloc")
  /\ tasks < MaxTasks
  /\ Overlap \/ (pc = "idle" /\ tasks = 0)
  /\ \E io_list \in GetFileList("io"), ind_list \in GetFileList("filels"),
        mem_list \in GetFileList("mem"), minfo_list \in GetFileList("mdetail") :
       found' = Closed(io_list) \o Closed(ind_list) \o Closed(mem_list) \o Closed(minfo_list)
  /\ filled' = 0
  /\ UNCHANGED <<born, disk, serverVars, listVars, tasks, taskVars>>

\* Info.file_list = new File[file_length]
ListAlloc ==
  /\ At("alloc", "max")
  /\ file_list' = [k \in 1..Len(found) |-> NULL]
  /\ UNCHANGED <<born, disk, serverVars, list_pos, list_max, found, filled, tasks, taskVars>>

\* slip: the open file is counted
ListMaxCountsOpen ==
  /\ At("max", "pos")
  /\ list_max' = Len(found) + 1
  /\ UNCHANGED <<born, disk, serverVars, file_list, list_pos, found, filled, tasks, taskVars>>

ListMax ==
  /\ At("max", "pos")
  /\ list_max' = Len(found)
  /\ UNCHANGED <<born, disk, serverVars, file_list, list_pos, found, filled, tasks, taskVars>>

\* slip: the position is kept
ListPosKept ==
  /\ At("pos", "fill")
  /\ UNCHANGED <<born, disk, serverVars, listVars, found, filled, tasks, taskVars>>

ListPos ==
  /\ At("pos", "fill")
  /\ list_pos' = 0
  /\ UNCHANGED <<born, disk, serverVars, file_list, list_max, found, filled, tasks, taskVars>>

ListFill ==
  /\ main = "fill"
  /\ filled < Len(found)
  /\ filled' = filled + 1
  /\ file_list' = [file_list EXCEPT ![filled'] = found[filled']]
  /\ UNCHANGED <<born, disk, serverVars, list_pos, list_max, main, found, tasks, taskVars>>

\* myAsyncTask.execute()
Execute ==
  /\ At("fill", "idle")
  /\ filled = Len(found)
  /\ tasks' = tasks + 1
  /\ UNCHANGED <<born, disk, serverVars, listVars, found, filled, taskVars>>

-----------------------------------------------------------------------------
(* doInBackground; Info.file_list[i] is read anew at every use              *)

Goto(from, to) == pc = from /\ pc' = to

Slot   == file_list[i + 1]
IsFile == i < Len(file_list) /\ Slot # NULL

\* the debug output reads every entry of the list; an empty list ends the task
Start ==
  /\ tasks > 0
  /\ \A k \in DOMAIN file_list : file_list[k] # NULL
  /\ tasks' = tasks - 1
  /\ Goto("idle", IF list_max = 0 THEN "idle" ELSE "loop")
  /\ i' = list_pos
  /\ UNCHANGED <<born, disk, serverVars, listVars, mainVars, name, file>>

\* i < Info.list_max: getName and the choice by extension
NextFile ==
  /\ i < list_max
  /\ IsFile
  /\ name' = Slot
  /\ Goto("loop", CASE Ext[Slot] = "other" -> "advance"
                    [] Ext[Slot] = "umd" -> "length"
                    [] OTHER -> "transfer")
  /\ UNCHANGED <<born, disk, serverVars, listVars, mainVars, tasks, i, file>>

ListDone ==
  /\ i >= list_max
  /\ Goto("loop", "idle")
  /\ UNCHANGED <<born, disk, serverVars, listVars, mainVars, tasks, i, name, file>>

\* length() > 1000; a file that is gone has length 0
TestLength ==
  /\ IsFile
  /\ Goto("length", IF Slot \in disk \ Small THEN "transfer" ELSE "advance")
  /\ UNCHANGED <<born, disk, serverVars, listVars, mainVars, tasks, i, name, file>>

\* file_transfer up to http_transfer: IO_EXCEPTION when there is nothing to read
Transfer ==
  /\ IsFile
  /\ Goto("transfer", IF Slot \in disk \ Unreadable THEN "post" ELSE "delete")
  /\ file' = Slot
  /\ UNCHANGED <<born, disk, serverVars, listVars, mainVars, tasks, i, name>>

\* status 200 or 204
Answered ==
  /\ Goto("post", "delete")
  /\ received[file] < MaxSent
  /\ received' = [received EXCEPT ![file] = @ + 1]
  /\ UNCHANGED <<born, disk, faults, listVars, mainVars, tasks, i, name, file>>

\* slip: the file is deleted after a failure too
HttpFailDeletes ==
  /\ Goto("post", "delete")
  /\ UNCHANGED <<i, born, disk, listVars, mainVars, tasks, name, file>>

\* slip: the same file is tried again at once
HttpFailRetries ==
  /\ Goto("post", IF Ext[name] = "uio" THEN "transfer" ELSE "idle")
  /\ UNCHANGED <<i, born, disk, listVars, mainVars, tasks, name, file>>

\* HTTP_FAIL: the return of the uio branch is commented out, its loop goes on
HttpFail ==
  /\ Goto("post", IF Ext[name] = "uio" THEN "loop" ELSE "idle")
  /\ i' = IF Ext[name] = "uio" THEN i + 1 ELSE i
  /\ UNCHANGED <<born, disk, listVars, mainVars, tasks, name, file>>

\* no connection, or another status
Refused == HttpFail /\ UNCHANGED serverVars

\* the server has the file, the app does not learn of it
AnswerLost ==
  /\ HttpFail
  /\ faults < MaxFaults /\ received[file] < MaxSent
  /\ faults' = faults + 1
  /\ received' = [received EXCEPT ![file] = @ + 1]

\* slip: the file stays
DeleteForgotten ==
  /\ IsFile
  /\ Goto("delete", "advance")
  /\ UNCHANGED <<born, disk, serverVars, listVars, mainVars, tasks, i, name, file>>

Delete ==
  /\ IsFile
  /\ Goto("delete", "advance")
  /\ disk' = disk \ {Slot}
  /\ UNCHANGED <<born, serverVars, listVars, mainVars, tasks, i, name, file>>

\* Info.list_pos++
Advance ==
  /\ Goto("advance", "end_test")
  /\ list_pos' = list_pos + 1
  /\ UNCHANGED <<born, disk, serverVars, file_list, list_max, mainVars, tasks, i, name, file>>

\* check_file_end: go on with the next file, or ...
NotAtEnd ==
  /\ list_pos # list_max
  /\ Goto("end_test", "loop")
  /\ i' = i + 1
  /\ UNCHANGED <<born, disk, serverVars, listVars, mainVars, tasks, name, file>>

AtEnd ==
  /\ list_pos = list_max
  /\ Goto("end_test", "reset")
  /\ UNCHANGED <<born, disk, serverVars, listVars, mainVars, tasks, i, name, file>>

\* ... empty the list and sleep for half an hour
Reset ==
  /\ Goto("reset", "asleep")
  /\ list_pos' = 0
  /\ list_max' = 0
  /\ UNCHANGED <<born, disk, serverVars, file_list, mainVars, tasks, i, name, file>>

Wake ==
  /\ Goto("asleep", "idle")
  /\ UNCHANGED <<born, disk, serverVars, listVars, mainVars, tasks, i, name, file>>

-----------------------------------------------------------------------------
(* Death of the app: its memory is gone, the next broadcast starts it anew  *)

Die ==
  /\ file_list' = <<>> /\ list_pos' = 0 /\ list_max' = 0
  /\ main' = "idle" /\ found' = <<>> /\ filled' = 0
  /\ tasks' = 0
  /\ pc' = "idle" /\ i' = 0 /\ name' = NULL /\ file' = NULL
  /\ UNCHANGED <<born, disk, received>>

\* an ArrayIndexOutOfBoundsException or NullPointerException in doInBackground
Throw ==
  /\ \/ pc = "idle" /\ tasks > 0 /\ \E k \in DOMAIN file_list : file_list[k] = NULL
     \/ pc = "loop" /\ i < list_max /\ ~IsFile
     \/ pc \in {"length", "transfer", "delete"} /\ ~IsFile
  /\ Die
  /\ UNCHANGED faults

\* the system reclaims the app
Kill ==
  /\ pc # "idle"
  /\ faults < MaxFaults
  /\ faults' = faults + 1
  /\ Die

-----------------------------------------------------------------------------
Init ==
  /\ born = 0 /\ disk = {}
  /\ received = [f \in Files |-> 0] /\ faults = 0
  /\ file_list = <<>> /\ list_pos = 0 /\ list_max = 0
  /\ main = "idle" /\ found = <<>> /\ filled = 0
  /\ tasks = 0
  /\ pc = "idle" /\ i = 0 /\ name = NULL /\ file = NULL

Receive == ListAlloc \/ ListMax \/ ListPos \/ ListFill \/ Execute

Task ==
  \/ Start \/ NextFile \/ ListDone \/ TestLength \/ Transfer
  \/ Answered \/ Refused \/ AnswerLost
  \/ Delete \/ Advance \/ NotAtEnd \/ AtEnd \/ Reset \/ Wake \/ Throw

Next == NewFile \/ Broadcast \/ Receive \/ Task \/ Kill

\* the two threads run
Spec == Init /\ [][Next]_vars /\ WF_vars(Receive) /\ WF_vars(Task)

\* the half-day alarm keeps firing, and the server answers now and then
LiveSpec == Spec /\ WF_vars(Broadcast) /\ SF_vars(Answered)

-----------------------------------------------------------------------------
(* Correctness                                                              *)

Receiving == {"idle", "alloc", "max", "pos", "fill"}
Sending   == {"idle", "loop", "length", "transfer", "post", "delete", "advance",
              "end_test", "reset", "asleep"}

Created   == 1..born

\* Type invariant: in particular only files that were created are listed and sent.
TypeOK ==
  /\ born \in 0..MaxFiles /\ disk \subseteq Created
  /\ received \in [Files -> Nat] /\ faults \in 0..MaxFaults
  /\ file_list \in Seq(Created \cup {NULL}) /\ list_pos \in Nat /\ list_max \in Nat
  /\ main \in Receiving /\ found \in Seq(Created) /\ filled \in 0..Len(found)
  /\ tasks \in 0..MaxTasks
  /\ pc \in Sending /\ i \in Nat
  /\ name \in Created \cup {NULL} /\ file \in Created \cup {NULL}
  /\ pc = "post" => file \in Created

\* the file a directory's writer has open: no later one was created there
Open(f) == f \in Created /\ \A g \in Created : Directory(g) = Directory(f) => g <= f

\* The file the daemon is writing is neither sent nor deleted, however broadcasts and
\* tasks interleave on the list: onReceive leaves the newest file of each directory out.
OpenFileUntouched == \A f \in Files : Open(f) => f \in disk /\ received[f] = 0

\* doInBackground deletes a file when it has been sent ("file transfer is success. 1.
\* Delete file."): what is gone from the disk has reached the server.
DeletedOnlyAfterUpload == \A f \in Created \ disk : received[f] > 0

\* Apart from answers that got lost and deaths between the upload and the deletion, the
\* server receives every file once.
SentOnce == \A f \in Files : received[f] <= 1 + faults

\* The indices i, list_pos and list_max, which are kept apart, never lead the task past
\* the end of file_list.
NothingThrown == [][~Throw]_vars

\* Every task comes to its end, whatever the broadcasts do to list_max meanwhile: the
\* tasks behind it on the serial executor get their turn.
TaskEnds == pc # "idle" ~> pc = "idle"

\* Every file that the daemon has closed reaches the server, through failures, lost
\* answers and deaths of the app.
EveryFileUploaded ==
  \A f \in Files \ (Small \cup Unreadable) :
    (f \in Created /\ ~Open(f) /\ Ext[f] # "other") ~> received[f] > 0

=============================================================================
