------------------------------- MODULE Daemon -------------------------------
(***************************************************************************)
(* The log files of the trace daemon: main, io_file_write and              *)
(* log_file_creat of androtrace_daemon.c.  A chunk is the content of one   *)
(* buffer of the ring; the ring itself is in TraceRing.  A file is named   *)
(* after the second of its creation, so `creat' within one second opens    *)
(* the same file again and truncates it.  Descriptors matter: a failing    *)
(* creat leaves io_fd = 0, which is stdin, and the next close takes it.    *)
(***************************************************************************)
EXTENDS Integers, FiniteSets

CONSTANTS
  IO_FILE_SIZE,       \* a new file is begun before this size is passed
  IO_BUF_SIZE,        \* size of the ring's buffers
  TRANS_BUFFER_SIZE,  \* the uploader sends files of up to this size whole
  ChunkSizes,         \* what androtrace_read can return
  Rate,               \* the ring fills at most this many buffers in a second
  MaxChunks,          \* bound: chunks read
  MaxSeconds,         \* bound: the clock
  MaxCreatFails,      \* bound: failing creats
  MaxWriteFails,      \* bound: failing and short writes
  MaxDeaths,          \* bound: deaths of the daemon
  Stdin, Closed       \* what descriptor 0 is besides a file

ASSUME SizeAssumption ==
  /\ {IO_FILE_SIZE, IO_BUF_SIZE, TRANS_BUFFER_SIZE} \subseteq Nat
  /\ ChunkSizes \subseteq 1..IO_BUF_SIZE
ASSUME BoundAssumption ==
  {Rate, MaxChunks, MaxSeconds, MaxCreatFails, MaxWriteFails, MaxDeaths} \subseteq Nat
ASSUME NameAssumption == Stdin \notin Int /\ Closed \notin Int /\ Stdin # Closed

Seconds == 0..MaxSeconds
Names   == Seconds

VARIABLES
  now,          \* gettimeofday, in seconds
  burst,        \* chunks read in this second
  pc,           \* "sleep", "main", "poll", "test", "write"
  io_fd,        \* 0 or 4; 1 to 3 are stdout, stderr and the device
  descriptor,   \* what the descriptors 0 and 4 are: a file's name, Stdin or Closed
  io_f_offset,
  file,         \* for each name, whether the file exists, its size and its chunks
  chunk,        \* number and size of the chunk in io_buf_data
  lost,         \* the chunks that a fault kept from being stored whole
  creatFails, writeFails, deaths

clockVars == <<now, burst>>
fdVars    == <<io_fd, descriptor>>
faultVars == <<creatFails, writeFails, deaths>>
vars == <<clockVars, pc, fdVars, io_f_offset, file, chunk, lost, faultVars>>

NoFile    == [exists |-> FALSE, size |-> 0, chunks |-> {}]
EmptyFile == [exists |-> TRUE,  size |-> 0, chunks |-> {}]

Init ==
  /\ now = 0 /\ burst = 0
  /\ pc = "sleep"
  /\ io_fd = 0
  /\ descriptor = [d \in {0, 4} |-> IF d = 0 THEN Stdin ELSE Closed]
  /\ io_f_offset = 0
  /\ file = [n \in Names |-> NoFile]
  /\ chunk = [number |-> 0, size |-> 0]
  /\ lost = {}
  /\ creatFails = 0 /\ writeFails = 0 /\ deaths = 0

\* The clock.  The sleep of 20 seconds and the wait for a plausible year at the
\* start of main are over at the earliest in the next second.
Tick ==
  /\ now < MaxSeconds
  /\ now' = now + 1
  /\ burst' = 0
  /\ \/ pc = "sleep" /\ pc' = "main"
     \/ UNCHANGED pc
  /\ UNCHANGED <<fdVars, io_f_offset, file, chunk, lost, faultVars>>

\* the lowest free descriptor, once io_fd is closed
LowestFree == IF descriptor[0] = Closed \/ (pc = "test" /\ io_fd = 0) THEN 0 ELSE 4

\* close(io_fd), which at the start of main there is none of
AfterClose == IF pc = "test" THEN [descriptor EXCEPT ![io_fd] = Closed] ELSE descriptor

\* slip: on an error the descriptor that is returned is closed
LogFileCreatCloses ==
  \/ /\ io_fd' = LowestFree
     /\ descriptor' = [AfterClose EXCEPT ![io_fd'] = now]
     /\ file' = [file EXCEPT ![now] = EmptyFile]
     /\ UNCHANGED creatFails
  \/ /\ creatFails < MaxCreatFails
     /\ creatFails' = creatFails + 1
     /\ io_fd' = 0
     /\ descriptor' = [AfterClose EXCEPT ![0] = Closed]
     /\ UNCHANGED file

\* log_file_creat: returns the new descriptor, or 0 when creat fails
LogFileCreat ==
  \/ /\ io_fd' = LowestFree
     /\ descriptor' = [AfterClose EXCEPT ![io_fd'] = now]
     /\ file' = [file EXCEPT ![now] = EmptyFile]
     /\ UNCHANGED creatFails
  \/ /\ creatFails < MaxCreatFails
     /\ creatFails' = creatFails + 1
     /\ io_fd' = 0
     /\ descriptor' = AfterClose
     /\ UNCHANGED file

\* main up to its loop
Main ==
  /\ pc = "main"
  /\ LogFileCreat
  /\ pc' = "poll"
  /\ UNCHANGED <<clockVars, io_f_offset, chunk, lost, writeFails, deaths>>

\* poll has IO_LOG among its events and read returns a whole buffer
Read(size) ==
  /\ pc = "poll"
  /\ burst < Rate /\ chunk.number < MaxChunks
  /\ chunk' = [number |-> chunk.number + 1, size |-> size]
  /\ burst' = burst + 1
  /\ pc' = "test"
  /\ UNCHANGED <<now, fdVars, io_f_offset, file, lost, faultVars>>

\* slip: a file is never filled to the last byte
FitsBelow == io_f_offset + chunk.size < IO_FILE_SIZE

\* slip: the size of the chunk is not looked at
FitsOffsetOnly == io_f_offset <= IO_FILE_SIZE

Fits == io_f_offset + chunk.size <= IO_FILE_SIZE

GoOn ==
  /\ pc = "test" /\ Fits
  /\ pc' = "write"
  /\ UNCHANGED <<clockVars, fdVars, io_f_offset, file, chunk, lost, faultVars>>

NewFile ==
  /\ pc = "test" /\ ~Fits
  /\ LogFileCreat
  /\ io_f_offset' = 0
  /\ pc' = "write"
  /\ UNCHANGED <<clockVars, chunk, lost, writeFails, deaths>>

Target == descriptor[io_fd]

\* slip: the second write of io_file_write is missing
WriteAllLost ==
  /\ pc = "write" /\ Target # Closed
  /\ io_f_offset' = io_f_offset + chunk.size
  /\ IF Target = Stdin \/ io_f_offset = 0
       THEN UNCHANGED <<file, lost>>
       ELSE /\ file' = [file EXCEPT ![Target].size = @ + chunk.size,
                                    ![Target].chunks = @ \cup {chunk.number}]
            /\ UNCHANGED lost
  /\ pc' = "poll"
  /\ UNCHANGED <<clockVars, fdVars, chunk, faultVars>>

\* write(io_fd, io_buf_data, read_bytes) writes it all; to stdin it is lost
WriteAll ==
  /\ pc = "write" /\ Target # Closed
  /\ io_f_offset' = io_f_offset + chunk.size
  /\ IF Target = Stdin
       THEN lost' = lost \cup {chunk.number} /\ UNCHANGED file
       ELSE /\ file' = [file EXCEPT ![Target].size = @ + chunk.size,
                                    ![Target].chunks = @ \cup {chunk.number}]
            /\ UNCHANGED lost
  /\ pc' = "poll"
  /\ UNCHANGED <<clockVars, fdVars, chunk, faultVars>>

\* the disk is full after some of it
WriteSome ==
  /\ pc = "write" /\ Target \in Names
  /\ writeFails < MaxWriteFails /\ writeFails' = writeFails + 1
  /\ \E written \in 1..(chunk.size - 1) :
       /\ io_f_offset' = io_f_offset + written
       /\ file' = [file EXCEPT ![Target].size = @ + written]
  /\ lost' = lost \cup {chunk.number}
  /\ pc' = "poll"
  /\ UNCHANGED <<clockVars, fdVars, chunk, creatFails, deaths>>

\* write returns -1, which is added to the offset like a number of bytes
WriteFails ==
  /\ pc = "write"
  /\ \/ Target = Closed /\ UNCHANGED writeFails
     \/ Target # Closed /\ writeFails < MaxWriteFails /\ writeFails' = writeFails + 1
  /\ io_f_offset' = io_f_offset - 1
  /\ lost' = lost \cup {chunk.number}
  /\ pc' = "poll"
  /\ UNCHANGED <<clockVars, fdVars, file, chunk, creatFails, deaths>>

\* the daemon dies, and init starts it again
Die ==
  /\ pc \notin {"sleep", "main"} /\ deaths < MaxDeaths
  /\ deaths' = deaths + 1
  /\ lost' = IF pc = "poll" THEN lost ELSE lost \cup {chunk.number}
  /\ io_fd' = 0
  /\ descriptor' = [d \in {0, 4} |-> IF d = 0 THEN Stdin ELSE Closed]
  /\ io_f_offset' = 0
  /\ pc' = "sleep"
  /\ UNCHANGED <<clockVars, file, chunk, creatFails, writeFails>>

Step == Main \/ (\E size \in ChunkSizes : Read(size)) \/ GoOn \/ NewFile \/ WriteAll \/ WriteSome \/ WriteFails
Next == Tick \/ Step \/ Die

Spec == Init /\ [][Next]_vars

-----------------------------------------------------------------------------
(* Correctness                                                              *)

FileType == [exists : BOOLEAN, size : Nat, chunks : SUBSET (1..MaxChunks)]

TypeOK ==
  /\ now \in Seconds /\ burst \in 0..Rate
  /\ pc \in {"sleep", "main", "poll", "test", "write"}
  /\ io_fd \in {0, 4}
  /\ descriptor \in [{0, 4} -> Names \cup {Stdin, Closed}]
  /\ io_f_offset \in Int
  /\ file \in [Names -> FileType]
  /\ chunk \in [number : 0..MaxChunks, size : ChunkSizes \cup {0}]
  /\ lost \subseteq 1..MaxChunks
  /\ creatFails \in 0..MaxCreatFails /\ writeFails \in 0..MaxWriteFails /\ deaths \in 0..MaxDeaths

\* Http.file_transfer reads at most TRANS_BUFFER_SIZE bytes, sends them, and the file is
\* deleted.  IO_FILE_SIZE keeps the files below it, also when failing writes have turned
\* io_f_offset back (androtrace_daemon.c:63).
FitsUpload == \A n \in Names : file[n].size <= TRANS_BUFFER_SIZE

\* "creat(path, 0777)" (androtrace_daemon.c:46) truncates the file that has the name
\* already.  The names are seconds; still, while buffers fill at the rate assumed, no file is
\* ever truncated, and one that was left is never written to again.
LeftUntouched ==
  [][\A n \in Names : file[n].exists =>
       /\ file'[n].exists /\ file[n].size <= file'[n].size /\ file[n].chunks \subseteq file'[n].chunks
       /\ n # Target => file'[n] = file[n]]_vars

\* A chunk that androtrace_read has handed out, and that no fault has hit, is whole in
\* exactly one file, and the order of the names is the order of the chunks.
StoredOnceInOrder ==
  /\ \A c \in 1..chunk.number : c \notin lost /\ (c < chunk.number \/ pc \in {"poll", "sleep", "main"}) =>
       Cardinality({n \in Names : c \in file[n].chunks}) = 1
  /\ \A m, n \in Names : \A c \in file[m].chunks, d \in file[n].chunks : m < n => c < d

\* A closed descriptor is never left by itself: every write fails and takes one from the
\* offset, so that the next file is put off for ever.  After one failing creat the daemon
\* writes to stdin until the next file is due, no longer; it takes a second one, which
\* finds descriptor 0 closed, to make it deaf.
NeverDeaf == pc \in {"poll", "test", "write"} /\ Target = Closed => creatFails >= 2

=============================================================================
