---------------------------- MODULE Daemon_proofs ----------------------------
(***************************************************************************)
(* Proofs about the daemon's log files, for all sizes, rates and numbers   *)
(* of faults.                                                              *)
(***************************************************************************)
EXTENDS Daemon, FiniteSetTheorems, TLAPS

Running == pc \in {"poll", "test", "write"}

-----------------------------------------------------------------------------
(* Types                                                                    *)

LEMMA Kinds ==
  /\ Names = 0..MaxSeconds /\ MaxSeconds \in Nat
  /\ Stdin \notin Names /\ Closed \notin Names /\ Stdin # Closed
BY BoundAssumption, NameAssumption DEF Names, Seconds

LEMMA Sizes ==
  ASSUME TypeOK
  PROVE  /\ IO_BUF_SIZE \in Nat /\ IO_FILE_SIZE \in Nat
         /\ chunk.size \in 0..IO_BUF_SIZE /\ chunk.number \in 0..MaxChunks
<1>1. IO_BUF_SIZE \in Nat /\ IO_FILE_SIZE \in Nat
  BY SizeAssumption
<1>2. chunk.size \in ChunkSizes \cup {0} /\ chunk.number \in 0..MaxChunks
  BY DEF TypeOK
<1>3. ChunkSizes \cup {0} \subseteq 0..IO_BUF_SIZE
  BY <1>1, SizeAssumption
<1>4. QED
  BY <1>1, <1>2, <1>3

\* io_fd and the descriptors after log_file_creat
LEMMA CreatTypes ==
  ASSUME TypeOK, LogFileCreat
  PROVE  /\ io_fd' \in {0, 4}
         /\ descriptor' \in [{0, 4} -> Names \cup {Stdin, Closed}]
         /\ file' \in [Names -> FileType]
         /\ creatFails' \in 0..MaxCreatFails
<1>1. now \in Names /\ LowestFree \in {0, 4}
  BY DEF TypeOK, Names, LowestFree
<1>2. AfterClose \in [{0, 4} -> Names \cup {Stdin, Closed}]
  BY DEF TypeOK, AfterClose
<1>3. EmptyFile \in FileType
  BY DEF EmptyFile, FileType
<1>4. CASE UNCHANGED creatFails /\ io_fd' = LowestFree
           /\ descriptor' = [AfterClose EXCEPT ![io_fd'] = now]
           /\ file' = [file EXCEPT ![now] = EmptyFile]
  BY <1>1, <1>2, <1>3, <1>4 DEF TypeOK
<1>5. CASE creatFails < MaxCreatFails /\ creatFails' = creatFails + 1 /\ io_fd' = 0
           /\ descriptor' = AfterClose /\ UNCHANGED file
  BY <1>2, <1>5, BoundAssumption DEF TypeOK
<1>6. QED
  BY <1>4, <1>5 DEF LogFileCreat

\* TypeOK, and between read and write there is a chunk
TypeInv ==
  /\ TypeOK
  /\ pc \in {"test", "write"} => chunk.number > 0 /\ chunk.size \in ChunkSizes

LEMMA TypeInit == Init => TypeInv
<1> SUFFICES ASSUME Init PROVE TypeInv
  OBVIOUS
<1>1. {Rate, MaxChunks, MaxSeconds, MaxCreatFails, MaxWriteFails, MaxDeaths} \subseteq Nat
  BY BoundAssumption
<1>2. file \in [Names -> FileType]
  BY DEF Init, NoFile, FileType
<1>3. TypeOK
  BY <1>1, <1>2 DEF Init, TypeOK, Seconds
<1>4. QED
  BY <1>3 DEF Init, TypeInv

\* what a write may do to a file
LEMMA Written ==
  ASSUME TypeInv, pc = "write", Target \in Names, NEW n \in Nat, NEW c \in SUBSET {chunk.number}
  PROVE  [file EXCEPT ![Target].size = @ + n, ![Target].chunks = @ \cup c] \in [Names -> FileType]
<1>1. chunk.number \in 1..MaxChunks
  BY Sizes, BoundAssumption DEF TypeInv
<1>2. file[Target] \in FileType
  BY DEF TypeInv, TypeOK
<1>3. file[Target].size + n \in Nat /\ file[Target].chunks \cup c \in SUBSET (1..MaxChunks)
  BY <1>1, <1>2 DEF FileType
<1>4. [file[Target] EXCEPT !.size = @ + n, !.chunks = @ \cup c] \in FileType
  BY <1>2, <1>3 DEF FileType
<1>5. QED
  BY <1>4 DEF TypeInv, TypeOK

LEMMA TypeStep == TypeInv /\ [Next]_vars => TypeInv'
<1> SUFFICES ASSUME TypeInv, [Next]_vars PROVE TypeInv'
  OBVIOUS
<1> USE DEF TypeInv, TypeOK, Seconds
<1>b. {Rate, MaxChunks, MaxSeconds, MaxCreatFails, MaxWriteFails, MaxDeaths} \subseteq Nat
  BY BoundAssumption
<1>1. CASE Tick
  BY <1>b, <1>1 DEF Tick, fdVars, faultVars
<1>2. CASE Main
  BY <1>2, CreatTypes DEF Main, clockVars
<1>3. ASSUME NEW size \in ChunkSizes, Read(size) PROVE TypeInv'
  BY <1>b, <1>3 DEF Read, fdVars, faultVars
<1>4. CASE GoOn
  BY <1>4 DEF GoOn, clockVars, fdVars, faultVars
<1>5. CASE NewFile
  BY <1>5, CreatTypes DEF NewFile, clockVars
<1>6. CASE WriteAll
  <2>1. pc = "write" /\ chunk.size \in Nat /\ chunk.number \in 1..MaxChunks
    BY <1>b, <1>6, Sizes DEF WriteAll
  <2>2. lost' \subseteq 1..MaxChunks /\ io_f_offset' \in Int
    BY <1>6, <2>1 DEF WriteAll
  <2>3. file' \in [Names -> FileType]
    <3>1. CASE Target = Stdin
      BY <1>6, <3>1 DEF WriteAll
    <3>2. CASE Target # Stdin
      <4>1. Target \in Names
        BY <1>6, <3>2 DEF WriteAll, Target
      <4>2. file' = [file EXCEPT ![Target].size = @ + chunk.size,
                                 ![Target].chunks = @ \cup {chunk.number}]
        BY <1>6, <3>2 DEF WriteAll
      <4>3. QED
        BY <2>1, <4>1, <4>2, Written
    <3>3. QED
      BY <3>1, <3>2
  <2>4. QED
    BY <1>6, <2>2, <2>3 DEF WriteAll, clockVars, fdVars, faultVars
<1>7. CASE WriteSome
  <2>1. /\ pc = "write" /\ Target \in Names
        /\ chunk.size \in Nat /\ chunk.number \in 1..MaxChunks
    BY <1>b, <1>7, Sizes DEF WriteSome
  <2>2. PICK written \in 1..(chunk.size - 1) :
          /\ io_f_offset' = io_f_offset + written
          /\ file' = [file EXCEPT ![Target].size = @ + written]
    BY <1>7 DEF WriteSome
  <2>3. lost' \subseteq 1..MaxChunks /\ io_f_offset' \in Int
    BY <1>7, <2>1, <2>2 DEF WriteSome
  <2>4. file' \in [Names -> FileType]
    <3>1. file[Target] \in FileType /\ written \in Nat
      BY <2>1, <2>2
    <3>2. [file[Target] EXCEPT !.size = @ + written] \in FileType
      BY <3>1 DEF FileType
    <3>3. QED
      BY <2>2, <3>2
  <2>5. QED
    BY <1>b, <1>7, <2>3, <2>4 DEF WriteSome, clockVars, fdVars
<1>8. CASE WriteFails
  <2>1. pc = "write" /\ chunk.number \in 1..MaxChunks
    BY <1>b, <1>8, Sizes DEF WriteFails
  <2>2. lost' \subseteq 1..MaxChunks /\ io_f_offset' \in Int
    <3>1. lost' = lost \cup {chunk.number} /\ io_f_offset' = io_f_offset - 1
      BY <1>8 DEF WriteFails
    <3>2. lost \subseteq 1..MaxChunks /\ io_f_offset \in Int
      OBVIOUS
    <3>3. io_f_offset' \in Int
      BY <3>1, <3>2
    <3>4. QED
      BY <2>1, <3>1, <3>2, <3>3
  <2>3. writeFails' \in 0..MaxWriteFails
    BY <1>b, <1>8 DEF WriteFails
  <2>4. QED
    BY <1>8, <2>2, <2>3 DEF WriteFails, clockVars, fdVars
<1>9. CASE Die
  <2>1. lost' \subseteq 1..MaxChunks
    <3>1. CASE pc = "poll"
      BY <1>9, <3>1 DEF Die
    <3>2. CASE pc # "poll"
      <4>1. chunk.number \in 1..MaxChunks
        BY <1>b, <1>9, <3>2, Sizes DEF Die
      <4>2. QED
        BY <1>9, <3>2, <4>1 DEF Die
    <3>3. QED
      BY <3>1, <3>2
  <2>2. QED
    BY <1>b, <1>9, <2>1 DEF Die, clockVars
<1>10. CASE UNCHANGED vars
  BY <1>10 DEF vars, clockVars, fdVars, faultVars
<1>11. QED
  BY <1>1, <1>2, <1>3, <1>4, <1>5, <1>6, <1>7, <1>8, <1>9, <1>10 DEF Next, Step

\* The clock, the descriptors, the files and the chunk stay well-formed, whatever fails.
THEOREM TypeCorrect == Spec => []TypeOK
<1>1. Spec => []TypeInv
  BY TypeInit, TypeStep, PTL DEF Spec
<1>2. TypeInv => TypeOK
  BY DEF TypeInv
<1>3. QED
  BY <1>1, <1>2, PTL

-----------------------------------------------------------------------------
(* Descriptors                                                              *)

\* Before main there is only stdin; in its loop io_fd is the log file, or 0 after a failing
\* creat, and it is the second one that leaves descriptor 0 closed.
FdInv ==
  /\ pc \in {"sleep", "main"} =>
       io_fd = 0 /\ descriptor[0] = Stdin /\ descriptor[4] = Closed /\ io_f_offset = 0
  /\ Running =>
       /\ descriptor[0] \in Names => io_fd = 0
       /\ io_fd = 0 => creatFails >= 1
       /\ io_fd = 4 => descriptor[4] \in Names
       /\ descriptor[0] = Closed => creatFails >= 2

\* what the next writes go to after log_file_creat, and what happens to the files
LEMMA CreatFds ==
  ASSUME TypeInv, FdInv, LogFileCreat, pc \in {"main", "test"}
  PROVE  /\ descriptor'[0] \in Names => io_fd' = 0
         /\ io_fd' = 0 => creatFails' >= 1
         /\ io_fd' = 4 => descriptor'[4] \in Names
         /\ descriptor'[0] = Closed => creatFails' >= 2
         /\ \/ file' = [file EXCEPT ![now] = EmptyFile] /\ Target' = now
            \/ file' = file /\ Target' \notin Names
<1>1. /\ now \in Names /\ creatFails \in Nat /\ io_fd \in {0, 4}
      /\ descriptor \in [{0, 4} -> Names \cup {Stdin, Closed}]
      /\ AfterClose \in [{0, 4} -> Names \cup {Stdin, Closed}]
  BY BoundAssumption DEF TypeInv, TypeOK, Names, AfterClose
<1>2. pc = "main" => io_fd = 0 /\ AfterClose = descriptor
                     /\ descriptor[0] = Stdin /\ LowestFree = 4
  BY Kinds DEF FdInv, AfterClose, LowestFree
<1>3. pc = "test" => /\ AfterClose = [descriptor EXCEPT ![io_fd] = Closed]
                     /\ descriptor[0] \in Names => io_fd = 0
                     /\ io_fd = 0 => creatFails >= 1
                     /\ io_fd = 4 => descriptor[4] \in Names
                     /\ descriptor[0] = Closed => creatFails >= 2
  BY DEF FdInv, Running, AfterClose
<1>4. LowestFree = 0 => pc = "test" /\ creatFails >= 1
  BY <1>1, <1>2, <1>3, Kinds DEF LowestFree
<1>5. CASE /\ UNCHANGED creatFails /\ io_fd' = LowestFree
           /\ descriptor' = [AfterClose EXCEPT ![io_fd'] = now]
           /\ file' = [file EXCEPT ![now] = EmptyFile]
  <2>1. io_fd' \in {0, 4} /\ descriptor'[io_fd'] = now /\ Target' = now
    BY <1>1, <1>5 DEF LowestFree, Target
  <2>2. io_fd' = 4 => pc = "main" \/ (pc = "test" /\ io_fd = 4 /\ descriptor[0] # Closed)
    BY <1>1, <1>5 DEF LowestFree
  <2>3. io_fd' = 4 => descriptor'[0] \notin Names \cup {Closed}
    BY <1>1, <1>2, <1>3, <1>5, <2>2, Kinds
  <2>4. QED
    BY <1>1, <1>4, <1>5, <2>1, <2>3, Kinds
<1>6. CASE /\ creatFails < MaxCreatFails /\ creatFails' = creatFails + 1
           /\ io_fd' = 0 /\ descriptor' = AfterClose /\ UNCHANGED file
  <2>1. AfterClose[0] \notin Names
    BY <1>1, <1>2, <1>3, Kinds
  <2>2. AfterClose[0] = Closed => creatFails >= 1
    BY <1>1, <1>2, <1>3, Kinds
  <2>3. QED
    BY <1>1, <1>6, <2>1, <2>2 DEF Target
<1>7. QED
  BY <1>5, <1>6 DEF LogFileCreat

LEMMA FdInit == Init => FdInv
BY DEF Init, FdInv, Running

LEMMA FdStep == TypeInv /\ FdInv /\ [Next]_vars => FdInv'
<1> SUFFICES ASSUME TypeInv, FdInv, [Next]_vars PROVE FdInv'
  OBVIOUS
<1>1. CASE Tick
  BY <1>1 DEF Tick, fdVars, faultVars, FdInv, Running
<1>2. CASE Main \/ NewFile
  BY <1>2, CreatFds DEF Main, NewFile, FdInv, Running
<1>3. ASSUME NEW size \in ChunkSizes, Read(size) PROVE FdInv'
  BY <1>3 DEF Read, fdVars, faultVars, FdInv, Running
<1>4. CASE GoOn
  BY <1>4 DEF GoOn, fdVars, faultVars, FdInv, Running
<1>5. CASE WriteAll
  BY <1>5 DEF WriteAll, fdVars, faultVars, FdInv, Running
<1>6. CASE WriteSome \/ WriteFails
  BY <1>6 DEF WriteSome, WriteFails, fdVars, FdInv, Running
<1>7. CASE Die
  BY <1>7 DEF Die, FdInv, Running
<1>8. CASE UNCHANGED vars
  BY <1>8 DEF vars, fdVars, faultVars, FdInv, Running
<1>9. QED
  BY <1>1, <1>2, <1>3, <1>4, <1>5, <1>6, <1>7, <1>8 DEF Next, Step

LEMMA Fds == Spec => [](TypeInv /\ FdInv)
BY TypeInit, TypeStep, FdInit, FdStep, PTL DEF Spec

\* However often creat and write fail and the daemon dies, it takes two failing creats to
\* leave it with a closed descriptor.
THEOREM TwoFailsToDeafen == Spec => []NeverDeaf
<1>1. TypeInv /\ FdInv => NeverDeaf
  <2> SUFFICES ASSUME TypeInv, FdInv, Running, descriptor[io_fd] = Closed
               PROVE  creatFails >= 2
    BY DEF NeverDeaf, Running, Target
  <2>1. io_fd \in {0, 4}
    BY DEF TypeInv, TypeOK
  <2>2. QED
    BY <2>1, Kinds DEF FdInv
<1>2. QED
  BY <1>1, Fds, PTL

-----------------------------------------------------------------------------
(* Sizes                                                                    *)

\* Each fault turns io_f_offset back by one byte at most.
SizeInv ==
  /\ \A n \in Names : file[n].size <= IO_FILE_SIZE + writeFails
  /\ Target \in Names => file[Target].size <= io_f_offset + writeFails
  /\ pc = "write" => io_f_offset + chunk.size <= IO_FILE_SIZE

LEMMA SizeTypes ==
  ASSUME TypeInv
  PROVE  /\ IO_FILE_SIZE \in Nat /\ IO_BUF_SIZE \in Nat /\ chunk.size \in 0..IO_BUF_SIZE
         /\ io_f_offset \in Int /\ writeFails \in Nat
         /\ \A n \in Names : file[n].size \in Nat /\ file[n].chunks \subseteq 1..MaxChunks
         /\ io_fd \in {0, 4} /\ Target \in Names \cup {Stdin, Closed}
BY Sizes, BoundAssumption DEF TypeInv, TypeOK, FileType, Target

LEMMA SizeStep ==
  ASSUME IO_BUF_SIZE <= IO_FILE_SIZE, TypeInv, FdInv, SizeInv, [Next]_vars
  PROVE  SizeInv'
<1> USE SizeTypes, Kinds
<1>1. CASE Tick
  BY <1>1 DEF Tick, fdVars, faultVars, SizeInv, Target
<1>2. CASE Main \/ NewFile
  <2>1. /\ io_f_offset' = 0 /\ writeFails' = writeFails /\ chunk' = chunk
        /\ pc \in {"main", "test"} /\ LogFileCreat
    BY <1>2 DEF Main, NewFile, FdInv
  <2>2. now \in Names /\ file \in [Names -> FileType] /\ EmptyFile.size = 0
    BY DEF TypeInv, TypeOK, Names, EmptyFile
  <2>3. CASE file' = [file EXCEPT ![now] = EmptyFile] /\ Target' = now
    BY <2>1, <2>2, <2>3 DEF SizeInv
  <2>4. CASE file' = file /\ Target' \notin Names
    BY <2>1, <2>4 DEF SizeInv
  <2>5. QED
    BY <2>1, <2>3, <2>4, CreatFds
<1>3. ASSUME NEW size \in ChunkSizes, Read(size) PROVE SizeInv'
  BY <1>3 DEF Read, fdVars, faultVars, SizeInv, Target
<1>4. CASE GoOn
  BY <1>4 DEF GoOn, Fits, fdVars, faultVars, SizeInv, Target
<1>5. ASSUME pc = "write", UNCHANGED <<fdVars, chunk>>, pc' = "poll",
             NEW n \in Nat, n <= chunk.size, io_f_offset' = io_f_offset + n,
             writeFails' \in Nat, writeFails' >= writeFails,
             \A f \in Names : file'[f].size = file[f].size + IF f = Target THEN n ELSE 0
      PROVE  SizeInv'
  <2>1. Target' = Target /\ io_f_offset + chunk.size <= IO_FILE_SIZE
    BY <1>5 DEF fdVars, SizeInv, Target
  <2>2. \A f \in Names : file[f].size <= IO_FILE_SIZE + writeFails
    BY DEF SizeInv
  <2>3. \A f \in Names : file'[f].size <= IO_FILE_SIZE + writeFails'
    <3> SUFFICES ASSUME NEW f \in Names PROVE file'[f].size <= IO_FILE_SIZE + writeFails'
      OBVIOUS
    <3>t. /\ n \in Nat /\ n <= chunk.size /\ chunk.size \in Nat /\ file[f].size \in Nat
          /\ writeFails' \in Nat /\ writeFails' >= writeFails
      BY <1>5
    <3>1. CASE f = Target
      <4>1. file[f].size <= io_f_offset + writeFails
        BY <3>1 DEF SizeInv
      <4>2. file'[f].size = file[f].size + n
        BY <1>5, <3>1
      <4>3. QED
        BY SMTT(20), <3>t, <2>1, <4>1, <4>2
    <3>2. CASE f # Target
      <4>1. file'[f].size = file[f].size
        BY <1>5, <3>t, <3>2
      <4>2. QED
        BY <3>t, <2>2, <4>1
    <3>3. QED
      BY <3>1, <3>2
  <2>4. Target \in Names => file'[Target].size <= io_f_offset' + writeFails'
    BY SMTT(20), <1>5 DEF SizeInv
  <2>5. QED
    BY <1>5, <2>1, <2>3, <2>4 DEF SizeInv
<1>6. CASE WriteAll
  <2>1. CASE Target = Stdin
    BY <1>6, <2>1 DEF WriteAll, fdVars, faultVars, SizeInv, Target
  <2>2. CASE Target # Stdin
    <3>1. \A f \in Names : file'[f].size = file[f].size + IF f = Target THEN chunk.size ELSE 0
      BY <1>6, <2>2 DEF WriteAll, TypeInv, TypeOK, FileType
    <3>2. QED
      BY <1>5, <1>6, <3>1 DEF WriteAll, faultVars
  <2>3. QED
    BY <2>1, <2>2
<1>7. CASE WriteSome
  <2>1. PICK written \in 1..(chunk.size - 1) :
          /\ io_f_offset' = io_f_offset + written
          /\ file' = [file EXCEPT ![Target].size = @ + written]
    BY <1>7 DEF WriteSome
  <2>2. \A f \in Names : file'[f].size = file[f].size + IF f = Target THEN written ELSE 0
    <3>1. file \in [Names -> FileType] /\ Target \in Names
      BY <1>7 DEF WriteSome, TypeInv, TypeOK
    <3>2. QED
      BY <2>1, <3>1 DEF FileType
  <2>3. QED
    BY SMTT(20), <1>5, <1>7, <2>1, <2>2 DEF WriteSome
<1>8. CASE WriteFails
  BY SMTT(20), <1>8 DEF WriteFails, fdVars, SizeInv, Target
<1>9. CASE Die
  BY <1>9 DEF Die, SizeInv, Target
<1>10. CASE UNCHANGED vars
  BY <1>10 DEF vars, fdVars, faultVars, SizeInv, Target
<1>11. QED
  BY <1>1, <1>2, <1>3, <1>4, <1>6, <1>7, <1>8, <1>9, <1>10 DEF Next, Step

\* A file never outgrows what the uploader sends of it, as long as no more writes fail than
\* the two limits are apart.
THEOREM FilesFitUpload ==
  ASSUME IO_BUF_SIZE <= IO_FILE_SIZE, IO_FILE_SIZE + MaxWriteFails <= TRANS_BUFFER_SIZE
  PROVE  Spec => []FitsUpload
<1>1. Init => SizeInv
  BY SizeAssumption, Kinds DEF Init, SizeInv, NoFile, Target
<1>2. TypeInv /\ FdInv /\ SizeInv /\ [Next]_vars => SizeInv'
  BY SizeStep
<1>3. TypeInv /\ SizeInv => FitsUpload
  <2> SUFFICES ASSUME TypeInv, SizeInv, NEW n \in Names PROVE file[n].size <= TRANS_BUFFER_SIZE
    BY DEF FitsUpload
  <2>1. writeFails \in 0..MaxWriteFails /\ MaxWriteFails \in Nat /\ TRANS_BUFFER_SIZE \in Nat
    BY BoundAssumption, SizeAssumption DEF TypeInv, TypeOK
  <2>2. QED
    BY <2>1, SizeTypes DEF SizeInv
<1>4. QED
  BY <1>1, <1>2, <1>3, Fds, PTL DEF Spec

-----------------------------------------------------------------------------
(* Names                                                                    *)

\* A file that has this second's name holds at most what was read since the end of the last.
NameInv ==
  /\ \A n \in Names : file[n].exists => n <= now
  /\ pc = "main" => ~file[now].exists
  /\ Running /\ file[now].exists => io_f_offset <= (burst + 1) * IO_BUF_SIZE
  /\ pc \in {"test", "write"} /\ file[now].exists =>
       io_f_offset + chunk.size <= (burst + 1) * IO_BUF_SIZE

\* the name of a file about to be created is not in use
LEMMA FreshName ==
  ASSUME (Rate + 1) * IO_BUF_SIZE <= IO_FILE_SIZE, TypeInv, NameInv, Main \/ NewFile
  PROVE  ~file[now].exists
<1>1. CASE Main
  BY <1>1 DEF Main, NameInv
<1>2. CASE NewFile
  <2> SUFFICES ASSUME file[now].exists PROVE FALSE
    OBVIOUS
  <2>1. io_f_offset + chunk.size <= (burst + 1) * IO_BUF_SIZE
    BY <1>2 DEF NewFile, NameInv, Running
  <2>2. burst \in Nat /\ Rate \in Nat /\ burst <= Rate /\ IO_BUF_SIZE \in Nat
    BY BoundAssumption, SizeTypes DEF TypeInv, TypeOK
  <2>3. (burst + 1) * IO_BUF_SIZE <= (Rate + 1) * IO_BUF_SIZE
    BY <2>2
  <2>4. (burst + 1) * IO_BUF_SIZE \in Nat /\ (Rate + 1) * IO_BUF_SIZE \in Nat
    BY <2>2
  <2>5. ~Fits
    BY <1>2 DEF NewFile
  <2>6. QED
    BY <2>1, <2>3, <2>4, <2>5, SizeTypes DEF Fits
<1>3. QED
  BY <1>1, <1>2

\* what the writes leave alone
LEMMA WriteKeeps ==
  ASSUME TypeInv, WriteAll \/ WriteSome \/ WriteFails
  PROVE  \A n \in Names : /\ file'[n].exists = file[n].exists
                          /\ file[n].size <= file'[n].size
                          /\ file[n].chunks \subseteq file'[n].chunks
                          /\ n # Target => file'[n] = file[n]
<1>1. file \in [Names -> FileType] /\ chunk.size \in Nat
  BY SizeTypes DEF TypeInv, TypeOK
<1>2. \A n \in Names : file[n].size \in Nat
  BY SizeTypes
<1>3. ASSUME NEW n \in Names, NEW k \in Nat, NEW c,
             file' = [file EXCEPT ![Target].size = @ + k, ![Target].chunks = @ \cup c]
      PROVE  /\ file'[n].exists = file[n].exists
             /\ file[n].size <= file'[n].size
             /\ file[n].chunks \subseteq file'[n].chunks
             /\ n # Target => file'[n] = file[n]
  BY <1>1, <1>2, <1>3 DEF FileType
<1>4. CASE WriteAll
  <2>1. CASE Target = Stdin
    BY <1>2, <1>4, <2>1 DEF WriteAll
  <2>2. CASE Target # Stdin
    <3>1. file' = [file EXCEPT ![Target].size = @ + chunk.size,
                               ![Target].chunks = @ \cup {chunk.number}]
      BY <1>4, <2>2 DEF WriteAll
    <3>2. QED
      BY <1>1, <1>3, <3>1
  <2>3. QED
    BY <2>1, <2>2
<1>5. CASE WriteSome
  <2>1. PICK written \in 1..(chunk.size - 1) : file' = [file EXCEPT ![Target].size = @ + written]
    BY <1>5 DEF WriteSome
  <2>2. QED
    BY <1>1, <1>2, <2>1 DEF FileType
<1>6. CASE WriteFails
  BY <1>2, <1>6 DEF WriteFails
<1>7. QED
  BY <1>4, <1>5, <1>6

LEMMA NameStep ==
  ASSUME (Rate + 1) * IO_BUF_SIZE <= IO_FILE_SIZE, TypeInv, FdInv, NameInv, [Next]_vars
  PROVE  NameInv'
<1> DEFINE Room == (burst + 1) * IO_BUF_SIZE
<1>t. /\ burst \in Nat /\ now \in Names /\ Room \in Nat
      /\ file \in [Names -> FileType] /\ EmptyFile.exists
  BY SizeTypes DEF TypeInv, TypeOK, Names, EmptyFile
<1>r. Room >= IO_BUF_SIZE
  BY <1>t, SizeTypes
<1> HIDE DEF Room
<1> USE SizeTypes, Kinds, <1>t
<1>1. CASE Tick
  BY <1>1 DEF Tick, NameInv, Running
<1>2. CASE Main \/ NewFile
  <2>1. /\ io_f_offset' = 0 /\ chunk' = chunk /\ now' = now /\ burst' = burst
        /\ pc \in {"main", "test"} /\ pc' \in {"poll", "write"} /\ LogFileCreat
    BY <1>2 DEF Main, NewFile, FdInv, clockVars
  <2>2. \A n \in Names : file'[n].exists => n <= now
    <3>1. CASE file' = [file EXCEPT ![now] = EmptyFile]
      BY <3>1 DEF NameInv
    <3>2. CASE file' = file
      BY <3>2 DEF NameInv
    <3>3. QED
      BY <2>1, <3>1, <3>2, CreatFds
  <2>3. Room' = Room
    BY <2>1 DEF Room
  <2>4. io_f_offset' <= Room' /\ io_f_offset' + chunk'.size <= Room'
    BY <2>1, <2>3, <1>r
  <2>5. QED
    BY <2>1, <2>2, <2>4 DEF NameInv, Room
<1>3. ASSUME NEW size \in ChunkSizes, Read(size) PROVE NameInv'
  <2>1. pc = "poll" /\ pc' = "test" /\ UNCHANGED <<now, io_f_offset, file>>
        /\ burst' = burst + 1 /\ chunk'.size = size
    BY <1>3 DEF Read
  <2>2. size <= IO_BUF_SIZE /\ size \in Nat
    BY SizeAssumption
  <2>3. Room' = Room + IO_BUF_SIZE
    BY <2>1 DEF Room
  <2>4. file[now].exists => io_f_offset <= Room' /\ io_f_offset + size <= Room'
    <3>1. file[now].exists => io_f_offset <= Room
      BY <2>1 DEF NameInv, Running, Room
    <3>2. QED
      BY <2>2, <2>3, <3>1
  <2>5. QED
    BY <2>1, <2>4 DEF NameInv, Room
<1>4. CASE GoOn
  BY <1>4 DEF GoOn, clockVars, NameInv, Running
<1>5. CASE WriteAll \/ WriteSome \/ WriteFails
  <2>1. /\ pc = "write" /\ pc' = "poll" /\ UNCHANGED clockVars
        /\ io_f_offset' <= io_f_offset + chunk.size /\ io_f_offset' \in Int
    <3>1. CASE WriteAll \/ WriteFails
      BY <3>1 DEF WriteAll, WriteFails
    <3>2. CASE WriteSome
      BY SMTT(20), <3>2 DEF WriteSome
    <3>3. QED
      BY <1>5, <3>1, <3>2
  <2>2. \A n \in Names : file'[n].exists = file[n].exists
    BY <1>5, WriteKeeps
  <2>3. now' = now /\ Room' = Room
    BY <2>1 DEF clockVars, Room
  <2>4. file[now].exists => io_f_offset' <= Room
    <3>1. file[now].exists => io_f_offset + chunk.size <= Room
      BY <2>1 DEF NameInv, Running, Room
    <3>2. chunk.size \in Nat /\ io_f_offset \in Int
      OBVIOUS
    <3>3. QED
      BY <2>1, <3>1, <3>2
  <2>5. QED
    BY <2>1, <2>2, <2>3, <2>4 DEF NameInv, Room
<1>6. CASE Die
  BY <1>6 DEF Die, clockVars, NameInv, Running
<1>7. CASE UNCHANGED vars
  BY <1>7 DEF vars, clockVars, NameInv, Running
<1>8. QED
  BY <1>1, <1>2, <1>3, <1>4, <1>5, <1>6, <1>7 DEF Next, Step

LEMMA NamesHold ==
  ASSUME (Rate + 1) * IO_BUF_SIZE <= IO_FILE_SIZE
  PROVE  Spec => []NameInv
<1>1. Init => NameInv
  BY Kinds DEF Init, NameInv, NoFile, Running
<1>2. TypeInv /\ FdInv /\ NameInv /\ [Next]_vars => NameInv'
  BY NameStep
<1>3. QED
  BY <1>1, <1>2, Fds, PTL DEF Spec

LEMMA FilesStayStep ==
  ASSUME (Rate + 1) * IO_BUF_SIZE <= IO_FILE_SIZE, TypeInv, FdInv, NameInv, [Next]_vars
  PROVE  [\A n \in Names : file[n].exists =>
            /\ file'[n].exists /\ file[n].size <= file'[n].size /\ file[n].chunks \subseteq file'[n].chunks
            /\ n # Target => file'[n] = file[n]]_vars
<1> DEFINE Kept == \A n \in Names : file[n].exists =>
                     /\ file'[n].exists /\ file[n].size <= file'[n].size
                     /\ file[n].chunks \subseteq file'[n].chunks
                     /\ n # Target => file'[n] = file[n]
<1>1. ASSUME UNCHANGED file PROVE Kept
  <2>1. \A n \in Names : file[n].size \in Nat
    BY SizeTypes
  <2>2. QED
    BY <1>1, <2>1
<1>2. CASE Main \/ NewFile
  <2>1. ~file[now].exists /\ LogFileCreat
    BY <1>2, FreshName DEF Main, NewFile
  <2>2. CASE file' = [file EXCEPT ![now] = EmptyFile]
    <3>1. \A n \in Names : n # now => file'[n] = file[n] /\ file[n].size \in Nat
      BY <2>2, SizeTypes DEF TypeInv, TypeOK
    <3>2. QED
      BY <2>1, <3>1
  <2>3. CASE UNCHANGED file
    BY <1>1, <2>3
  <2>4. QED
    BY <2>1, <2>2, <2>3 DEF LogFileCreat
<1>3. CASE WriteAll \/ WriteSome \/ WriteFails
  BY <1>3, WriteKeeps
<1>4. CASE \/ Tick \/ (\E size \in ChunkSizes : Read(size)) \/ GoOn \/ Die
  <2>1. UNCHANGED file
    BY <1>4 DEF Tick, Read, GoOn, Die
  <2>2. QED
    BY <1>1, <2>1
<1>5. QED
  BY <1>1, <1>2, <1>3, <1>4 DEF Next, Step, vars

\* As long as the ring fills at most IO_FILE_SIZE / IO_BUF_SIZE - 1 buffers in a second, no
\* file is truncated by a second creat of its name, and one that was left stays as it is.
THEOREM FilesStay ==
  ASSUME (Rate + 1) * IO_BUF_SIZE <= IO_FILE_SIZE
  PROVE  Spec => LeftUntouched
<1>1. TypeInv /\ FdInv /\ NameInv /\ [Next]_vars =>
        [\A n \in Names : file[n].exists =>
            /\ file'[n].exists /\ file[n].size <= file'[n].size /\ file[n].chunks \subseteq file'[n].chunks
            /\ n # Target => file'[n] = file[n]]_vars
  BY FilesStayStep
<1>2. QED
  BY <1>1, Fds, NamesHold, PTL DEF Spec, LeftUntouched

-----------------------------------------------------------------------------
(* Chunks                                                                   *)

ChunkInv ==
  /\ \A n \in Names : ~file[n].exists => file[n].chunks = {}
  /\ \A n \in Names : \A c \in file[n].chunks :
       c <= chunk.number /\ (pc \in {"test", "write"} => c < chunk.number)
  /\ Running /\ Target \in Names => /\ file[Target].exists
                                    /\ \A n \in Names : file[n].exists => n <= Target
  /\ \A m, n \in Names : \A c \in file[m].chunks, d \in file[n].chunks : m < n => c < d
  /\ \A c \in 1..chunk.number :
       c \notin lost /\ (c < chunk.number \/ pc \notin {"test", "write"}) =>
         \E n \in Names : c \in file[n].chunks

LEMMA ChunkStep ==
  ASSUME (Rate + 1) * IO_BUF_SIZE <= IO_FILE_SIZE, TypeInv, FdInv, NameInv, ChunkInv, [Next]_vars
  PROVE  ChunkInv'
<1>t. /\ MaxChunks \in Nat /\ chunk.number \in 0..MaxChunks
      /\ now \in Names /\ Names \subseteq Nat
      /\ file \in [Names -> FileType] /\ EmptyFile.exists /\ EmptyFile.chunks = {}
      /\ \A n \in Names : file[n].chunks \subseteq 1..MaxChunks
  <2>1. /\ MaxChunks \in Nat /\ chunk.number \in 0..MaxChunks
        /\ now \in Names /\ file \in [Names -> FileType]
    BY Sizes, BoundAssumption DEF TypeInv, TypeOK, Names
  <2>2. Names \subseteq Nat /\ EmptyFile.exists /\ EmptyFile.chunks = {}
    BY Kinds DEF EmptyFile
  <2>3. QED
    BY <2>1, <2>2, SizeTypes
<1>1. CASE Tick
  BY <1>t, <1>1 DEF Tick, fdVars, ChunkInv, Running, Target
<1>2. CASE Main \/ NewFile
  <2>1. /\ UNCHANGED <<chunk, lost>> /\ LogFileCreat
        /\ \/ pc = "main" /\ pc' = "poll"
           \/ pc = "test" /\ pc' = "write"
    BY <1>2 DEF Main, NewFile
  <2>2. ~file[now].exists /\ file[now].chunks = {}
    BY <1>t, <1>2, FreshName DEF ChunkInv
  <2>3. \A n \in Names : file'[n].chunks = file[n].chunks
    BY <1>t, <2>1, <2>2 DEF LogFileCreat
  <2>4. Target' \in Names => /\ file'[Target'].exists
                             /\ \A n \in Names : file'[n].exists => n <= Target'
    BY <1>t, <2>1, CreatFds DEF NameInv
  <2>5. \A n \in Names : ~file'[n].exists => file'[n].chunks = {}
    BY <1>t, <2>1, <2>2, CreatFds DEF ChunkInv
  <2>6. QED
    BY <1>t, <2>1, <2>3, <2>4, <2>5 DEF ChunkInv
<1>3. ASSUME NEW size \in ChunkSizes, Read(size) PROVE ChunkInv'
  <2>1. /\ pc = "poll" /\ pc' = "test" /\ UNCHANGED <<file, lost, fdVars>>
        /\ chunk'.number = chunk.number + 1
    BY <1>3 DEF Read
  <2>2. \A n \in Names : \A c \in file[n].chunks : c < chunk.number + 1
    BY <1>t DEF ChunkInv
  <2>3. \A c \in 1..chunk'.number : c \notin lost /\ c < chunk'.number =>
          \E n \in Names : c \in file[n].chunks
    <3> SUFFICES ASSUME NEW c \in 1..chunk'.number, c \notin lost, c < chunk'.number
                 PROVE  \E n \in Names : c \in file[n].chunks
      OBVIOUS
    <3>1. c \in 1..chunk.number
      BY <1>t, <2>1
    <3>2. QED
      BY <2>1, <3>1 DEF ChunkInv
  <2>4. QED
    BY <1>t, <2>1, <2>2, <2>3 DEF fdVars, ChunkInv, Running, Target
<1>4. CASE GoOn
  BY <1>t, <1>4 DEF GoOn, fdVars, ChunkInv, Running, Target
<1>5. CASE WriteAll \/ WriteSome \/ WriteFails
  <2>1. /\ pc = "write" /\ pc' = "poll" /\ chunk' = chunk /\ Target' = Target
        /\ \A n \in Names : file'[n].exists = file[n].exists
    BY <1>5, WriteKeeps DEF WriteAll, WriteSome, WriteFails, fdVars, Target
  <2>2. ASSUME lost' = lost \cup {chunk.number},
               \A n \in Names : file'[n].chunks = file[n].chunks
        PROVE  ChunkInv'
    <3>1. \A c \in 1..chunk.number : c \notin lost' => \E n \in Names : c \in file[n].chunks
      BY <1>t, <2>1, <2>2 DEF ChunkInv
    <3>2. \A n \in Names : \A c \in file[n].chunks : c <= chunk.number
      BY DEF ChunkInv
    <3>3. QED
      BY <1>t, <2>1, <2>2, <3>1, <3>2 DEF ChunkInv, Running
  <2>3. CASE WriteAll /\ Target \in Names
    <3>1. /\ lost' = lost
          /\ \A n \in Names : file'[n].chunks =
               file[n].chunks \cup IF n = Target THEN {chunk.number} ELSE {}
      BY <1>t, <2>3, Kinds DEF WriteAll, FileType
    <3>2. /\ \A n \in Names : n > Target => file[n].chunks = {}
          /\ \A n \in Names : \A c \in file[n].chunks : c < chunk.number
      BY <1>t, <2>1, <2>3 DEF ChunkInv, Running
    <3>3. \A m, n \in Names : \A c \in file'[m].chunks, d \in file'[n].chunks : m < n => c < d
      <4> SUFFICES ASSUME NEW m \in Names, NEW n \in Names, m < n,
                          NEW c \in file'[m].chunks, NEW d \in file'[n].chunks
                   PROVE  c < d
        OBVIOUS
      <4>1. CASE n = Target
        <5>1. c \in file[m].chunks /\ c < chunk.number
          BY <1>t, <3>1, <3>2, <4>1
        <5>2. d \in file[n].chunks \/ d = chunk.number
          BY <3>1, <4>1
        <5>3. QED
          BY <5>1, <5>2 DEF ChunkInv
      <4>2. CASE n # Target
        <5>1. d \in file[n].chunks
          BY <3>1, <4>2
        <5>2. ~(n > Target)
          BY <3>2, <5>1
        <5>3. m # Target
          BY <1>t, <2>3, <5>2
        <5>4. c \in file[m].chunks
          BY <3>1, <5>3
        <5>5. QED
          BY <5>1, <5>4 DEF ChunkInv
      <4>3. QED
        BY <4>1, <4>2
    <3>4. \A c \in 1..chunk.number : c \notin lost' => \E n \in Names : c \in file'[n].chunks
      <4> SUFFICES ASSUME NEW c \in 1..chunk.number, c \notin lost
                   PROVE  \E n \in Names : c \in file'[n].chunks
        BY <3>1
      <4>1. CASE c = chunk.number
        BY <2>3, <3>1, <4>1
      <4>2. CASE c # chunk.number
        <5>1. \E n \in Names : c \in file[n].chunks
          BY <1>t, <4>2 DEF ChunkInv
        <5>2. QED
          BY <3>1, <5>1
      <4>3. QED
        BY <4>1, <4>2
    <3>5. \A n \in Names : ~file'[n].exists => file'[n].chunks = {}
      BY <2>1, <2>3, <3>1 DEF ChunkInv, Running
    <3>6. \A n \in Names : \A c \in file'[n].chunks : c <= chunk.number
      BY <1>t, <3>1, <3>2
    <3>7. QED
      BY <1>t, <2>1, <2>3, <3>3, <3>4, <3>5, <3>6 DEF ChunkInv, Running
  <2>4. CASE WriteAll /\ Target \notin Names
    BY <1>t, <2>2, <2>4, SizeTypes DEF WriteAll
  <2>5. CASE WriteSome
    BY <1>t, <2>2, <2>5 DEF WriteSome, FileType
  <2>6. CASE WriteFails
    BY <2>2, <2>6 DEF WriteFails
  <2>7. QED
    BY <1>5, <2>3, <2>4, <2>5, <2>6
<1>6. CASE Die
  BY <1>t, <1>6 DEF Die, ChunkInv, Running, Target
<1>7. CASE UNCHANGED vars
  BY <1>7 DEF vars, fdVars, ChunkInv, Running, Target
<1>8. QED
  BY <1>1, <1>2, <1>3, <1>4, <1>5, <1>6, <1>7 DEF Next, Step

\* Every chunk that no fault has hit is whole in exactly one file, and the files are in the
\* order of the chunks, at the rate assumed.
THEOREM ChunksAreStored ==
  ASSUME (Rate + 1) * IO_BUF_SIZE <= IO_FILE_SIZE
  PROVE  Spec => []StoredOnceInOrder
<1>1. Init => ChunkInv
  BY Kinds DEF Init, ChunkInv, NoFile, Running
<1>2. TypeInv /\ FdInv /\ NameInv /\ ChunkInv /\ [Next]_vars => ChunkInv'
  BY ChunkStep
<1>3. TypeInv /\ ChunkInv => StoredOnceInOrder
  <2> SUFFICES ASSUME TypeInv, ChunkInv PROVE StoredOnceInOrder
    OBVIOUS
  <2>1. ASSUME NEW c \in 1..chunk.number, c \notin lost,
               c < chunk.number \/ pc \in {"poll", "sleep", "main"}
        PROVE  Cardinality({n \in Names : c \in file[n].chunks}) = 1
    <3>1. PICK n \in Names : c \in file[n].chunks
      BY <2>1 DEF ChunkInv
    <3>2. \A m \in Names : c \in file[m].chunks => m = n
      <4> SUFFICES ASSUME NEW m \in Names, c \in file[m].chunks PROVE m = n
        OBVIOUS
      <4>1. ~(m < n) /\ ~(n < m)
        BY <3>1 DEF ChunkInv
      <4>2. QED
        BY <4>1, Kinds
    <3>3. {m \in Names : c \in file[m].chunks} = {n}
      BY <3>1, <3>2
    <3>4. QED
      BY <3>3, FS_Singleton
  <2>2. QED
    BY <2>1 DEF StoredOnceInOrder, ChunkInv
<1>4. QED
  BY <1>1, <1>2, <1>3, Fds, NamesHold, PTL DEF Spec

=============================================================================
