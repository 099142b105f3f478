---------------------------- MODULE LogRotation ----------------------------
(***************************************************************************)
(* RotatingLogFile of src/src/log/rotating.rs and windows_rotating.rs: one *)
(* sink at a time (the writer lease) appends lines to the active file and  *)
(* shifts it into numbered archives when the next line would not fit.      *)
(* Every system call may fail, the process may be killed and the power may *)
(* fail between any two of them; a sink is opened again on what is left.   *)
(***************************************************************************)
EXTENDS Integers, Sequences, FiniteSets

CONSTANTS
  Archives,    \* LogRetention::archives
  FileBytes,   \* LogRetention::file_bytes, in halves of a line
  MaxRecords,  \* bound: lines ever written
  MaxFaults,   \* bound: system calls that fail
  MaxCrashes,  \* bound: kills and power failures
  None         \* no file

ASSUME LogRotationAssumption ==
  /\ Archives \in 1..32 /\ FileBytes \in Nat /\ FileBytes >= 2
  /\ MaxRecords \in Nat /\ MaxFaults \in Nat /\ MaxCrashes \in Nat
  /\ None \notin 1..(2 * Archives + 4 + MaxFaults)

VARIABLES
  windows,   \* which of the two implementations
  dirs,      \* the directory after each change since it was last synchronized
  data,      \* the lines of each file
  synced,    \* how many of them are on the disk
  fd,        \* RotatingLogFile::file
  bytes,     \* RotatingLogFile::bytes
  pc,        \* the next system call of the sink
  index,     \* the archive the shift has come to
  last,      \* the line being written, or the latest
  durable,   \* lines on the disk, where no power failure reaches them
  faults, crashes

logVars == <<windows, dirs, data, synced, fd, bytes, pc, index, last, durable, faults, crashes>>
sink  == <<fd, bytes, index, last>>
world == <<windows, durable, faults, crashes>>

\* The active file has number 0.
Numbers == 0..Archives

\* Bound: files at a time.
Files == 1..(2 * Archives + 4 + MaxFaults)
Rotating == {"sync", "remove", "shift", "move", "create", "syncdir"}

\* The beginning of a line whose write failed.
Torn == 0
Lines == 1..MaxRecords

\* A torn line counts half.
Size(f) == 2 * Len(f) - Cardinality({n \in DOMAIN f : f[n] = Torn})
LinesIn(f) == {f[n] : n \in DOMAIN f} \ {Torn}

names == dirs[Len(dirs)]
Present(d) == {d[s] : s \in Numbers} \ {None}
OnDisk == UNION {LinesIn(data[f]) : f \in Present(names)}

LogInit ==
  /\ windows \in BOOLEAN
  /\ dirs = <<[s \in Numbers |-> None]>>
  /\ data = [f \in Files |-> <<>>]
  /\ synced = [f \in Files |-> 0]
  /\ fd = None /\ bytes = 0 /\ pc = "closed" /\ index = 0
  /\ last = 0 /\ durable = {} /\ faults = 0 /\ crashes = 0

-----------------------------------------------------------------------------
\* The file system.  It keeps the order of the changes of a directory.

Used == {fd} \cup UNION {Present(dirs[n]) : n \in DOMAIN dirs}

\* Files that no directory has and the sink does not hold.
Spare == Files \ Used
Fresh == CHOOSE f \in Spare : TRUE

Named(d) == dirs' = Append(dirs, d)
Rename(from, to) == Named([names EXCEPT ![to] = names[from], ![from] = None])

\* open_private or private_file where the name leads nowhere.
CreateActive(f) ==
  /\ Spare # {}  \* bound: Files
  /\ Named([names EXCEPT ![0] = f])
  /\ data' = [data EXCEPT ![f] = <<>>]
  /\ synced' = [synced EXCEPT ![f] = 0]

\* Faulty variant: the file is not synchronized before it is archived.
NoSync(f) == UNCHANGED <<synced, dirs>>

\* sync_all on a file; on Windows its log holds the names' changes too.
Sync(f) ==
  /\ synced' = [synced EXCEPT ![f] = Len(data[f])]
  /\ dirs' = IF windows THEN <<names>> ELSE dirs

-----------------------------------------------------------------------------
\* Opening and closing a sink.

\* What open_named refuses although it has the writer lease.
Acceptable(d) == \A f \in Present(d) : Size(data[f]) <= FileBytes

Open ==
  /\ pc = "closed"
  /\ IF names[0] = None THEN CreateActive(Fresh) ELSE UNCHANGED <<dirs, data, synced>>
  /\ fd' = IF names[0] = None THEN Fresh ELSE names[0]
  /\ bytes' = IF names[0] = None THEN 0 ELSE Size(data[names[0]])
  /\ pc' = "idle"
  /\ Acceptable(names)
  /\ UNCHANGED <<world, index, last>>

Closed == pc' = "closed" /\ fd' = None /\ bytes' = 0 /\ index' = 0

Drop ==
  /\ pc \in {"idle", "failed"}
  /\ Closed
  /\ UNCHANGED <<world, dirs, data, synced, last>>

-----------------------------------------------------------------------------
\* RotatingLogFile::write.

Fits == bytes + 2 <= FileBytes

\* Faulty variant: the length of the file is not looked at.
JustNamed == fd # None /\ fd = names[0]

\* verify_named and the length of the active file.
Verified == fd # None /\ fd = names[0] /\ Size(data[fd]) = bytes

Write ==
  /\ pc = "idle" /\ last < MaxRecords /\ Verified
  /\ last' = last + 1
  /\ pc' = IF Fits THEN "append" ELSE "sync"
  /\ UNCHANGED <<world, dirs, data, synced, fd, bytes, index>>

\* Windows synchronizes every line.
WriteThrough ==
  /\ synced' = [synced EXCEPT ![fd] = Len(data[fd]) + 1]
  /\ dirs' = <<names>>
  /\ durable' = OnDisk \cup {last}

\* write_all, on Unix followed by a flush that has nothing to do.
AppendLine ==
  /\ pc = "append"
  /\ data' = [data EXCEPT ![fd] = Append(@, last)]
  /\ IF windows THEN WriteThrough ELSE UNCHANGED <<synced, dirs, durable>>
  /\ bytes' = bytes + 2
  /\ pc' = "idle"
  /\ UNCHANGED <<windows, faults, crashes, fd, index, last>>

-----------------------------------------------------------------------------
\* RotatingLogFile::rotate.

\* Windows closes the active file before it renames it.
SyncActive ==
  /\ pc = "sync"
  /\ Sync(fd)
  /\ fd' = IF windows THEN None ELSE fd
  /\ pc' = "remove"
  /\ UNCHANGED <<world, data, bytes, index, last>>

RemoveLast ==
  /\ pc = "remove"
  /\ IF names[Archives] = None THEN UNCHANGED dirs ELSE Named([names EXCEPT ![Archives] = None])
  /\ pc' = "shift"
  /\ index' = Archives - 1
  /\ UNCHANGED <<world, data, synced, fd, bytes, last>>

\* Faulty variant: without .rev(), the lowest archive is shifted first.
Upwards == Archives - index
Downwards == index

Shift ==
  /\ pc = "shift" /\ index > 0
  /\ IF names[Downwards] = None THEN UNCHANGED dirs ELSE Rename(Downwards, Downwards + 1)
  /\ index' = index - 1
  /\ UNCHANGED <<world, data, synced, fd, bytes, last, pc>>

MoveActive ==
  /\ pc = "shift" /\ index = 0
  /\ Rename(0, 1)
  /\ pc' = "create"
  /\ UNCHANGED <<world, data, synced, sink>>

Create ==
  /\ pc = "create"
  /\ CreateActive(Fresh)
  /\ fd' = Fresh /\ bytes' = 0
  /\ pc' = IF windows THEN "append" ELSE "syncdir"
  /\ UNCHANGED <<world, index, last>>

\* directory.sync_all; the archives are on the disk from here on.
SyncDirectory ==
  /\ pc = "syncdir"
  /\ dirs' = <<names>>
  /\ durable' = OnDisk
  /\ pc' = "append"
  /\ UNCHANGED <<windows, faults, crashes, data, synced, sink>>

-----------------------------------------------------------------------------
\* What goes wrong.

\* Windows never uses a sink again that has failed once; on Unix the next write
\* starts over.
AfterError == IF windows THEN "failed" ELSE "idle"

Fault ==
  /\ faults < MaxFaults
  /\ faults' = faults + 1
  /\ UNCHANGED <<windows, durable, crashes>>

\* A call that fails without an effect.
Fail ==
  /\ pc \in {"idle", "append"} \cup Rotating
  /\ Fault
  /\ pc' = AfterError
  /\ UNCHANGED <<dirs, data, synced, sink>>

\* A new active file that does not pass its own check.
CreateUnverified ==
  /\ pc = "create"
  /\ Fault
  /\ CreateActive(Fresh)
  /\ pc' = AfterError
  /\ UNCHANGED sink

\* write_all ends in the middle of the line.
Tear == data' = [data EXCEPT ![fd] = Append(@, Torn)]

TearLine ==
  /\ pc = "append"
  /\ Fault
  /\ Tear
  /\ pc' = AfterError
  /\ UNCHANGED <<dirs, synced, sink>>

Crash ==
  /\ crashes < MaxCrashes
  /\ crashes' = crashes + 1
  /\ Closed
  /\ UNCHANGED <<windows, durable, last, faults>>

Kill ==
  /\ pc # "closed"
  /\ Crash
  /\ \/ UNCHANGED data
     \/ pc = "append" /\ Tear
  /\ UNCHANGED <<dirs, synced>>

\* The disk has one of the latest directories, and of each file the part that
\* was synchronized and perhaps some more.
PowerFail ==
  /\ Crash
  /\ \E n \in DOMAIN dirs :
       LET loose == {f \in Present(dirs[n]) : synced[f] < Len(data[f])} IN
       \E cut \in [loose -> 0..FileBytes], ragged \in SUBSET loose :
         LET kept(f) == SubSeq(data[f], 1, cut[f]) \o (IF f \in ragged THEN <<Torn>> ELSE <<>>)
             left == [f \in Files |-> IF f \in loose THEN kept(f) ELSE data[f]] IN
         /\ \A f \in loose : cut[f] \in synced[f]..Len(data[f]) - (IF f \in ragged THEN 1 ELSE 0)
         /\ dirs' = <<dirs[n]>>
         /\ data' = left
         /\ synced' = [f \in Files |-> Len(left[f])]

-----------------------------------------------------------------------------
Step ==
  \/ Open \/ Drop \/ Write \/ AppendLine
  \/ SyncActive \/ RemoveLast \/ Shift \/ MoveActive \/ Create \/ SyncDirectory
  \/ Fail \/ CreateUnverified \/ TearLine \/ Kill

LogNext == Step \/ PowerFail

LogSpec == LogInit /\ [][LogNext]_logVars

-----------------------------------------------------------------------------
\* Properties.

Older(f, g) == \A a \in LinesIn(data[f]), b \in LinesIn(data[g]) : a < b

OnlyTheOldestGoes ==
  [][crashes' = crashes =>
       \A f \in Present(names) \ Present(names') :
         /\ names[Archives] = f /\ \A g \in Present(names) \ {f} : Older(f, g)
         /\ faults + crashes = 0 => None \notin {names[s] : s \in Numbers}]_logVars

DurableLinesStay ==
  \A r \in durable \ OnDisk : \A s \in OnDisk : r < s

\* Whatever fails in whatever order and is tried again, a file leaves the
\* directory only from the last slot and as the oldest, and unless something has
\* failed only when every slot is taken: no rename takes the name of a file that
\* should stay (rotate).  And a power failure takes no line that was rotated on Unix,
\* or written at all on Windows, while an older one stays (sync_all before and after
\* the renames).
LinesAreKept == OnlyTheOldestGoes /\ [][DurableLinesStay']_logVars

\* A sink appends only to the file that has the active name, only where its last
\* complete line ended, never behind a line that it tore itself, and only within
\* file_bytes: a file over the limit would refuse every later opening (write and
\* open_named).
AppendsWhereItStands ==
  [][\A f \in Files : Len(data'[f]) > Len(data[f]) =>
       /\ f = fd /\ f = names[0] /\ Size(data[f]) = bytes
       /\ Size(data'[f]) <= FileBytes]_logVars
=============================================================================
