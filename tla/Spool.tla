------------------------------- MODULE Spool -------------------------------
(***************************************************************************)
(* The spool of src/src/runtime/spool.rs at the level of its directory     *)
(* operations: which names each record's file has, what a power failure    *)
(* may leave of them, the process lock, the in-process gate, temporary     *)
(* files and their clean-up, failing system calls, killed processes.       *)
(*                                                                         *)
(* A record is one file.  Its names are "tmp" (the exclusive temporary),   *)
(* "record" (queued), "bad" and "identity" (quarantined); two names at     *)
(* once are two links.  The order of file names is the order of Ids.       *)
(***************************************************************************)
EXTENDS Integers, FiniteSets

CONSTANTS
  Ids,          \* record ids, never drawn twice
  Size,         \* container bytes of each record
  Procs,        \* processes that open the spool
  Threads,      \* threads calling into it
  ProcOf,       \* the process of each thread
  MaxEntries,   \* SpoolLimits::max_entries
  MaxBytes,     \* SpoolLimits::max_bytes
  MaxRecord,    \* SpoolLimits::max_record_bytes with the container's overhead
  MaxFaults,    \* bound: failing system calls
  MaxCrashes,   \* bound: killed processes and power failures
  MaxRot,       \* bound: records damaged on disk by something else
  None          \* nobody

ASSUME SpoolAssumption ==
  /\ Ids \subseteq Nat /\ IsFiniteSet(Ids)
  /\ MaxRecord \in Nat /\ Size \in [Ids -> 1..MaxRecord]
  /\ ProcOf \in [Threads -> Procs]
  /\ None \notin Procs \cup Threads \cup Ids
  /\ {MaxEntries, MaxBytes, MaxFaults, MaxCrashes, MaxRot} \subseteq Nat

VARIABLES
  linking,    \* publication is by link and unlink (Unix other than Linux)
  names,      \* the names each record's file has now
  alts,       \* the sets of names a power failure may leave it
  written,    \* records whose bytes are on the disk
  torn,       \* records whose bytes no longer decode
  lock,       \* the process holding the advisory lock
  proc,       \* "down", "opening" or "open"
  gate,       \* in each process, the thread inside the mutex
  op,         \* what each thread is doing
  issued,     \* ids drawn by enqueue
  published, promised, released,    \* see DurableQueue
  rotted,     \* records damaged by something else
  faults, crashes    \* how often a call failed; a process was killed, the power failed

vars == <<linking, names, alts, written, torn, lock, proc, gate, op, issued, published,
          promised, released, rotted, faults, crashes>>
disk    == <<names, alts>>
history == <<published, promised, released>>
outside == <<linking, rotted>>   \* what no step of a process changes

Names == {"tmp", "record", "bad", "identity"}
Evidence == {"bad", "identity"}
Calls == {"none", "enqueue", "ack", "quarantine", "next"}
Steps == {"idle", "create", "write", "publish", "linked", "unlink", "sync", "remove",
          "scan"}

NoOp == [call |-> "none", pc |-> "idle", id |-> None, to |-> "record"]

-----------------------------------------------------------------------------
\* The directory.

Files(kinds) == {i \in Ids : names[i] \cap kinds # {}}
Temporaries == Files({"tmp"})
Entries == Files({"record"} \cup Evidence)
Pending == Files({"record"})
Bytes(files) == Cardinality({byte \in files \X (1..MaxRecord) : byte[2] <= Size[byte[1]]})

\* PrivateDirectory::files refuses a file with two links and a directory over
\* its budget; the lock file is one entry more, and empty.
Listable(entries, bytes) ==
  /\ \A i \in Ids : Cardinality(names[i]) <= 1
  /\ Cardinality(Temporaries \cup Entries) + 1 <= entries
  /\ Bytes(Temporaries \cup Entries) <= bytes

\* current_entries, which knows no name but those of records.
Usable == Listable(MaxEntries + 1, MaxBytes) /\ Temporaries = {}

Room(i) ==
  /\ Cardinality(Entries) < MaxEntries
  /\ Bytes(Entries) + Size[i] <= MaxBytes

\* One directory operation on a file, not synchronized: it may reach the disk
\* without the operations before it, or not at all.
Rename(i, drop, add) ==
  LET Does(ns) == (ns \ drop) \cup add IN
  /\ names' = [names EXCEPT ![i] = Does(@)]
  /\ alts' = [alts EXCEPT ![i] = @ \cup {Does(ns) : ns \in @}]

\* The directory is synchronized: only what is there now can survive.
SyncDirectory == alts' = [i \in Ids |-> {names'[i]}]

Fault == faults < MaxFaults /\ faults' = faults + 1

Init ==
  /\ linking \in BOOLEAN
  /\ names = [i \in Ids |-> {}]
  /\ alts = [i \in Ids |-> {{}}]
  /\ written = {} /\ torn = {}
  /\ lock = None
  /\ proc = [p \in Procs |-> "down"]
  /\ gate = [p \in Procs |-> None]
  /\ op = [t \in Threads |-> NoOp]
  /\ issued = {} /\ published = {} /\ promised = {} /\ released = {} /\ rotted = {}
  /\ faults = 0 /\ crashes = [killed |-> 0, power |-> 0]

-----------------------------------------------------------------------------
\* Opening: Spool::from_directory.

\* AdvisoryLock::acquire: AlreadyRunning while another process holds the lock.
TryLock(p) ==
  /\ proc[p] = "down" /\ lock = None
  /\ lock' = p
  /\ proc' = [proc EXCEPT ![p] = "opening"]
  /\ UNCHANGED <<disk, written, torn, gate, op, issued, history, outside, faults, crashes>>

\* The budget of the clean-up leaves room for one temporary.
Sweepable == Listable(MaxEntries + 2, MaxBytes + MaxRecord)

Sweep(p, i) ==
  /\ proc[p] = "opening" /\ Sweepable
  /\ "tmp" \in names[i]
  /\ names' = [names EXCEPT ![i] = {}]
  /\ SyncDirectory
  /\ UNCHANGED <<written, torn, lock, proc, gate, op, issued, history, outside, faults,
                 crashes>>

Opened(p) ==
  /\ proc[p] = "opening" /\ Usable
  /\ proc' = [proc EXCEPT ![p] = "open"]
  /\ UNCHANGED <<disk, written, torn, lock, gate, op, issued, history, outside, faults,
                 crashes>>

\* The spool cannot be opened as it stands.
Refused == ~Sweepable \/ (Temporaries = {} /\ ~Usable)

\* from_directory returns an error and drops the lock; a failing clean-up may
\* have unlinked its temporary without synchronizing the directory.
OpenFails(p) ==
  /\ proc[p] = "opening"
  /\ \/ Refused /\ UNCHANGED <<disk, faults>>
     \/ Fault /\ \/ UNCHANGED disk
                 \/ Sweepable /\ \E i \in Temporaries : Rename(i, {"tmp"}, {})
  /\ proc' = [proc EXCEPT ![p] = "down"]
  /\ lock' = None
  /\ UNCHANGED <<written, torn, gate, op, issued, history, outside, crashes>>

Close(p) ==
  /\ proc[p] = "open" /\ gate[p] = None
  /\ proc' = [proc EXCEPT ![p] = "down"]
  /\ lock' = None
  /\ UNCHANGED <<disk, written, torn, gate, op, issued, history, outside, faults, crashes>>

-----------------------------------------------------------------------------
\* Operations.  Each runs inside the gate from its check of the directory on.

\* Faulty variant: the mutex is not waited for.
EnterUngated(t, call, pc, i, to) ==
  LET p == ProcOf[t] IN
  /\ proc[p] = "open" /\ op[t] = NoOp
  /\ Usable
  /\ gate' = [gate EXCEPT ![p] = t]
  /\ op' = [op EXCEPT ![t] = [call |-> call, pc |-> pc, id |-> i, to |-> to]]

\* Spool::guard and Spool::entries.
Enter(t, call, pc, i, to) ==
  LET p == ProcOf[t] IN
  /\ proc[p] = "open" /\ gate[p] = None /\ op[t] = NoOp
  /\ Usable
  /\ gate' = [gate EXCEPT ![p] = t]
  /\ op' = [op EXCEPT ![t] = [call |-> call, pc |-> pc, id |-> i, to |-> to]]

Goto(t, pc) == op' = [op EXCEPT ![t].pc = pc] /\ UNCHANGED gate

Return(t) ==
  /\ op' = [op EXCEPT ![t] = NoOp]
  /\ gate' = [gate EXCEPT ![ProcOf[t]] = None]

At(t, pc) == op[t].pc = pc
Target(t) == op[t].id

\* Spool::enqueue_with_priority, refused when there is no room.
Enqueue(t, i) ==
  /\ i \notin issued /\ Room(i)
  /\ Enter(t, "enqueue", "create", i, "record")
  /\ issued' = issued \cup {i}
  /\ UNCHANGED <<disk, written, torn, lock, proc, history, outside, faults, crashes>>

Ack(t, i) ==
  /\ "record" \in names[i]
  /\ Enter(t, "ack", "remove", i, "record")
  /\ UNCHANGED <<disk, written, torn, lock, proc, issued, history, outside, faults, crashes>>

Quarantine(t, i, reason) ==
  /\ "record" \in names[i] /\ reason \in Evidence
  /\ Enter(t, "quarantine", "publish", i, reason)
  /\ UNCHANGED <<disk, written, torn, lock, proc, issued, history, outside, faults, crashes>>

NextRecord(t) ==
  /\ Enter(t, "next", "scan", None, "bad")
  /\ UNCHANGED <<disk, written, torn, lock, proc, issued, history, outside, faults, crashes>>

IsHead(i) == i \in Pending /\ \A j \in Pending : i <= j

\* The container is complete: its marks, its lengths and its checksum, over all
\* it holds, agree with one another and with the file's name.
Decodes(i) == i \notin torn

\* Spool::next goes through the records in order: it isolates those that do not
\* decode and returns the first one that does, or nothing.
Scan(t) ==
  /\ At(t, "scan")
  /\ \/ \E i \in Ids : /\ IsHead(i) /\ ~Decodes(i)
                       /\ op' = [op EXCEPT ![t].pc = "publish", ![t].id = i]
                       /\ UNCHANGED gate
     \/ (\A i \in Ids : IsHead(i) => Decodes(i)) /\ Return(t)
  /\ UNCHANGED <<disk, written, torn, lock, proc, issued, history, outside, faults, crashes>>

\* atomic_write_at: the exclusive temporary, its bytes and their fsync.
CreateTemporary(t) ==
  /\ At(t, "create")
  /\ Rename(Target(t), {}, {"tmp"})
  /\ Goto(t, "write")
  /\ UNCHANGED <<written, torn, lock, proc, issued, history, outside, faults, crashes>>

\* Faulty variant: the bytes are not synchronized.
WriteUnsynced(t) ==
  /\ At(t, "write")
  /\ Goto(t, "publish")
  /\ UNCHANGED <<disk, written, torn, lock, proc, issued, history, outside, faults, crashes>>

WriteTemporary(t) ==
  /\ At(t, "write")
  /\ written' = written \cup {Target(t)}
  /\ Goto(t, "publish")
  /\ UNCHANGED <<disk, torn, lock, proc, issued, history, outside, faults, crashes>>

From(t) == IF op[t].call = "enqueue" THEN "tmp" ELSE "record"

\* The record's new name is visible: an enqueued record is published, a
\* quarantined one has left the queue.
Published(t) == IF op[t].call = "enqueue" THEN published \cup {Target(t)} ELSE published
Released(t)  == IF op[t].call = "enqueue" THEN released ELSE released \cup {Target(t)}

\* no_clobber_publish_at on Linux: one rename that replaces nothing.
PublishRename(t) ==
  /\ ~linking /\ At(t, "publish")
  /\ Rename(Target(t), {From(t)}, {op[t].to})
  /\ published' = Published(t)
  /\ released' = Released(t)
  /\ Goto(t, "sync")
  /\ UNCHANGED <<written, torn, lock, proc, issued, promised, outside, faults, crashes>>

\* Faulty variant: the old link goes before the new one is known to survive.
LinkUnsynced(t) ==
  /\ linking /\ At(t, "publish")
  /\ Rename(Target(t), {}, {op[t].to})
  /\ published' = Published(t)
  /\ released' = Released(t)
  /\ Goto(t, "unlink")
  /\ UNCHANGED <<written, torn, lock, proc, issued, promised, outside, faults, crashes>>

\* no_clobber_publish_at elsewhere: link, synchronize, unlink.
PublishLink(t) ==
  /\ linking /\ At(t, "publish")
  /\ Rename(Target(t), {}, {op[t].to})
  /\ published' = Published(t)
  /\ released' = Released(t)
  /\ Goto(t, "linked")
  /\ UNCHANGED <<written, torn, lock, proc, issued, promised, outside, faults, crashes>>

SyncLink(t) ==
  /\ At(t, "linked")
  /\ UNCHANGED names /\ SyncDirectory
  /\ Goto(t, "unlink")
  /\ UNCHANGED <<written, torn, lock, proc, issued, history, outside, faults, crashes>>

UnlinkOld(t) ==
  /\ At(t, "unlink")
  /\ Rename(Target(t), {From(t)}, {})
  /\ Goto(t, "sync")
  /\ UNCHANGED <<written, torn, lock, proc, issued, history, outside, faults, crashes>>

\* Spool::ack: remove_file.
Remove(t) ==
  /\ At(t, "remove")
  /\ Rename(Target(t), {"record"}, {})
  /\ released' = released \cup {Target(t)}
  /\ Goto(t, "sync")
  /\ UNCHANGED <<written, torn, lock, proc, issued, published, promised, outside, faults,
                 crashes>>

\* The last directory sync, and the return with Ok: only now is an enqueue a
\* promise.  An isolation inside next goes on with the scan.
SyncAndReturn(t) ==
  /\ At(t, "sync")
  /\ UNCHANGED names /\ SyncDirectory
  /\ promised' = IF op[t].call = "enqueue" THEN promised \cup {Target(t)} ELSE promised
  /\ IF op[t].call = "next"
     THEN op' = [op EXCEPT ![t].pc = "scan", ![t].id = None] /\ UNCHANGED gate
     ELSE Return(t)
  /\ UNCHANGED <<written, torn, lock, proc, issued, published, released, outside, faults,
                 crashes>>

\* A system call fails and the operation returns the error: before its step,
\* after the last sync, or with the attempt of a failed enqueue to unlink its
\* temporary, whose own result nobody looks at.
Fail(t) ==
  /\ op[t] # NoOp /\ Fault
  /\ \/ UNCHANGED disk
     \/ At(t, "sync") /\ UNCHANGED names /\ SyncDirectory
     \/ /\ op[t].call = "enqueue" /\ "tmp" \in names[Target(t)]
        /\ Rename(Target(t), {"tmp"}, {})
  /\ Return(t)
  /\ UNCHANGED <<written, torn, lock, proc, issued, history, outside, crashes>>

-----------------------------------------------------------------------------
\* What happens to processes and to the disk.

Crash(what, ps) ==
  /\ crashes.killed + crashes.power < MaxCrashes
  /\ crashes' = [crashes EXCEPT ![what] = @ + 1]
  /\ proc' = [p \in Procs |-> IF p \in ps THEN "down" ELSE proc[p]]
  /\ gate' = [p \in Procs |-> IF p \in ps THEN None ELSE gate[p]]
  /\ op' = [t \in Threads |-> IF ProcOf[t] \in ps THEN NoOp ELSE op[t]]
  /\ lock' = IF lock \in ps THEN None ELSE lock
  /\ UNCHANGED <<written, issued, history, outside, faults>>

Kill(p) ==
  /\ proc[p] # "down"
  /\ Crash("killed", {p})
  /\ UNCHANGED <<disk, torn>>

\* Every file keeps one of the sets of names it may have; a file whose bytes
\* were not synchronized may hold anything.
PowerFail ==
  /\ Crash("power", Procs)
  /\ names' \in {n \in [Ids -> UNION {alts[i] : i \in Ids}] : \A i \in Ids : n[i] \in alts[i]}
  /\ SyncDirectory
  /\ torn' = torn \cup {i \in issued \ written : names'[i] # {}}

Rot(i) ==
  /\ "record" \in names[i] /\ i \notin torn
  /\ \A t \in Threads : Target(t) # i
  /\ Cardinality(rotted) < MaxRot
  /\ torn' = torn \cup {i} /\ rotted' = rotted \cup {i}
  /\ UNCHANGED <<linking, disk, written, lock, proc, gate, op, issued, history, faults, crashes>>

-----------------------------------------------------------------------------
Opening(p) ==
  TryLock(p) \/ (\E i \in Ids : Sweep(p, i)) \/ Opened(p) \/ OpenFails(p) \/ Close(p)

Calling(t) ==
  \/ \E i \in Ids : \/ Enqueue(t, i) \/ Ack(t, i)
                    \/ \E reason \in Evidence : Quarantine(t, i, reason)
  \/ NextRecord(t)

Working(t) ==
  \/ Scan(t) \/ CreateTemporary(t) \/ WriteTemporary(t)
  \/ PublishRename(t) \/ PublishLink(t) \/ SyncLink(t) \/ UnlinkOld(t)
  \/ Remove(t) \/ SyncAndReturn(t) \/ Fail(t)

Next ==
  \/ \E p \in Procs : Opening(p) \/ Kill(p)
  \/ \E t \in Threads : Calling(t) \/ Working(t)
  \/ PowerFail
  \/ \E i \in Ids : Rot(i)

Spec == Init /\ [][Next]_vars

-----------------------------------------------------------------------------
\* The spool as a durable queue.

\* A record that has been linked as evidence counts as isolated: the spool
\* refuses the directory until its other link is gone.
PlaceOf(ns) ==
  IF ns \cap Evidence # {} THEN "iso" ELSE IF "record" \in ns THEN "in" ELSE "out"

Queue == INSTANCE DurableQueue WITH
  view <- [i \in Ids |-> PlaceOf(names[i])],
  fate <- [i \in Ids |-> {PlaceOf(ns) : ns \in alts[i]}]

\* Every call, crash, clean-up and failure is a step of a durable queue.
ImplementsQueue == Queue!Spec

Writes(t) == op[t].call = "enqueue" /\ op[t].pc \in {"write", "publish"}

\* No record loses its bytes to this code.  A temporary is never taken away from the
\* enqueue that is writing it, by a clean-up in another process ("the process lock
\* precedes cleanup"), and a promised record decodes unless something else has
\* damaged it: no crash of ours publishes a half-written file.
BytesAreSafe ==
  /\ \A t \in Threads : Writes(t) => "tmp" \in names[Target(t)]
  /\ promised \cap torn \subseteq rotted

\* As long as no system call has failed, the spool stays one that every call
\* accepts.  Between two calls its directory is within the limits, quarantined
\* records and their metadata included, whatever threads race for the last slot, and
\* no thread meets another one's temporary or what a crash has left.  However the
\* last owner ended, the spool can be opened again where publication is a rename:
\* never two names of a file, never more than the clean-up's budget allows for.
\* (Where publication is link and unlink, a crash between the two leaves two links
\* and a spool that does not open.  A rename whose synchronization failed, or whose
\* process was killed before it, may come back in part after a power failure, beside
\* what was done since.)
StaysUsable ==
  faults = 0 /\ (crashes.killed = 0 \/ crashes.power = 0) =>
    /\ \A p \in Procs : proc[p] = "open" /\ gate[p] = None => Usable
    /\ Cardinality(Entries) <= MaxEntries /\ Bytes(Entries) <= MaxBytes
    /\ ~linking /\ lock = None => ~Refused
=============================================================================
