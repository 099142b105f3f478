-------------------------- MODULE FilePublication --------------------------
(***************************************************************************)
(* How src/src/fs_safety replaces one document of a held directory: an     *)
(* advisory lock serializes read-modify-write transactions, a temporary    *)
(* file is written and synchronized, and a rename, or a link, gives it the *)
(* document's name.  A private child directory is made, given its owner    *)
(* and synchronized under that name.  Processes run at the same time, an   *)
(* administrator edits the directory without the lock, system calls fail,  *)
(* processes are killed and the power fails between any two system calls.  *)
(***************************************************************************)
EXTENDS Integers, Sequences, FiniteSets

CONSTANTS
  Procs,       \* the processes
  Root,        \* those that run as root; the directory belongs to a service
  Platforms,   \* which of "linux", "unix" and "windows" to look at
  MaxFiles,    \* bound: files that exist at once, on the disk or opened
  MaxUpdates,  \* bound: transactions ever begun
  MaxMishaps,  \* bound: failing system calls, crashes and edits together
  None

ASSUME FilePublicationAssumption ==
  /\ IsFiniteSet(Procs) /\ Root \subseteq Procs /\ Platforms \subseteq {"linux", "unix", "windows"}
  /\ {MaxFiles, MaxUpdates, MaxMishaps} \subseteq Nat
  /\ {"document", "lock"} \cap Procs = {} /\ None \notin Procs \cup (1..MaxFiles) \cup (Procs \X Nat)
  /\ None \notin [ino : 1..MaxFiles, meta : {"private", "shared", "root", "open"}, links : Nat]

VARIABLES
  platform,  \* where the program runs
  kind,      \* document of a ConfigurationDirectory, of a PrivateDirectory, or a child
  dirs,      \* the directory after each change since it was last synchronized
  file,      \* the files: inode number, text, metadata, and whether on the disk
  pc,        \* the next system call of each process
  job,       \* what the call of each process remembers
  holder,    \* the process that has the advisory lock
  acked,     \* the updates whose transaction has returned Ok
  updates, mishaps,
  edited     \* the administrator has touched the document

vars == <<platform, kind, dirs, file, pc, job, holder, acked, updates, mishaps, edited>>
setting == <<platform, kind>>
disk    == <<dirs, file>>
counts  == <<updates, mishaps, edited>>

Windows == platform = "windows"
Configuration == kind = "configuration"
Child == kind = "child"

\* A new random name for every temporary: no two are the same.
Temporaries == Procs \X (0..MaxMishaps)
document == <<"document", 0>>
lock == <<"lock", 0>>
Names == {document, lock} \cup Temporaries
Objects == 1..MaxFiles

names == dirs[Len(dirs)]
Document == names[document]
Links(o) == Cardinality({n \in Names : names[n] = o})
Named(n, o) == dirs' = Append(dirs, [names EXCEPT ![n] = o])
Renamed(from, to) == dirs' = Append(dirs, [names EXCEPT ![to] = names[from], ![from] = None])
SyncNames == dirs' = <<names>>

\* A text is the set of the updates in it; a torn one contains something else.
Torn == {0}

\* 0600 or 0640 and the directory's owner, 0600 and root, or readable by all.
\* On Windows "private" is what the policy of the directory accepts.
Metas == {"private", "shared", "root", "open"}

NoJob == [locked |-> FALSE, update |-> 0, seen |-> {}, create |-> FALSE,
          opened |-> None, held |-> FALSE, expected |-> None, temp |-> None, late |-> FALSE]

Init ==
  /\ platform \in Platforms
  /\ kind \in IF Windows THEN {"private"} ELSE {"private", "configuration", "child"}
  /\ dirs = <<[n \in Names |-> None]>>
  /\ file = [o \in Objects |-> [ino |-> o, text |-> {}, meta |-> "private", synced |-> TRUE]]
  /\ pc = [p \in Procs |-> "idle"]
  /\ job = [p \in Procs |-> NoJob]
  /\ holder = None /\ acked = {}
  /\ updates = 0 /\ mishaps = 0 /\ edited = FALSE

-----------------------------------------------------------------------------
\* The operating system.

Existing == {job[p].opened : p \in Procs}
            \cup UNION {{d[n] : n \in Names} : d \in {dirs[k] : k \in DOMAIN dirs}}
Fresh == CHOOSE o \in Objects : o \notin Existing

\* An inode number is free again when no name and no descriptor leads to it.
\* Faulty variant: the descriptor of the original is closed before the publication.
OpenedToRead == {job[p].opened : p \in {q \in Procs : job[q].held /\ job[q].expected = None}} \ {None}

Opened == {job[p].opened : p \in {q \in Procs : job[q].held}} \ {None}
Numbered(n) == {file[o].ino : o \in Opened \cup ({names[m] : m \in Names \ {n}} \ {None})}
FreeNumber(n) == CHOOSE i \in Objects : i \notin Numbered(n)

\* A new file gets the name, as long as there is one; one that had it is gone.
Create(n, text, meta, synced) ==
  /\ ~(Objects \subseteq Existing) /\ ~(Objects \subseteq Numbered(n))
  /\ Named(n, Fresh)
  /\ file' = [file EXCEPT ![Fresh] =
       [ino |-> FreeNumber(n), text |-> text, meta |-> meta, synced |-> synced]]

\* Whether a process may open a file of its directory at all.
MayOpen(p, o) == p \in Root \/ file[o].meta # "root"

\* No handle of this code shares deletion: on Windows the name of an open file
\* stays where it is.
Pinned(o) == Windows /\ o \in Opened

At(p, here) == pc[p] = here
Goto(p, there) == pc' = [pc EXCEPT ![p] = there]
Keep(p, change) == job' = [job EXCEPT ![p] = change]
Advance(p, here, there) == At(p, here) /\ Goto(p, there) /\ UNCHANGED job

\* A call that returns closes what it has opened.
Return(p) ==
  IF job[p].locked
  THEN Goto(p, "unlock") /\ Keep(p, [NoJob EXCEPT !.locked = TRUE, !.update = job[p].update])
  ELSE Goto(p, "idle") /\ Keep(p, NoJob)

\* The ? of the code: a temporary is removed first.
Refuse(p) ==
  \/ job[p].temp = None /\ Return(p)
  \/ job[p].temp # None /\ Goto(p, "cleanup") /\ UNCHANGED job

Proceed(p, ok, there) == IF ok THEN Goto(p, there) /\ UNCHANGED job ELSE Refuse(p)

-----------------------------------------------------------------------------
\* A call begins, and takes the advisory lock (advisory_lock).

\* Whoever does not hold the lock may only create the document, or read it.
BeginUpdate(p, locked) ==
  /\ updates < MaxUpdates /\ At(p, "idle")
  /\ IF locked THEN ~Child ELSE ~Configuration
  /\ updates' = updates + 1
  /\ Goto(p, IF locked THEN "lockopen" ELSE IF Child THEN "mkdir" ELSE "open")
  /\ Keep(p, [NoJob EXCEPT !.locked = locked, !.update = updates + 1])
  /\ UNCHANGED <<setting, disk, holder, acked, mishaps, edited>>

BeginRead(p) ==
  /\ Advance(p, "idle", IF Child THEN "opendir" ELSE "open")
  /\ UNCHANGED <<setting, disk, holder, acked, counts>>

NewMeta(p) == IF p \in Root /\ ~Windows THEN "root" ELSE "private"

LockOpen(p) ==
  /\ At(p, "lockopen")
  /\ IF names[lock] = None
     THEN Create(lock, {}, NewMeta(p), TRUE) /\ Goto(p, "lockown") /\ UNCHANGED job
     ELSE /\ Proceed(p, MayOpen(p, names[lock]) /\ file[names[lock]].meta = "private", "lockwait")
          /\ UNCHANGED disk
  /\ UNCHANGED <<setting, holder, acked, counts>>

\* inherit_owner, for a lock file of one's own only.
LockOwn(p) ==
  /\ Advance(p, "lockown", "lockwait")
  /\ file' = [file EXCEPT ![names[lock]].meta = "private"]
  /\ UNCHANGED <<setting, dirs, holder, acked, counts>>

LockWait(p) ==
  /\ Advance(p, "lockwait", "locksync")
  /\ holder = None
  /\ holder' = p
  /\ UNCHANGED <<setting, disk, acked, counts>>

LockSync(p) ==
  /\ Advance(p, "locksync", "open")
  /\ SyncNames
  /\ UNCHANGED <<setting, file, holder, acked, counts>>

-----------------------------------------------------------------------------
\* The document is read (read_configuration, read_private_bounded, read_private).

Acceptable(o) ==
  file[o].meta \in IF Configuration THEN {"private", "shared", "root"} ELSE {"private"}

\* What comes after reading: only whoever has the lock changes what is there.
Writes == IF Configuration THEN "reopen" ELSE "prepare"

Absent(p, there) == Goto(p, there) /\ Keep(p, [job[p] EXCEPT !.create = TRUE])

Open(p) ==
  /\ At(p, "open")
  /\ \/ Document = None /\ job[p].update = 0 /\ Return(p)
     \/ Document = None /\ job[p].update # 0 /\ Absent(p, Writes)
     \/ /\ Document # None /\ MayOpen(p, Document)
        /\ Goto(p, "read")
        /\ Keep(p, [job[p] EXCEPT !.opened = Document, !.held = TRUE])
     \/ Document # None /\ ~MayOpen(p, Document) /\ Refuse(p)
  /\ UNCHANGED <<setting, disk, holder, acked, counts>>

\* regular_single_link, statat and the mode: the name still leads to this file.
Verified(o) == (Windows \/ (Links(o) = 1 /\ Document = o)) /\ Acceptable(o)

Read(p) ==
  /\ At(p, "read")
  /\ IF Verified(job[p].opened) /\ job[p].locked
     THEN /\ Goto(p, Writes)
          /\ Keep(p, [job[p] EXCEPT !.opened = None, !.held = FALSE, !.seen = file[job[p].opened].text])
     ELSE Return(p)
  /\ UNCHANGED <<setting, disk, holder, acked, counts>>

-----------------------------------------------------------------------------
\* replace_configuration: the original is opened and stays open.

Identity(o) == [ino |-> file[o].ino, meta |-> file[o].meta, links |-> Links(o)]

Reopen(p) ==
  /\ At(p, "reopen")
  /\ \/ Document = None /\ Absent(p, "prepare")
     \/ /\ Document # None /\ MayOpen(p, Document) /\ Verified(Document)
        /\ Goto(p, "prepare")
        /\ Keep(p, [job[p] EXCEPT !.create = FALSE, !.opened = Document, !.held = TRUE,
                                  !.expected = Identity(Document)])
     \/ Document # None /\ ~(MayOpen(p, Document) /\ Verified(Document)) /\ Refuse(p)
  /\ UNCHANGED <<setting, disk, holder, acked, counts>>

-----------------------------------------------------------------------------
\* atomic_write_at and atomic_write.

\* validate_publication, validate_destination and destination_checked.
Valid(p) ==
  CASE Configuration -> IF job[p].expected = None THEN Document = None
                        ELSE Document # None /\ Identity(Document) = job[p].expected
    [] Windows       -> Document # None => ~job[p].create /\ file[Document].meta = "private"
    [] OTHER         -> Document # None => Links(Document) = 1

Prepare(p) ==
  /\ At(p, "prepare")
  /\ IF Valid(p)
     THEN /\ Create(<<p, mishaps>>, {}, NewMeta(p), FALSE)
          /\ Goto(p, "write")
          /\ Keep(p, [job[p] EXCEPT !.temp = <<p, mishaps>>])
     ELSE Refuse(p) /\ UNCHANGED disk
  /\ UNCHANGED <<setting, holder, acked, counts>>

Temporary(p) == names[job[p].temp]

\* Faulty variant: the temporary keeps the owner who created it.
LeftAsCreated(p) == file[Temporary(p)].meta

\* fchown and fchmod to those of the original, or inherit_owner.
OwnMeta(p) ==
  CASE Windows                -> "private"
    [] job[p].expected = None -> "private"
    [] OTHER                  -> job[p].expected.meta

\* The temporary is nobody else's: owner and mode, text and sync_all in one step.
Write(p) ==
  /\ Advance(p, "write", "revalidate")
  /\ file' = [file EXCEPT ![Temporary(p)] =
       [@ EXCEPT !.meta = OwnMeta(p), !.text = job[p].seen \cup {job[p].update},
                 !.synced = TRUE]]
  /\ UNCHANGED <<setting, dirs, holder, acked, counts>>

\* From here on nothing looks at what the administrator does.
Revalidate(p) ==
  /\ At(p, "revalidate")
  /\ IF Valid(p) THEN Goto(p, "publish") /\ Keep(p, [job[p] EXCEPT !.late = FALSE]) ELSE Refuse(p)
  /\ UNCHANGED <<setting, disk, holder, acked, counts>>

\* Faulty variant: a creator renames as everybody else does.
NeverOnlyCreates(p) == FALSE

\* The publication must not replace anything (create_only).
OnlyCreates(p) == job[p].create

\* The handle of the new document stays open to the end of the call.
Published(p, there) ==
  Goto(p, there) /\ Keep(p, [job[p] EXCEPT !.opened = Temporary(p), !.held = TRUE])

\* renameat, renameat2 with NOREPLACE, or SetFileInformationByHandle.
Rename(p) ==
  /\ At(p, "publish") /\ ~(platform = "unix" /\ OnlyCreates(p))
  /\ IF Document = None \/ (~OnlyCreates(p) /\ ~Pinned(Document))
     THEN Renamed(job[p].temp, document) /\ Published(p, IF Windows THEN "syncdir" ELSE "confirm")
     ELSE Refuse(p) /\ UNCHANGED dirs
  /\ UNCHANGED <<setting, file, holder, acked, counts>>

\* Where there is no rename that keeps the destination: linkat.
Link(p) ==
  /\ At(p, "publish") /\ platform = "unix" /\ OnlyCreates(p)
  /\ IF Document = None
     THEN Named(document, Temporary(p)) /\ Published(p, "linksync")
     ELSE Refuse(p) /\ UNCHANGED dirs
  /\ UNCHANGED <<setting, file, holder, acked, counts>>

LinkSync(p) ==
  /\ Advance(p, "linksync", "unlink")
  /\ SyncNames
  /\ UNCHANGED <<setting, file, holder, acked, counts>>

Unlink(p) ==
  /\ Advance(p, "unlink", "confirm")
  /\ Named(job[p].temp, None)
  /\ UNCHANGED <<setting, file, holder, acked, counts>>

\* statat: the name leads to the file that was written.
Confirm(p) ==
  /\ At(p, "confirm")
  /\ Proceed(p, Document = job[p].opened, "syncdir")
  /\ UNCHANGED <<setting, disk, holder, acked, counts>>

SyncDirectory(p) ==
  /\ At(p, "syncdir")
  /\ Return(p)
  /\ SyncNames
  /\ acked' = acked \cup {job[p].update}
  /\ UNCHANGED <<setting, file, holder, counts>>

\* The temporary of a call that failed; it is gone when it was published.
Cleanup(p) ==
  /\ At(p, "cleanup")
  /\ Return(p)
  /\ IF Temporary(p) = None THEN UNCHANGED dirs ELSE Named(job[p].temp, None)
  /\ UNCHANGED <<setting, file, holder, acked, counts>>

-----------------------------------------------------------------------------
\* create_private_child and open_private_directory.  The text of a directory is
\* who has made it.

MakeDirectory(p) ==
  /\ At(p, "mkdir") /\ Goto(p, "opendir")
  /\ IF Document = None
     THEN Create(document, {job[p].update}, NewMeta(p), TRUE) /\ Keep(p, [job[p] EXCEPT !.create = TRUE])
     ELSE UNCHANGED <<disk, job>>
  /\ UNCHANGED <<setting, holder, acked, counts>>

OpenDirectory(p) ==
  /\ At(p, "opendir")
  /\ IF Document # None /\ MayOpen(p, Document)
     THEN /\ Goto(p, IF job[p].create THEN "owndir" ELSE "checkdir")
          /\ Keep(p, [job[p] EXCEPT !.opened = Document, !.held = TRUE])
     ELSE Refuse(p)
  /\ UNCHANGED <<setting, disk, holder, acked, counts>>

OwnDirectory(p) ==
  /\ Advance(p, "owndir", "checkdir")
  /\ file' = [file EXCEPT ![job[p].opened].meta = IF @ = "root" THEN "private" ELSE @]
  /\ UNCHANGED <<setting, dirs, holder, acked, counts>>

\* validate_private_directory: 0700, one's own or administered by root.  Only who
\* has made the directory synchronizes it and its name.
CheckDirectory(p) ==
  /\ At(p, "checkdir")
  /\ IF file[job[p].opened].meta \in {"private", "root"} /\ job[p].create
     THEN Goto(p, "syncdir") /\ UNCHANGED job
     ELSE Return(p)
  /\ UNCHANGED <<setting, disk, holder, acked, counts>>

-----------------------------------------------------------------------------
\* The end of a call, and the end of a process.

\* Faulty variant: only a transaction that succeeded gives its lock back.
ReleasedOnSuccess(p) == IF holder = p /\ job[p].update \in acked THEN None ELSE holder

\* Dropping the guard unlocks.
Released(p) == IF holder = p THEN None ELSE holder

End(p) ==
  /\ At(p, "unlock") /\ Goto(p, "idle")
  /\ holder' = Released(p)
  /\ Keep(p, NoJob)
  /\ UNCHANGED <<setting, disk, acked, counts>>

\* A system call fails without an effect, a write in the middle.
Fail(p) ==
  /\ mishaps < MaxMishaps
  /\ pc[p] \notin {"idle", "unlock"}
  /\ mishaps' = mishaps + 1
  /\ IF pc[p] = "cleanup" THEN Return(p) ELSE Refuse(p)
  /\ IF pc[p] = "write" THEN file' = [file EXCEPT ![Temporary(p)].text = Torn] ELSE UNCHANGED file
  /\ UNCHANGED <<setting, dirs, holder, acked, updates, edited>>

Kill(p) ==
  /\ pc[p] # "idle" /\ mishaps < MaxMishaps
  /\ mishaps' = mishaps + 1
  /\ pc' = [pc EXCEPT ![p] = "idle"]
  /\ Keep(p, NoJob)
  /\ holder' = IF holder = p THEN None ELSE holder
  /\ IF pc[p] = "write" THEN file' = [file EXCEPT ![Temporary(p)].text = Torn] ELSE UNCHANGED file
  /\ UNCHANGED <<setting, dirs, acked, updates, edited>>

\* The disk has one of the latest directories and may have lost what was not
\* synchronized.
PowerFail ==
  /\ mishaps < MaxMishaps
  /\ mishaps' = mishaps + 1
  /\ \E k \in DOMAIN dirs : dirs' = <<dirs[k]>>
  /\ file' = [o \in Objects |-> IF file[o].synced THEN file[o] ELSE [file[o] EXCEPT !.text = Torn]]
  /\ pc' = [p \in Procs |-> "idle"]
  /\ job' = [p \in Procs |-> NoJob]
  /\ holder' = None
  /\ UNCHANGED <<setting, acked, updates, edited>>

-----------------------------------------------------------------------------
\* The administrator, with the tools of the operating system.

Edits ==
  /\ mishaps < MaxMishaps
  /\ mishaps' = mishaps + 1 /\ edited' = TRUE
  /\ job' = [p \in Procs |-> [job[p] EXCEPT !.late = TRUE]]
  /\ UNCHANGED <<setting, pc, holder, acked, updates>>

EditReplace ==
  /\ Document # None => ~Pinned(Document)
  /\ Edits
  /\ Create(document, {}, "private", TRUE)

EditRemove ==
  /\ Document # None /\ ~Pinned(Document)
  /\ Edits
  /\ Named(document, None)
  /\ UNCHANGED file

EditMode ==
  /\ Document # None
  /\ Edits
  /\ \E meta \in {"shared", "open"} : file' = [file EXCEPT ![Document].meta = meta]
  /\ UNCHANGED dirs

-----------------------------------------------------------------------------
Step(p) ==
  \/ LockOpen(p) \/ LockOwn(p) \/ LockWait(p) \/ LockSync(p) \/ Open(p) \/ Read(p)
  \/ Reopen(p) \/ Prepare(p) \/ Write(p) \/ Revalidate(p)
  \/ Rename(p) \/ Link(p) \/ LinkSync(p) \/ Unlink(p) \/ Confirm(p) \/ SyncDirectory(p)
  \/ Cleanup(p) \/ End(p)
  \/ MakeDirectory(p) \/ OpenDirectory(p) \/ OwnDirectory(p) \/ CheckDirectory(p)

Next ==
  \/ \E p \in Procs :
       \/ \E locked \in BOOLEAN : BeginUpdate(p, locked)
       \/ BeginRead(p) \/ Step(p) \/ Fail(p) \/ Kill(p)
  \/ PowerFail
  \/ EditReplace \/ EditRemove \/ EditMode

\* A call that runs goes on; the operating system wakes whoever waits for a lock.
Spec == Init /\ [][Next]_vars /\ \A p \in Procs : WF_vars(Step(p))

-----------------------------------------------------------------------------
\* Properties.

Possible == {dirs[k] : k \in DOMAIN dirs}

\* Unless the administrator has edited it, the document contains every update
\* whose transaction returned Ok, also after a power failure: no transaction
\* overwrites another's update and no creator an existing document (replace,
\* create and acquire_waiting).  A child directory stays once the call that made it
\* has returned Ok.
AcknowledgedStays ==
  ~edited =>
    \A d \in Possible : acked \subseteq IF d[document] = None THEN {} ELSE file[d[document]].text

\* Whatever a failure or crash leaves under the document's name is whole, on the
\* disk, and may be read by the service, even when root has written it; only a
\* child directory is root's for the moment before it is handed over.  It has a
\* second name only where one is being published or a crash came in between.
DestinationIsSound ==
  \A d \in Possible : LET o == d[document] IN o # None =>
    /\ file[o].synced /\ file[o].text # Torn
    /\ file[o].meta = "open" => edited
    /\ file[o].meta = "root" =>
         Child /\ (mishaps > 0 \/ \E p \in Procs : job[p].create /\ pc[p] \in {"opendir", "owndir"})
    /\ d = names /\ Links(o) > 1 =>
         platform = "unix" /\ (mishaps > 0 \/ \E p \in Procs : job[p].opened = o)

\* A replaced configuration is the file that the call opened, with the metadata
\* it had, or it was touched after the last check: an inode number that is used
\* again deceives no check (replace_configuration keeps the original open).
ReplacesWhatItOpened ==
  [][\A p \in Procs : pc[p] = "publish" /\ pc'[p] \in {"confirm", "linksync"} /\ Configuration =>
       \/ job[p].late
       \/ /\ Document = job[p].opened
          /\ Document # None => file'[dirs'[Len(dirs')][document]].meta = file[Document].meta]_vars

\* Every call ends, with an error if need be: nobody waits for a lock that was
\* not given back.
EveryCallEnds == \A p \in Procs : pc[p] # "idle" ~> pc[p] = "idle"
=============================================================================
