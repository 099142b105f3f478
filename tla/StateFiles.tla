----------------------------- MODULE StateFiles -----------------------------
(***************************************************************************)
(* Private state directories and the files in them on Unix: how a service  *)
(* and an administrator (uid 0) open and create them through               *)
(* src/src/state_file/mod.rs and src/src/fs_safety/unix.rs, while the      *)
(* directory may be exchanged for another one (a restored backup), files   *)
(* be replaced and modes changed between any two system calls.             *)
(***************************************************************************)
EXTENDS Naturals, Sequences

CONSTANTS
  Programs,        \* processes that use the directory
  Administrators,  \* those of them that run as uid 0
  MaxDirectories,  \* bounds: directories, files, and what others change
  MaxFiles,
  MaxExchanges,
  MaxChanges,
  Missing

ASSUME StateFilesAssumption ==
  /\ Administrators \subseteq Programs
  /\ MaxDirectories \in Nat /\ MaxFiles \in Nat
  /\ MaxExchanges \in Nat /\ MaxChanges \in Nat
  /\ Missing \notin Nat

VARIABLES
  directories,  \* of each that was made: owner, mode and the file its name leads to
  place,        \* the directory the path leads to
  files,        \* of each that was made: owner, and whether its mode and links are private
  task,         \* what each program is doing, and its handles
  abandoned,    \* history: files an administrator made and could not give away
  inherits,     \* whether the parent hands special mode bits down
  exchanges,    \* how often the path was made to lead elsewhere, and what else was changed
  changes

stateVars == <<directories, place, files, task, abandoned, inherits, exchanges, changes>>

-----------------------------------------------------------------------------
\* Owners and modes.  An owner stands for uid and gid; a mode is 0700, 0700 with
\* special bits, or anything else.

Root == "root"
Uid(p) == IF p \in Administrators THEN Root ELSE "service"

\* What the permissions of a private object allow.
MayUseIt(p, owner) == Uid(p) \in {Root, owner}

\* require_directory: the permission bits.
RequiredOf(d, owner) == directories[d].owner = owner /\ directories[d].mode # "shared"

\* open_for_administration, with its verify_identity: all bits.
AdministeredBy(p, d) ==
  /\ MayUseIt(p, directories[d].owner)
  /\ RequiredOf(d, directories[d].owner) /\ directories[d].mode = "private"

\* validate_private_directory.
ValidFor(p, d, administrator) ==
  /\ directories[d].owner = Uid(p) \/ (administrator /\ Uid(p) = Root)
  /\ directories[d].mode = "private"

\* require_file.
RequiredFile(f, owner) == files[f].owner = owner /\ files[f].private

-----------------------------------------------------------------------------
\* What a program is doing: its directory handle, opened for administration or
\* not, its file, the directory that was reached through, and how often the path
\* was exchanged since the call began.

Resting == [at |-> "idle", directory |-> Missing, administers |-> FALSE, create |-> FALSE,
            file |-> Missing, reached |-> Missing, verified |-> FALSE, exchanged |-> 0]

Becomes(p, t) == task' = [task EXCEPT ![p] = t]
Proceeds(p, at) == Becomes(p, [task[p] EXCEPT !.at = at])
Enters(p, at, d, administers) ==
  Becomes(p, [Resting EXCEPT !.at = at, !.directory = d, !.administers = administers])

\* open_file is running, or verify_identity.
Opening(p) == task[p].at \in {"file", "fchown", "descriptor", "name", "again"}
Calling(p) == Opening(p) \/ task[p].at = "verify"

\* A call on a directory returns an error: the handle stays.
GivesUp(p) == Enters(p, "directory", task[p].directory, task[p].administers)

StateInit ==
  /\ \/ directories = <<>> /\ place = Missing /\ inherits \in BOOLEAN
     \/ directories = <<[owner |-> "service", mode |-> "private", file |-> Missing]>>
        /\ place = 1 /\ inherits = FALSE
  /\ files = <<>>
  /\ task = [p \in Programs |-> Resting]
  /\ abandoned = {} /\ exchanges = 0 /\ changes = 0

Unchanged == UNCHANGED <<abandoned, inherits, exchanges, changes>>

\* mkdir with mode 0700.
NewDirectory(p) ==
  /\ Len(directories) < MaxDirectories
  /\ directories' = Append(directories, [owner |-> Uid(p), file |-> Missing,
                                         mode |-> IF inherits THEN "special" ELSE "private"])
  /\ place' = Len(directories) + 1

\* A new file with mode 0600, under the name in directory d.
NewFile(p, d) ==
  /\ Len(files) < MaxFiles
  /\ files' = Append(files, [owner |-> Uid(p), private |-> TRUE])
  /\ directories' = [directories EXCEPT ![d].file = Len(files) + 1]

-----------------------------------------------------------------------------
\* PrivateStateDirectory: create, open, open_for_administration.

CreateState(p) ==
  /\ task[p].at = "idle" /\ place = Missing
  /\ Proceeds(p, "mkdir")
  /\ UNCHANGED <<directories, place, files>> /\ Unchanged

\* DirBuilder::create fails when the path exists by now.
MakeState(p) ==
  /\ task[p].at = "mkdir"
  /\ \/ place = Missing /\ NewDirectory(p) /\ Proceeds(p, "open")
     \/ place # Missing /\ Becomes(p, Resting) /\ UNCHANGED <<directories, place>>
  /\ UNCHANGED files /\ Unchanged

OpenState(p) ==
  /\ task[p].at = "open" \/ (task[p].at = "idle" /\ place # Missing)
  /\ IF RequiredOf(place, Uid(p)) THEN Enters(p, "directory", place, FALSE) ELSE Becomes(p, Resting)
  /\ UNCHANGED <<directories, place, files>> /\ Unchanged

\* The handle stays open, the path is verified once more.
OpenForAdministration(p) ==
  /\ task[p].at = "idle" /\ place # Missing
  /\ MayUseIt(p, directories[place].owner) /\ RequiredOf(place, directories[place].owner)
  /\ Enters(p, "pinned", place, TRUE)
  /\ UNCHANGED <<directories, place, files>> /\ Unchanged

\* verify_identity of a directory.
SameDirectory(p) ==
  LET d == task[p].directory IN
    /\ place = d
    /\ IF task[p].administers THEN AdministeredBy(p, d) ELSE RequiredOf(d, Uid(p))

ConfirmPinned(p) ==
  /\ task[p].at = "pinned"
  /\ IF SameDirectory(p) THEN Proceeds(p, "directory") ELSE Becomes(p, Resting)
  /\ UNCHANGED <<directories, place, files>> /\ Unchanged

-----------------------------------------------------------------------------
\* PrivateDirectory of fs_safety: open_existing and open_for_administration, create
\* and create_for_administration.  All later calls go through the handle.

OpenPrivate(p, administrator) ==
  /\ task[p].at = "idle" /\ place # Missing
  /\ ValidFor(p, place, administrator)
  /\ Enters(p, "held", place, administrator)
  /\ UNCHANGED <<directories, place, files>> /\ Unchanged

\* mkdirat; a path that exists is as good.
MakePrivate(p, administrator) ==
  /\ task[p].at = "idle"
  /\ IF place = Missing THEN NewDirectory(p) ELSE UNCHANGED <<directories, place>>
  /\ Enters(p, "openat", Missing, administrator)
  /\ UNCHANGED files /\ Unchanged

OpenExisting(p) == OpenPrivate(p, FALSE)
OpenAdministered(p) == OpenPrivate(p, TRUE)
CreatePrivate(p) == MakePrivate(p, FALSE)
CreateAdministered(p) == MakePrivate(p, TRUE)

\* openat, validate_private_directory and, for a new one, two sync_all.
EnterPrivate(p) ==
  /\ task[p].at = "openat"
  /\ IF ValidFor(p, place, task[p].administers)
     THEN Enters(p, "held", place, task[p].administers) ELSE Becomes(p, Resting)
  /\ UNCHANGED <<directories, place, files>> /\ Unchanged

-----------------------------------------------------------------------------
\* open_file.

OpenFile(p, create) ==
  /\ task[p].at = "directory" /\ SameDirectory(p)
  /\ Becomes(p, [task[p] EXCEPT !.at = "file", !.create = create, !.exchanged = 0])
  /\ UNCHANGED <<directories, place, files>> /\ Unchanged

Reaches(p, f, d, at) == 
  Becomes(p, [task[p] EXCEPT !.at = at, !.file = f, !.reached = d, !.create = FALSE])

\* The runtime opens by path, an administrator below the handle.
Target(p) == IF task[p].administers THEN task[p].directory ELSE place

OpenOrCreate(p) ==
  /\ task[p].at = "file"
  /\ LET d == Target(p)  f == directories[d].file IN
       \/ /\ f # Missing /\ MayUseIt(p, files[f].owner)
          /\ Reaches(p, f, d, "descriptor")
          /\ UNCHANGED <<directories, files>>
       \/ /\ f = Missing /\ task[p].create /\ MayUseIt(p, directories[d].owner)
          /\ NewFile(p, d)
          /\ Reaches(p, Len(files) + 1, d, IF task[p].administers THEN "fchown" ELSE "descriptor")
       \/ /\ IF f # Missing THEN ~MayUseIt(p, files[f].owner) ELSE ~task[p].create
          /\ GivesUp(p)
          /\ UNCHANGED <<directories, files>>
  /\ UNCHANGED place /\ Unchanged

\* administrative_file: fchown and two sync_all.
GiveAway(p) ==
  /\ task[p].at = "fchown"
  /\ files' = [files EXCEPT ![task[p].file].owner = directories[task[p].directory].owner]
  /\ Proceeds(p, "descriptor")
  /\ UNCHANGED <<directories, place>> /\ Unchanged

\* The owner every object below the handle has to have.
Expected(p) == directories[task[p].directory].owner

\* A check fails the call, or leads to the next one.
Checks(p, at, holds, next) ==
  /\ task[p].at = at
  /\ IF holds THEN Proceeds(p, next) ELSE GivesUp(p)
  /\ UNCHANGED <<directories, place, files>> /\ Unchanged

CheckDescriptor(p) == Checks(p, "descriptor", RequiredFile(task[p].file, Expected(p)), "name")

\* symlink_metadata of the path leads to the file that is open.
StillNamed(p) ==
  /\ directories[place].file = task[p].file
  /\ RequiredFile(task[p].file, Expected(p))

CheckName(p) == Checks(p, "name", StillNamed(p), "again")

\* Faulty variant: the directory is not verified again.
NotAgain(p) == TRUE
VerifiedAgain(p) == SameDirectory(p)

CheckAgain(p) == Checks(p, "again", VerifiedAgain(p), "opened")

\* verify_identity of a lock: first its directory, then its file.
VerifyDirectory(p) ==
  /\ task[p].at = "opened"
  /\ IF SameDirectory(p)
     THEN Becomes(p, [task[p] EXCEPT !.at = "verify", !.exchanged = 0, !.verified = TRUE])
     ELSE GivesUp(p)
  /\ UNCHANGED <<directories, place, files>> /\ Unchanged

VerifyFile(p) == Checks(p, "verify", StillNamed(p), "opened")

\* A call fails, its handles are closed, or its process is killed.
Abandon(p) ==
  /\ task[p].at # "idle"
  /\ Becomes(p, Resting) \/ (Opening(p) /\ GivesUp(p))
  /\ abandoned' = IF task[p].at = "fchown" THEN abandoned \cup {task[p].file} ELSE abandoned
  /\ UNCHANGED <<directories, place, files, inherits, exchanges, changes>>

-----------------------------------------------------------------------------
\* Others.

Change == changes < MaxChanges /\ changes' = changes + 1 /\ UNCHANGED <<abandoned, inherits, exchanges>>

\* Another directory of the same owner takes its place: a new one, or an old one.
Exchange ==
  /\ exchanges < MaxExchanges /\ exchanges' = exchanges + 1
  /\ place # Missing
  /\ \/ place' \in DOMAIN directories \ {place} /\ UNCHANGED directories
     \/ /\ Len(directories) < MaxDirectories
        /\ directories' = Append(directories, [directories[place] EXCEPT !.mode = "private", !.file = Missing])
        /\ place' = Len(directories) + 1
  /\ task' = [p \in Programs |-> [task[p] EXCEPT !.exchanged = IF Calling(p) /\ ~task[p].administers THEN @ + 1 ELSE @]]
  /\ UNCHANGED <<files, abandoned, inherits, changes>>

\* A file is removed, or gets another mode or another name; a directory another mode.
ReplaceFile(d) ==
  /\ Change
  /\ directories' = [directories EXCEPT ![d].file = Missing]
  /\ UNCHANGED <<place, files, task>>

Expose(f) == Change /\ files' = [files EXCEPT ![f].private = FALSE] /\ UNCHANGED <<directories, place, task>>

Chmod(d, mode) ==
  /\ Change
  /\ directories' = [directories EXCEPT ![d].mode = mode]
  /\ UNCHANGED <<place, files, task>>

StateNext ==
  \/ \E p \in Programs :
       \/ CreateState(p) \/ MakeState(p) \/ OpenState(p)
       \/ OpenForAdministration(p) \/ ConfirmPinned(p)
       \/ OpenExisting(p) \/ OpenAdministered(p) \/ CreatePrivate(p) \/ CreateAdministered(p)
       \/ EnterPrivate(p)
       \/ \E create \in BOOLEAN : OpenFile(p, create)
       \/ OpenOrCreate(p) \/ GiveAway(p) \/ CheckDescriptor(p) \/ CheckName(p) \/ CheckAgain(p)
       \/ VerifyDirectory(p) \/ VerifyFile(p) \/ Abandon(p)
  \/ Exchange
  \/ \E d \in DOMAIN directories : ReplaceFile(d) \/ \E mode \in {"private", "special", "shared"} : Chmod(d, mode)
  \/ \E f \in DOMAIN files : Expose(f)

StateSpec == StateInit /\ [][StateNext]_stateVars

-----------------------------------------------------------------------------
\* Properties.

\* Every file belongs to whom its directory belongs, whoever created it and
\* whichever directory the path leads to meanwhile, except for one an administrator
\* is about to give away or could not ("newly created files retain the directory
\* owner's uid/gid"); the service could not open it.
KeepsItsOwner ==
  \A d \in DOMAIN directories : LET f == directories[d].file IN
    f # Missing =>
      \/ files[f].owner = directories[d].owner
      \/ f \in abandoned
      \/ \E p \in Programs : task[p].at = "fchown" /\ task[p].file = f

\* A file that open_file returned was reached through the directory of the handle:
\* always below an administrator's, and for a runtime, which goes by path, unless
\* the path was exchanged and exchanged back within the call.  When the lock is
\* verified later, once is enough.
FromItsDirectory ==
  \A p \in Programs : LET t == task[p] IN
    t.at = "opened" /\ t.reached # t.directory =>
      ~t.administers /\ t.exchanged >= (IF t.verified THEN 1 ELSE 2)

\* What one library accepts as a private directory, the other accepts as well: their
\* handles may be used side by side.
BothAcceptIt ==
  \A p \in Programs, d \in DOMAIN directories : \A administrator \in BOOLEAN :
    ValidFor(p, d, administrator) =>
      IF administrator THEN AdministeredBy(p, d) ELSE RequiredOf(d, Uid(p))

\* Administration keeps the state the service's, and nobody uses another state than
\* the one that was opened.
StateStaysWhole == KeepsItsOwner /\ FromItsDirectory /\ BothAcceptIt
=============================================================================
