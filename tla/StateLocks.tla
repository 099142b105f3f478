----------------------------- MODULE StateLocks -----------------------------
(***************************************************************************)
(* The lock protocol of src/src/state_file/mod.rs: runtimes, maintainers   *)
(* and online diagnostics coordinate through two flocked files and a       *)
(* durable marker of unfinished maintenance.  A flock belongs to the open  *)
(* file description, which a forked child shares until it execs; lock      *)
(* files may be replaced, and processes die at any step.                   *)
(***************************************************************************)
EXTENDS Integers, FiniteSets

CONSTANTS
  Callers,      \* threads or processes that ask for a lock
  Child,        \* a forked child that still has its parent's descriptors
  Descs,        \* open file descriptions
  MaxReplaced,  \* bound: replacements of each lock file
  MaxCrashes,   \* bound: callers killed
  None          \* no open file description

ASSUME StateLocksAssumption ==
  /\ Child \notin Callers /\ None \notin Descs
  /\ MaxReplaced \in Nat /\ MaxCrashes \in Nat

VARIABLES
  named,    \* the inode each lock file's name leads to
  file,     \* of each description: the lock file it was opened as
  inode,    \* of each description: the inode it is open on
  mode,     \* of each description: its flock
  refs,     \* of each description: who has a descriptor of it
  aliased,  \* descriptions whose lock was taken through the child's descriptor
  kind,     \* the lock each caller is after
  pc,       \* where each caller is
  guard,    \* the descriptions of each caller's StateLocks
  held,     \* StateLock::held
  pending,  \* MAINTENANCE_PENDING_FILE exists
  crashes

vars == <<named, file, inode, mode, refs, aliased, kind, pc, guard, held, pending, crashes>>
table  == <<named, file, inode>>
caller == <<kind, guard>>

LockFiles == {"instance", "maintenance"}
Kinds == {"none", "instance", "maintenance", "shared"}
Acquiring == {"lockm", "check", "openi", "locki", "verifym", "verifyi"}
Leaving == {"unlocki", "unlockm", "drop"}

Types ==
  /\ named \in [LockFiles -> 0..MaxReplaced]
  /\ file \in [Descs -> LockFiles]
  /\ inode \in [Descs -> 0..MaxReplaced]
  /\ mode \in [Descs -> {"none", "shared", "exclusive"}]
  /\ refs \in [Descs -> SUBSET (Callers \cup {Child})]
  /\ aliased \subseteq Descs
  /\ kind \in [Callers -> Kinds]
  /\ pc \in [Callers -> {"idle", "held"} \cup Acquiring \cup Leaving]
  /\ guard \in [Callers -> [LockFiles -> Descs \cup {None}]]
  /\ held \in [Callers -> SUBSET LockFiles]
  /\ pending \in BOOLEAN
  /\ crashes \in 0..MaxCrashes

Init ==
  /\ named = [f \in LockFiles |-> 0]
  /\ file = [d \in Descs |-> "maintenance"]
  /\ inode = [d \in Descs |-> 0]
  /\ mode = [d \in Descs |-> "none"]
  /\ refs = [d \in Descs |-> {}]
  /\ aliased = {}
  /\ kind = [c \in Callers |-> "none"]
  /\ pc = [c \in Callers |-> "idle"]
  /\ guard = [c \in Callers |-> [f \in LockFiles |-> None]]
  /\ held = [c \in Callers |-> {}]
  /\ pending = FALSE
  /\ crashes = 0

-----------------------------------------------------------------------------
\* flock, on open file descriptions.

\* Another description of the same inode has a lock in the way of this one.
Blocked(d, m) ==
  \E e \in Descs \ {d} :
    /\ file[e] = file[d] /\ inode[e] = inode[d]
    /\ mode[e] = "exclusive" \/ (m = "exclusive" /\ mode[e] # "none")

\* The lock of a description ends with the last descriptor of it.
Close(d, users) ==
  /\ refs' = [refs EXCEPT ![d] = @ \ users]
  /\ mode' = [mode EXCEPT ![d] = IF refs[d] \subseteq users THEN "none" ELSE @]
  /\ aliased' = IF refs[d] \subseteq users THEN aliased \ {d} ELSE aliased

CloseAll(users) ==
  LET gone == {d \in Descs : refs[d] \subseteq users} IN
  /\ refs' = [d \in Descs |-> refs[d] \ users]
  /\ mode' = [d \in Descs |-> IF d \in gone THEN "none" ELSE mode[d]]
  /\ aliased' = aliased \ gone

\* open_file returns with the file its name led to.
Open(c, f, d) ==
  /\ refs[d] = {}
  /\ refs' = [refs EXCEPT ![d] = {c}]
  /\ file' = [file EXCEPT ![d] = f]
  /\ inode' = [inode EXCEPT ![d] = named[f]]
  /\ guard' = [guard EXCEPT ![c][f] = d]

\* Faulty variant: maintenance takes the shared lock.
AllShared(k, f) == IF f = "instance" THEN "exclusive" ELSE "shared"

\* The flock each kind of lock takes on each file.
ModeOf(k, f) == IF f = "instance" \/ k = "maintenance" THEN "exclusive" ELSE "shared"

\* SecureStateFile::verify_identity.
IsNamed(d) == inode[d] = named[file[d]]

Goto(c, where) == pc' = [pc EXCEPT ![c] = where]

-----------------------------------------------------------------------------
\* try_instance_lock, try_maintenance_lock and try_shared_maintenance_lock.

Begin(c, k, d) ==
  /\ pc[c] = "idle" /\ k # "none"
  /\ kind' = [kind EXCEPT ![c] = k]
  /\ Open(c, "maintenance", d)
  /\ Goto(c, "lockm")
  /\ UNCHANGED <<named, mode, aliased, held, pending, crashes>>

\* StateLock::acquire: the guard owns the lock from here on.
Acquire(c, f, next) ==
  LET d == guard[c][f] IN
  IF Blocked(d, ModeOf(kind[c], f))
  THEN Goto(c, "drop") /\ UNCHANGED <<mode, held>>
  ELSE /\ mode' = [mode EXCEPT ![d] = ModeOf(kind[c], f)]
       /\ held' = [held EXCEPT ![c] = @ \cup {f}]
       /\ Goto(c, next)

LockMaintenance(c) ==
  /\ pc[c] = "lockm"
  /\ Acquire(c, "maintenance", IF kind[c] = "maintenance" THEN "verifym" ELSE "check")
  /\ UNCHANGED <<table, refs, aliased, caller, pending, crashes>>

\* Faulty variant: the marker is not looked at.
NotLookedAt == FALSE
Pending == pending

\* verify_no_pending_maintenance, under the maintenance lock.
Check(c) ==
  /\ pc[c] = "check"
  /\ Goto(c, IF Pending THEN "drop" ELSE IF kind[c] = "instance" THEN "openi" ELSE "verifym")
  /\ UNCHANGED <<table, mode, refs, aliased, caller, held, pending, crashes>>

OpenInstance(c, d) ==
  /\ pc[c] = "openi"
  /\ Open(c, "instance", d)
  /\ Goto(c, "locki")
  /\ UNCHANGED <<named, mode, aliased, kind, held, pending, crashes>>

LockInstance(c) ==
  /\ pc[c] = "locki"
  /\ Acquire(c, "instance", "verifym")
  /\ UNCHANGED <<table, refs, aliased, caller, pending, crashes>>

VerifyMaintenance(c) ==
  /\ pc[c] = "verifym"
  /\ Goto(c, IF ~IsNamed(guard[c]["maintenance"]) THEN "drop"
             ELSE IF kind[c] = "instance" THEN "verifyi" ELSE "held")
  /\ UNCHANGED <<table, mode, refs, aliased, caller, held, pending, crashes>>

VerifyInstance(c) ==
  /\ pc[c] = "verifyi"
  /\ Goto(c, IF IsNamed(guard[c]["instance"]) THEN "held" ELSE "drop")
  /\ UNCHANGED <<table, mode, refs, aliased, caller, held, pending, crashes>>

\* Any other error on the way: the guards acquired so far are dropped.
Fail(c) ==
  /\ pc[c] \in Acquiring
  /\ Goto(c, "drop")
  /\ UNCHANGED <<table, mode, refs, aliased, caller, held, pending, crashes>>

-----------------------------------------------------------------------------
\* InstanceLock and MaintenanceLock: verify_identity, release, Drop.

Opened(c) == {guard[c][f] : f \in LockFiles} \ {None}
Verified(c) == \A d \in Opened(c) : IsNamed(d)

\* release; its identity check fails into the drop of the guard.
Release(c) ==
  /\ pc[c] = "held"
  /\ Goto(c, IF ~Verified(c) THEN "drop"
             ELSE IF kind[c] = "instance" THEN "unlocki" ELSE "unlockm")
  /\ UNCHANGED <<table, mode, refs, aliased, caller, held, pending, crashes>>

\* The guard goes out of scope.
GiveUp(c) ==
  /\ pc[c] = "held"
  /\ Goto(c, "drop")
  /\ UNCHANGED <<table, mode, refs, aliased, caller, held, pending, crashes>>

\* Faulty variant: the guard still believes it holds the lock.
StillHeld(c, f) == held
NoLongerHeld(c, f) == [held EXCEPT ![c] = @ \ {f}]

\* StateLock::unlock.
Unlock(c, f, next) ==
  LET d == guard[c][f] IN
  /\ mode' = [mode EXCEPT ![d] = "none"]
  /\ held' = NoLongerHeld(c, f)
  /\ Goto(c, next)

UnlockInstance(c) ==
  /\ pc[c] = "unlocki"
  /\ Unlock(c, "instance", "unlockm")
  /\ UNCHANGED <<table, refs, aliased, caller, pending, crashes>>

UnlockMaintenance(c) ==
  /\ pc[c] = "unlockm"
  /\ Unlock(c, "maintenance", "drop")
  /\ UNCHANGED <<table, refs, aliased, caller, pending, crashes>>

\* Drop for StateLock: a lock still held is released before the descriptor is
\* closed, so that no alias keeps it.
DropLock(c, f) ==
  LET d == guard[c][f] IN
  IF f \in held[c]
  THEN /\ refs' = [refs EXCEPT ![d] = @ \ {c}]
       /\ mode' = [mode EXCEPT ![d] = "none"]
       /\ aliased' = aliased \ {d}
  ELSE Close(d, {c})

Discard(c, f) ==
  /\ pc[c] = "drop" /\ guard[c][f] # None
  /\ DropLock(c, f)
  /\ guard' = [guard EXCEPT ![c][f] = None]
  /\ held' = [held EXCEPT ![c] = @ \ {f}]
  /\ UNCHANGED <<table, pending, crashes>>

\* Fields are dropped in the order of their declaration, locals in the reverse.
DropOrder == <<"instance", "maintenance">>

DropFirst(c) ==
  /\ Discard(c, DropOrder[1])
  /\ UNCHANGED <<kind, pc>>

DropSecond(c) ==
  /\ guard[c][DropOrder[1]] = None
  /\ Discard(c, DropOrder[2])
  /\ kind' = [kind EXCEPT ![c] = "none"]
  /\ Goto(c, "idle")

-----------------------------------------------------------------------------
\* What goes on around them.

\* A process is forked while the caller's descriptors are open; they are closed
\* when it execs or ends.
Fork(c) ==
  /\ Opened(c) # {} /\ \A d \in Descs : Child \notin refs[d]
  /\ refs' = [d \in Descs |-> IF c \in refs[d] THEN refs[d] \cup {Child} ELSE refs[d]]
  /\ UNCHANGED <<table, mode, aliased, caller, pc, held, pending, crashes>>

Exec ==
  /\ \E d \in Descs : Child \in refs[d]
  /\ CloseAll({Child})
  /\ UNCHANGED <<table, caller, pc, held, pending, crashes>>

\* A child that was handed the description takes the lock for itself.
AliasLocks(d) ==
  /\ Child \in refs[d] /\ mode[d] = "none"
  /\ \A c \in Callers : d \in Opened(c) => pc[c] \in Leaving
  /\ ~Blocked(d, "exclusive")
  /\ mode' = [mode EXCEPT ![d] = "exclusive"]
  /\ aliased' = aliased \cup {d}
  /\ UNCHANGED <<table, refs, caller, pc, held, pending, crashes>>

\* The maintainer's marker, written and removed on verified ownership.
Maintain(c) ==
  /\ pc[c] = "held" /\ kind[c] = "maintenance" /\ Verified(c)
  /\ pending' = ~pending
  /\ UNCHANGED <<table, mode, refs, aliased, caller, pc, held, crashes>>

\* Somebody moves a lock file away; the next to open it creates a new one.
Replace(f) ==
  /\ named[f] < MaxReplaced
  /\ named' = [named EXCEPT ![f] = @ + 1]
  /\ UNCHANGED <<file, inode, mode, refs, aliased, caller, pc, held, pending, crashes>>

\* A caller is killed: its descriptors are closed, its locks stay with a child.
Crash(c) ==
  /\ pc[c] # "idle" /\ crashes < MaxCrashes
  /\ crashes' = crashes + 1
  /\ CloseAll({c})
  /\ guard' = [guard EXCEPT ![c] = [f \in LockFiles |-> None]]
  /\ held' = [held EXCEPT ![c] = {}]
  /\ kind' = [kind EXCEPT ![c] = "none"]
  /\ Goto(c, "idle")
  /\ UNCHANGED <<table, pending>>

-----------------------------------------------------------------------------
Acquisition(c) ==
  \/ \E d \in Descs : OpenInstance(c, d) \/ \E k \in Kinds : Begin(c, k, d)
  \/ LockMaintenance(c) \/ Check(c) \/ LockInstance(c)
  \/ VerifyMaintenance(c) \/ VerifyInstance(c) \/ Fail(c)

Departure(c) ==
  Release(c) \/ GiveUp(c) \/ UnlockInstance(c) \/ UnlockMaintenance(c)
    \/ DropFirst(c) \/ DropSecond(c)

Next ==
  \/ \E c \in Callers : Acquisition(c) \/ Departure(c) \/ Fork(c) \/ Maintain(c) \/ Crash(c)
  \/ Exec \/ \E d \in Descs : AliasLocks(d)
  \/ \E f \in LockFiles : Replace(f)

Spec == Init /\ [][Next]_vars

-----------------------------------------------------------------------------
\* Properties.

\* A guard that says it holds a lock does: its description is open and flocked.
HeldIsLocked ==
  \A c \in Callers : \A f \in held[c] :
    guard[c][f] # None /\ mode[guard[c][f]] = ModeOf(kind[c], f)

TypeOK == Types /\ HeldIsLocked

\* A caller whose guard would pass verify_identity.
Owner(c) == pc[c] = "held" /\ Verified(c)

\* Two verified owners share the state only if neither maintains it and at most
\* one is the runtime, whatever was replaced, forked or killed while they were
\* acquiring their locks (try_instance_lock, try_maintenance_lock).
ExclusiveOwnership ==
  \A c, d \in Callers : c # d /\ Owner(c) /\ Owner(d) =>
    /\ "maintenance" \notin {kind[c], kind[d]}
    /\ "instance" \in {kind[c], kind[d]} => kind[c] # kind[d]

\* While a maintenance operation is unfinished, its maintainer alive or killed,
\* no runtime and no diagnostic owns the state ("a maintainer cannot create its
\* intent between this check and acquisition of the runtime lock").
NoneDuringMaintenance ==
  pending => \A c \in Callers : Owner(c) => kind[c] = "maintenance"

\* No maintainer owns the state while a runtime, be it on its way out, still has
\* the instance lock ("drop the instance ownership before the shared maintenance
\* gate").
NoMaintainerBesideInstance ==
  \A c, d \in Callers : Owner(c) /\ kind[c] = "maintenance" /\ "instance" \in held[d]
                         => ~Verified(d)

\* Maintenance has the state for itself, from the first mark of its operation to
\* the last lock of the runtime it waited for.
MaintenanceIsAlone == NoneDuringMaintenance /\ NoMaintainerBesideInstance

\* No lock is left behind by a guard that has been dropped or released, even
\* while a forked child still has its descriptor; only the child of a caller
\* that was killed keeps one ("even when inherited aliases remain").
NoLockLeftBehind ==
  \A d \in Descs : mode[d] # "none" =>
    \/ \E c \in Callers, f \in LockFiles : guard[c][f] = d /\ f \in held[c]
    \/ d \in aliased
    \/ crashes > 0 /\ refs[d] = {Child}

\* A lock the child took after a handoff outlives the old guard ("Drop must
\* never unlock that newly acquired ownership").
HandoffLasts ==
  [][\A d \in aliased : Child \in refs[d] /\ Child \in refs'[d]
                          => d \in aliased' /\ mode'[d] = mode[d]]_vars

\* A lock goes with its guard, neither later nor earlier.
LocksFollowTheirGuards == []NoLockLeftBehind /\ HandoffLasts
=============================================================================
