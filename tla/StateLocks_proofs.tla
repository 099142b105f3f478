------------------------- MODULE StateLocks_proofs -------------------------
(* Proofs about StateLocks: for any number of callers, descriptions,        *)
(* replacements and crashes, owners exclude each other and no lock is left  *)
(* behind.  Then about StateFiles: for any programs, directories, files and *)
(* exchanges, state belongs to the owner of its directory.                  *)
EXTENDS StateLocks, StateFiles, SequenceTheorems, TLAPS

\* Which descriptions a caller has open, by where it is.
GuardsOf(c) ==
  /\ pc[c] = "idle" <=> guard[c]["maintenance"] = None
  /\ guard[c]["instance"] # None =>
       kind[c] = "instance"
         /\ pc[c] \in {"locki", "verifym", "verifyi", "held", "unlocki", "unlockm", "drop"}
  /\ kind[c] = "instance" /\ pc[c] \in {"verifym", "held"} => guard[c]["instance"] # None
  /\ pc[c] \in {"locki", "verifyi", "unlocki"} => guard[c]["instance"] # None
  /\ pc[c] = "openi" => kind[c] = "instance"
  /\ pc[c] # "idle" => kind[c] # "none"

\* Which locks it holds.
HeldOf(c) ==
  /\ pc[c] \in {"idle", "lockm"} => held[c] = {}
  /\ pc[c] \notin {"idle", "lockm", "drop"} => "maintenance" \in held[c]
  /\ kind[c] = "instance" /\ pc[c] \in {"verifym", "held"} => "instance" \in held[c]
  /\ pc[c] \in {"verifyi", "unlocki"} => "instance" \in held[c]
  /\ "instance" \in held[c] => "maintenance" \in held[c]
  /\ pc[c] \in {"check", "openi", "locki", "unlockm"} => "instance" \notin held[c]

Control == \A c \in Callers : GuardsOf(c) /\ HeldOf(c)

\* A description is open in one caller at most, as the file its guard is for.
Own ==
  \A c \in Callers, f \in LockFiles : guard[c][f] # None =>
    c \in refs[guard[c][f]] /\ file[guard[c][f]] = f

OnlyOne ==
  \A d \in Descs, c \in Callers : c \in refs[d] =>
    /\ \E f \in LockFiles : guard[c][f] = d
    /\ refs[d] \subseteq {c, Child}

\* What flock guarantees.
LockTable ==
  \A d, e \in Descs :
    d # e /\ file[d] = file[e] /\ inode[d] = inode[e] /\ mode[d] = "exclusive"
      => mode[e] = "none"

\* A closed description has no lock.
FreeDescs == \A d \in Descs : refs[d] = {} => mode[d] = "none" /\ d \notin aliased

\* A name leads to an inode that is new whenever it is replaced.
Inodes == \A d \in Descs : inode[d] <= named[file[d]]

\* The child's lock is none that a guard believes to hold or has yet to take.
AliasApart ==
  \A d \in aliased, c \in Callers, f \in LockFiles :
    guard[c][f] = d => pc[c] \in Leaving /\ f \notin held[c]

\* Whoever went past the marker keeps maintenance out while its maintenance
\* description is the named one.
PastTheMarker(c) ==
  /\ kind[c] \in {"instance", "shared"}
  /\ pc[c] \in {"openi", "locki", "verifym", "verifyi", "held"}

NotPending ==
  \A c \in Callers : PastTheMarker(c) /\ IsNamed(guard[c]["maintenance"]) => ~pending

Table == Own /\ OnlyOne /\ LockTable /\ FreeDescs /\ Inodes /\ AliasApart

IInv == Types /\ HeldIsLocked /\ Control /\ Table /\ NotPending /\ NoLockLeftBehind

-----------------------------------------------------------------------------
\* What an open description tells.

LEMMA OpenLemma ==
  ASSUME Types, Table, NEW c \in Callers, NEW f \in LockFiles, guard[c][f] # None
  PROVE  /\ guard[c][f] \in Descs
         /\ c \in refs[guard[c][f]] /\ refs[guard[c][f]] \subseteq {c, Child}
         /\ file[guard[c][f]] = f
  BY DEF Types, Table, Own, OnlyOne

LEMMA Distinct ==
  ASSUME Types, Table, NEW c \in Callers, NEW e \in Callers,
         NEW f \in LockFiles, NEW g \in LockFiles,
         guard[c][f] # None, guard[c][f] = guard[e][g]
  PROVE  c = e /\ f = g
  <1>1. c \in refs[guard[c][f]] /\ refs[guard[c][f]] \subseteq {c, Child} /\ file[guard[c][f]] = f
    BY OpenLemma
  <1>2. e \in refs[guard[e][g]] /\ file[guard[e][g]] = g
    BY OpenLemma
  <1> QED BY <1>1, <1>2, StateLocksAssumption

\* A caller's place and locks concern nobody else.
LEMMA ControlFrame ==
  ASSUME Control, NEW c \in Callers, GuardsOf(c)', HeldOf(c)',
         \A e \in Callers \ {c} :
           /\ pc'[e] = pc[e] /\ kind'[e] = kind[e]
           /\ guard'[e] = guard[e] /\ held'[e] = held[e]
  PROVE  Control'
  <1> SUFFICES ASSUME NEW e \in Callers PROVE GuardsOf(e)' /\ HeldOf(e)'
    BY DEF Control
  <1>1. CASE e = c
    BY <1>1
  <1>2. CASE e # c
    BY <1>2 DEF Control, GuardsOf, HeldOf
  <1> QED BY <1>1, <1>2

LEMMA InitIInv == Init => IInv
  <1> SUFFICES ASSUME Init PROVE IInv
    OBVIOUS
  <1>1. Types
    <2>1. /\ named \in [LockFiles -> 0..MaxReplaced]
          /\ inode \in [Descs -> 0..MaxReplaced]
          /\ crashes \in 0..MaxCrashes
      BY StateLocksAssumption DEF Init
    <2>2. /\ file \in [Descs -> LockFiles]
          /\ mode \in [Descs -> {"none", "shared", "exclusive"}]
          /\ refs \in [Descs -> SUBSET (Callers \cup {Child})]
          /\ aliased \subseteq Descs
      BY DEF Init, LockFiles
    <2>3. /\ kind \in [Callers -> Kinds]
          /\ pc \in [Callers -> {"idle", "held"} \cup Acquiring \cup Leaving]
          /\ guard \in [Callers -> [LockFiles -> Descs \cup {None}]]
          /\ held \in [Callers -> SUBSET LockFiles]
          /\ pending \in BOOLEAN
      BY DEF Init, Kinds
    <2> QED BY <2>1, <2>2, <2>3 DEF Types
  <1>2. HeldIsLocked /\ NoLockLeftBehind /\ NotPending
    BY DEF Init, HeldIsLocked, NoLockLeftBehind, NotPending, PastTheMarker
  <1>3. Control
    BY DEF Init, Control, GuardsOf, HeldOf, LockFiles
  <1>4. Table
    BY StateLocksAssumption
       DEF Init, Table, Own, OnlyOne, LockTable, FreeDescs, Inodes, AliasApart, LockFiles
  <1> QED BY <1>1, <1>2, <1>3, <1>4 DEF IInv

-----------------------------------------------------------------------------
\* Steps of a caller that change nothing but its place.

LEMMA PcStep ==
  ASSUME IInv, NEW c \in Callers,
         NEW w \in {"held"} \cup Acquiring \cup Leaving,
         pc' = [pc EXCEPT ![c] = w], pc[c] \in {"held"} \cup Acquiring,
         UNCHANGED <<table, mode, refs, aliased, caller, held, pending, crashes>>,
         GuardsOf(c)', HeldOf(c)',
         PastTheMarker(c)' => PastTheMarker(c) \/ ~pending
  PROVE  IInv'
  <1>0. Types /\ HeldIsLocked /\ Control /\ Table /\ NotPending /\ NoLockLeftBehind
    BY DEF IInv
  <1>1. /\ UNCHANGED <<named, file, inode, mode, refs, aliased, kind, guard, held, pending, crashes>>
        /\ pc'[c] = w /\ \A e \in Callers : e # c => pc'[e] = pc[e]
    BY <1>0 DEF Types, table, caller
  <1>2. Types'
    <2>1. pc' \in [Callers -> {"idle", "held"} \cup Acquiring \cup Leaving]
      BY <1>0 DEF Types
    <2> QED BY <1>0, <1>1, <2>1 DEF Types
  <1>3. HeldIsLocked' /\ NoLockLeftBehind'
    BY <1>0, <1>1 DEF HeldIsLocked, NoLockLeftBehind, ModeOf
  <1>4. Control'
    BY <1>0, <1>1, ControlFrame
  <1>5. Table'
    <2>1. Own' /\ OnlyOne' /\ LockTable' /\ FreeDescs' /\ Inodes'
      BY <1>0, <1>1 DEF Table, Own, OnlyOne, LockTable, FreeDescs, Inodes
    <2>2. pc[c] \notin Leaving
      BY DEF Acquiring, Leaving
    <2>3. AliasApart'
      BY <1>0, <1>1, <2>2 DEF Table, AliasApart
    <2> QED BY <2>1, <2>3 DEF Table
  <1>6. NotPending'
    BY <1>0, <1>1 DEF NotPending, PastTheMarker, IsNamed
  <1> QED BY <1>2, <1>3, <1>4, <1>5, <1>6 DEF IInv

LEMMA MoveIInv ==
  ASSUME IInv, NEW c \in Callers,
         Check(c) \/ VerifyMaintenance(c) \/ VerifyInstance(c) \/ Fail(c) \/ Release(c) \/ GiveUp(c)
  PROVE  IInv'
  <1>0. Types /\ GuardsOf(c) /\ HeldOf(c)
    BY DEF IInv, Control
  <1>1. UNCHANGED <<table, mode, refs, aliased, caller, held, pending, crashes>>
    BY DEF Check, VerifyMaintenance, VerifyInstance, Fail, Release, GiveUp
  <1>2. \A w : pc' = [pc EXCEPT ![c] = w] => pc'[c] = w
    BY <1>0 DEF Types
  <1>3. CASE Check(c)
    <2>1. PICK w : w = IF pending THEN "drop" ELSE IF kind[c] = "instance" THEN "openi" ELSE "verifym"
      OBVIOUS
    <2>2. pc' = [pc EXCEPT ![c] = w] /\ pc[c] = "check"
      BY <1>3, <2>1 DEF Check, Pending, Goto
    <2>3. w \in {"held"} \cup Acquiring \cup Leaving /\ pc[c] \in {"held"} \cup Acquiring
      BY <2>1, <2>2 DEF Acquiring, Leaving
    <2>4. GuardsOf(c)' /\ HeldOf(c)'
      BY <1>0, <1>1, <1>2, <2>1, <2>2 DEF GuardsOf, HeldOf, caller
    <2>5. PastTheMarker(c)' => ~pending
      BY <1>2, <2>1, <2>2 DEF PastTheMarker
    <2> QED BY <1>1, <2>2, <2>3, <2>4, <2>5, PcStep
  <1>4. CASE VerifyMaintenance(c)
    <2>1. PICK w : w = IF ~IsNamed(guard[c]["maintenance"]) THEN "drop"
                       ELSE IF kind[c] = "instance" THEN "verifyi" ELSE "held"
      OBVIOUS
    <2>2. pc' = [pc EXCEPT ![c] = w] /\ pc[c] = "verifym"
      BY <1>4, <2>1 DEF VerifyMaintenance, Goto
    <2>3. w \in {"held"} \cup Acquiring \cup Leaving /\ pc[c] \in {"held"} \cup Acquiring
      BY <2>1, <2>2 DEF Acquiring, Leaving
    <2>4. GuardsOf(c)' /\ HeldOf(c)'
      BY <1>0, <1>1, <1>2, <2>1, <2>2 DEF GuardsOf, HeldOf, caller
    <2>5. PastTheMarker(c)' => PastTheMarker(c)
      BY <1>1, <2>2 DEF PastTheMarker, caller
    <2> QED BY <1>1, <2>2, <2>3, <2>4, <2>5, PcStep
  <1>5. CASE VerifyInstance(c)
    <2>1. PICK w : w = IF IsNamed(guard[c]["instance"]) THEN "held" ELSE "drop"
      OBVIOUS
    <2>2. pc' = [pc EXCEPT ![c] = w] /\ pc[c] = "verifyi"
      BY <1>5, <2>1 DEF VerifyInstance, Goto
    <2>3. w \in {"held"} \cup Acquiring \cup Leaving /\ pc[c] \in {"held"} \cup Acquiring
      BY <2>1, <2>2 DEF Acquiring, Leaving
    <2>4. GuardsOf(c)' /\ HeldOf(c)'
      BY <1>0, <1>1, <1>2, <2>1, <2>2 DEF GuardsOf, HeldOf, caller
    <2>5. PastTheMarker(c)' => PastTheMarker(c)
      BY <1>1, <2>2 DEF PastTheMarker, caller
    <2> QED BY <1>1, <2>2, <2>3, <2>4, <2>5, PcStep
  <1>6. CASE Fail(c) \/ GiveUp(c)
    <2>1. pc' = [pc EXCEPT ![c] = "drop"] /\ pc[c] \in {"held"} \cup Acquiring
      BY <1>6 DEF Fail, GiveUp, Goto
    <2>2. pc[c] # "idle" /\ "drop" \in {"held"} \cup Acquiring \cup Leaving
      BY <2>1 DEF Acquiring, Leaving
    <2>3. GuardsOf(c)' /\ HeldOf(c)'
      BY <1>0, <1>1, <1>2, <2>1, <2>2 DEF GuardsOf, HeldOf, caller
    <2>4. ~PastTheMarker(c)'
      BY <1>2, <2>1 DEF PastTheMarker
    <2> QED BY <1>1, <2>1, <2>2, <2>3, <2>4, PcStep
  <1>7. CASE Release(c)
    <2>1. PICK w : w = IF ~Verified(c) THEN "drop"
                       ELSE IF kind[c] = "instance" THEN "unlocki" ELSE "unlockm"
      OBVIOUS
    <2>2. pc' = [pc EXCEPT ![c] = w] /\ pc[c] = "held"
      BY <1>7, <2>1 DEF Release, Goto
    <2>3. w \in {"held"} \cup Acquiring \cup Leaving /\ pc[c] \in {"held"} \cup Acquiring
      BY <2>1, <2>2 DEF Acquiring, Leaving
    <2>4. GuardsOf(c)'
      BY <1>0, <1>1, <1>2, <2>1, <2>2 DEF GuardsOf, caller
    <2>5. kind[c] # "instance" => "instance" \notin held[c]
      BY <1>0 DEF IInv, HeldIsLocked, GuardsOf, LockFiles
    <2>6. HeldOf(c)'
      BY <1>0, <1>1, <1>2, <2>1, <2>2, <2>5 DEF HeldOf, caller
    <2>7. ~PastTheMarker(c)'
      BY <1>2, <2>1, <2>2 DEF PastTheMarker
    <2> QED BY <1>1, <2>2, <2>3, <2>4, <2>6, <2>7, PcStep
  <1> QED BY <1>3, <1>4, <1>5, <1>6, <1>7

-----------------------------------------------------------------------------
\* flock and its end.

\* Taking a lock nobody blocks.
LEMMA TakeIInv ==
  ASSUME IInv, NEW c \in Callers, NEW f \in LockFiles, NEW w \in Acquiring,
         pc[c] \in {"lockm", "locki"}, guard[c][f] # None,
         ~Blocked(guard[c][f], ModeOf(kind[c], f)),
         mode' = [mode EXCEPT ![guard[c][f]] = ModeOf(kind[c], f)],
         held' = [held EXCEPT ![c] = @ \cup {f}],
         pc' = [pc EXCEPT ![c] = w],
         UNCHANGED <<table, refs, aliased, caller, pending, crashes>>,
         GuardsOf(c)', HeldOf(c)',
         PastTheMarker(c)' => PastTheMarker(c)
  PROVE  IInv'
  <1>0. Types /\ HeldIsLocked /\ Control /\ Table /\ NotPending /\ NoLockLeftBehind
    BY DEF IInv
  <1> DEFINE d == guard[c][f]
             m == ModeOf(kind[c], f)
  <1>1. d \in Descs /\ c \in refs[d] /\ m \in {"shared", "exclusive"}
    BY <1>0, OpenLemma DEF ModeOf
  <1>2. /\ UNCHANGED <<named, file, inode, refs, aliased, kind, guard, pending, crashes>>
        /\ pc'[c] = w /\ \A e \in Callers : e # c => pc'[e] = pc[e]
        /\ held'[c] = held[c] \cup {f} /\ \A e \in Callers : e # c => held'[e] = held[e]
        /\ mode'[d] = m /\ \A x \in Descs : x # d => mode'[x] = mode[x]
    BY <1>0, <1>1 DEF Types, table, caller
  <1>3. \A e \in Callers, g \in LockFiles : guard[e][g] = d => e = c /\ g = f
    BY <1>0, Distinct
  <1>4. Types'
    <2>1. pc' \in [Callers -> {"idle", "held"} \cup Acquiring \cup Leaving]
      BY <1>0 DEF Types
    <2>2. held' \in [Callers -> SUBSET LockFiles]
      BY <1>0 DEF Types
    <2>3. mode' \in [Descs -> {"none", "shared", "exclusive"}]
      BY <1>0, <1>1 DEF Types
    <2> QED BY <1>0, <1>2, <2>1, <2>2, <2>3 DEF Types
  <1>5. HeldIsLocked'
    <2> SUFFICES ASSUME NEW e \in Callers, NEW g \in held'[e]
                 PROVE  guard[e][g] # None /\ mode'[guard[e][g]] = ModeOf(kind[e], g)
      BY <1>2 DEF HeldIsLocked, ModeOf
    <2>1. CASE e = c /\ g = f
      BY <1>2, <2>1
    <2>2. CASE ~(e = c /\ g = f)
      <3>1. g \in held[e] /\ g \in LockFiles
        BY <1>0, <1>2, <2>2 DEF Types
      <3>2. guard[e][g] # None /\ mode[guard[e][g]] = ModeOf(kind[e], g)
        BY <1>0, <3>1 DEF HeldIsLocked
      <3>3. guard[e][g] \in Descs /\ guard[e][g] # d
        BY <1>0, <1>3, <2>2, <3>1, <3>2 DEF Types
      <3> QED BY <1>2, <3>2, <3>3
    <2> QED BY <2>1, <2>2
  <1>6. Control'
    BY <1>0, <1>2, ControlFrame
  <1>7. LockTable'
    <2> SUFFICES ASSUME NEW x \in Descs, NEW y \in Descs, x # y,
                        file[x] = file[y], inode[x] = inode[y], mode'[x] = "exclusive"
                 PROVE  mode'[y] = "none"
      BY <1>2 DEF LockTable
    <2>1. CASE x = d
      <3>1. m = "exclusive" /\ mode'[y] = mode[y]
        BY <1>2, <2>1
      <3> QED BY <2>1, <3>1 DEF Blocked
    <2>2. CASE y = d
      <3>1. mode[x] = "exclusive"
        BY <1>2, <2>2
      <3> QED BY <2>2, <3>1 DEF Blocked
    <2>3. CASE x # d /\ y # d
      BY <1>0, <1>2, <2>3 DEF Table, LockTable
    <2> QED BY <2>1, <2>2, <2>3
  <1>8. Own' /\ OnlyOne' /\ FreeDescs' /\ Inodes'
    BY <1>0, <1>1, <1>2 DEF Table, Own, OnlyOne, FreeDescs, Inodes
  <1>9. AliasApart'
    <2>1. d \notin aliased
      BY <1>0 DEF Table, AliasApart, Leaving
    <2> SUFFICES ASSUME NEW x \in aliased, NEW e \in Callers, NEW g \in LockFiles,
                        guard[e][g] = x
                 PROVE  pc'[e] \in Leaving /\ g \notin held'[e]
      BY <1>2 DEF AliasApart
    <2>2. pc[e] \in Leaving /\ g \notin held[e]
      BY <1>0 DEF Table, AliasApart
    <2>3. e # c
      BY <2>2 DEF Leaving
    <2> QED BY <1>2, <2>2, <2>3
  <1>10. NotPending'
    BY <1>0, <1>2 DEF NotPending, PastTheMarker, IsNamed
  <1>11. NoLockLeftBehind'
    <2> SUFFICES ASSUME NEW x \in Descs, mode'[x] # "none"
                 PROVE  \/ \E e \in Callers, g \in LockFiles : guard[e][g] = x /\ g \in held'[e]
                        \/ x \in aliased
                        \/ crashes > 0 /\ refs[x] = {Child}
      BY <1>2 DEF NoLockLeftBehind
    <2>1. CASE x = d
      BY <1>2, <2>1
    <2>2. CASE x # d
      <3>1. mode[x] # "none"
        BY <1>2, <2>2
      <3>2. \A e \in Callers : held[e] \subseteq held'[e]
        BY <1>2
      <3> QED BY <1>0, <3>1, <3>2 DEF NoLockLeftBehind
    <2> QED BY <2>1, <2>2
  <1> QED BY <1>4, <1>5, <1>6, <1>7, <1>8, <1>9, <1>10, <1>11 DEF IInv, Table

LEMMA LockIInv ==
  ASSUME IInv, NEW c \in Callers, LockMaintenance(c) \/ LockInstance(c)
  PROVE  IInv'
  <1>0. Types /\ GuardsOf(c) /\ HeldOf(c)
    BY DEF IInv, Control
  <1>1. UNCHANGED <<table, refs, aliased, caller, pending, crashes>>
    BY DEF LockMaintenance, LockInstance
  <1>2. \A w : pc' = [pc EXCEPT ![c] = w] => pc'[c] = w
    BY <1>0 DEF Types
  <1>3. CASE pc' = [pc EXCEPT ![c] = "drop"] /\ UNCHANGED <<mode, held>>
             /\ pc[c] \in {"lockm", "locki"}
    <2>1. "drop" \in {"held"} \cup Acquiring \cup Leaving /\ pc[c] \in {"held"} \cup Acquiring
      BY <1>3 DEF Acquiring, Leaving
    <2>2. GuardsOf(c)' /\ HeldOf(c)'
      BY <1>0, <1>1, <1>2, <1>3 DEF GuardsOf, HeldOf, caller
    <2>3. ~PastTheMarker(c)'
      BY <1>2, <1>3 DEF PastTheMarker
    <2> QED BY <1>1, <1>3, <2>1, <2>2, <2>3, PcStep
  <1>4. ASSUME NEW f \in LockFiles, NEW w \in Acquiring, w # "drop",
               pc[c] \in {"lockm", "locki"},
               Acquire(c, f, w)
        PROVE  \/ pc' = [pc EXCEPT ![c] = "drop"] /\ UNCHANGED <<mode, held>>
               \/ /\ ~Blocked(guard[c][f], ModeOf(kind[c], f))
                  /\ mode' = [mode EXCEPT ![guard[c][f]] = ModeOf(kind[c], f)]
                  /\ held' = [held EXCEPT ![c] = @ \cup {f}]
                  /\ pc' = [pc EXCEPT ![c] = w]
    BY <1>4 DEF Acquire, Goto
  <1>5. \A f : held' = [held EXCEPT ![c] = @ \cup {f}] => held'[c] = held[c] \cup {f}
    BY <1>0 DEF Types
  <1>6. CASE LockMaintenance(c)
    <2>1. PICK w : w = IF kind[c] = "maintenance" THEN "verifym" ELSE "check"
      OBVIOUS
    <2>2. pc[c] = "lockm" /\ Acquire(c, "maintenance", w) /\ w \in Acquiring /\ w # "drop"
      BY <1>6, <2>1 DEF LockMaintenance, Acquiring
    <2>3. CASE pc' = [pc EXCEPT ![c] = "drop"] /\ UNCHANGED <<mode, held>>
      BY <1>3, <2>2, <2>3
    <2>4. CASE /\ ~Blocked(guard[c]["maintenance"], ModeOf(kind[c], "maintenance"))
               /\ mode' = [mode EXCEPT ![guard[c]["maintenance"]] = ModeOf(kind[c], "maintenance")]
               /\ held' = [held EXCEPT ![c] = @ \cup {"maintenance"}]
               /\ pc' = [pc EXCEPT ![c] = w]
      <3>1. guard[c]["maintenance"] # None /\ "maintenance" \in LockFiles
        BY <1>0, <2>2 DEF GuardsOf, LockFiles
      <3>2. held'[c] = {"maintenance"} /\ pc'[c] = w /\ kind' = kind /\ guard' = guard
        BY <1>0, <1>1, <1>2, <1>5, <2>2, <2>4 DEF HeldOf, caller
      <3>3. GuardsOf(c)'
        BY <1>0, <2>1, <2>2, <3>2 DEF GuardsOf
      <3>4. HeldOf(c)'
        BY <1>0, <2>1, <2>2, <3>2 DEF HeldOf
      <3>5. ~PastTheMarker(c)'
        BY <2>1, <3>2 DEF PastTheMarker
      <3> QED BY <1>1, <2>2, <2>4, <3>1, <3>3, <3>4, <3>5, TakeIInv
    <2> QED BY <1>4, <2>2, <2>3, <2>4 DEF LockFiles
  <1>7. CASE LockInstance(c)
    <2>2. pc[c] = "locki" /\ Acquire(c, "instance", "verifym") /\ "verifym" \in Acquiring
      BY <1>7 DEF LockInstance, Acquiring
    <2>3. CASE pc' = [pc EXCEPT ![c] = "drop"] /\ UNCHANGED <<mode, held>>
      BY <1>3, <2>2, <2>3
    <2>4. CASE /\ ~Blocked(guard[c]["instance"], ModeOf(kind[c], "instance"))
               /\ mode' = [mode EXCEPT ![guard[c]["instance"]] = ModeOf(kind[c], "instance")]
               /\ held' = [held EXCEPT ![c] = @ \cup {"instance"}]
               /\ pc' = [pc EXCEPT ![c] = "verifym"]
      <3>1. guard[c]["instance"] # None /\ "instance" \in LockFiles
        BY <1>0, <2>2 DEF GuardsOf, LockFiles
      <3>2. /\ held'[c] = held[c] \cup {"instance"} /\ pc'[c] = "verifym"
            /\ kind' = kind /\ guard' = guard
        BY <1>1, <1>2, <1>5, <2>4 DEF caller
      <3>3. GuardsOf(c)'
        BY <1>0, <2>2, <3>2 DEF GuardsOf
      <3>4. HeldOf(c)'
        BY <1>0, <2>2, <3>2 DEF HeldOf
      <3>5. PastTheMarker(c)' => PastTheMarker(c)
        BY <2>2, <3>2 DEF PastTheMarker
      <3> QED BY <1>1, <2>2, <2>4, <3>1, <3>3, <3>4, <3>5, TakeIInv
    <2> QED BY <1>4, <2>2, <2>3, <2>4 DEF LockFiles
  <1> QED BY <1>6, <1>7

LEMMA UnlockIInv ==
  ASSUME IInv, NEW c \in Callers, UnlockInstance(c) \/ UnlockMaintenance(c)
  PROVE  IInv'
  <1>0. Types /\ HeldIsLocked /\ Control /\ Table /\ NotPending /\ NoLockLeftBehind
        /\ GuardsOf(c) /\ HeldOf(c)
    BY DEF IInv, Control
  <1>1. PICK f \in LockFiles, w \in Leaving :
          /\ \/ f = "instance" /\ pc[c] = "unlocki" /\ w = "unlockm"
             \/ f = "maintenance" /\ pc[c] = "unlockm" /\ w = "drop"
          /\ Unlock(c, f, w)
    BY DEF UnlockInstance, UnlockMaintenance, LockFiles, Leaving
  <1> DEFINE d == guard[c][f]
  <1>2. f \in held[c] /\ d # None /\ d \in Descs /\ c \in refs[d]
    <2>1. f \in held[c]
      BY <1>0, <1>1 DEF HeldOf
    <2>2. d # None
      BY <1>0, <2>1 DEF HeldIsLocked
    <2> QED BY <1>0, <2>1, <2>2, OpenLemma
  <1>3. /\ UNCHANGED <<named, file, inode, refs, aliased, kind, guard, pending, crashes>>
        /\ pc'[c] = w /\ \A e \in Callers : e # c => pc'[e] = pc[e]
        /\ held'[c] = held[c] \ {f} /\ \A e \in Callers : e # c => held'[e] = held[e]
        /\ mode'[d] = "none" /\ \A x \in Descs : x # d => mode'[x] = mode[x]
    BY <1>0, <1>1, <1>2
       DEF Types, UnlockInstance, UnlockMaintenance, Unlock, NoLongerHeld, Goto, table, caller
  <1>4. \A e \in Callers, g \in LockFiles : guard[e][g] = d => e = c /\ g = f
    BY <1>0, <1>2, Distinct
  <1>5. Types'
    <2>1. pc' \in [Callers -> {"idle", "held"} \cup Acquiring \cup Leaving]
      BY <1>0, <1>1 DEF Types, Unlock, Goto
    <2>2. held' \in [Callers -> SUBSET LockFiles]
      BY <1>0, <1>1 DEF Types, Unlock, NoLongerHeld
    <2>3. mode' \in [Descs -> {"none", "shared", "exclusive"}]
      BY <1>0, <1>1 DEF Types, Unlock
    <2> QED BY <1>0, <1>3, <2>1, <2>2, <2>3 DEF Types
  <1>6. HeldIsLocked'
    <2> SUFFICES ASSUME NEW e \in Callers, NEW g \in held'[e]
                 PROVE  guard[e][g] # None /\ mode'[guard[e][g]] = ModeOf(kind[e], g)
      BY <1>3 DEF HeldIsLocked, ModeOf
    <2>1. g \in held[e] /\ g \in LockFiles /\ ~(e = c /\ g = f)
      BY <1>0, <1>3 DEF Types
    <2>2. guard[e][g] # None /\ mode[guard[e][g]] = ModeOf(kind[e], g)
      BY <1>0, <2>1 DEF HeldIsLocked
    <2>3. guard[e][g] \in Descs /\ guard[e][g] # d
      BY <1>0, <1>4, <2>1, <2>2 DEF Types
    <2> QED BY <1>3, <2>2, <2>3
  <1>7. Control'
    <2>1. GuardsOf(c)'
      BY <1>0, <1>1, <1>3 DEF GuardsOf
    <2>2. HeldOf(c)'
      BY <1>0, <1>1, <1>3 DEF HeldOf
    <2> QED BY <1>0, <1>3, <2>1, <2>2, ControlFrame
  <1>8. Own' /\ OnlyOne' /\ FreeDescs' /\ Inodes'
    BY <1>0, <1>2, <1>3 DEF Table, Own, OnlyOne, FreeDescs, Inodes
  <1>9. LockTable'
    BY <1>0, <1>3 DEF Table, LockTable
  <1>10. AliasApart'
    BY <1>0, <1>1, <1>3 DEF Table, AliasApart
  <1>11. NotPending'
    BY <1>0, <1>1, <1>3 DEF NotPending, PastTheMarker, IsNamed
  <1>12. NoLockLeftBehind'
    <2> SUFFICES ASSUME NEW x \in Descs, mode'[x] # "none"
                 PROVE  \/ \E e \in Callers, g \in LockFiles : guard[e][g] = x /\ g \in held'[e]
                        \/ x \in aliased
                        \/ crashes > 0 /\ refs[x] = {Child}
      BY <1>3 DEF NoLockLeftBehind
    <2>1. x # d /\ mode[x] # "none"
      BY <1>3
    <2>2. ASSUME NEW e \in Callers, NEW g \in LockFiles, guard[e][g] = x, g \in held[e]
          PROVE  g \in held'[e]
      BY <1>3, <2>1, <2>2
    <2> QED BY <1>0, <2>1, <2>2 DEF NoLockLeftBehind
  <1> QED BY <1>5, <1>6, <1>7, <1>8, <1>9, <1>10, <1>11, <1>12 DEF IInv, Table

-----------------------------------------------------------------------------
\* Descriptions opened and closed.

LEMMA OpenIInv ==
  ASSUME IInv, NEW c \in Callers, NEW d \in Descs, NEW f \in LockFiles,
         NEW k \in Kinds \ {"none"}, NEW w \in {"lockm", "locki"},
         Open(c, f, d), guard[c][f] = None,
         pc' = [pc EXCEPT ![c] = w], kind' = [kind EXCEPT ![c] = k],
         UNCHANGED <<named, mode, aliased, held, pending, crashes>>,
         \/ pc[c] = "idle" /\ f = "maintenance" /\ w = "lockm"
         \/ pc[c] = "openi" /\ f = "instance" /\ w = "locki" /\ k = kind[c]
  PROVE  IInv'
  <1>0. Types /\ HeldIsLocked /\ Control /\ Table /\ NotPending /\ NoLockLeftBehind
        /\ GuardsOf(c) /\ HeldOf(c)
    BY DEF IInv, Control
  <1>1. /\ refs[d] = {} /\ mode[d] = "none" /\ d \notin aliased
        /\ refs' = [refs EXCEPT ![d] = {c}]
        /\ file' = [file EXCEPT ![d] = f]
        /\ inode' = [inode EXCEPT ![d] = named[f]]
        /\ guard' = [guard EXCEPT ![c][f] = d]
    BY <1>0 DEF Open, Table, FreeDescs
  <1>2. /\ pc'[c] = w /\ \A e \in Callers : e # c => pc'[e] = pc[e]
        /\ kind'[c] = k /\ \A e \in Callers : e # c => kind'[e] = kind[e]
        /\ guard'[c][f] = d
        /\ \A g \in LockFiles : g # f => guard'[c][g] = guard[c][g]
        /\ \A e \in Callers : e # c => guard'[e] = guard[e]
        /\ refs'[d] = {c} /\ \A x \in Descs : x # d => refs'[x] = refs[x]
        /\ file'[d] = f /\ \A x \in Descs : x # d => file'[x] = file[x]
        /\ inode'[d] = named[f] /\ \A x \in Descs : x # d => inode'[x] = inode[x]
    BY <1>0, <1>1 DEF Types
  <1>3. \A e \in Callers, g \in LockFiles : guard[e][g] # None =>
          guard[e][g] # d /\ guard[e][g] \in Descs /\ guard'[e][g] = guard[e][g]
    <2> SUFFICES ASSUME NEW e \in Callers, NEW g \in LockFiles, guard[e][g] # None
                 PROVE  guard[e][g] # d /\ guard[e][g] \in Descs /\ guard'[e][g] = guard[e][g]
      OBVIOUS
    <2>1. guard[e][g] \in Descs /\ e \in refs[guard[e][g]]
      BY <1>0, OpenLemma
    <2>2. ~(e = c /\ g = f)
      OBVIOUS
    <2> QED BY <1>1, <1>2, <2>1, <2>2
  <1>4. Types'
    <2>1. /\ pc' \in [Callers -> {"idle", "held"} \cup Acquiring \cup Leaving]
          /\ kind' \in [Callers -> Kinds]
      BY <1>0 DEF Types, Acquiring
    <2>2. guard' \in [Callers -> [LockFiles -> Descs \cup {None}]]
      BY <1>0, <1>1 DEF Types
    <2>3. /\ refs' \in [Descs -> SUBSET (Callers \cup {Child})]
          /\ file' \in [Descs -> LockFiles]
      BY <1>0, <1>1 DEF Types
    <2>4. inode' \in [Descs -> 0..MaxReplaced]
      BY <1>0, <1>1 DEF Types
    <2> QED BY <1>0, <2>1, <2>2, <2>3, <2>4 DEF Types
  <1>5. HeldIsLocked'
    <2> SUFFICES ASSUME NEW e \in Callers, NEW g \in held[e]
                 PROVE  guard'[e][g] # None /\ mode[guard'[e][g]] = ModeOf(kind'[e], g)
      BY DEF HeldIsLocked, ModeOf
    <2>1. g \in LockFiles
      BY <1>0 DEF Types
    <2>2. guard[e][g] # None /\ mode[guard[e][g]] = ModeOf(kind[e], g)
      BY <1>0 DEF HeldIsLocked
    <2>3. kind'[e] = kind[e]
      BY <1>0, <1>2 DEF HeldOf
    <2> QED BY <1>3, <2>1, <2>2, <2>3
  <1>6. Control'
    <2>1. GuardsOf(c)'
      BY <1>0, <1>1, <1>2, StateLocksAssumption DEF GuardsOf, LockFiles
    <2>2. HeldOf(c)'
      BY <1>0, <1>2 DEF HeldOf
    <2> QED BY <1>0, <1>2, <2>1, <2>2, ControlFrame
  <1>7. Own'
    <2> SUFFICES ASSUME NEW e \in Callers, NEW g \in LockFiles, guard'[e][g] # None
                 PROVE  e \in refs'[guard'[e][g]] /\ file'[guard'[e][g]] = g
      BY DEF Own
    <2>1. CASE e = c /\ g = f
      BY <1>2, <2>1
    <2>2. CASE ~(e = c /\ g = f)
      <3>1. guard'[e][g] = guard[e][g]
        BY <1>2, <2>2
      <3>2. e \in refs[guard[e][g]] /\ file[guard[e][g]] = g
        BY <1>0, <3>1 DEF Table, Own
      <3> QED BY <1>2, <1>3, <3>1, <3>2
    <2> QED BY <2>1, <2>2
  <1>8. OnlyOne'
    <2> SUFFICES ASSUME NEW x \in Descs, NEW e \in Callers, e \in refs'[x]
                 PROVE  /\ \E g \in LockFiles : guard'[e][g] = x
                        /\ refs'[x] \subseteq {e, Child}
      BY DEF OnlyOne
    <2>1. CASE x = d
      BY <1>2, <2>1
    <2>2. CASE x # d
      <3>1. e \in refs[x] /\ refs'[x] = refs[x]
        BY <1>2, <2>2
      <3>2. PICK g \in LockFiles : guard[e][g] = x
        BY <1>0, <3>1 DEF Table, OnlyOne
      <3>3. refs[x] \subseteq {e, Child}
        BY <1>0, <3>1 DEF Table, OnlyOne
      <3>4. guard'[e][g] = x
        BY <1>3, <3>2, StateLocksAssumption
      <3> QED BY <3>1, <3>3, <3>4
    <2> QED BY <2>1, <2>2
  <1>9. LockTable'
    <2> SUFFICES ASSUME NEW x \in Descs, NEW y \in Descs, x # y,
                        file'[x] = file'[y], inode'[x] = inode'[y], mode[x] = "exclusive"
                 PROVE  mode[y] = "none"
      BY DEF LockTable
    <2>1. x # d
      BY <1>1
    <2>2. CASE y = d
      BY <1>1, <2>2
    <2>3. CASE y # d
      BY <1>0, <1>2, <2>1, <2>3 DEF Table, LockTable
    <2> QED BY <2>2, <2>3
  <1>10. FreeDescs'
    BY <1>0, <1>2 DEF Table, FreeDescs
  <1>11. Inodes'
    <2>1. named[f] <= named[f]
      BY <1>0, StateLocksAssumption DEF Types
    <2> QED BY <1>0, <1>2, <2>1 DEF Table, Inodes
  <1>12. AliasApart'
    <2> SUFFICES ASSUME NEW x \in aliased, NEW e \in Callers, NEW g \in LockFiles,
                        guard'[e][g] = x
                 PROVE  pc'[e] \in Leaving /\ g \notin held[e]
      BY DEF AliasApart
    <2>1. x # d
      BY <1>1
    <2>2. guard[e][g] = x
      BY <1>2, <2>1
    <2>3. pc[e] \in Leaving /\ g \notin held[e]
      BY <1>0, <2>2 DEF Table, AliasApart
    <2>4. e # c
      BY <2>3 DEF Leaving
    <2> QED BY <1>2, <2>3, <2>4
  <1>13. NotPending'
    <2> SUFFICES ASSUME NEW e \in Callers, PastTheMarker(e)', IsNamed(guard[e]["maintenance"])'
                 PROVE  ~pending
      BY DEF NotPending
    <2>1. PastTheMarker(e)
      BY <1>2 DEF PastTheMarker
    <2>2. guard[e]["maintenance"] # None /\ "maintenance" \in LockFiles
      BY <1>0, <2>1 DEF Control, GuardsOf, PastTheMarker, LockFiles
    <2>3. /\ guard'[e]["maintenance"] = guard[e]["maintenance"]
          /\ guard[e]["maintenance"] # d /\ guard[e]["maintenance"] \in Descs
      BY <1>3, <2>2
    <2>4. IsNamed(guard[e]["maintenance"])
      BY <1>2, <2>3 DEF IsNamed
    <2> QED BY <1>0, <2>1, <2>4 DEF NotPending
  <1>14. NoLockLeftBehind'
    <2> SUFFICES ASSUME NEW x \in Descs, mode[x] # "none"
                 PROVE  \/ \E e \in Callers, g \in LockFiles : guard'[e][g] = x /\ g \in held[e]
                        \/ x \in aliased
                        \/ crashes > 0 /\ refs'[x] = {Child}
      BY DEF NoLockLeftBehind
    <2>1. x # d
      BY <1>1
    <2>2. ASSUME NEW e \in Callers, NEW g \in LockFiles, guard[e][g] = x
          PROVE  guard'[e][g] = x
      BY <1>3, <2>2, StateLocksAssumption
    <2> QED BY <1>0, <1>2, <2>1, <2>2 DEF NoLockLeftBehind
  <1> QED BY <1>4, <1>5, <1>6, <1>7, <1>8, <1>9, <1>10, <1>11, <1>12, <1>13, <1>14 DEF IInv, Table

LEMMA BeginIInv ==
  ASSUME IInv, NEW c \in Callers, NEW k \in Kinds, NEW d \in Descs, Begin(c, k, d)
  PROVE  IInv'
  <1>1. /\ k \in Kinds \ {"none"} /\ "maintenance" \in LockFiles
        /\ Open(c, "maintenance", d) /\ pc[c] = "idle"
        /\ pc' = [pc EXCEPT ![c] = "lockm"] /\ kind' = [kind EXCEPT ![c] = k]
        /\ UNCHANGED <<named, mode, aliased, held, pending, crashes>>
    BY DEF Begin, Goto, LockFiles
  <1>2. guard[c]["maintenance"] = None
    BY <1>1 DEF IInv, Control, GuardsOf
  <1> QED BY <1>1, <1>2, OpenIInv

LEMMA OpenInstanceIInv ==
  ASSUME IInv, NEW c \in Callers, NEW d \in Descs, OpenInstance(c, d)
  PROVE  IInv'
  <1>1. /\ "instance" \in LockFiles
        /\ Open(c, "instance", d) /\ pc[c] = "openi"
        /\ pc' = [pc EXCEPT ![c] = "locki"] /\ UNCHANGED kind
        /\ UNCHANGED <<named, mode, aliased, held, pending, crashes>>
    BY DEF OpenInstance, Goto, LockFiles
  <1>2. guard[c]["instance"] = None /\ kind[c] = "instance" /\ kind \in [Callers -> Kinds]
    BY <1>1 DEF IInv, Control, GuardsOf, Types
  <1>3. kind' = [kind EXCEPT ![c] = kind[c]] /\ kind[c] \in Kinds \ {"none"}
    BY <1>1, <1>2 DEF Kinds
  <1> QED BY <1>1, <1>2, <1>3, OpenIInv

LEMMA DiscardIInv ==
  ASSUME IInv, NEW c \in Callers, NEW f \in LockFiles, Discard(c, f),
         \/ f = "instance" /\ UNCHANGED <<kind, pc>>
         \/ /\ f = "maintenance" /\ guard[c]["instance"] = None
            /\ kind' = [kind EXCEPT ![c] = "none"] /\ pc' = [pc EXCEPT ![c] = "idle"]
  PROVE  IInv'
  <1>0. Types /\ HeldIsLocked /\ Control /\ Table /\ NotPending /\ NoLockLeftBehind
        /\ GuardsOf(c) /\ HeldOf(c)
    BY DEF IInv, Control
  <1> DEFINE d == guard[c][f]
  <1>1. /\ pc[c] = "drop" /\ d # None
        /\ guard' = [guard EXCEPT ![c][f] = None]
        /\ held' = [held EXCEPT ![c] = @ \ {f}]
        /\ UNCHANGED <<named, file, inode, pending, crashes>>
        /\ DropLock(c, f)
    BY DEF Discard, table
  <1>2. /\ d \in Descs /\ c \in refs[d] /\ refs[d] \subseteq {c, Child} /\ file[d] = f
        /\ \A e \in Callers, g \in LockFiles : guard[e][g] = d => e = c /\ g = f
    BY <1>0, <1>1, OpenLemma, Distinct
  <1>3. /\ refs' = [refs EXCEPT ![d] = refs[d] \ {c}]
        /\ \/ mode' = [mode EXCEPT ![d] = "none"] /\ aliased' = aliased \ {d}
           \/ /\ mode' = [mode EXCEPT ![d] = mode[d]] /\ aliased' = aliased
              /\ f \notin held[c] /\ ~(refs[d] \subseteq {c})
    BY <1>0, <1>1 DEF DropLock, Close
  <1>4. /\ refs'[d] = refs[d] \ {c} /\ \A x \in Descs : x # d => refs'[x] = refs[x]
        /\ \A x \in Descs : x # d => mode'[x] = mode[x]
        /\ mode'[d] \in {"none", mode[d]} /\ aliased' \subseteq aliased
        /\ \A x \in Descs : x # d /\ x \in aliased => x \in aliased'
        /\ mode'[d] # "none" => f \notin held[c] /\ (d \in aliased => d \in aliased')
        /\ refs'[d] = {} => mode'[d] = "none" /\ d \notin aliased'
    BY <1>0, <1>2, <1>3 DEF Types
  <1>5. /\ guard'[c][f] = None /\ \A g \in LockFiles : g # f => guard'[c][g] = guard[c][g]
        /\ \A e \in Callers : e # c => guard'[e] = guard[e]
        /\ held'[c] = held[c] \ {f} /\ \A e \in Callers : e # c => held'[e] = held[e]
        /\ \A e \in Callers : e # c => pc'[e] = pc[e] /\ kind'[e] = kind[e]
    BY <1>0, <1>1 DEF Types
  <1>6. Types'
    <2>1. /\ pc' \in [Callers -> {"idle", "held"} \cup Acquiring \cup Leaving]
          /\ kind' \in [Callers -> Kinds]
      BY <1>0 DEF Types, Kinds
    <2>2. guard' \in [Callers -> [LockFiles -> Descs \cup {None}]]
      BY <1>0, <1>1 DEF Types
    <2>3. /\ refs' \in [Descs -> SUBSET (Callers \cup {Child})]
          /\ mode' \in [Descs -> {"none", "shared", "exclusive"}]
          /\ aliased' \subseteq Descs
      BY <1>0, <1>2, <1>3 DEF Types
    <2>4. held' \in [Callers -> SUBSET LockFiles]
      BY <1>0, <1>1 DEF Types
    <2> QED BY <1>0, <1>1, <2>1, <2>2, <2>3, <2>4 DEF Types
  <1>7. ASSUME NEW e \in Callers, NEW g \in LockFiles, ~(e = c /\ g = f)
        PROVE  /\ guard'[e][g] = guard[e][g] /\ guard[e][g] # d
               /\ g \in held'[e] <=> g \in held[e]
    BY <1>2, <1>5, <1>7
  <1>8. HeldIsLocked'
    <2> SUFFICES ASSUME NEW e \in Callers, NEW g \in held'[e]
                 PROVE  guard'[e][g] # None /\ mode'[guard'[e][g]] = ModeOf(kind'[e], g)
      BY DEF HeldIsLocked, ModeOf
    <2>1. g \in LockFiles /\ ~(e = c /\ g = f)
      BY <1>5, <1>6 DEF Types
    <2>2. guard'[e][g] = guard[e][g] /\ guard[e][g] # d /\ g \in held[e]
      BY <1>7, <2>1
    <2>3. guard[e][g] # None /\ mode[guard[e][g]] = ModeOf(kind[e], g)
      BY <1>0, <2>2 DEF HeldIsLocked
    <2>4. guard[e][g] \in Descs
      BY <1>0, <2>1, <2>3 DEF Types
    <2>5. e = c /\ f = "maintenance" => g = "instance"
      BY <2>1 DEF LockFiles
    <2>6. kind'[e] = kind[e] \/ (e = c /\ f = "maintenance" /\ guard[c]["instance"] = None)
      BY <1>5
    <2>7. kind'[e] = kind[e]
      BY <2>3, <2>5, <2>6
    <2> QED BY <1>4, <2>2, <2>3, <2>4, <2>7
  <1>9. Control'
    <2>1. CASE f = "instance"
      <3>1. GuardsOf(c)'
        BY <1>0, <1>1, <1>5, <2>1 DEF GuardsOf, LockFiles
      <3>2. HeldOf(c)'
        BY <1>0, <1>1, <1>5, <2>1 DEF HeldOf
      <3> QED BY <1>0, <1>5, <3>1, <3>2, ControlFrame
    <2>2. CASE f = "maintenance"
      <3>0. pc'[c] = "idle" /\ kind'[c] = "none" /\ guard[c]["instance"] = None
        BY <1>0, <2>2 DEF Types
      <3>1. GuardsOf(c)'
        BY <1>5, <2>2, <3>0 DEF GuardsOf, LockFiles
      <3>2. held'[c] = {}
        BY <1>0, <1>5, <2>2, <3>0 DEF HeldIsLocked, Types, LockFiles
      <3>3. HeldOf(c)'
        BY <3>0, <3>2 DEF HeldOf
      <3> QED BY <1>0, <1>5, <3>1, <3>3, ControlFrame
    <2> QED BY <2>1, <2>2 DEF LockFiles
  <1>10. Own'
    <2> SUFFICES ASSUME NEW e \in Callers, NEW g \in LockFiles, guard'[e][g] # None
                 PROVE  e \in refs'[guard'[e][g]] /\ file[guard'[e][g]] = g
      BY <1>1 DEF Own
    <2>1. ~(e = c /\ g = f)
      BY <1>5
    <2>2. guard'[e][g] = guard[e][g] /\ guard[e][g] # d
      BY <1>7, <2>1
    <2>3. guard[e][g] \in Descs /\ e \in refs[guard[e][g]] /\ file[guard[e][g]] = g
      BY <1>0, <2>2, OpenLemma
    <2> QED BY <1>4, <2>2, <2>3
  <1>11. OnlyOne'
    <2> SUFFICES ASSUME NEW x \in Descs, NEW e \in Callers, e \in refs'[x]
                 PROVE  /\ \E g \in LockFiles : guard'[e][g] = x
                        /\ refs'[x] \subseteq {e, Child}
      BY DEF OnlyOne
    <2>1. x # d
      BY <1>2, <1>4, StateLocksAssumption
    <2>2. e \in refs[x] /\ refs'[x] = refs[x]
      BY <1>4, <2>1
    <2>3. PICK g \in LockFiles : guard[e][g] = x
      BY <1>0, <2>2 DEF Table, OnlyOne
    <2>4. refs[x] \subseteq {e, Child}
      BY <1>0, <2>2 DEF Table, OnlyOne
    <2>5. guard'[e][g] = x
      BY <1>7, <2>1, <2>3
    <2> QED BY <2>2, <2>4, <2>5
  <1>12. LockTable'
    <2> SUFFICES ASSUME NEW x \in Descs, NEW y \in Descs, x # y,
                        file[x] = file[y], inode[x] = inode[y], mode'[x] = "exclusive"
                 PROVE  mode'[y] = "none"
      BY <1>1 DEF LockTable
    <2>1. mode[x] = "exclusive"
      BY <1>4
    <2>2. mode[y] = "none"
      BY <1>0, <2>1 DEF Table, LockTable
    <2> QED BY <1>4, <2>2
  <1>13. FreeDescs' /\ Inodes'
    BY <1>0, <1>1, <1>4 DEF Table, FreeDescs, Inodes
  <1>14. AliasApart'
    <2> SUFFICES ASSUME NEW x \in aliased', NEW e \in Callers, NEW g \in LockFiles,
                        guard'[e][g] = x
                 PROVE  pc'[e] \in Leaving /\ g \notin held'[e]
      BY DEF AliasApart
    <2>1. x \in aliased /\ x # None
      BY <1>0, <1>4, StateLocksAssumption DEF Types
    <2>2. ~(e = c /\ g = f)
      BY <1>5, <2>1
    <2>3. guard[e][g] = x /\ (g \in held'[e] <=> g \in held[e])
      BY <1>7, <2>2
    <2>4. pc[e] \in Leaving /\ g \notin held[e]
      BY <1>0, <2>1, <2>3 DEF Table, AliasApart
    <2>5. pc'[e] = pc[e]
      BY <1>5, <2>1, <2>2, <2>3 DEF LockFiles
    <2> QED BY <2>3, <2>4, <2>5
  <1>15. NotPending'
    <2> SUFFICES ASSUME NEW e \in Callers, PastTheMarker(e)', IsNamed(guard[e]["maintenance"])'
                 PROVE  ~pending
      BY <1>1 DEF NotPending
    <2>1. e # c
      BY <1>0, <1>1 DEF PastTheMarker, Types
    <2>2. PastTheMarker(e) /\ IsNamed(guard[e]["maintenance"])
      BY <1>1, <1>5, <2>1 DEF PastTheMarker, IsNamed
    <2> QED BY <1>0, <2>2 DEF NotPending
  <1>16. NoLockLeftBehind'
    <2> SUFFICES ASSUME NEW x \in Descs, mode'[x] # "none"
                 PROVE  \/ \E e \in Callers, g \in LockFiles : guard'[e][g] = x /\ g \in held'[e]
                        \/ x \in aliased'
                        \/ crashes > 0 /\ refs'[x] = {Child}
      BY <1>1 DEF NoLockLeftBehind
    <2>1. mode[x] # "none"
      BY <1>4
    <2>2. CASE x = d
      <3>1. f \notin held[c]
        BY <1>4, <2>2
      <3>2. refs[d] # {Child}
        BY <1>2, StateLocksAssumption
      <3>3. x \in aliased
        BY <1>0, <1>2, <2>1, <2>2, <3>1, <3>2 DEF NoLockLeftBehind
      <3> QED BY <1>4, <2>2, <3>3
    <2>3. CASE x # d
      <3>1. ASSUME NEW e \in Callers, NEW g \in LockFiles, guard[e][g] = x, g \in held[e]
            PROVE  guard'[e][g] = x /\ g \in held'[e]
        BY <1>7, <2>3, <3>1
      <3> QED BY <1>0, <1>4, <2>1, <2>3, <3>1 DEF NoLockLeftBehind
    <2> QED BY <2>2, <2>3
  <1> QED BY <1>6, <1>8, <1>9, <1>10, <1>11, <1>12, <1>13, <1>14, <1>15, <1>16 DEF IInv, Table

LEMMA DropIInv ==
  ASSUME IInv, NEW c \in Callers, DropFirst(c) \/ DropSecond(c)
  PROVE  IInv'
  <1>1. DropOrder[1] = "instance" /\ DropOrder[2] = "maintenance"
    BY DEF DropOrder
  <1>2. CASE DropFirst(c)
    <2>1. Discard(c, "instance") /\ UNCHANGED <<kind, pc>> /\ "instance" \in LockFiles
      BY <1>1, <1>2 DEF DropFirst, LockFiles
    <2> QED BY <2>1, DiscardIInv
  <1>3. CASE DropSecond(c)
    <2>1. /\ Discard(c, "maintenance") /\ guard[c]["instance"] = None
          /\ kind' = [kind EXCEPT ![c] = "none"] /\ pc' = [pc EXCEPT ![c] = "idle"]
          /\ "maintenance" \in LockFiles
      BY <1>1, <1>3 DEF DropSecond, LockFiles, Goto
    <2> QED BY <2>1, DiscardIInv
  <1> QED BY <1>2, <1>3

-----------------------------------------------------------------------------
\* What goes on around them.

LEMMA ForkIInv ==
  ASSUME IInv, NEW c \in Callers, Fork(c)
  PROVE  IInv'
  <1>0. Types /\ HeldIsLocked /\ Control /\ Table /\ NotPending /\ NoLockLeftBehind
    BY DEF IInv
  <1>1. /\ UNCHANGED <<named, file, inode, mode, aliased, kind, guard, pc, held, pending, crashes>>
        /\ refs' = [d \in Descs |-> IF c \in refs[d] THEN refs[d] \cup {Child} ELSE refs[d]]
    BY DEF Fork, table, caller
  <1>2. \A d \in Descs : /\ refs'[d] = refs[d] \/ (c \in refs[d] /\ refs'[d] = refs[d] \cup {Child})
                         /\ refs[d] \subseteq refs'[d]
    BY <1>1
  <1>3. Types'
    <2>1. refs' \in [Descs -> SUBSET (Callers \cup {Child})]
      BY <1>0, <1>1 DEF Types
    <2> QED BY <1>0, <1>1, <2>1 DEF Types
  <1>4. HeldIsLocked' /\ Control' /\ NotPending'
    BY <1>0, <1>1 DEF HeldIsLocked, ModeOf, Control, GuardsOf, HeldOf, NotPending,
                      PastTheMarker, IsNamed
  <1>5. Own'
    <2> SUFFICES ASSUME NEW e \in Callers, NEW g \in LockFiles, guard[e][g] # None
                 PROVE  e \in refs'[guard[e][g]] /\ file[guard[e][g]] = g
      BY <1>1 DEF Own
    <2> QED BY <1>0, <1>2, OpenLemma
  <1>6. OnlyOne'
    <2> SUFFICES ASSUME NEW x \in Descs, NEW e \in Callers, e \in refs'[x]
                 PROVE  /\ \E g \in LockFiles : guard[e][g] = x
                        /\ refs'[x] \subseteq {e, Child}
      BY <1>1 DEF OnlyOne
    <2>1. e \in refs[x]
      BY <1>2, StateLocksAssumption
    <2> QED BY <1>0, <1>2, <2>1 DEF Table, OnlyOne
  <1>7. LockTable' /\ FreeDescs' /\ Inodes' /\ AliasApart'
    BY <1>0, <1>1, <1>2 DEF Table, LockTable, FreeDescs, Inodes, AliasApart
  <1>8. NoLockLeftBehind'
    BY <1>0, <1>1, <1>2, StateLocksAssumption DEF NoLockLeftBehind
  <1> QED BY <1>3, <1>4, <1>5, <1>6, <1>7, <1>8 DEF IInv, Table

LEMMA ExecIInv ==
  ASSUME IInv, Exec
  PROVE  IInv'
  <1>0. Types /\ HeldIsLocked /\ Control /\ Table /\ NotPending /\ NoLockLeftBehind
    BY DEF IInv
  <1>1. /\ UNCHANGED <<named, file, inode, kind, guard, pc, held, pending, crashes>>
        /\ refs' = [d \in Descs |-> refs[d] \ {Child}]
        /\ mode' = [d \in Descs |-> IF refs[d] \subseteq {Child} THEN "none" ELSE mode[d]]
        /\ aliased' = aliased \ {d \in Descs : refs[d] \subseteq {Child}}
    BY DEF Exec, CloseAll, table, caller
  <1>2. \A d \in Descs :
          /\ refs'[d] = refs[d] \ {Child} /\ mode'[d] \in {"none", mode[d]}
          /\ mode'[d] # "none" => refs[d] # {Child} /\ (d \in aliased => d \in aliased')
          /\ refs'[d] = {} => mode'[d] = "none" /\ d \notin aliased'
    BY <1>1
  <1>3. Types'
    <2>1. /\ refs' \in [Descs -> SUBSET (Callers \cup {Child})]
          /\ mode' \in [Descs -> {"none", "shared", "exclusive"}]
          /\ aliased' \subseteq Descs
      BY <1>0, <1>1 DEF Types
    <2> QED BY <1>0, <1>1, <2>1 DEF Types
  <1>4. \A e \in Callers, g \in LockFiles : guard[e][g] # None =>
          guard[e][g] \in Descs /\ mode'[guard[e][g]] = mode[guard[e][g]]
    <2> SUFFICES ASSUME NEW e \in Callers, NEW g \in LockFiles, guard[e][g] # None
                 PROVE  guard[e][g] \in Descs /\ mode'[guard[e][g]] = mode[guard[e][g]]
      OBVIOUS
    <2>1. guard[e][g] \in Descs /\ e \in refs[guard[e][g]]
      BY <1>0, OpenLemma
    <2> QED BY <1>1, <2>1, StateLocksAssumption
  <1>5. HeldIsLocked'
    <2> SUFFICES ASSUME NEW e \in Callers, NEW g \in held'[e]
                 PROVE  guard'[e][g] # None /\ mode'[guard'[e][g]] = ModeOf(kind'[e], g)
      BY DEF HeldIsLocked, ModeOf
    <2>1. guard' = guard /\ kind' = kind /\ g \in held[e]
      BY <1>1
    <2>2. g \in LockFiles
      BY <1>0, <2>1 DEF Types
    <2> QED BY <1>0, <1>4, <2>1, <2>2 DEF HeldIsLocked
  <1>6. Control' /\ NotPending'
    BY <1>0, <1>1 DEF Control, GuardsOf, HeldOf, NotPending, PastTheMarker, IsNamed
  <1>7. Own'
    <2> SUFFICES ASSUME NEW e \in Callers, NEW g \in LockFiles, guard[e][g] # None
                 PROVE  e \in refs'[guard[e][g]] /\ file[guard[e][g]] = g
      BY <1>1 DEF Own
    <2> QED BY <1>0, <1>2, OpenLemma, StateLocksAssumption
  <1>8. OnlyOne' /\ FreeDescs' /\ Inodes' /\ LockTable'
    BY <1>0, <1>1, <1>2 DEF Table, OnlyOne, FreeDescs, Inodes, LockTable
  <1>9. AliasApart'
    BY <1>0, <1>1 DEF Table, AliasApart
  <1>10. NoLockLeftBehind'
    <2> SUFFICES ASSUME NEW x \in Descs, mode'[x] # "none"
                 PROVE  \/ \E e \in Callers, g \in LockFiles : guard[e][g] = x /\ g \in held[e]
                        \/ x \in aliased'
                        \/ crashes > 0 /\ refs'[x] = {Child}
      BY <1>1 DEF NoLockLeftBehind
    <2>1. mode[x] # "none" /\ refs[x] # {Child}
      BY <1>2
    <2> QED BY <1>0, <1>2, <2>1 DEF NoLockLeftBehind
  <1> QED BY <1>3, <1>5, <1>6, <1>7, <1>8, <1>9, <1>10 DEF IInv, Table

LEMMA AliasIInv ==
  ASSUME IInv, NEW d \in Descs, AliasLocks(d)
  PROVE  IInv'
  <1>0. Types /\ HeldIsLocked /\ Control /\ Table /\ NotPending /\ NoLockLeftBehind
    BY DEF IInv
  <1>1. /\ Child \in refs[d] /\ mode[d] = "none" /\ ~Blocked(d, "exclusive")
        /\ \A c \in Callers : d \in Opened(c) => pc[c] \in Leaving
        /\ mode' = [mode EXCEPT ![d] = "exclusive"] /\ aliased' = aliased \cup {d}
        /\ UNCHANGED <<named, file, inode, refs, kind, guard, pc, held, pending, crashes>>
    BY DEF AliasLocks, table, caller
  <1>2. mode'[d] = "exclusive" /\ \A x \in Descs : x # d => mode'[x] = mode[x]
    BY <1>0, <1>1 DEF Types
  <1>3. Types'
    <2>1. mode' \in [Descs -> {"none", "shared", "exclusive"}] /\ aliased' \subseteq Descs
      BY <1>0, <1>1 DEF Types
    <2> QED BY <1>0, <1>1, <2>1 DEF Types
  <1>4. \A e \in Callers : \A g \in held[e] :
          g \in LockFiles /\ guard[e][g] \in Descs /\ guard[e][g] # d
    BY <1>0, <1>1 DEF HeldIsLocked, ModeOf, Types
  <1>5. HeldIsLocked'
    BY <1>0, <1>1, <1>2, <1>4 DEF HeldIsLocked, ModeOf
  <1>6. Control' /\ NotPending'
    BY <1>0, <1>1 DEF Control, GuardsOf, HeldOf, NotPending, PastTheMarker, IsNamed
  <1>7. Own' /\ OnlyOne' /\ Inodes'
    BY <1>0, <1>1 DEF Table, Own, OnlyOne, Inodes
  <1>8. FreeDescs'
    BY <1>0, <1>1, <1>2 DEF Table, FreeDescs
  <1>9. LockTable'
    <2> SUFFICES ASSUME NEW x \in Descs, NEW y \in Descs, x # y,
                        file[x] = file[y], inode[x] = inode[y], mode'[x] = "exclusive"
                 PROVE  mode'[y] = "none"
      BY <1>1 DEF LockTable
    <2>1. CASE x = d
      BY <1>0, <1>1, <1>2, <2>1 DEF Blocked
    <2>2. CASE y = d
      <3>1. mode[x] = "exclusive"
        BY <1>2, <2>2
      <3> QED BY <1>1, <2>2, <3>1 DEF Blocked
    <2>3. CASE x # d /\ y # d
      BY <1>0, <1>2, <2>3 DEF Table, LockTable
    <2> QED BY <2>1, <2>2, <2>3
  <1>10. AliasApart'
    <2> SUFFICES ASSUME NEW x \in aliased', NEW e \in Callers, NEW g \in LockFiles,
                        guard[e][g] = x
                 PROVE  pc[e] \in Leaving /\ g \notin held[e]
      BY <1>1 DEF AliasApart
    <2>1. CASE x = d
      <3>1. d \in Opened(e)
        BY <2>1, StateLocksAssumption DEF Opened
      <3> QED BY <1>1, <1>4, <2>1, <3>1
    <2>2. CASE x # d
      BY <1>0, <1>1, <2>2 DEF Table, AliasApart
    <2> QED BY <2>1, <2>2
  <1>11. NoLockLeftBehind'
    BY <1>0, <1>1, <1>2 DEF NoLockLeftBehind
  <1> QED BY <1>3, <1>5, <1>6, <1>7, <1>8, <1>9, <1>10, <1>11 DEF IInv, Table

\* A caller past the maintenance lock keeps the others' locks compatible with its own.
LEMMA Compatible ==
  ASSUME Types, HeldIsLocked, Table, NEW c \in Callers, NEW e \in Callers, c # e,
         NEW f \in LockFiles, f \in held[c], f \in held[e],
         IsNamed(guard[c][f]), IsNamed(guard[e][f])
  PROVE  ModeOf(kind[c], f) = "shared" /\ ModeOf(kind[e], f) = "shared"
  <1>1. /\ guard[c][f] # None /\ mode[guard[c][f]] = ModeOf(kind[c], f)
        /\ guard[e][f] # None /\ mode[guard[e][f]] = ModeOf(kind[e], f)
    BY DEF HeldIsLocked
  <1>2. guard[c][f] # guard[e][f]
    BY <1>1, Distinct
  <1>3. /\ guard[c][f] \in Descs /\ file[guard[c][f]] = f
        /\ guard[e][f] \in Descs /\ file[guard[e][f]] = f
    BY <1>1, OpenLemma
  <1>4. inode[guard[c][f]] = inode[guard[e][f]]
    BY <1>3 DEF IsNamed
  <1>5. /\ mode[guard[c][f]] = "exclusive" => mode[guard[e][f]] = "none"
        /\ mode[guard[e][f]] = "exclusive" => mode[guard[c][f]] = "none"
    BY <1>2, <1>3, <1>4 DEF Table, LockTable
  <1> QED BY <1>1, <1>5 DEF ModeOf

LEMMA MaintainIInv ==
  ASSUME IInv, NEW c \in Callers, Maintain(c)
  PROVE  IInv'
  <1>0. Types /\ HeldIsLocked /\ Control /\ Table /\ NotPending /\ NoLockLeftBehind
    BY DEF IInv
  <1>1. /\ pc[c] = "held" /\ kind[c] = "maintenance" /\ Verified(c)
        /\ UNCHANGED <<named, file, inode, mode, refs, aliased, kind, guard, pc, held, crashes>>
        /\ pending' = ~pending
    BY DEF Maintain, table, caller
  <1>2. Types'
    <2>1. pending' \in BOOLEAN
      BY <1>1
    <2> QED BY <1>0, <1>1, <2>1 DEF Types
  <1>3. HeldIsLocked' /\ Control' /\ NoLockLeftBehind'
    BY <1>0, <1>1 DEF HeldIsLocked, ModeOf, Control, GuardsOf, HeldOf, NoLockLeftBehind
  <1>4. Table'
    BY <1>0, <1>1 DEF Table, Own, OnlyOne, LockTable, FreeDescs, Inodes, AliasApart
  <1>5. NotPending'
    <2> SUFFICES ASSUME NEW e \in Callers, PastTheMarker(e), IsNamed(guard[e]["maintenance"])
                 PROVE  FALSE
      BY <1>1 DEF NotPending, PastTheMarker, IsNamed
    <2>1. c # e /\ "maintenance" \in LockFiles
      BY <1>1 DEF PastTheMarker, LockFiles
    <2>2. "maintenance" \in held[c] /\ "maintenance" \in held[e]
      BY <1>0, <1>1 DEF Control, HeldOf, PastTheMarker
    <2>3. guard[c]["maintenance"] # None
      BY <1>0, <2>2 DEF HeldIsLocked
    <2>4. IsNamed(guard[c]["maintenance"])
      BY <1>1, <2>1, <2>3 DEF Verified, Opened
    <2> QED BY <1>0, <1>1, <2>1, <2>2, <2>4, Compatible DEF ModeOf
  <1> QED BY <1>2, <1>3, <1>4, <1>5 DEF IInv

LEMMA ReplaceIInv ==
  ASSUME IInv, NEW f \in LockFiles, Replace(f)
  PROVE  IInv'
  <1>0. Types /\ HeldIsLocked /\ Control /\ Table /\ NotPending /\ NoLockLeftBehind
    BY DEF IInv
  <1>1. /\ UNCHANGED <<file, inode, mode, refs, aliased, kind, guard, pc, held, pending, crashes>>
        /\ named[f] < MaxReplaced /\ named' = [named EXCEPT ![f] = named[f] + 1]
    BY DEF Replace, caller
  <1>2. \A g \in LockFiles : named'[g] = named[g] \/ (named'[g] = named[g] + 1)
    BY <1>0, <1>1 DEF Types
  <1>3. Types'
    <2>1. named' \in [LockFiles -> 0..MaxReplaced]
      BY <1>0, <1>1, StateLocksAssumption DEF Types
    <2> QED BY <1>0, <1>1, <2>1 DEF Types
  <1>4. HeldIsLocked' /\ Control' /\ NoLockLeftBehind'
    BY <1>0, <1>1 DEF HeldIsLocked, ModeOf, Control, GuardsOf, HeldOf, NoLockLeftBehind
  <1>5. Own' /\ OnlyOne' /\ LockTable' /\ FreeDescs' /\ AliasApart'
    BY <1>0, <1>1 DEF Table, Own, OnlyOne, LockTable, FreeDescs, AliasApart
  <1>6. \A d \in Descs : /\ inode[d] <= named'[file[d]]
                         /\ inode[d] = named'[file[d]] => inode[d] = named[file[d]]
    <2> SUFFICES ASSUME NEW d \in Descs
                 PROVE  /\ inode[d] <= named'[file[d]]
                        /\ inode[d] = named'[file[d]] => inode[d] = named[file[d]]
      OBVIOUS
    <2>1. file[d] \in LockFiles /\ inode[d] \in 0..MaxReplaced /\ named[file[d]] \in 0..MaxReplaced
      BY <1>0 DEF Types
    <2>2. inode[d] <= named[file[d]]
      BY <1>0 DEF Table, Inodes
    <2>3. named'[file[d]] = named[file[d]] \/ named'[file[d]] = named[file[d]] + 1
      BY <1>2, <2>1
    <2> QED BY <2>1, <2>2, <2>3, StateLocksAssumption
  <1>7. Inodes'
    BY <1>1, <1>6 DEF Inodes
  <1>8. NotPending'
    <2> SUFFICES ASSUME NEW e \in Callers, PastTheMarker(e), IsNamed(guard[e]["maintenance"])'
                 PROVE  ~pending
      BY <1>1 DEF NotPending, PastTheMarker
    <2>1. guard[e]["maintenance"] \in Descs
      <3>1. guard[e]["maintenance"] # None
        BY <1>0 DEF Control, GuardsOf, PastTheMarker
      <3> QED BY <1>0, <3>1 DEF Types, LockFiles
    <2>2. IsNamed(guard[e]["maintenance"])
      BY <1>1, <1>6, <2>1 DEF IsNamed
    <2> QED BY <1>0, <2>2 DEF NotPending
  <1> QED BY <1>3, <1>4, <1>5, <1>7, <1>8 DEF IInv, Table

LEMMA CrashIInv ==
  ASSUME IInv, NEW c \in Callers, Crash(c)
  PROVE  IInv'
  <1>0. Types /\ HeldIsLocked /\ Control /\ Table /\ NotPending /\ NoLockLeftBehind
    BY DEF IInv
  <1> DEFINE none == [f \in LockFiles |-> None]
  <1>1. /\ UNCHANGED <<named, file, inode, pending>>
        /\ crashes < MaxCrashes /\ crashes' = crashes + 1
        /\ refs' = [d \in Descs |-> refs[d] \ {c}]
        /\ mode' = [d \in Descs |-> IF refs[d] \subseteq {c} THEN "none" ELSE mode[d]]
        /\ aliased' = aliased \ {d \in Descs : refs[d] \subseteq {c}}
        /\ guard' = [guard EXCEPT ![c] = none]
        /\ held' = [held EXCEPT ![c] = {}]
        /\ kind' = [kind EXCEPT ![c] = "none"]
        /\ pc' = [pc EXCEPT ![c] = "idle"]
    BY DEF Crash, CloseAll, Goto, table
  <1>2. /\ guard'[c] = none /\ held'[c] = {} /\ kind'[c] = "none" /\ pc'[c] = "idle"
        /\ \A e \in Callers : e # c =>
             guard'[e] = guard[e] /\ held'[e] = held[e] /\ kind'[e] = kind[e] /\ pc'[e] = pc[e]
    BY <1>0, <1>1 DEF Types
  <1>3. \A f \in LockFiles : guard'[c][f] = None
    BY <1>2
  <1>4. \A d \in Descs :
          /\ refs'[d] = refs[d] \ {c} /\ mode'[d] \in {"none", mode[d]}
          /\ mode'[d] # "none" => refs'[d] # {} /\ (d \in aliased => d \in aliased')
          /\ refs'[d] = {} => mode'[d] = "none" /\ d \notin aliased'
    BY <1>1
  <1>5. Types'
    <2>1. /\ refs' \in [Descs -> SUBSET (Callers \cup {Child})]
          /\ mode' \in [Descs -> {"none", "shared", "exclusive"}]
          /\ aliased' \subseteq Descs
      BY <1>0, <1>1 DEF Types
    <2>2. guard' \in [Callers -> [LockFiles -> Descs \cup {None}]]
      BY <1>0, <1>1 DEF Types
    <2>3. /\ held' \in [Callers -> SUBSET LockFiles] /\ kind' \in [Callers -> Kinds]
          /\ pc' \in [Callers -> {"idle", "held"} \cup Acquiring \cup Leaving]
      BY <1>0, <1>1 DEF Types, Kinds
    <2>4. crashes' \in 0..MaxCrashes
      BY <1>0, <1>1, StateLocksAssumption DEF Types
    <2> QED BY <1>0, <1>1, <2>1, <2>2, <2>3, <2>4 DEF Types
  <1>6. \A e \in Callers, g \in LockFiles : e # c /\ guard[e][g] # None =>
          /\ guard[e][g] \in Descs /\ mode'[guard[e][g]] = mode[guard[e][g]]
          /\ e \in refs'[guard[e][g]] /\ file[guard[e][g]] = g
    <2> SUFFICES ASSUME NEW e \in Callers, NEW g \in LockFiles, e # c, guard[e][g] # None
                 PROVE  /\ guard[e][g] \in Descs /\ mode'[guard[e][g]] = mode[guard[e][g]]
                        /\ e \in refs'[guard[e][g]] /\ file[guard[e][g]] = g
      OBVIOUS
    <2>1. guard[e][g] \in Descs /\ e \in refs[guard[e][g]] /\ file[guard[e][g]] = g
      BY <1>0, OpenLemma
    <2> QED BY <1>1, <2>1
  <1>7. HeldIsLocked'
    <2> SUFFICES ASSUME NEW e \in Callers, NEW g \in held'[e]
                 PROVE  guard'[e][g] # None /\ mode'[guard'[e][g]] = ModeOf(kind'[e], g)
      BY DEF HeldIsLocked, ModeOf
    <2>1. e # c /\ g \in LockFiles
      BY <1>2, <1>5 DEF Types
    <2>2. guard[e][g] # None /\ mode[guard[e][g]] = ModeOf(kind[e], g)
      BY <1>0, <1>2, <2>1 DEF HeldIsLocked
    <2> QED BY <1>2, <1>6, <2>1, <2>2
  <1>8. Control'
    <2>1. GuardsOf(c)' /\ HeldOf(c)'
      BY <1>2, <1>3 DEF GuardsOf, HeldOf, LockFiles
    <2> QED BY <1>0, <1>2, <2>1, ControlFrame
  <1>9. Own'
    <2> SUFFICES ASSUME NEW e \in Callers, NEW g \in LockFiles, guard'[e][g] # None
                 PROVE  e \in refs'[guard'[e][g]] /\ file[guard'[e][g]] = g
      BY <1>1 DEF Own
    <2>1. e # c
      BY <1>3
    <2> QED BY <1>2, <1>6, <2>1
  <1>10. OnlyOne'
    <2> SUFFICES ASSUME NEW x \in Descs, NEW e \in Callers, e \in refs'[x]
                 PROVE  /\ \E g \in LockFiles : guard'[e][g] = x
                        /\ refs'[x] \subseteq {e, Child}
      BY DEF OnlyOne
    <2>1. e \in refs[x] /\ e # c
      BY <1>4
    <2> QED BY <1>0, <1>2, <1>4, <2>1 DEF Table, OnlyOne
  <1>11. LockTable' /\ FreeDescs' /\ Inodes'
    BY <1>0, <1>1, <1>4 DEF Table, LockTable, FreeDescs, Inodes
  <1>12. AliasApart'
    <2> SUFFICES ASSUME NEW x \in aliased', NEW e \in Callers, NEW g \in LockFiles,
                        guard'[e][g] = x
                 PROVE  pc'[e] \in Leaving /\ g \notin held'[e]
      BY DEF AliasApart
    <2>1. x \in aliased /\ x # None
      BY <1>0, <1>1, StateLocksAssumption DEF Types
    <2>2. e # c
      BY <1>3, <2>1
    <2> QED BY <1>0, <1>2, <2>1, <2>2 DEF Table, AliasApart
  <1>13. NotPending'
    <2> SUFFICES ASSUME NEW e \in Callers, PastTheMarker(e)', IsNamed(guard[e]["maintenance"])'
                 PROVE  ~pending
      BY <1>1 DEF NotPending
    <2>1. e # c
      BY <1>2 DEF PastTheMarker
    <2>2. PastTheMarker(e) /\ IsNamed(guard[e]["maintenance"])
      BY <1>1, <1>2, <2>1 DEF PastTheMarker, IsNamed
    <2> QED BY <1>0, <2>2 DEF NotPending
  <1>14. NoLockLeftBehind'
    <2> SUFFICES ASSUME NEW x \in Descs, mode'[x] # "none"
                 PROVE  \/ \E e \in Callers, g \in LockFiles : guard'[e][g] = x /\ g \in held'[e]
                        \/ x \in aliased'
                        \/ crashes' > 0 /\ refs'[x] = {Child}
      BY DEF NoLockLeftBehind
    <2>0. crashes' > 0
      BY <1>0, <1>1, StateLocksAssumption DEF Types
    <2>1. mode[x] # "none"
      BY <1>4
    <2>2. CASE c \in refs[x]
      <3>1. refs'[x] \subseteq {Child}
        BY <1>0, <1>4, <2>2 DEF Table, OnlyOne
      <3>2. refs'[x] # {}
        BY <1>4
      <3> QED BY <2>0, <3>1, <3>2
    <2>3. CASE c \notin refs[x]
      <3>1. refs'[x] = refs[x]
        BY <1>4, <2>3
      <3>2. ASSUME NEW e \in Callers, NEW g \in LockFiles, guard[e][g] = x, g \in held[e]
            PROVE  guard'[e][g] = x /\ g \in held'[e]
        <4>1. guard[e][g] # None
          BY <1>0, <3>2 DEF HeldIsLocked
        <4>2. e \in refs[x]
          BY <1>0, <3>2, <4>1, OpenLemma
        <4> QED BY <1>2, <2>3, <3>2, <4>2
      <3> QED BY <1>0, <1>4, <2>0, <2>1, <3>1, <3>2 DEF NoLockLeftBehind
    <2> QED BY <2>2, <2>3
  <1> QED BY <1>5, <1>7, <1>8, <1>9, <1>10, <1>11, <1>12, <1>13, <1>14 DEF IInv, Table

-----------------------------------------------------------------------------
\* The theorems.

LEMMA StepIInv ==
  ASSUME IInv, Next
  PROVE  IInv'
  <1>1. ASSUME NEW c \in Callers, Acquisition(c)
        PROVE  IInv'
    BY <1>1, BeginIInv, OpenInstanceIInv, LockIInv, MoveIInv DEF Acquisition
  <1>2. ASSUME NEW c \in Callers, Departure(c)
        PROVE  IInv'
    BY <1>2, MoveIInv, UnlockIInv, DropIInv DEF Departure
  <1>3. ASSUME NEW c \in Callers, Fork(c) \/ Maintain(c) \/ Crash(c)
        PROVE  IInv'
    BY <1>3, ForkIInv, MaintainIInv, CrashIInv
  <1> QED BY <1>1, <1>2, <1>3, ExecIInv, AliasIInv, ReplaceIInv DEF Next

LEMMA StutterIInv ==
  ASSUME IInv, UNCHANGED vars
  PROVE  IInv'
  <1>0. Types /\ HeldIsLocked /\ Control /\ Table /\ NotPending /\ NoLockLeftBehind
    BY DEF IInv
  <1>1. Types' /\ HeldIsLocked' /\ Control'
    BY <1>0 DEF vars, Types, HeldIsLocked, ModeOf, Control, GuardsOf, HeldOf
  <1>2. Table'
    BY <1>0 DEF vars, Table, Own, OnlyOne, LockTable, FreeDescs, Inodes, AliasApart
  <1>3. NotPending' /\ NoLockLeftBehind'
    BY <1>0 DEF vars, NotPending, PastTheMarker, IsNamed, NoLockLeftBehind
  <1> QED BY <1>1, <1>2, <1>3 DEF IInv

\* What is in the lock table is what the guards believe, each description has one
\* caller, and whoever went past the marker keeps maintenance out.
THEOREM Inductive == Spec => []IInv
  <1>1. IInv /\ [Next]_vars => IInv'
    BY StepIInv, StutterIInv
  <1> QED BY InitIInv, <1>1, PTL DEF Spec

\* Every variable keeps its type, and a lock a guard believes to hold is held.
THEOREM TypeCorrect == Spec => []TypeOK
  <1>1. IInv => TypeOK
    BY DEF IInv, TypeOK
  <1> QED BY <1>1, Inductive, PTL

\* An owner has the locks of its kind, on the named files.
LEMMA OwnerLemma ==
  ASSUME IInv, NEW c \in Callers, Owner(c)
  PROVE  /\ "maintenance" \in held[c] /\ IsNamed(guard[c]["maintenance"])
         /\ kind[c] \in {"instance", "maintenance", "shared"}
         /\ kind[c] = "instance" => "instance" \in held[c] /\ IsNamed(guard[c]["instance"])
  <1>0. Types /\ HeldIsLocked /\ GuardsOf(c) /\ HeldOf(c)
    BY DEF IInv, Control
  <1>1. "maintenance" \in held[c] /\ (kind[c] = "instance" => "instance" \in held[c])
    BY <1>0 DEF Owner, HeldOf
  <1>2. kind[c] \in {"instance", "maintenance", "shared"}
    BY <1>0 DEF Owner, GuardsOf, Types, Kinds
  <1>3. \A f \in held[c] : IsNamed(guard[c][f])
    BY <1>0 DEF Owner, Verified, Opened, HeldIsLocked, Types
  <1> QED BY <1>1, <1>2, <1>3

\* Verified owners exclude each other, whatever was replaced, forked or killed.
THEOREM OwnersExclude == Spec => []ExclusiveOwnership
  <1>1. IInv => ExclusiveOwnership
    <2> SUFFICES ASSUME IInv, NEW c \in Callers, NEW e \in Callers, c # e, Owner(c), Owner(e)
                 PROVE  /\ "maintenance" \notin {kind[c], kind[e]}
                        /\ "instance" \in {kind[c], kind[e]} => kind[c] # kind[e]
      BY DEF ExclusiveOwnership
    <2>0. Types /\ HeldIsLocked /\ Table
      BY DEF IInv
    <2>1. ModeOf(kind[c], "maintenance") = "shared" /\ ModeOf(kind[e], "maintenance") = "shared"
      BY <2>0, OwnerLemma, Compatible DEF LockFiles
    <2>2. kind[c] # "maintenance" /\ kind[e] # "maintenance"
      BY <2>1 DEF ModeOf
    <2>3. ~(kind[c] = "instance" /\ kind[e] = "instance")
      <3> SUFFICES ASSUME kind[c] = "instance", kind[e] = "instance" PROVE FALSE
        OBVIOUS
      <3>1. ModeOf(kind[c], "instance") = "shared"
        BY <2>0, OwnerLemma, Compatible DEF LockFiles
      <3> QED BY <3>1 DEF ModeOf
    <2> QED BY <2>2, <2>3
  <1> QED BY <1>1, Inductive, PTL

\* Unfinished maintenance keeps everybody else out.
THEOREM MaintenanceExcludes == Spec => []NoneDuringMaintenance
  <1>1. IInv => NoneDuringMaintenance
    <2> SUFFICES ASSUME IInv, pending, NEW c \in Callers, Owner(c), kind[c] # "maintenance"
                 PROVE  FALSE
      BY DEF NoneDuringMaintenance
    <2>1. PastTheMarker(c) /\ IsNamed(guard[c]["maintenance"])
      BY OwnerLemma DEF Owner, PastTheMarker
    <2> QED BY <2>1 DEF IInv, NotPending
  <1> QED BY <1>1, Inductive, PTL

\* A maintainer never owns the state beside a runtime on its way out.
THEOREM MaintainerWaits == Spec => []NoMaintainerBesideInstance
  <1>1. IInv => NoMaintainerBesideInstance
    <2> SUFFICES ASSUME IInv, NEW c \in Callers, NEW e \in Callers, Owner(c),
                        kind[c] = "maintenance", "instance" \in held[e], Verified(e)
                 PROVE  FALSE
      BY DEF NoMaintainerBesideInstance
    <2>0. Types /\ HeldIsLocked /\ Table /\ GuardsOf(e) /\ HeldOf(e)
      BY DEF IInv, Control
    <2>1. "maintenance" \in held[e] /\ guard[e]["instance"] # None
      BY <2>0 DEF HeldOf, HeldIsLocked
    <2>2. c # e
      BY <2>0, <2>1 DEF GuardsOf
    <2>3. IsNamed(guard[e]["maintenance"])
      BY <2>0, <2>1 DEF Verified, Opened, HeldIsLocked, LockFiles
    <2>4. ModeOf(kind[c], "maintenance") = "shared"
      BY <2>0, <2>1, <2>2, <2>3, OwnerLemma, Compatible DEF LockFiles
    <2> QED BY <2>4 DEF ModeOf
  <1> QED BY <1>1, Inductive, PTL

\* Maintenance has the state for itself.
THEOREM MaintenanceHasItAlone == Spec => []MaintenanceIsAlone
  <1>1. NoneDuringMaintenance /\ NoMaintainerBesideInstance => MaintenanceIsAlone
    BY DEF MaintenanceIsAlone
  <1> QED BY <1>1, MaintenanceExcludes, MaintainerWaits, PTL

\* No dropped or released guard leaves its lock to a forked child.
THEOREM NothingLeftBehind == Spec => []NoLockLeftBehind
  <1>1. IInv => NoLockLeftBehind
    BY DEF IInv
  <1> QED BY <1>1, Inductive, PTL

-----------------------------------------------------------------------------
\* The handoff.

\* The lock the child took for itself is exclusive.
Aliased == \A d \in aliased : mode[d] = "exclusive"

\* Where the set of the child's locks may grow.
LEMMA AliasedFrame ==
  ASSUME Next
  PROVE  aliased' \subseteq aliased \/ \E e \in Descs : AliasLocks(e)
  <1>1. ASSUME NEW c \in Callers, Acquisition(c) PROVE aliased' = aliased
    BY <1>1 DEF Acquisition, OpenInstance, Begin, LockMaintenance, Check, LockInstance,
                VerifyMaintenance, VerifyInstance, Fail
  <1>2. ASSUME NEW c \in Callers, Departure(c) PROVE aliased' \subseteq aliased
    <2>1. CASE DropFirst(c) \/ DropSecond(c)
      BY <2>1 DEF DropFirst, DropSecond, Discard, DropLock, Close
    <2>2. CASE Release(c) \/ GiveUp(c) \/ UnlockInstance(c) \/ UnlockMaintenance(c)
      BY <2>2 DEF Release, GiveUp, UnlockInstance, UnlockMaintenance
    <2> QED BY <1>2, <2>1, <2>2 DEF Departure
  <1>3. ASSUME NEW c \in Callers, Fork(c) \/ Maintain(c) \/ Crash(c)
        PROVE  aliased' \subseteq aliased
    BY <1>3 DEF Fork, Maintain, Crash, CloseAll
  <1>4. Exec => aliased' \subseteq aliased
    BY DEF Exec, CloseAll
  <1>5. ASSUME NEW f \in LockFiles, Replace(f) PROVE aliased' = aliased
    BY <1>5 DEF Replace
  <1> QED BY <1>1, <1>2, <1>3, <1>4, <1>5 DEF Next

\* What a step does to a lock of the child: nothing, unless its last descriptor
\* is closed.
Kept(d) ==
  \/ d \in aliased' /\ mode'[d] = mode[d]
  \/ d \notin aliased' /\ (Child \notin refs[d] \/ Child \notin refs'[d])

LEMMA HandoffStep ==
  ASSUME IInv, Aliased, Next, NEW d \in aliased
  PROVE  Kept(d)
  <1>0. Types /\ HeldIsLocked /\ Control /\ Table
    BY DEF IInv
  <1>1. d \in Descs
    BY <1>0 DEF Types
  <1>2. CASE UNCHANGED <<mode, aliased>>
    BY <1>2 DEF Kept
  <1>3. ASSUME NEW c \in Callers, LockMaintenance(c) \/ LockInstance(c)
        PROVE  Kept(d)
    <2>1. PICK f \in LockFiles, w \in Acquiring : Acquire(c, f, w) /\ pc[c] \in {"lockm", "locki"}
      BY <1>3 DEF LockMaintenance, LockInstance, LockFiles, Acquiring
    <2>2. guard[c][f] # d
      BY <1>0, <2>1 DEF Table, AliasApart, Leaving
    <2>3. aliased' = aliased
      BY <1>3 DEF LockMaintenance, LockInstance
    <2>4. mode' = mode \/ mode' = [mode EXCEPT ![guard[c][f]] = ModeOf(kind[c], f)]
      BY <2>1 DEF Acquire
    <2> QED BY <1>0, <1>1, <2>2, <2>3, <2>4 DEF Types, Kept
  <1>4. ASSUME NEW c \in Callers, UnlockInstance(c) \/ UnlockMaintenance(c)
        PROVE  Kept(d)
    <2>1. PICK f \in LockFiles, w \in Leaving : Unlock(c, f, w) /\ f \in held[c]
      BY <1>0, <1>4 DEF UnlockInstance, UnlockMaintenance, Control, HeldOf, LockFiles, Leaving
    <2>2. guard[c][f] # d
      BY <1>0, <2>1 DEF Table, AliasApart
    <2>3. aliased' = aliased /\ mode' = [mode EXCEPT ![guard[c][f]] = "none"]
      BY <1>4, <2>1 DEF UnlockInstance, UnlockMaintenance, Unlock
    <2> QED BY <1>0, <1>1, <2>2, <2>3 DEF Types, Kept
  <1>5. ASSUME NEW c \in Callers, DropFirst(c) \/ DropSecond(c)
        PROVE  Kept(d)
    <2>1. PICK f \in LockFiles : Discard(c, f)
      BY <1>5 DEF DropFirst, DropSecond, DropOrder, LockFiles
    <2>2. f \in held[c] => guard[c][f] # d
      BY <1>0 DEF Table, AliasApart
    <2>3. \/ /\ f \in held[c]
             /\ mode' = [mode EXCEPT ![guard[c][f]] = "none"] /\ aliased' = aliased \ {guard[c][f]}
          \/ /\ f \notin held[c]
             /\ mode' = [mode EXCEPT ![guard[c][f]] = IF refs[guard[c][f]] \subseteq {c} THEN "none" ELSE @]
             /\ aliased' = IF refs[guard[c][f]] \subseteq {c} THEN aliased \ {guard[c][f]} ELSE aliased
      BY <2>1 DEF Discard, DropLock, Close
    <2>4. CASE guard[c][f] # d
      BY <1>0, <1>1, <2>3, <2>4 DEF Types, Kept
    <2>5. CASE guard[c][f] = d
      <3>1. /\ mode' = [mode EXCEPT ![d] = IF refs[d] \subseteq {c} THEN "none" ELSE mode[d]]
            /\ aliased' = IF refs[d] \subseteq {c} THEN aliased \ {d} ELSE aliased
        BY <2>2, <2>3, <2>5
      <3>2. c # Child
        BY StateLocksAssumption
      <3>3. CASE refs[d] \subseteq {c}
        BY <3>1, <3>2, <3>3 DEF Kept
      <3>4. CASE ~(refs[d] \subseteq {c})
        BY <1>0, <1>1, <3>1, <3>4 DEF Types, Kept
      <3> QED BY <3>3, <3>4
    <2> QED BY <2>4, <2>5
  <1>6. ASSUME NEW e \in Descs, AliasLocks(e)
        PROVE  Kept(d)
    <2>1. mode' = [mode EXCEPT ![e] = "exclusive"] /\ mode[e] = "none"
          /\ aliased' = aliased \cup {e}
      BY <1>6 DEF AliasLocks
    <2>2. e # d
      BY <2>1 DEF Aliased
    <2> QED BY <1>0, <1>1, <2>1, <2>2 DEF Types, Kept
  <1>7. ASSUME NEW u, u = {Child} \/ (Child \notin u), CloseAll(u)
        PROVE  Kept(d)
    BY <1>1, <1>7 DEF CloseAll, Kept
  <1>8. ASSUME NEW c \in Callers, Acquisition(c)
        PROVE  Kept(d)
    <2>1. CASE LockMaintenance(c) \/ LockInstance(c)
      BY <1>3, <2>1
    <2>2. CASE Check(c) \/ VerifyMaintenance(c) \/ VerifyInstance(c) \/ Fail(c)
      BY <1>2, <2>2 DEF Check, VerifyMaintenance, VerifyInstance, Fail
    <2>3. CASE \E e \in Descs : OpenInstance(c, e) \/ \E k \in Kinds : Begin(c, k, e)
      BY <1>2, <2>3 DEF OpenInstance, Begin
    <2> QED BY <1>8, <2>1, <2>2, <2>3 DEF Acquisition
  <1>9. ASSUME NEW c \in Callers, Departure(c)
        PROVE  Kept(d)
    <2>1. CASE Release(c) \/ GiveUp(c)
      BY <1>2, <2>1 DEF Release, GiveUp
    <2> QED BY <1>4, <1>5, <1>9, <2>1 DEF Departure
  <1>10. ASSUME NEW c \in Callers, Fork(c) \/ Maintain(c) \/ Crash(c)
         PROVE  Kept(d)
    <2>1. CASE Fork(c) \/ Maintain(c)
      BY <1>2, <2>1 DEF Fork, Maintain
    <2>2. CASE Crash(c)
      <3>1. CloseAll({c}) /\ Child \notin {c}
        BY <2>2, StateLocksAssumption DEF Crash
      <3> QED BY <1>7, <3>1
    <2> QED BY <1>10, <2>1, <2>2
  <1>11. Exec => Kept(d)
    BY <1>7 DEF Exec
  <1>12. ASSUME NEW f \in LockFiles, Replace(f) PROVE Kept(d)
    BY <1>2, <1>12 DEF Replace
  <1> QED BY <1>6, <1>8, <1>9, <1>10, <1>11, <1>12 DEF Next

\* Only the child changes its locks, and it takes them exclusively.
LEMMA AliasedStep ==
  ASSUME IInv, Aliased, [Next]_vars
  PROVE  Aliased'
  <1>1. CASE UNCHANGED vars
    BY <1>1 DEF vars, Aliased
  <1>2. ASSUME Next, NEW d \in aliased' PROVE mode'[d] = "exclusive"
    <2>1. CASE d \in aliased
      BY <1>2, <2>1, HandoffStep DEF Kept, Aliased
    <2>2. CASE d \notin aliased
      <3>1. PICK e \in Descs : AliasLocks(e)
        BY <1>2, <2>2, AliasedFrame
      <3>2. d = e
        BY <1>2, <2>2, <3>1 DEF AliasLocks
      <3> QED BY <3>1, <3>2 DEF AliasLocks, IInv, Types
    <2> QED BY <2>1, <2>2
  <1> QED BY <1>1, <1>2 DEF Aliased

\* Whatever the old guard does on its way out, a lock that its child took over
\* stays until the child closes it.
THEOREM HandoffKept == Spec => HandoffLasts
  <1>1. Init => Aliased
    BY DEF Init, Aliased
  <1>2. IInv /\ Aliased /\ [Next]_vars => Aliased'
    BY AliasedStep
  <1>3. IInv /\ Aliased /\ [Next]_vars =>
          [\A d \in aliased : Child \in refs[d] /\ Child \in refs'[d]
             => d \in aliased' /\ mode'[d] = mode[d]]_vars
    BY HandoffStep DEF Kept
  <1> QED BY <1>1, <1>2, <1>3, Inductive, PTL DEF Spec, HandoffLasts

\* No lock outlives its guard unless a child took it over, and then the guard
\* does not end it.
THEOREM LocksGoWithGuards == Spec => LocksFollowTheirGuards
  <1> QED BY NothingLeftBehind, HandoffKept, PTL DEF LocksFollowTheirGuards

-----------------------------------------------------------------------------
\* The files of the state (StateFiles).

Owners == {Root, "service"}
Modes == {"private", "special", "shared"}
Held == {"directory", "pinned", "held", "file", "fchown", "descriptor", "name", "again", "opened", "verify"}
WithFile == {"fchown", "descriptor", "name", "again", "opened", "verify"}

Directory == [owner : Owners, mode : Modes, file : Nat \cup {Missing}]
File == [owner : Owners, private : BOOLEAN]
Task == [at : {"idle", "mkdir", "open", "openat"} \cup Held,
         directory : Nat \cup {Missing}, administers : BOOLEAN, create : BOOLEAN,
         file : Nat \cup {Missing}, reached : Nat \cup {Missing},
         verified : BOOLEAN, exchanged : Nat]

FilesTypes ==
  /\ directories \in Seq(Directory) /\ files \in Seq(File)
  /\ task \in [Programs -> Task]
  /\ IF directories = <<>> THEN place = Missing ELSE place \in DOMAIN directories

\* Whoever makes or exchanges the directory, its owner stays the same.
Alike == \A d, e \in DOMAIN directories : directories[d].owner = directories[e].owner

\* A file has one name in one directory.
Homes ==
  /\ \A d \in DOMAIN directories : directories[d].file # Missing => directories[d].file \in 1..Len(files)
  /\ \A d, e \in DOMAIN directories :
       directories[d].file = directories[e].file /\ directories[d].file # Missing => d = e

\* What a program knows of its directory.
Handles(p, t) ==
  /\ t.at \in {"open", "openat"} => place # Missing
  /\ t.at \in Held => t.directory \in DOMAIN directories
  /\ t.at \in Held \ {"pinned", "held"} /\ ~t.administers => directories[t.directory].owner = Uid(p)

\* What it knows of its file: no other directory than the one it was reached through
\* has it.
Reached(t) ==
  t.at \in WithFile =>
    /\ t.file \in 1..Len(files) /\ t.reached \in Nat
    /\ \A d \in DOMAIN directories : directories[d].file = t.file => d = t.reached
    /\ t.administers => t.reached = t.directory

\* How often the path must have been exchanged for what it sees.
Counted(t) ==
  /\ t.at \in {"file", "verify"} /\ ~t.administers /\ place # t.directory => t.exchanged >= 1
  /\ t.at \in WithFile \ {"opened", "verify"} /\ t.reached # t.directory =>
       t.exchanged >= 1 /\ (place = t.directory => t.exchanged >= 2)
  /\ t.at = "opened" /\ t.reached # t.directory => t.exchanged >= (IF t.verified THEN 1 ELSE 2)
  /\ t.at = "verify" => t.verified

Knows(p, t) == Handles(p, t) /\ Reached(t) /\ Counted(t)

FilesInv == FilesTypes /\ Alike /\ Homes /\ KeepsItsOwner /\ \A p \in Programs : Knows(p, task[p])

-----------------------------------------------------------------------------
LEMMA Owned == \A p \in Programs : Uid(p) \in Owners
  BY DEF Uid, Owners

LEMMA Idle == Resting \in Task /\ \A p \in Programs : Knows(p, Resting)
<1>1. Resting \in Task
  BY DEF Resting, Task
<1>2. \A p \in Programs : Knows(p, Resting)
  BY DEF Resting, Knows, Handles, Reached, Counted, Held, WithFile
<1> QED BY <1>1, <1>2

LEMMA FilesInitHolds == StateInit => FilesInv
<1> SUFFICES ASSUME StateInit PROVE FilesInv
  OBVIOUS
<1>1. directories \in Seq(Directory) /\ Len(directories) <= 1
  <2> DEFINE first == [owner |-> "service", mode |-> "private", file |-> Missing]
  <2>1. first \in Directory
    BY DEF Directory, Owners, Modes
  <2>2. <<>> \in Seq(Directory) /\ Len(<<>>) = 0
    OBVIOUS
  <2>3. <<first>> \in Seq(Directory) /\ Len(<<first>>) = 1
    BY <2>1
  <2>4. directories = <<>> \/ directories = <<first>>
    BY DEF StateInit
  <2> HIDE DEF first
  <2>5. CASE directories = <<>>
    BY <2>2, <2>5
  <2>6. CASE directories = <<first>>
    BY <2>3, <2>6
  <2> QED BY <2>4, <2>5, <2>6
<1>2. FilesTypes
  BY <1>1, Idle DEF StateInit, FilesTypes
<1>3. \A d \in DOMAIN directories : directories[d].file = Missing
  BY DEF StateInit
<1>4. Alike /\ Homes /\ KeepsItsOwner
  BY <1>1, <1>3 DEF Alike, Homes, KeepsItsOwner
<1>5. \A p \in Programs : Knows(p, task[p])
  BY Idle DEF StateInit
<1> QED BY <1>2, <1>4, <1>5 DEF FilesInv

\* A step of one program that changes neither the directories nor the files.
LEMMA OnlyATask ==
  ASSUME FilesInv, NEW p \in Programs, NEW t \in Task, Knows(p, t), Becomes(p, t),
         UNCHANGED <<directories, place, files>>, abandoned \subseteq abandoned',
         task[p].at = "fchown" => task[p].file \in abandoned'
  PROVE  FilesInv'
<1> USE DEF FilesInv
<1>1. FilesTypes'
  BY DEF FilesTypes, Becomes
<1>2. Alike' /\ Homes'
  BY DEF Alike, Homes
<1>3. KeepsItsOwner'
  BY DEF KeepsItsOwner, FilesTypes, Becomes
<1>4. ASSUME NEW q \in Programs PROVE Knows(q, task[q])'
  <2>1. Knows(q, task'[q])
    BY DEF Becomes, FilesTypes
  <2> QED BY <2>1 DEF Knows, Handles, Reached, Counted
<1> QED BY <1>1, <1>2, <1>3, <1>4

-----------------------------------------------------------------------------
\* The first directory.

LEMMA NobodyYet ==
  ASSUME FilesInv, place = Missing
  PROVE  directories = <<>> /\ \A p \in Programs : task[p].at \in {"idle", "mkdir"}
<1>1. directories = <<>>
  <2>1. DOMAIN directories \subseteq Nat
    BY DEF FilesInv, FilesTypes
  <2> QED BY <2>1, StateFilesAssumption DEF FilesInv, FilesTypes
<1>2. ASSUME NEW p \in Programs PROVE task[p].at \in {"idle", "mkdir"}
  <2>1. Handles(p, task[p]) /\ task[p] \in Task
    BY DEF FilesInv, FilesTypes, Knows
  <2>2. task[p].at \notin Held
    BY <1>1, <2>1 DEF Handles
  <2> QED BY <2>1, <2>2 DEF Handles, Task
<1> QED BY <1>1, <1>2

LEMMA FirstDirectory ==
  ASSUME FilesInv, place = Missing, NEW p \in Programs, NEW t \in Task,
         t.at \in {"open", "openat"}, NewDirectory(p), Becomes(p, t), UNCHANGED files
  PROVE  FilesInv'
<1> DEFINE new == [owner |-> Uid(p), file |-> Missing, mode |-> IF inherits THEN "special" ELSE "private"]
<1>1. directories = <<>> /\ \A q \in Programs : task[q].at \in {"idle", "mkdir"}
  BY NobodyYet
<1>2. new \in Directory
  BY Owned DEF Directory, Modes
<1>3. directories' = <<new>> /\ place' = 1
  BY <1>1 DEF NewDirectory
<1>4. directories' \in Seq(Directory) /\ DOMAIN directories' = {1} /\ directories'[1] = new /\ directories' # <<>>
  BY <1>2, <1>3
<1>5. FilesTypes'
  BY <1>3, <1>4 DEF FilesInv, FilesTypes, Becomes
<1>6. Alike' /\ Homes' /\ KeepsItsOwner'
  BY <1>4 DEF Alike, Homes, KeepsItsOwner
<1>7. ASSUME NEW q \in Programs PROVE Knows(q, task[q])'
  <2>1. task'[q].at \in {"idle", "mkdir", "open", "openat"}
    BY <1>1 DEF FilesInv, FilesTypes, Becomes
  <2>2. place' # Missing
    BY <1>3, StateFilesAssumption
  <2> QED BY <2>1, <2>2 DEF Knows, Handles, Reached, Counted, Held, WithFile
<1> QED BY <1>5, <1>6, <1>7 DEF FilesInv

-----------------------------------------------------------------------------
\* Opening and creating directories.

LEMMA StaysAsItWas ==
  ASSUME FilesInv, NEW p \in Programs, Becomes(p, Resting), UNCHANGED <<directories, place, files>>, Unchanged,
         task[p].at # "fchown"
  PROVE  FilesInv'
  BY OnlyATask, Idle DEF Unchanged

LEMMA CreateStateKeeps == ASSUME FilesInv, NEW p \in Programs, CreateState(p) PROVE FilesInv'
<1> DEFINE t == [task[p] EXCEPT !.at = "mkdir"]
<1>1. t \in Task /\ t.at = "mkdir"
  BY DEF FilesInv, FilesTypes, Task
<1>2. Knows(p, t)
  BY <1>1 DEF Knows, Handles, Reached, Counted, Held, WithFile
<1> HIDE DEF t
<1> QED BY <1>1, <1>2, OnlyATask DEF CreateState, Proceeds, Unchanged, t

LEMMA MakeStateKeeps == ASSUME FilesInv, NEW p \in Programs, MakeState(p) PROVE FilesInv'
<1>1. CASE place = Missing
  <2> DEFINE t == [task[p] EXCEPT !.at = "open"]
  <2>1. t \in Task /\ t.at = "open"
    BY DEF FilesInv, FilesTypes, Task
  <2>2. Becomes(p, t) /\ NewDirectory(p) /\ UNCHANGED files
    BY <1>1 DEF MakeState, Proceeds
  <2> HIDE DEF t
  <2> QED BY <1>1, <2>1, <2>2, FirstDirectory
<1>2. CASE place # Missing
  BY <1>2, StaysAsItWas DEF MakeState
<1> QED BY <1>1, <1>2

\* A handle on the directory the path leads to.
LEMMA EntersKeeps ==
  ASSUME FilesInv, NEW p \in Programs, place # Missing, NEW at \in {"directory", "pinned", "held"},
         NEW administers \in BOOLEAN, Enters(p, at, place, administers),
         at = "directory" => directories[place].owner = Uid(p),
         UNCHANGED <<directories, place, files>>, Unchanged, task[p].at # "fchown"
  PROVE  FilesInv'
<1> DEFINE t == [Resting EXCEPT !.at = at, !.directory = place, !.administers = administers]
<1>1. place \in DOMAIN directories /\ place \in Nat
  BY DEF FilesInv, FilesTypes
<1>2. /\ t \in Task /\ t.at = at /\ t.directory = place
      /\ t.administers = administers
  BY <1>1 DEF Resting, Task, Held
<1>3. Knows(p, t)
  BY <1>1, <1>2 DEF Knows, Handles, Reached, Counted, Held, WithFile
<1>4. Becomes(p, t)
  BY DEF Enters
<1> HIDE DEF t
<1> QED BY <1>2, <1>3, <1>4, OnlyATask DEF Unchanged

LEMMA OpenStateKeeps == ASSUME FilesInv, NEW p \in Programs, OpenState(p) PROVE FilesInv'
<1>1. place # Missing
  BY DEF OpenState, FilesInv, Knows, Handles
<1>2. CASE RequiredOf(place, Uid(p))
  BY <1>1, <1>2, EntersKeeps DEF OpenState, RequiredOf
<1>3. CASE ~RequiredOf(place, Uid(p))
  BY <1>3, StaysAsItWas DEF OpenState
<1> QED BY <1>2, <1>3

LEMMA OpenForAdministrationKeeps ==
  ASSUME FilesInv, NEW p \in Programs, OpenForAdministration(p) PROVE FilesInv'
  BY EntersKeeps DEF OpenForAdministration

LEMMA OpenPrivateKeeps ==
  ASSUME FilesInv, NEW p \in Programs, NEW administrator \in BOOLEAN, OpenPrivate(p, administrator)
  PROVE  FilesInv'
  BY EntersKeeps DEF OpenPrivate

LEMMA MakePrivateKeeps ==
  ASSUME FilesInv, NEW p \in Programs, NEW administrator \in BOOLEAN, MakePrivate(p, administrator)
  PROVE  FilesInv'
<1> DEFINE t == [Resting EXCEPT !.at = "openat", !.directory = Missing, !.administers = administrator]
<1>1. t \in Task /\ t.at = "openat"
  BY DEF Resting, Task
<1>2. Becomes(p, t) /\ task[p].at = "idle" /\ UNCHANGED files /\ Unchanged
  BY DEF MakePrivate, Enters
<1>3. CASE place = Missing
  <2>1. NewDirectory(p)
    BY <1>3 DEF MakePrivate
  <2> HIDE DEF t
  <2> QED BY <1>1, <1>2, <1>3, <2>1, FirstDirectory
<1>4. CASE place # Missing
  <2>1. UNCHANGED <<directories, place>>
    BY <1>4 DEF MakePrivate
  <2>2. Knows(p, t)
    BY <1>1, <1>4 DEF Knows, Handles, Reached, Counted, Held, WithFile
  <2> HIDE DEF t
  <2> QED BY <1>1, <1>2, <2>1, <2>2, OnlyATask DEF Unchanged
<1> QED BY <1>3, <1>4

LEMMA EnterPrivateKeeps == ASSUME FilesInv, NEW p \in Programs, EnterPrivate(p) PROVE FilesInv'
<1>1. place # Missing /\ task[p].administers \in BOOLEAN
  BY DEF EnterPrivate, FilesInv, Knows, Handles, FilesTypes, Task
<1>2. CASE ValidFor(p, place, task[p].administers)
  BY <1>1, <1>2, EntersKeeps DEF EnterPrivate
<1>3. CASE ~ValidFor(p, place, task[p].administers)
  BY <1>3, StaysAsItWas DEF EnterPrivate
<1> QED BY <1>2, <1>3

-----------------------------------------------------------------------------
\* Opening files.

LEMMA GivesUpKeeps ==
  ASSUME FilesInv, NEW p \in Programs, GivesUp(p), task[p].at \in Held \ {"pinned", "held"},
         UNCHANGED <<directories, place, files>>, abandoned \subseteq abandoned',
         task[p].at = "fchown" => task[p].file \in abandoned'
  PROVE  FilesInv'
<1> DEFINE t == [Resting EXCEPT !.at = "directory", !.directory = task[p].directory,
                                !.administers = task[p].administers]
<1>1. Handles(p, task[p]) /\ task[p] \in Task
  BY DEF FilesInv, FilesTypes, Knows
<1>2. /\ t \in Task /\ t.at = "directory" /\ t.directory = task[p].directory
      /\ t.administers = task[p].administers
  BY <1>1 DEF Resting, Task, Held
<1>3. Becomes(p, t)
  BY DEF GivesUp, Enters
<1> HIDE DEF t
<1>4. Knows(p, t)
  BY <1>1, <1>2 DEF Knows, Handles, Reached, Counted, Held, WithFile
<1> QED BY <1>2, <1>3, <1>4, OnlyATask

LEMMA ConfirmPinnedKeeps == ASSUME FilesInv, NEW p \in Programs, ConfirmPinned(p) PROVE FilesInv'
<1>1. CASE SameDirectory(p)
  <2> DEFINE t == [task[p] EXCEPT !.at = "directory"]
  <2>1. Handles(p, task[p]) /\ task[p] \in Task /\ task[p].at = "pinned"
    BY DEF FilesInv, FilesTypes, Knows, ConfirmPinned
  <2>2. t \in Task /\ t.at = "directory" /\ t.directory = task[p].directory /\ t.administers = task[p].administers
    BY <2>1 DEF Task, Held
  <2>3. Becomes(p, t) /\ UNCHANGED <<directories, place, files>> /\ Unchanged
    BY <1>1 DEF ConfirmPinned, Proceeds
  <2> HIDE DEF t
  <2>4. Knows(p, t)
    BY <1>1, <2>1, <2>2 DEF SameDirectory, RequiredOf, Knows, Handles, Reached, Counted, Held, WithFile
  <2> QED BY <2>1, <2>2, <2>3, <2>4, OnlyATask DEF Unchanged
<1>2. CASE ~SameDirectory(p)
  BY <1>2, StaysAsItWas DEF ConfirmPinned
<1> QED BY <1>1, <1>2

LEMMA OpenFileKeeps ==
  ASSUME FilesInv, NEW p \in Programs, NEW create \in BOOLEAN, OpenFile(p, create) PROVE FilesInv'
<1> DEFINE t == [task[p] EXCEPT !.at = "file", !.create = create, !.exchanged = 0]
<1>1. Handles(p, task[p]) /\ task[p] \in Task /\ task[p].at = "directory" /\ place = task[p].directory
  BY DEF FilesInv, FilesTypes, Knows, OpenFile, SameDirectory
<1>2. t \in Task /\ t.at = "file" /\ t.directory = task[p].directory /\ t.administers = task[p].administers
  BY <1>1 DEF Task, Held
<1>3. Becomes(p, t) /\ UNCHANGED <<directories, place, files>> /\ Unchanged
  BY DEF OpenFile
<1> HIDE DEF t
<1>4. Knows(p, t)
  BY <1>1, <1>2 DEF Knows, Handles, Reached, Counted, Held, WithFile
<1> QED BY <1>1, <1>2, <1>3, <1>4, OnlyATask DEF Unchanged

\* The file that the directory has, or will have, is reached.
Takes(p, t, f, at) == t = [task[p] EXCEPT !.at = at, !.file = f, !.reached = Target(p), !.create = FALSE]

LEMMA ReachedKnows ==
  ASSUME FilesInv, NEW p \in Programs, task[p].at = "file", NEW f \in Nat \ {0},
         NEW at \in {"fchown", "descriptor"}, NEW t, Takes(p, t, f, at)
  PROVE  /\ t \in Task /\ t.at = at /\ t.file = f /\ t.reached = Target(p) /\ t.reached \in DOMAIN directories
         /\ t.administers => t.reached = t.directory
         /\ Handles(p, t) /\ Counted(t)
<1>1. Knows(p, task[p]) /\ task[p] \in Task
  BY DEF FilesInv, FilesTypes
<1>2. task[p].directory \in DOMAIN directories
  BY <1>1 DEF Knows, Handles, Held
<1>3. place \in DOMAIN directories /\ DOMAIN directories \subseteq Nat
  BY <1>2 DEF FilesInv, FilesTypes
<1>4. Target(p) \in DOMAIN directories
  BY <1>2, <1>3 DEF Target
<1>5. /\ t \in Task /\ t.at = at /\ t.file = f /\ t.reached = Target(p) /\ t.directory = task[p].directory
      /\ t.administers = task[p].administers /\ t.exchanged = task[p].exchanged
  BY <1>1, <1>3, <1>4 DEF Task, Held, Takes
<1>6. t.administers => t.reached = t.directory
  BY <1>5 DEF Target
<1>7. Handles(p, t)
  BY <1>1, <1>5 DEF Knows, Handles, Held
<1>8. Counted(t)
  <2>1. CASE t.administers
    BY <2>1, <1>5, <1>6 DEF Counted
  <2>2. CASE ~t.administers
    <3>1. t.reached = place
      BY <2>2, <1>5 DEF Target
    <3> QED BY <2>2, <3>1, <1>1, <1>5 DEF Knows, Counted
  <2> QED BY <2>1, <2>2
<1> QED BY <1>4, <1>5, <1>6, <1>7, <1>8

\* A directory with another file, or another mode.
LEMMA DirectoryChanged ==
  ASSUME directories \in Seq(Directory), NEW d \in DOMAIN directories, NEW x \in Directory,
         directories' = [directories EXCEPT ![d] = x]
  PROVE  /\ directories' \in Seq(Directory) /\ DOMAIN directories' = DOMAIN directories
         /\ directories'[d] = x /\ \A e \in DOMAIN directories \ {d} : directories'[e] = directories[e]
<1>1. d \in 1..Len(directories)
  OBVIOUS
<1> QED BY <1>1, ExceptSeq

LEMMA OpenKeeps ==
  ASSUME FilesInv, NEW p \in Programs, task[p].at = "file",
         directories[Target(p)].file # Missing,
         Reaches(p, directories[Target(p)].file, Target(p), "descriptor"),
         UNCHANGED <<directories, place, files>>, Unchanged
  PROVE  FilesInv'
<1>1. PICK f, t : /\ f = directories[Target(p)].file
                  /\ t = [task[p] EXCEPT !.at = "descriptor", !.file = f, !.reached = Target(p), !.create = FALSE]
  OBVIOUS
<1>2. Target(p) \in DOMAIN directories
  <2>1. task[p].directory \in DOMAIN directories
    BY DEF FilesInv, Knows, Handles, Held
  <2> QED BY <2>1 DEF FilesInv, FilesTypes, Target
<1>3. f \in 1..Len(files) /\ f \in Nat \ {0}
  BY <1>1, <1>2 DEF FilesInv, Homes, FilesTypes
<1>4. /\ t \in Task /\ t.at = "descriptor" /\ t.file = f /\ t.reached = Target(p) /\ t.reached \in DOMAIN directories
      /\ t.administers => t.reached = t.directory
      /\ Handles(p, t) /\ Counted(t)
  <2>1. Takes(p, t, f, "descriptor")
    BY <1>1 DEF Takes
  <2> QED BY <1>3, <2>1, ReachedKnows
<1>5. Becomes(p, t)
  BY <1>1 DEF Reaches
<1>6. Reached(t)
  BY <1>1, <1>2, <1>3, <1>4 DEF FilesInv, Homes, FilesTypes, Reached
<1> QED BY <1>4, <1>5, <1>6, OnlyATask DEF Knows, Unchanged

\* The directories and their owners stay, and so does the path.
SameOwners ==
  /\ DOMAIN directories' = DOMAIN directories /\ place' = place
  /\ \A d \in DOMAIN directories : directories'[d].owner = directories[d].owner

LEMMA OwnersStay ==
  ASSUME FilesInv, SameOwners
  PROVE  Alike' /\ \A p \in Programs : \A t : (Handles(p, t) => Handles(p, t)') /\ (Counted(t) => Counted(t)')
<1>1. Alike'
  BY DEF FilesInv, Alike, SameOwners
<1>2. ASSUME NEW p \in Programs, NEW t PROVE Handles(p, t) => Handles(p, t)'
  BY DEF Handles, SameOwners, Held
<1>3. ASSUME NEW t PROVE Counted(t) => Counted(t)'
  BY DEF Counted, SameOwners
<1> QED BY <1>1, <1>2, <1>3

LEMMA CreateKeeps ==
  ASSUME FilesInv, NEW p \in Programs, task[p].at = "file",
         directories[Target(p)].file = Missing, MayUseIt(p, directories[Target(p)].owner),
         NewFile(p, Target(p)),
         Reaches(p, Len(files) + 1, Target(p), IF task[p].administers THEN "fchown" ELSE "descriptor"),
         UNCHANGED place, Unchanged
  PROVE  FilesInv'
<1>1. PICK d, new, at : d = Target(p) /\ new = Len(files) + 1 /\ at = IF task[p].administers THEN "fchown" ELSE "descriptor"
  OBVIOUS
<1>t. PICK t : t = [task[p] EXCEPT !.at = at, !.file = new, !.reached = d, !.create = FALSE]
  OBVIOUS
<1>2. /\ t \in Task /\ t.at = at /\ t.file = new /\ t.reached = d /\ d \in DOMAIN directories
      /\ t.administers => t.reached = t.directory
      /\ Handles(p, t) /\ Counted(t)
  <2>1. Len(files) + 1 \in Nat \ {0} /\ at \in {"fchown", "descriptor"}
    BY <1>1 DEF FilesInv, FilesTypes
  <2>2. Takes(p, t, new, at)
    BY <1>1, <1>t DEF Takes
  <2>3. new \in Nat \ {0} /\ d = Target(p)
    BY <1>1, <2>1
  <2> QED BY <2>1, <2>2, <2>3, ReachedKnows
<1>3. Becomes(p, t)
  BY <1>1, <1>t DEF Reaches
<1>4. files' = Append(files, [owner |-> Uid(p), private |-> TRUE]) /\ directories' = [directories EXCEPT ![d].file = new]
  BY <1>1 DEF NewFile
<1>5. Knows(p, task[p]) /\ task[p] \in Task
  BY DEF FilesInv, FilesTypes
<1>6. directories[d].owner = Uid(p) \/ task[p].administers
  <2>1. ~task[p].administers => task[p].directory \in DOMAIN directories /\ directories[task[p].directory].owner = Uid(p)
    BY <1>5 DEF Knows, Handles, Held
  <2> QED BY <2>1, <1>1, <1>2 DEF FilesInv, Alike, MayUseIt, Target, FilesTypes
<1>7. task[p].administers => t.at = "fchown"
  BY <1>1, <1>2
<1>8. files' \in Seq(File) /\ Len(files') = new /\ files'[new].owner = Uid(p) /\ \A f \in 1..Len(files) : files'[f] = files[f]
  <2>1. [owner |-> Uid(p), private |-> TRUE] \in File
    BY Owned DEF File
  <2> QED BY <1>1, <1>4, <2>1 DEF FilesInv, FilesTypes
<1>9. /\ directories' \in Seq(Directory) /\ DOMAIN directories' = DOMAIN directories
      /\ directories'[d].file = new /\ \A e \in DOMAIN directories \ {d} : directories'[e] = directories[e]
      /\ directories'[d].owner = directories[d].owner
  <2>1. directories[d] \in Directory
    BY <1>2 DEF FilesInv, FilesTypes
  <2>2. new \in Nat
    BY <1>1 DEF FilesInv, FilesTypes
  <2>3. PICK x : x = [directories[d] EXCEPT !.file = new]
    OBVIOUS
  <2>4. x \in Directory /\ x.file = new /\ x.owner = directories[d].owner
    BY <2>1, <2>2, <2>3 DEF Directory
  <2>5. directories' = [directories EXCEPT ![d] = x]
    BY <1>4, <2>3
  <2> QED BY <1>2, <2>4, <2>5, DirectoryChanged DEF FilesInv, FilesTypes
<1>10. SameOwners
  BY <1>9 DEF SameOwners
<1>11. FilesTypes'
  <2>1. task' \in [Programs -> Task]
    BY <1>2, <1>3 DEF FilesInv, FilesTypes, Becomes
  <2>2. directories # <<>> /\ directories' # <<>>
    BY <1>2, <1>9 DEF FilesInv, FilesTypes
  <2> QED BY <2>1, <2>2, <1>8, <1>9 DEF FilesInv, FilesTypes
<1>12. \A e \in DOMAIN directories \ {d} : directories[e].file # Missing => directories[e].file \in 1..Len(files)
  BY DEF FilesInv, Homes
<1>13. new \notin 1..Len(files) /\ 1..Len(files) \subseteq 1..new /\ new \in 1..new
  BY <1>1 DEF FilesInv, FilesTypes
<1>14. Homes'
  <2>1. \A e \in DOMAIN directories' : directories'[e].file # Missing => directories'[e].file \in 1..Len(files')
    BY <1>8, <1>9, <1>12, <1>13
  <2>2. ASSUME NEW e \in DOMAIN directories', NEW g \in DOMAIN directories',
               directories'[e].file = directories'[g].file, directories'[e].file # Missing
        PROVE  e = g
    BY <2>2, <1>9, <1>12, <1>13 DEF FilesInv, Homes
  <2> QED BY <2>1, <2>2 DEF Homes
<1>15. KeepsItsOwner'
  <2> SUFFICES ASSUME NEW e \in DOMAIN directories', directories'[e].file # Missing
               PROVE  \/ files'[directories'[e].file].owner = directories'[e].owner
                      \/ directories'[e].file \in abandoned'
                      \/ \E q \in Programs : task'[q].at = "fchown" /\ task'[q].file = directories'[e].file
    BY DEF KeepsItsOwner
  <2>1. CASE e = d
    <3>1. task'[p] = t
      BY <1>3 DEF Becomes, FilesInv, FilesTypes
    <3>2. CASE directories[d].owner = Uid(p)
      BY <2>1, <3>2, <1>8, <1>9
    <3>3. CASE task[p].administers
      BY <2>1, <3>1, <3>3, <1>2, <1>7, <1>9
    <3> QED BY <3>2, <3>3, <1>6
  <2>2. CASE e # d
    <3>1. directories'[e] = directories[e] /\ e \in DOMAIN directories /\ directories[e].file \in 1..Len(files)
      BY <2>2, <1>9, <1>12
    <3>2. \A q \in Programs : task[q].at = "fchown" => task'[q] = task[q]
      BY <1>3 DEF Becomes, FilesInv, FilesTypes
    <3> QED BY <3>1, <3>2, <1>8 DEF FilesInv, KeepsItsOwner, Unchanged
  <2> QED BY <2>1, <2>2
<1>16. ASSUME NEW q \in Programs PROVE Knows(q, task[q])'
  <2>1. Reached(t)'
    <3>1. t.file \in 1..Len(files') /\ t.reached \in Nat
      BY <1>2, <1>8, <1>13 DEF FilesInv, FilesTypes
    <3>2. \A e \in DOMAIN directories' : directories'[e].file = t.file => e = t.reached
      <4>1. \A e \in DOMAIN directories \ {d} : directories[e].file # new
        BY <1>1, <1>12, <1>13, StateFilesAssumption DEF FilesInv, FilesTypes
      <4> QED BY <4>1, <1>2, <1>9
    <3> QED BY <1>2, <3>1, <3>2 DEF Reached
  <2>2. Handles(p, t)' /\ Counted(t)'
    BY <1>2, <1>10, OwnersStay
  <2>3. task'[p] = t /\ (q # p => task'[q] = task[q])
    BY <1>3 DEF Becomes, FilesInv, FilesTypes
  <2>4. CASE q = p
    BY <2>1, <2>2, <2>3, <2>4 DEF Knows, Handles, Counted, Reached
  <2>5. CASE q # p
    <3>1. PICK u : u = task[q]
      OBVIOUS
    <3>2. Knows(q, u)
      BY <3>1 DEF FilesInv
    <3>3. Handles(q, u)' /\ Counted(u)'
      BY <3>2, <1>10, OwnersStay DEF Knows
    <3>4. Reached(u)'
      BY <3>2, <1>8, <1>9, <1>13 DEF Knows, Reached
    <3> QED BY <2>3, <2>5, <3>1, <3>3, <3>4 DEF Knows, Handles, Counted, Reached
  <2> QED BY <2>4, <2>5
<1> QED BY <1>10, <1>11, <1>14, <1>15, <1>16, OwnersStay DEF FilesInv

LEMMA OpenOrCreateKeeps == ASSUME FilesInv, NEW p \in Programs, OpenOrCreate(p) PROVE FilesInv'
<1> USE DEF OpenOrCreate
<1>1. CASE GivesUp(p) /\ UNCHANGED <<directories, files>>
  BY <1>1, GivesUpKeeps DEF Unchanged, Held
<1>2. CASE /\ directories[Target(p)].file # Missing
           /\ Reaches(p, directories[Target(p)].file, Target(p), "descriptor")
           /\ UNCHANGED <<directories, files>>
  BY <1>2, OpenKeeps
<1>3. CASE /\ directories[Target(p)].file = Missing
           /\ MayUseIt(p, directories[Target(p)].owner)
           /\ NewFile(p, Target(p))
           /\ Reaches(p, Len(files) + 1, Target(p), IF task[p].administers THEN "fchown" ELSE "descriptor")
  BY <1>3, CreateKeeps
<1> QED BY <1>1, <1>2, <1>3

\* A step of a program whose record only changes in where it is.
LEMMA ProceedsKeeps ==
  ASSUME FilesInv, NEW p \in Programs, NEW at \in Held, Proceeds(p, at),
         UNCHANGED <<directories, place, files>>, Unchanged, task[p].at # "fchown",
         \A t : t.at = at /\ t.directory = task[p].directory /\ t.administers = task[p].administers
                /\ t.file = task[p].file /\ t.reached = task[p].reached
                /\ t.verified = task[p].verified /\ t.exchanged = task[p].exchanged
                => Knows(p, t)
  PROVE  FilesInv'
<1>1. task[p] \in Task
  BY DEF FilesInv, FilesTypes
<1>2. PICK t : t = [task[p] EXCEPT !.at = at]
  OBVIOUS
<1>3. /\ t \in Task /\ t.at = at /\ t.directory = task[p].directory /\ t.administers = task[p].administers
      /\ t.file = task[p].file /\ t.reached = task[p].reached
      /\ t.verified = task[p].verified /\ t.exchanged = task[p].exchanged
  BY <1>1, <1>2 DEF Task
<1>4. Becomes(p, t)
  BY <1>2 DEF Proceeds
<1> QED BY <1>3, <1>4, OnlyATask DEF Unchanged

LEMMA CheckDescriptorKeeps == ASSUME FilesInv, NEW p \in Programs, CheckDescriptor(p) PROVE FilesInv'
<1> USE DEF CheckDescriptor, Checks
<1>1. CASE RequiredFile(task[p].file, Expected(p))
  <2>1. Knows(p, task[p])
    BY DEF FilesInv
  <2>2. \A t : t.at = "name" /\ t.directory = task[p].directory /\ t.administers = task[p].administers
               /\ t.file = task[p].file /\ t.reached = task[p].reached
               /\ t.verified = task[p].verified /\ t.exchanged = task[p].exchanged
               => Knows(p, t)
    BY <2>1 DEF Knows, Handles, Reached, Counted, Held, WithFile
  <2> QED BY <1>1, <2>2, ProceedsKeeps DEF Held
<1>2. CASE ~RequiredFile(task[p].file, Expected(p))
  BY <1>2, GivesUpKeeps DEF Unchanged, Held
<1> QED BY <1>1, <1>2

LEMMA CheckNameKeeps == ASSUME FilesInv, NEW p \in Programs, CheckName(p) PROVE FilesInv'
<1> USE DEF CheckName, Checks
<1>1. CASE StillNamed(p)
  <2>1. Knows(p, task[p])
    BY DEF FilesInv
  <2>2. \A t : t.at = "again" /\ t.directory = task[p].directory /\ t.administers = task[p].administers
               /\ t.file = task[p].file /\ t.reached = task[p].reached
               /\ t.verified = task[p].verified /\ t.exchanged = task[p].exchanged
               => Knows(p, t)
    BY <2>1 DEF Knows, Handles, Reached, Counted, Held, WithFile
  <2> QED BY <1>1, <2>2, ProceedsKeeps DEF Held
<1>2. CASE ~StillNamed(p)
  BY <1>2, GivesUpKeeps DEF Unchanged, Held
<1> QED BY <1>1, <1>2

\* The path leads to the handle's directory again: if it led elsewhere when the file
\* was opened, it was exchanged twice.
LEMMA CheckAgainKeeps == ASSUME FilesInv, NEW p \in Programs, CheckAgain(p) PROVE FilesInv'
<1> USE DEF CheckAgain, Checks, VerifiedAgain
<1>1. CASE SameDirectory(p)
  <2>1. Knows(p, task[p]) /\ place = task[p].directory /\ task[p].exchanged \in Nat
    BY <1>1 DEF FilesInv, SameDirectory, FilesTypes, Task
  <2>2. task[p].reached # task[p].directory => task[p].exchanged >= 2
    BY <2>1 DEF Knows, Counted, WithFile
  <2>3. \A t : t.at = "opened" /\ t.directory = task[p].directory /\ t.administers = task[p].administers
               /\ t.file = task[p].file /\ t.reached = task[p].reached
               /\ t.verified = task[p].verified /\ t.exchanged = task[p].exchanged
               => Knows(p, t)
    BY <2>1, <2>2 DEF Knows, Handles, Reached, Counted, Held, WithFile
  <2> QED BY <1>1, <2>3, ProceedsKeeps DEF Held
<1>2. CASE ~SameDirectory(p)
  BY <1>2, GivesUpKeeps DEF Unchanged, Held
<1> QED BY <1>1, <1>2

LEMMA VerifyDirectoryKeeps == ASSUME FilesInv, NEW p \in Programs, VerifyDirectory(p) PROVE FilesInv'
<1> USE DEF VerifyDirectory
<1>1. CASE SameDirectory(p)
  <2>1. Knows(p, task[p]) /\ place = task[p].directory /\ task[p] \in Task
    BY <1>1 DEF FilesInv, SameDirectory, FilesTypes
  <2>2. PICK t : t = [task[p] EXCEPT !.at = "verify", !.exchanged = 0, !.verified = TRUE]
    OBVIOUS
  <2>3. /\ t \in Task /\ t.at = "verify" /\ t.directory = task[p].directory /\ t.administers = task[p].administers
        /\ t.file = task[p].file /\ t.reached = task[p].reached /\ t.verified
    BY <2>1, <2>2 DEF Task, Held
  <2>4. Knows(p, t)
    BY <2>1, <2>3 DEF Knows, Handles, Reached, Counted, Held, WithFile
  <2>5. Becomes(p, t)
    BY <1>1, <2>2
  <2> QED BY <2>3, <2>4, <2>5, OnlyATask DEF Unchanged
<1>2. CASE ~SameDirectory(p)
  BY <1>2, GivesUpKeeps DEF Unchanged, Held
<1> QED BY <1>1, <1>2

\* The path leads to a directory with the file, and only the one it was reached
\* through has it.
LEMMA VerifyFileKeeps == ASSUME FilesInv, NEW p \in Programs, VerifyFile(p) PROVE FilesInv'
<1> USE DEF VerifyFile, Checks
<1>1. CASE StillNamed(p)
  <2>1. Knows(p, task[p]) /\ task[p] \in Task /\ task[p].at = "verify"
    BY DEF FilesInv, FilesTypes
  <2>2. task[p].directory \in DOMAIN directories
    BY <2>1 DEF Knows, Handles, Held
  <2>3. place \in DOMAIN directories
    BY <2>2 DEF FilesInv, FilesTypes
  <2>4. place = task[p].reached
    BY <1>1, <2>1, <2>3 DEF StillNamed, Knows, Reached, WithFile
  <2>5. task[p].reached # task[p].directory => task[p].exchanged >= 1 /\ task[p].verified
    BY <2>1, <2>4 DEF Knows, Reached, Counted, WithFile
  <2>6. \A t : t.at = "opened" /\ t.directory = task[p].directory /\ t.administers = task[p].administers
               /\ t.file = task[p].file /\ t.reached = task[p].reached
               /\ t.verified = task[p].verified /\ t.exchanged = task[p].exchanged
               => Knows(p, t)
    BY <2>1, <2>5 DEF Knows, Handles, Reached, Counted, Held, WithFile
  <2> QED BY <1>1, <2>6, ProceedsKeeps DEF Held
<1>2. CASE ~StillNamed(p)
  BY <1>2, GivesUpKeeps DEF Unchanged, Held
<1> QED BY <1>1, <1>2

LEMMA AbandonKeeps == ASSUME FilesInv, NEW p \in Programs, Abandon(p) PROVE FilesInv'
<1>1. /\ UNCHANGED <<directories, place, files>> /\ abandoned \subseteq abandoned'
      /\ task[p].at = "fchown" => task[p].file \in abandoned'
  BY DEF Abandon
<1>2. CASE Becomes(p, Resting)
  BY <1>1, <1>2, OnlyATask, Idle
<1>3. CASE Opening(p) /\ GivesUp(p)
  BY <1>1, <1>3, GivesUpKeeps DEF Opening, Held
<1> QED BY <1>2, <1>3 DEF Abandon

\* A file with another owner, or another mode.
LEMMA FileChanged ==
  ASSUME FilesInv, NEW f \in 1..Len(files), NEW x \in File, files' = [files EXCEPT ![f] = x]
  PROVE  /\ files' \in Seq(File) /\ Len(files') = Len(files)
         /\ files'[f] = x /\ \A g \in 1..Len(files) \ {f} : files'[g] = files[g]
  BY ExceptSeq DEF FilesInv, FilesTypes

\* Nobody's knowledge is about what is in a file.
LEMMA FilesOnly ==
  ASSUME FilesInv, UNCHANGED <<directories, place>>, Len(files') = Len(files)
  PROVE  Alike' /\ Homes' /\ \A p \in Programs : \A t : Knows(p, t) => Knows(p, t)'
<1>1. Alike' /\ Homes'
  BY DEF FilesInv, Alike, Homes
<1>2. ASSUME NEW p \in Programs, NEW t PROVE Knows(p, t) => Knows(p, t)'
  BY DEF Knows, Handles, Reached, Counted
<1> QED BY <1>1, <1>2

LEMMA GiveAwayKeeps == ASSUME FilesInv, NEW p \in Programs, GiveAway(p) PROVE FilesInv'
<1>1. PICK f, o, t : /\ f = task[p].file /\ o = directories[task[p].directory].owner
                     /\ t = [task[p] EXCEPT !.at = "descriptor"]
  OBVIOUS
<1>2. Knows(p, task[p]) /\ task[p] \in Task /\ task[p].at = "fchown"
  BY DEF GiveAway, FilesInv, FilesTypes
<1>3. task[p].directory \in DOMAIN directories /\ f \in 1..Len(files)
  BY <1>1, <1>2 DEF Knows, Handles, Reached, Held, WithFile
<1>4. o \in Owners /\ \A d \in DOMAIN directories : directories[d].owner = o
  <2>1. directories[task[p].directory] \in Directory
    BY <1>3 DEF FilesInv, FilesTypes
  <2> QED BY <1>1, <1>3, <2>1 DEF FilesInv, Alike, Directory
<1>5. PICK x : x = [files[f] EXCEPT !.owner = o]
  OBVIOUS
<1>6. x \in File /\ x.owner = o
  <2>1. files[f] \in File
    BY <1>3 DEF FilesInv, FilesTypes
  <2> QED BY <1>4, <1>5, <2>1 DEF File
<1>7. files' = [files EXCEPT ![f] = x]
  BY <1>1, <1>5 DEF GiveAway
<1>8. /\ files' \in Seq(File) /\ Len(files') = Len(files)
      /\ files'[f].owner = o /\ \A g \in 1..Len(files) \ {f} : files'[g] = files[g]
  BY <1>3, <1>6, <1>7, FileChanged
<1>9. t \in Task /\ Knows(p, t)
  BY <1>1, <1>2 DEF Task, Held, WithFile, Knows, Handles, Reached, Counted
<1>10. Becomes(p, t) /\ UNCHANGED <<directories, place, abandoned>>
  BY <1>1 DEF GiveAway, Proceeds, Unchanged
<1>11. task' \in [Programs -> Task] /\ task'[p] = t /\ \A q \in Programs \ {p} : task'[q] = task[q]
  BY <1>9, <1>10 DEF Becomes, FilesInv, FilesTypes
<1>12. FilesTypes'
  BY <1>8, <1>10, <1>11 DEF FilesInv, FilesTypes
<1>13. KeepsItsOwner'
  <2> SUFFICES ASSUME NEW d \in DOMAIN directories, directories[d].file # Missing
               PROVE  \/ files'[directories[d].file].owner = directories[d].owner
                      \/ directories[d].file \in abandoned
                      \/ \E q \in Programs : task'[q].at = "fchown" /\ task'[q].file = directories[d].file
    BY <1>10 DEF KeepsItsOwner
  <2>1. directories[d].file \in 1..Len(files)
    BY DEF FilesInv, Homes
  <2>2. CASE directories[d].file = f
    BY <2>2, <1>4, <1>8
  <2>3. CASE directories[d].file # f
    BY <2>1, <2>3, <1>1, <1>8, <1>11 DEF FilesInv, KeepsItsOwner
  <2> QED BY <2>2, <2>3
<1>14. ASSUME NEW q \in Programs PROVE Knows(q, task[q])'
  <2>1. PICK u : u = task'[q]
    OBVIOUS
  <2>2. Knows(q, u)
    BY <2>1, <1>9, <1>11 DEF FilesInv
  <2>3. Knows(q, u)'
    BY <2>2, <1>8, <1>10, FilesOnly
  <2> QED BY <2>1, <2>3 DEF Knows, Handles, Reached, Counted
<1> QED BY <1>8, <1>10, <1>12, <1>13, <1>14, FilesOnly DEF FilesInv

-----------------------------------------------------------------------------
\* What others do.

LEMMA ExposeKeeps == ASSUME FilesInv, NEW f \in DOMAIN files, Expose(f) PROVE FilesInv'
<1>1. PICK x : x = [files[f] EXCEPT !.private = FALSE]
  OBVIOUS
<1>2. f \in 1..Len(files) /\ files[f] \in File
  BY DEF FilesInv, FilesTypes
<1>3. x \in File /\ x.owner = files[f].owner /\ files' = [files EXCEPT ![f] = x]
  BY <1>1, <1>2 DEF Expose, File
<1>4. /\ files' \in Seq(File) /\ Len(files') = Len(files)
      /\ \A g \in 1..Len(files) : files'[g].owner = files[g].owner
  BY <1>2, <1>3, FileChanged
<1>5. UNCHANGED <<directories, place, task, abandoned>>
  BY DEF Expose, Change
<1>6. FilesTypes' /\ KeepsItsOwner'
  BY <1>4, <1>5 DEF FilesInv, FilesTypes, KeepsItsOwner, Homes
<1>7. ASSUME NEW q \in Programs PROVE Knows(q, task[q])'
  BY <1>4, <1>5 DEF FilesInv, Knows, Handles, Reached, Counted
<1> QED BY <1>4, <1>5, <1>6, <1>7, FilesOnly DEF FilesInv

\* A directory with another mode, or without its file.
LEMMA DirectoryKeeps ==
  ASSUME FilesInv, NEW d \in DOMAIN directories, NEW x \in Directory,
         directories' = [directories EXCEPT ![d] = x],
         x.owner = directories[d].owner, x.file \in {directories[d].file, Missing},
         UNCHANGED <<place, files, task, abandoned>>
  PROVE  FilesInv'
<1>1. /\ directories' \in Seq(Directory) /\ DOMAIN directories' = DOMAIN directories
      /\ \A e \in DOMAIN directories : /\ directories'[e].owner = directories[e].owner
                                       /\ directories'[e].file \in {directories[e].file, Missing}
  BY DirectoryChanged DEF FilesInv, FilesTypes
<1>2. SameOwners
  BY <1>1 DEF SameOwners
<1>3. FilesTypes'
  BY <1>1 DEF FilesInv, FilesTypes
<1>4. Homes'
  BY <1>1 DEF FilesInv, Homes
<1>5. KeepsItsOwner'
  BY <1>1 DEF FilesInv, KeepsItsOwner
<1>6. ASSUME NEW q \in Programs PROVE Knows(q, task[q])'
  <2>1. PICK u : u = task[q]
    OBVIOUS
  <2>2. Knows(q, u)
    BY <2>1 DEF FilesInv
  <2>3. Handles(q, u)' /\ Counted(u)'
    BY <2>2, <1>2, OwnersStay DEF Knows
  <2>4. Reached(u)'
    BY <2>2, <1>1, StateFilesAssumption DEF Knows, Reached, FilesInv, FilesTypes
  <2> QED BY <2>1, <2>3, <2>4 DEF Knows, Handles, Reached, Counted
<1> QED BY <1>2, <1>3, <1>4, <1>5, <1>6, OwnersStay DEF FilesInv

LEMMA ReplaceFileKeeps == ASSUME FilesInv, NEW d \in DOMAIN directories, ReplaceFile(d) PROVE FilesInv'
<1>1. PICK x : x = [directories[d] EXCEPT !.file = Missing]
  OBVIOUS
<1>2. directories[d] \in Directory
  BY DEF FilesInv, FilesTypes
<1>3. x \in Directory /\ x.owner = directories[d].owner /\ x.file = Missing
  BY <1>1, <1>2 DEF Directory
<1>4. directories' = [directories EXCEPT ![d] = x] /\ UNCHANGED <<place, files, task, abandoned>>
  BY <1>1 DEF ReplaceFile, Change
<1> QED BY <1>3, <1>4, DirectoryKeeps

LEMMA ChmodKeeps ==
  ASSUME FilesInv, NEW d \in DOMAIN directories, NEW m \in Modes, Chmod(d, m) PROVE FilesInv'
<1>1. PICK x : x = [directories[d] EXCEPT !.mode = m]
  OBVIOUS
<1>2. directories[d] \in Directory
  BY DEF FilesInv, FilesTypes
<1>3. x \in Directory /\ x.owner = directories[d].owner /\ x.file = directories[d].file
  BY <1>1, <1>2 DEF Directory
<1>4. directories' = [directories EXCEPT ![d] = x] /\ UNCHANGED <<place, files, task, abandoned>>
  BY <1>1 DEF Chmod, Change
<1> QED BY <1>3, <1>4, DirectoryKeeps

\* Whoever goes by path counts the exchange.
LEMMA ExchangeKeeps == ASSUME FilesInv, Exchange PROVE FilesInv'
<1> DEFINE copy == [directories[place] EXCEPT !.mode = "private", !.file = Missing]
<1>1. place \in DOMAIN directories /\ directories[place] \in Directory /\ DOMAIN directories = 1..Len(directories)
  BY DEF Exchange, FilesInv, FilesTypes
<1>2. /\ directories' \in Seq(Directory) /\ place' \in DOMAIN directories' /\ place' # place /\ directories' # <<>>
      /\ \A d \in DOMAIN directories : d \in DOMAIN directories' /\ directories'[d] = directories[d]
      /\ \A d \in DOMAIN directories' \ DOMAIN directories :
           directories'[d].file = Missing /\ directories'[d].owner = directories[place].owner
  <2>1. CASE place' \in DOMAIN directories \ {place} /\ UNCHANGED directories
    BY <2>1, <1>1 DEF FilesInv, FilesTypes
  <2>2. CASE directories' = Append(directories, copy) /\ place' = Len(directories) + 1
    <3>1. copy \in Directory /\ copy.file = Missing /\ copy.owner = directories[place].owner
      BY <1>1 DEF Directory, Modes
    <3> HIDE DEF copy
    <3> QED BY <1>1, <2>2, <3>1 DEF FilesInv, FilesTypes
  <2> QED BY <2>1, <2>2 DEF Exchange
<1>3. UNCHANGED <<files, abandoned>>
  BY DEF Exchange
<1>4. ASSUME NEW q \in Programs
      PROVE  /\ task'[q] \in Task /\ task'[q].at = task[q].at /\ task'[q].directory = task[q].directory
             /\ task'[q].administers = task[q].administers /\ task'[q].file = task[q].file
             /\ task'[q].reached = task[q].reached /\ task'[q].verified = task[q].verified
             /\ task'[q].exchanged = IF Calling(q) /\ ~task[q].administers
                                     THEN task[q].exchanged + 1 ELSE task[q].exchanged
  <2>1. task[q] \in Task
    BY DEF FilesInv, FilesTypes
  <2>2. task'[q] = [task[q] EXCEPT !.exchanged =
                      IF Calling(q) /\ ~task[q].administers THEN task[q].exchanged + 1 ELSE task[q].exchanged]
    BY DEF Exchange
  <2> HIDE DEF Calling
  <2> QED BY <2>1, <2>2 DEF Task
<1>5. FilesTypes'
  <2>1. task' \in [Programs -> Task]
    BY <1>4 DEF Exchange
  <2> QED BY <2>1, <1>2, <1>3 DEF FilesInv, FilesTypes
<1>6. Alike' /\ Homes'
  BY <1>1, <1>2, <1>3 DEF FilesInv, Alike, Homes
<1>7. KeepsItsOwner'
  BY <1>2, <1>3, <1>4 DEF FilesInv, KeepsItsOwner
<1>8. ASSUME NEW q \in Programs PROVE Knows(q, task[q])'
  <2>1. Knows(q, task[q]) /\ task[q] \in Task
    BY DEF FilesInv, FilesTypes
  <2>2. Handles(q, task[q])'
    BY <2>1, <1>2, <1>4, StateFilesAssumption DEF Knows, Handles, FilesInv, FilesTypes
  <2>3. Reached(task[q])'
    <3>1. Reached(task[q])
      BY <2>1 DEF Knows
    <3> QED BY <3>1, <1>2, <1>3, <1>4, StateFilesAssumption DEF Reached, FilesInv, FilesTypes
  <2>4. Counted(task[q])'
    <3>1. CASE task[q].administers
      BY <2>1, <3>1, <1>4 DEF Knows, Reached, Counted, WithFile
    <3>2. CASE ~task[q].administers
      BY <2>1, <3>2, <1>2, <1>4 DEF Knows, Counted, Calling, Opening, WithFile, Task
    <3> QED BY <3>1, <3>2
  <2> QED BY <2>2, <2>3, <2>4 DEF Knows
<1> QED BY <1>5, <1>6, <1>7, <1>8 DEF FilesInv

-----------------------------------------------------------------------------
LEMMA FilesNextHolds == FilesInv /\ [StateNext]_stateVars => FilesInv'
<1> SUFFICES ASSUME FilesInv, [StateNext]_stateVars PROVE FilesInv'
  OBVIOUS
<1>1. ASSUME NEW p \in Programs,
             CreateState(p) \/ MakeState(p) \/ OpenState(p) \/ OpenForAdministration(p) \/ ConfirmPinned(p)
      PROVE  FilesInv'
  BY <1>1, CreateStateKeeps, MakeStateKeeps, OpenStateKeeps, OpenForAdministrationKeeps, ConfirmPinnedKeeps
<1>2. ASSUME NEW p \in Programs,
             \/ OpenExisting(p) \/ OpenAdministered(p) \/ CreatePrivate(p) \/ CreateAdministered(p)
             \/ EnterPrivate(p)
      PROVE  FilesInv'
  BY <1>2, OpenPrivateKeeps, MakePrivateKeeps, EnterPrivateKeeps
     DEF OpenExisting, OpenAdministered, CreatePrivate, CreateAdministered
<1>3. ASSUME NEW p \in Programs, NEW create \in BOOLEAN, OpenFile(p, create) PROVE FilesInv'
  BY <1>3, OpenFileKeeps
<1>4. ASSUME NEW p \in Programs, OpenOrCreate(p) \/ GiveAway(p) PROVE FilesInv'
  BY <1>4, OpenOrCreateKeeps, GiveAwayKeeps
<1>5. ASSUME NEW p \in Programs, CheckDescriptor(p) \/ CheckName(p) \/ CheckAgain(p) PROVE FilesInv'
  BY <1>5, CheckDescriptorKeeps, CheckNameKeeps, CheckAgainKeeps
<1>6. ASSUME NEW p \in Programs, VerifyDirectory(p) \/ VerifyFile(p) \/ Abandon(p) PROVE FilesInv'
  BY <1>6, VerifyDirectoryKeeps, VerifyFileKeeps, AbandonKeeps
<1>7. CASE Exchange
  BY <1>7, ExchangeKeeps
<1>8. ASSUME NEW d \in DOMAIN directories,
             ReplaceFile(d) \/ \E m \in {"private", "special", "shared"} : Chmod(d, m)
      PROVE  FilesInv'
  BY <1>8, ReplaceFileKeeps, ChmodKeeps DEF Modes
<1>9. ASSUME NEW f \in DOMAIN files, Expose(f) PROVE FilesInv'
  BY <1>9, ExposeKeeps
<1>10. CASE UNCHANGED stateVars
  BY <1>10 DEF stateVars, FilesInv, FilesTypes, Alike, Homes, KeepsItsOwner, Knows, Handles, Reached, Counted
<1> QED BY <1>1, <1>2, <1>3, <1>4, <1>5, <1>6, <1>7, <1>8, <1>9, <1>10 DEF StateNext

-----------------------------------------------------------------------------
\* What each program knows of its directory and its file, and the accounts of who
\* owns what, hold in every state.
THEOREM FilesInductive == StateSpec => []FilesInv
  <1> QED BY FilesInitHolds, FilesNextHolds, PTL DEF StateSpec

\* Administration never makes a file somebody else's than the directory's owner,
\* whatever is exchanged meanwhile (create_new for administration, fchown).
THEOREM OwnerIsKept == StateSpec => []KeepsItsOwner
  <1>1. FilesInv => KeepsItsOwner
    BY DEF FilesInv
  <1> QED BY <1>1, FilesInductive, PTL

\* Files that open_file returned come from the directory of the handle, unless the
\* path was exchanged and put back within the call.
THEOREM FilesAreItsOwn == StateSpec => []FromItsDirectory
  <1>1. FilesInv => FromItsDirectory
    <2> SUFFICES ASSUME FilesInv, NEW p \in Programs, task[p].at = "opened", task[p].reached # task[p].directory
                 PROVE  ~task[p].administers /\ task[p].exchanged >= (IF task[p].verified THEN 1 ELSE 2)
      BY DEF FromItsDirectory
    <2>1. Reached(task[p]) /\ Counted(task[p])
      BY DEF FilesInv, Knows
    <2> QED BY <2>1 DEF Reached, Counted, WithFile
  <1> QED BY <1>1, FilesInductive, PTL

\* The handles of the two libraries may be used side by side, and the rest.
THEOREM StateIsWhole == StateSpec => []StateStaysWhole
  <1>1. BothAcceptIt
    BY DEF BothAcceptIt, ValidFor, AdministeredBy, RequiredOf, MayUseIt
  <1>2. KeepsItsOwner /\ FromItsDirectory => StateStaysWhole
    BY <1>1 DEF StateStaysWhole
  <1> QED BY <1>2, OwnerIsKept, FilesAreItsOwn, PTL
=============================================================================
