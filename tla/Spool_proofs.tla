---------------------------- MODULE Spool_proofs ----------------------------
(* Proofs about Spool, for any records, processes, threads and limits, and  *)
(* any number of failures and crashes.                                      *)
EXTENDS Spool, FiniteSetTheorems, TLAPS

Kinds == {"record"} \cup Evidence
Ops == [call : Calls, pc : Steps, id : Ids \cup {None}, to : Kinds]

Data ==
  /\ linking \in BOOLEAN
  /\ names \in [Ids -> SUBSET Names] /\ alts \in [Ids -> SUBSET SUBSET Names]
  /\ written \subseteq Ids /\ torn \subseteq Ids /\ issued \subseteq Ids /\ rotted \subseteq Ids
  /\ published \subseteq Ids /\ promised \subseteq Ids /\ released \subseteq Ids
  /\ faults \in Nat /\ crashes \in [killed : Nat, power : Nat]

Types ==
  /\ Data
  /\ lock \in Procs \cup {None}
  /\ proc \in [Procs -> {"down", "opening", "open"}]
  /\ gate \in [Procs -> Threads \cup {None}]
  /\ op \in [Threads -> Ops]

\* The lock says which process is up, and its gate which thread works.
Owner ==
  /\ \A p \in Procs : proc[p] # "down" <=> lock = p
  /\ \A p \in Procs : gate[p] # None => proc[p] = "open" /\ ProcOf[gate[p]] = p
  /\ \A t \in Threads : op[t].call # "none" <=> gate[ProcOf[t]] = t

\* Where an operation may be.
Program(o) ==
  /\ o.call = "none" => o = NoOp
  /\ o.call # "none" => (o.pc = "scan" <=> o.id = None)
  /\ o.call = "enqueue" => /\ o.pc \in {"create", "write", "publish", "linked", "unlink", "sync"}
                           /\ o.to = "record"
  /\ o.call = "ack" => o.pc \in {"remove", "sync"}
  /\ o.call = "quarantine" => o.pc \in {"publish", "linked", "unlink", "sync"} /\ o.to \in Evidence
  /\ o.call = "next" => o.pc \in {"scan", "publish", "linked", "unlink", "sync"} /\ o.to = "bad"

\* The names of its file at each step.
Old(o) == IF o.call = "enqueue" THEN "tmp" ELSE "record"
Shape(o) ==
  CASE o.pc = "create" -> {}
    [] o.pc \in {"write", "publish", "remove"} -> {Old(o)}
    [] o.pc \in {"linked", "unlink"} -> {Old(o), o.to}
    [] o.pc = "sync" -> IF o.call = "ack" THEN {} ELSE {o.to}

\* While an operation runs, no other file changes, and there is no other temporary.
Calm(except) == \A i \in Ids : i # except => names[i] \in {{}, {"record"}, {"bad"}, {"identity"}}

Doing(o) ==
  o.call # "none" =>
    /\ Calm(o.id)
    /\ o.id # None => names[o.id] = Shape(o)
    /\ o.call = "enqueue" =>
         /\ o.id \in issued \ torn
         /\ o.pc \in {"create", "write", "publish"} => o.id \notin published
         /\ o.pc \notin {"create", "write"} => o.id \in written
    /\ o.pc = "unlink" => alts[o.id] = {names[o.id]}

Tasks == \A t \in Threads, o \in Ops : op[t] = o => Program(o) /\ Doing(o)

\* What a power failure may leave.
Disk ==
  /\ \A i \in Ids : names[i] \in alts[i]
  /\ \A i \in Ids \ issued : alts[i] = {{}}
  /\ \A i \in Ids \ published : \A ns \in alts[i] : ns \subseteq {"tmp"}
  /\ \A i \in Ids : names[i] \cap Evidence = {} => \A ns \in alts[i] : ns \cap Evidence = {}

Bytewise ==
  /\ published \subseteq issued /\ torn \subseteq issued /\ promised \subseteq written
  /\ promised \cap torn \subseteq rotted

IInv == Types /\ Owner /\ Tasks /\ Disk /\ Bytewise

USE SpoolAssumption DEF disk, history, outside

-----------------------------------------------------------------------------
(* Who works: one thread of the process that holds the lock.                *)

Idle(t) == proc[ProcOf[t]] = "open" /\ gate[ProcOf[t]] = None

LEMMA Alone ==
  ASSUME Types, Owner, Tasks, NEW t \in Threads, op[t].call # "none" \/ Idle(t)
  PROVE  /\ lock = ProcOf[t] /\ proc[ProcOf[t]] = "open"
         /\ op[t].call # "none" => gate[ProcOf[t]] = t
         /\ Idle(t) => op[t] = NoOp
         /\ \A u \in Threads \ {t} : op[u] = NoOp
  <1>1. proc[ProcOf[t]] = "open" /\ lock = ProcOf[t]
    BY DEF Types, Owner, Idle
  <1>2. ASSUME NEW u \in Threads, op[u].call # "none"
        PROVE  gate[ProcOf[t]] = u
    <2>1. gate[ProcOf[u]] = u /\ proc[ProcOf[u]] = "open"
      BY <1>2 DEF Types, Owner
    <2>2. ProcOf[u] = ProcOf[t]
      BY <1>1, <2>1 DEF Owner
    <2> QED BY <2>1, <2>2
  <1>3. \A u \in Threads : op[u].call = "none" => op[u] = NoOp
    BY DEF Tasks, Program, Types
  <1>4. \A u \in Threads : u # None
    OBVIOUS
  <1>5. Idle(t) => op[t] = NoOp
    BY <1>2, <1>3, <1>4 DEF Idle
  <1>6. ASSUME NEW u \in Threads \ {t} PROVE op[u] = NoOp
    BY <1>2, <1>3, <1>4 DEF Idle
  <1> QED BY <1>1, <1>2, <1>5, <1>6

\* The one thread that works goes on to the operation o, or begins or ends it.
LEMMA WorkLemma ==
  ASSUME IInv, NEW t \in Threads, op[t].call # "none" \/ Idle(t),
         NEW o \in Ops, Program(o), Doing(o)',
         op' = [op EXCEPT ![t] = o],
         gate' = [gate EXCEPT ![ProcOf[t]] = IF o.call = "none" THEN None ELSE t],
         UNCHANGED <<lock, proc>>,
         Data', Disk', Bytewise'
  PROVE  IInv'
  <1> DEFINE p == ProcOf[t]
  <1>0. p \in Procs
    OBVIOUS
  <1>1. /\ lock = p /\ proc[p] = "open"
        /\ \A u \in Threads \ {t} : op[u] = NoOp
    BY Alone DEF IInv
  <1>2. Types'
    BY <1>0 DEF IInv, Types
  <1>3. op'[t] = o /\ \A u \in Threads \ {t} : op'[u] = NoOp
    BY <1>1 DEF IInv, Types
  <1>4. Owner'
    <2>1. \A q \in Procs : proc'[q] # "down" <=> lock' = q
      BY DEF IInv, Owner
    <2>2. \A q \in Procs : gate'[q] # None => proc'[q] = "open" /\ ProcOf[gate'[q]] = q
      BY <1>0, <1>1 DEF IInv, Owner, Types
    <2>3. ASSUME NEW u \in Threads PROVE op'[u].call # "none" <=> gate'[ProcOf[u]] = u
      <3>1. CASE u = t
        BY <1>0, <1>3, <3>1 DEF IInv, Types
      <3>2. CASE u # t
        <4>1. op'[u].call = "none" /\ op[u].call = "none"
          BY <1>1, <1>3, <3>2 DEF NoOp
        <4>2. gate[ProcOf[u]] # u
          BY <4>1 DEF IInv, Owner
        <4>3. gate'[ProcOf[u]] # u
          BY <1>0, <3>2, <4>2 DEF IInv, Types
        <4> QED BY <4>1, <4>3
      <3> QED BY <3>1, <3>2
    <2> QED BY <2>1, <2>2, <2>3 DEF Owner
  <1>5. Tasks'
    <2>1. Program(NoOp) /\ Doing(NoOp)'
      BY DEF Program, Doing, NoOp
    <2>2. ASSUME NEW u \in Threads, NEW x \in Ops, op'[u] = x
          PROVE  Program(x) /\ Doing(x)'
      <3>1. CASE u = t
        BY <1>3, <2>2, <3>1
      <3>2. CASE u # t
        <4>1. x = NoOp
          BY <1>3, <2>2, <3>2
        <4> QED BY <2>1, <4>1
      <3> QED BY <3>1, <3>2
    <2> QED BY <2>2 DEF Tasks
  <1> QED BY <1>2, <1>4, <1>5 DEF IInv

\* The cases the actions need.
LEMMA EnterLemma ==
  ASSUME IInv, NEW t \in Threads, NEW call, NEW pc, NEW i, NEW to,
         Enter(t, call, pc, i, to),
         NEW o \in Ops, o = [call |-> call, pc |-> pc, id |-> i, to |-> to],
         o.call # "none", Program(o), Doing(o)',
         UNCHANGED <<lock, proc>>, Data', Disk', Bytewise'
  PROVE  IInv'
  <1>1. Idle(t)
    BY DEF Enter, Idle
  <1>2. gate' = [gate EXCEPT ![ProcOf[t]] = IF o.call = "none" THEN None ELSE t]
    BY DEF Enter
  <1>3. op' = [op EXCEPT ![t] = o]
    BY DEF Enter
  <1> QED BY <1>1, <1>2, <1>3, WorkLemma

LEMMA GotoLemma ==
  ASSUME IInv, NEW t \in Threads, NEW o \in Ops, o = op[t], o.call # "none",
         NEW pc \in Steps, NEW n \in Ops, n = [o EXCEPT !.pc = pc],
         Goto(t, pc), Program(n), Doing(n)',
         UNCHANGED <<lock, proc>>, Data', Disk', Bytewise'
  PROVE  IInv'
  <1>1. gate[ProcOf[t]] = t
    BY Alone DEF IInv
  <1>2. gate' = [gate EXCEPT ![ProcOf[t]] = IF n.call = "none" THEN None ELSE t]
    BY <1>1 DEF Goto, IInv, Types, Ops
  <1>3. op' = [op EXCEPT ![t] = n]
    BY DEF Goto, IInv, Types
  <1> QED BY <1>2, <1>3, WorkLemma

LEMMA ReturnLemma ==
  ASSUME IInv, NEW t \in Threads, op[t].call # "none", Return(t),
         UNCHANGED <<lock, proc>>, Data', Disk', Bytewise'
  PROVE  IInv'
  <1>1. Program(NoOp) /\ Doing(NoOp)' /\ NoOp \in Ops /\ NoOp.call = "none"
    BY DEF Program, Doing, NoOp, Ops, Calls, Steps, Kinds
  <1>2. gate' = [gate EXCEPT ![ProcOf[t]] = IF NoOp.call = "none" THEN None ELSE t]
    BY <1>1 DEF Return
  <1>3. op' = [op EXCEPT ![t] = NoOp]
    BY DEF Return
  <1> QED BY <1>1, <1>2, <1>3, WorkLemma

\* What an operation on a file does to the directory.
Renamed(i, drop, add) ==
  /\ names' \in [Ids -> SUBSET Names] /\ alts' \in [Ids -> SUBSET SUBSET Names]
  /\ names'[i] = (names[i] \ drop) \cup add
  /\ \A j \in Ids \ {i} : names'[j] = names[j] /\ alts'[j] = alts[j]
  /\ \A j \in Ids : names'[j] \in alts'[j]
  /\ \A ns : ns \in alts'[i] <=>
       ns \in alts[i] \/ \E old \in alts[i] : ns = (old \ drop) \cup add

LEMMA RenameLemma ==
  ASSUME Data, Disk, NEW i \in Ids, NEW drop \in SUBSET Names, NEW add \in SUBSET Names,
         Rename(i, drop, add)
  PROVE  Renamed(i, drop, add)
  <1> DEFINE Does(ns) == (ns \ drop) \cup add
  <1>1. /\ names' = [names EXCEPT ![i] = Does(@)]
        /\ alts' = [alts EXCEPT ![i] = @ \cup {Does(ns) : ns \in @}]
    BY DEF Rename
  <1>2. alts'[i] = alts[i] \cup {Does(ns) : ns \in alts[i]}
    BY <1>1 DEF Data
  <1>3. \A j \in Ids \ {i} : names'[j] = names[j] /\ alts'[j] = alts[j]
    BY <1>1 DEF Data
  <1>4. names'[i] = Does(names[i]) /\ names[i] \in alts[i]
    BY <1>1 DEF Data, Disk
  <1>5. names' \in [Ids -> SUBSET Names] /\ alts' \in [Ids -> SUBSET SUBSET Names]
    BY <1>1 DEF Data
  <1>6. \A j \in Ids : names'[j] \in alts'[j]
    BY <1>2, <1>3, <1>4 DEF Disk
  <1>7. \A ns : ns \in alts'[i] <=>
          ns \in alts[i] \/ \E old \in alts[i] : ns = (old \ drop) \cup add
    BY <1>2
  <1> QED BY <1>3, <1>4, <1>5, <1>6, <1>7 DEF Renamed

\* A synchronized directory is settled: what is there is what will survive.
LEMMA SyncLemma ==
  ASSUME Data, Disk, SyncDirectory, UNCHANGED <<names, issued, published>>
  PROVE  Disk' /\ alts' \in [Ids -> SUBSET SUBSET Names]
  <1>1. \A i \in Ids : alts'[i] = {names[i]}
    BY DEF SyncDirectory
  <1>2. alts' \in [Ids -> SUBSET SUBSET Names]
    BY DEF SyncDirectory, Data
  <1>3. \A i \in Ids : names[i] \in alts[i]
    BY DEF Disk
  <1>4. \A i \in Ids : names'[i] \in alts'[i]
    BY <1>1
  <1>5. \A i \in Ids : names[i] \cap Evidence = {} =>
          \A ns \in alts'[i] : ns \cap Evidence = {}
    BY <1>1
  <1>6. \A i \in Ids \ issued' : alts'[i] = {{}}
    BY <1>1, <1>3 DEF Disk
  <1>7. \A i \in Ids \ published' : \A ns \in alts'[i] : ns \subseteq {"tmp"}
    BY <1>1, <1>3 DEF Disk
  <1> QED BY <1>2, <1>4, <1>5, <1>6, <1>7 DEF Disk

LEMMA SameLemma ==
  ASSUME IInv, UNCHANGED <<disk, written, torn, issued, history, outside>>,
         faults' \in Nat, crashes' \in [killed : Nat, power : Nat]
  PROVE  Data' /\ Disk' /\ Bytewise'
  BY DEF IInv, Types, Data, Disk, Bytewise

-----------------------------------------------------------------------------
(* The calls and the steps of an operation.                                 *)

\* PrivateDirectory::files accepts a file with one link only.
LEMMA SingleLemma ==
  ASSUME NEW S \in SUBSET Names, Cardinality(S) <= 1, NEW x \in S, NEW y \in S
  PROVE  x = y
  <1>1. IsFiniteSet(Names)
    <2>1. Names = {"tmp"} \cup {"record"} \cup {"bad"} \cup {"identity"}
      BY DEF Names
    <2>2. IsFiniteSet({"tmp"} \cup {"record"} \cup {"bad"} \cup {"identity"})
      BY FS_Union, FS_Singleton
    <2> QED BY <2>1, <2>2
  <1>2. IsFiniteSet(S) /\ IsFiniteSet({x, y})
    BY <1>1, FS_Subset
  <1>3. Cardinality({x, y}) <= Cardinality(S)
    BY <1>2, FS_Subset
  <1>4. ASSUME x # y PROVE Cardinality({x, y}) = 2
    <2>1. PICK X : X = {x}
      OBVIOUS
    <2>2. IsFiniteSet(X) /\ y \notin X /\ Cardinality(X) = 1
      BY <1>4, <2>1, FS_Singleton
    <2>3. Cardinality(X \cup {y}) = Cardinality(X) + 1
      BY <2>2, FS_AddElement
    <2>4. X \cup {y} = {x, y}
      BY <2>1
    <2> QED BY <2>2, <2>3, <2>4
  <1>5. Cardinality(S) \in Nat /\ Cardinality({x, y}) \in Nat
    BY <1>2, FS_CardinalityType
  <1> QED BY <1>3, <1>4, <1>5

\* What Usable says of a directory: no file has two names, none is temporary.
LEMMA UsableLemma ==
  ASSUME Data, Usable
  PROVE  \A i \in Ids : names[i] \in {{}, {"record"}, {"bad"}, {"identity"}}
  <1> SUFFICES ASSUME NEW i \in Ids
               PROVE  names[i] \in {{}, {"record"}, {"bad"}, {"identity"}}
    OBVIOUS
  <1>1. Cardinality(names[i]) <= 1 /\ "tmp" \notin names[i]
    BY DEF Usable, Listable, Temporaries, Files
  <1>2. names[i] \subseteq Names
    BY DEF Data
  <1>3. \A x, y \in names[i] : x = y
    BY <1>1, <1>2, SingleLemma
  <1> QED BY <1>1, <1>2, <1>3 DEF Names

LEMMA CallingLemma ==
  ASSUME IInv, NEW t \in Threads, Calling(t)
  PROVE  IInv'
  <1>0. Usable /\ Data
    BY DEF Calling, Enqueue, Ack, Quarantine, NextRecord, Enter, IInv, Types
  <1>1. \A x : Calm(x)
    BY <1>0, UsableLemma DEF Calm
  <1>2. ASSUME NEW i \in Ids, Enqueue(t, i) PROVE IInv'
    <2>1. PICK o : o = [call |-> "enqueue", pc |-> "create", id |-> i, to |-> "record"]
      OBVIOUS
    <2>2. o \in Ops /\ o.call # "none" /\ Program(o)
      BY <2>1 DEF Ops, Calls, Steps, Kinds, Program
    <2>3. Data' /\ Disk' /\ Bytewise'
      BY <1>2 DEF Enqueue, IInv, Types, Data, Disk, Bytewise
    <2>4. names[i] = {} /\ i \notin published /\ i \notin torn
      BY <1>2 DEF Enqueue, IInv, Disk, Bytewise
    <2>5. Calm(i)'
      BY <1>1, <1>2 DEF Enqueue, Calm
    <2>6. Doing(o)'
      BY <1>2, <2>1, <2>4, <2>5 DEF Enqueue, Doing, Shape
    <2> QED BY <1>2, <2>1, <2>2, <2>3, <2>6, EnterLemma DEF Enqueue
  <1>3. ASSUME NEW i \in Ids, Ack(t, i) PROVE IInv'
    <2>1. PICK o : o = [call |-> "ack", pc |-> "remove", id |-> i, to |-> "record"]
      OBVIOUS
    <2>2. o \in Ops /\ o.call # "none" /\ Program(o)
      BY <2>1 DEF Ops, Calls, Steps, Kinds, Program
    <2>3. Data' /\ Disk' /\ Bytewise'
      BY <1>3, SameLemma DEF Ack, IInv, Types, Data
    <2>4. names[i] = {"record"}
      BY <1>0, <1>3, UsableLemma DEF Ack
    <2>5. Calm(i)'
      BY <1>1, <1>3 DEF Ack, Calm
    <2>6. Doing(o)'
      BY <1>3, <2>1, <2>4, <2>5 DEF Ack, Doing, Shape, Old
    <2> QED BY <1>3, <2>1, <2>2, <2>3, <2>6, EnterLemma DEF Ack
  <1>4. ASSUME NEW i \in Ids, NEW reason \in Evidence, Quarantine(t, i, reason) PROVE IInv'
    <2>1. PICK o : o = [call |-> "quarantine", pc |-> "publish", id |-> i, to |-> reason]
      OBVIOUS
    <2>2. o \in Ops /\ o.call # "none" /\ Program(o)
      BY <2>1 DEF Ops, Calls, Steps, Kinds, Program
    <2>3. Data' /\ Disk' /\ Bytewise'
      BY <1>4, SameLemma DEF Quarantine, IInv, Types, Data
    <2>4. names[i] = {"record"}
      BY <1>0, <1>4, UsableLemma DEF Quarantine
    <2>5. Calm(i)'
      BY <1>1, <1>4 DEF Quarantine, Calm
    <2>6. Doing(o)'
      BY <1>4, <2>1, <2>4, <2>5 DEF Quarantine, Doing, Shape, Old
    <2> QED BY <1>4, <2>1, <2>2, <2>3, <2>6, EnterLemma DEF Quarantine
  <1>5. ASSUME NextRecord(t) PROVE IInv'
    <2>1. PICK o : o = [call |-> "next", pc |-> "scan", id |-> None, to |-> "bad"]
      OBVIOUS
    <2>2. o \in Ops /\ o.call # "none" /\ Program(o)
      BY <2>1 DEF Ops, Calls, Steps, Kinds, Program, Evidence
    <2>3. Data' /\ Disk' /\ Bytewise'
      BY <1>5, SameLemma DEF NextRecord, IInv, Types, Data
    <2>4. Calm(None)'
      BY <1>1, <1>5 DEF NextRecord, Calm
    <2>5. Doing(o)'
      BY <2>1, <2>4 DEF Doing
    <2> QED BY <1>5, <2>1, <2>2, <2>3, <2>5, EnterLemma DEF NextRecord
  <1> QED BY <1>2, <1>3, <1>4, <1>5 DEF Calling

\* The thread at work, and its operation o.
LEMMA WorkerLemma ==
  ASSUME IInv, NEW t \in Threads, NEW o, o = op[t], o.call # "none"
  PROVE  /\ o \in Ops /\ Program(o) /\ Doing(o) /\ Data /\ Disk /\ Bytewise
         /\ o.pc # "scan" => o.id \in Ids
         /\ o = [call |-> o.call, pc |-> o.pc, id |-> o.id, to |-> o.to]
         /\ o.call \in Calls /\ o.pc \in Steps /\ o.to \in Kinds
  BY DEF IInv, Types, Tasks, Program, Ops

LEMMA ScanLemma ==
  ASSUME IInv, NEW t \in Threads, Scan(t)
  PROVE  IInv'
  <1>1. PICK o : o = op[t]
    OBVIOUS
  <1>2. o.pc = "scan" /\ o.call = "next" /\ o \in Ops
    BY <1>1 DEF Scan, At, IInv, Types, Tasks, Program, Ops, Calls, NoOp
  <1>3. Data' /\ Disk' /\ Bytewise'
    BY SameLemma DEF Scan, IInv, Types, Data
  <1>4. /\ o = [call |-> "next", pc |-> "scan", id |-> None, to |-> "bad"]
        /\ Calm(None) /\ gate[ProcOf[t]] = t
    BY <1>1, <1>2, WorkerLemma, Alone DEF Program, Doing, IInv
  <1>5. ASSUME NEW i \in Ids, IsHead(i), op' = [op EXCEPT ![t].pc = "publish", ![t].id = i],
               UNCHANGED gate
        PROVE  IInv'
    <2>1. PICK n : n = [call |-> "next", pc |-> "publish", id |-> i, to |-> "bad"]
      OBVIOUS
    <2>2. op' = [op EXCEPT ![t] = n]
      BY <1>1, <1>4, <1>5, <2>1 DEF IInv, Types, Ops
    <2>3. gate' = [gate EXCEPT ![ProcOf[t]] = IF n.call = "none" THEN None ELSE t]
      BY <1>4, <1>5, <2>1 DEF IInv, Types
    <2>4. n \in Ops /\ Program(n)
      BY <2>1 DEF Ops, Calls, Steps, Kinds, Evidence, Program
    <2>5. names[i] = {"record"} /\ Calm(i)
      BY <1>4, <1>5 DEF Calm, IsHead, Pending, Files
    <2>6. Doing(n)'
      BY <2>1, <2>5 DEF Scan, Doing, Calm, Shape, Old
    <2> QED BY <1>1, <1>2, <1>3, <2>2, <2>3, <2>4, <2>6, WorkLemma DEF Scan
  <1>6. CASE Return(t)
    BY <1>1, <1>2, <1>3, <1>6, ReturnLemma DEF Scan
  <1> QED BY <1>5, <1>6 DEF Scan

LEMMA CreateLemma ==
  ASSUME IInv, NEW t \in Threads, CreateTemporary(t)
  PROVE  IInv'
  <1>1. PICK o : o = op[t]
    OBVIOUS
  <1>2. o.pc = "create" /\ o.call # "none"
    BY <1>1 DEF CreateTemporary, At, IInv, Types, Tasks, Program, Ops, NoOp
  <1>3. o.call = "enqueue" /\ o \in Ops
    BY <1>1, <1>2, WorkerLemma DEF Program, Calls
  <1>4. PICK i : i = o.id
    OBVIOUS
  <1>5. /\ i \in Ids /\ names[i] = {} /\ Calm(i) /\ i \in issued /\ i \notin torn
        /\ i \notin published
    BY <1>1, <1>2, <1>3, <1>4, WorkerLemma DEF Doing, Shape
  <1>6. Rename(i, {}, {"tmp"})
    BY <1>1, <1>4 DEF CreateTemporary, Target
  <1>7. Renamed(i, {}, {"tmp"})
    BY <1>5, <1>6, RenameLemma DEF IInv, Types, Names
  <1>8. Data'
    BY <1>7 DEF Renamed, CreateTemporary, IInv, Types, Data
  <1>9. \A ns \in alts'[i] : ns \subseteq {"tmp"}
    <2>1. \A ns \in alts[i] : ns \subseteq {"tmp"}
      BY <1>5 DEF IInv, Disk
    <2> QED BY <1>7, <2>1 DEF Renamed
  <1>10. Disk'
    <2>1. \A j \in Ids \ issued' : alts'[j] = {{}}
      BY <1>5, <1>7 DEF Renamed, CreateTemporary, IInv, Disk
    <2>2. \A j \in Ids \ published' : \A ns \in alts'[j] : ns \subseteq {"tmp"}
      BY <1>7, <1>9 DEF Renamed, CreateTemporary, IInv, Disk
    <2>3. \A j \in Ids : names'[j] \cap Evidence = {} =>
            \A ns \in alts'[j] : ns \cap Evidence = {}
      BY <1>7, <1>9 DEF Renamed, IInv, Disk, Evidence
    <2> QED BY <1>7, <2>1, <2>2, <2>3 DEF Renamed, Disk
  <1>11. Bytewise'
    BY DEF CreateTemporary, IInv, Bytewise
  <1>12. PICK n : n = [call |-> "enqueue", pc |-> "write", id |-> i, to |-> "record"]
    OBVIOUS
  <1>13. n \in Ops /\ Program(n) /\ n = [o EXCEPT !.pc = "write"]
    BY <1>1, <1>2, <1>3, <1>4, <1>5, <1>12, WorkerLemma
    DEF Ops, Calls, Steps, Kinds, Program
  <1>14. Calm(i)' /\ names'[i] = {"tmp"}
    BY <1>5, <1>7 DEF Renamed, Calm
  <1>15. Doing(n)'
    BY <1>5, <1>12, <1>14 DEF CreateTemporary, Doing, Shape, Old
  <1> QED BY <1>1, <1>2, <1>3, <1>8, <1>10, <1>11, <1>13, <1>15, GotoLemma
          DEF CreateTemporary, Steps

LEMMA WriteLemma ==
  ASSUME IInv, NEW t \in Threads, WriteTemporary(t)
  PROVE  IInv'
  <1>1. PICK o : o = op[t]
    OBVIOUS
  <1>2. o.pc = "write" /\ o.call # "none"
    BY <1>1 DEF WriteTemporary, At, IInv, Types, Tasks, Program, Ops, NoOp
  <1>3. o.call = "enqueue" /\ o \in Ops
    BY <1>1, <1>2, WorkerLemma DEF Program, Calls
  <1>4. PICK i : i = o.id
    OBVIOUS
  <1>5. /\ i \in Ids /\ names[i] = {"tmp"} /\ Calm(i) /\ i \in issued /\ i \notin torn
        /\ i \notin published
    BY <1>1, <1>2, <1>3, <1>4, WorkerLemma DEF Doing, Shape, Old
  <1>6. written' = written \cup {i}
    BY <1>1, <1>4 DEF WriteTemporary, Target
  <1>7. Data' /\ Disk' /\ Bytewise'
    BY <1>5, <1>6 DEF WriteTemporary, IInv, Types, Data, Disk, Bytewise
  <1>8. PICK n : n = [call |-> "enqueue", pc |-> "publish", id |-> i, to |-> "record"]
    OBVIOUS
  <1>9. n \in Ops /\ Program(n) /\ n = [o EXCEPT !.pc = "publish"]
    BY <1>1, <1>2, <1>3, <1>4, <1>5, <1>8, WorkerLemma
    DEF Ops, Calls, Steps, Kinds, Program
  <1>10. Calm(i)'
    BY <1>5 DEF WriteTemporary, Calm
  <1>11. Doing(n)'
    BY <1>5, <1>6, <1>8, <1>10 DEF WriteTemporary, Doing, Shape, Old
  <1> QED BY <1>1, <1>2, <1>3, <1>7, <1>9, <1>11, GotoLemma
          DEF WriteTemporary, Steps

\* The publication of the file of operation o, by a rename or a link.
LEMMA PublishLemma ==
  ASSUME IInv, NEW t \in Threads, PublishRename(t) \/ PublishLink(t)
  PROVE  IInv'
  <1>1. PICK o : o = op[t]
    OBVIOUS
  <1>2. o.pc = "publish" /\ o.call # "none"
    BY <1>1 DEF PublishRename, PublishLink, At, IInv, Types, Tasks, Program, Ops, NoOp
  <1>3. /\ o.call \in {"enqueue", "quarantine", "next"} /\ o \in Ops
        /\ o.call = "enqueue" => o.to = "record"
        /\ o.call # "enqueue" => o.to \in Evidence
        /\ o = [call |-> o.call, pc |-> "publish", id |-> o.id, to |-> o.to]
    BY <1>1, <1>2, WorkerLemma DEF Program, Calls, Evidence
  <1>4. PICK i : i = o.id
    OBVIOUS
  <1>5. /\ i \in Ids /\ names[i] = {Old(o)} /\ Calm(i)
        /\ o.call = "enqueue" => i \in issued \ torn /\ i \notin published /\ i \in written
    <2>1. Doing(o) /\ o.id \in Ids
      BY <1>1, <1>2, WorkerLemma
    <2>2. Shape(o) = {Old(o)}
      BY <1>2 DEF Shape
    <2> QED BY <1>2, <1>4, <2>1, <2>2 DEF Doing
  <1>6. Old(o) = From(t)
    BY <1>1 DEF Old, From
  <1>7. PICK drop : /\ drop = IF linking THEN {} ELSE {Old(o)}
    OBVIOUS
  <1>8. PICK pc : /\ pc = IF linking THEN "linked" ELSE "sync"
    OBVIOUS
  <1>9. Rename(i, drop, {o.to}) /\ Goto(t, pc)
    BY <1>1, <1>4, <1>6, <1>7, <1>8 DEF PublishRename, PublishLink, Target
  <1>10. /\ published' = IF o.call = "enqueue" THEN published \cup {i} ELSE published
         /\ released' = IF o.call = "enqueue" THEN released ELSE released \cup {i}
         /\ UNCHANGED <<written, torn, lock, proc, issued, promised, outside, faults, crashes>>
    BY <1>1, <1>4 DEF PublishRename, PublishLink, Published, Released, Target
  <1>11. Renamed(i, drop, {o.to})
    <2>1. drop \in SUBSET Names /\ {o.to} \in SUBSET Names
      BY <1>3, <1>7 DEF Old, Names, Evidence
    <2> QED BY <1>5, <1>9, <2>1, RenameLemma DEF IInv, Types
  <1>12. i \in issued /\ i \in published'
    <2>1. CASE o.call = "enqueue"
      BY <1>5, <1>10, <2>1
    <2>2. CASE o.call # "enqueue"
      <3>1. names[i] = {"record"} /\ names[i] \in alts[i]
        BY <1>5, <2>2 DEF Old, IInv, Disk
      <3> QED BY <1>5, <1>10, <3>1 DEF IInv, Disk
    <2> QED BY <2>1, <2>2
  <1>13. Data'
    BY <1>10, <1>11, <1>12 DEF Renamed, IInv, Types, Data
  <1>14. names'[i] = IF linking THEN {Old(o), o.to} ELSE {o.to}
    BY <1>5, <1>7, <1>11 DEF Renamed
  <1>15. Disk'
    <2>1. \A j \in Ids \ issued' : alts'[j] = {{}}
      BY <1>10, <1>11, <1>12 DEF Renamed, IInv, Disk
    <2>2. \A j \in Ids \ published' : \A ns \in alts'[j] : ns \subseteq {"tmp"}
      BY <1>10, <1>11, <1>12 DEF Renamed, IInv, Disk
    <2>3. ASSUME NEW j \in Ids, names'[j] \cap Evidence = {}, NEW ns \in alts'[j]
          PROVE  ns \cap Evidence = {}
      <3>1. CASE j # i
        BY <1>11, <2>3, <3>1 DEF Renamed, IInv, Disk
      <3>2. CASE j = i
        <4>1. o.call = "enqueue" /\ o.to = "record"
          BY <1>3, <1>14, <2>3, <3>2
        <4>2. \A x \in alts[i] : x \subseteq {"tmp"}
          BY <1>5, <4>1 DEF IInv, Disk
        <4>3. ns \subseteq {"tmp", "record"}
          BY <1>11, <2>3, <3>2, <4>1, <4>2 DEF Renamed
        <4> QED BY <4>3 DEF Evidence
      <3> QED BY <3>1, <3>2
    <2> QED BY <1>11, <2>1, <2>2, <2>3 DEF Renamed, Disk
  <1>16. Bytewise'
    BY <1>5, <1>10 DEF IInv, Bytewise
  <1>17. PICK n : n = [call |-> o.call, pc |-> pc, id |-> i, to |-> o.to]
    OBVIOUS
  <1>18. n \in Ops /\ Program(n) /\ n = [o EXCEPT !.pc = pc] /\ pc \in Steps
    <2>1. o.to \in Kinds
      BY <1>3 DEF Kinds
    <2>2. n \in Ops /\ n = [o EXCEPT !.pc = pc] /\ pc \in Steps
      BY <1>3, <1>4, <1>5, <1>8, <1>17, <2>1 DEF Ops, Calls, Steps
    <2>3. Program(o)
      BY <1>1, <1>2, WorkerLemma
    <2>4. Program(n)
      BY <1>2, <1>3, <1>4, <1>5, <1>8, <1>17, <2>3 DEF Program
    <2> QED BY <2>2, <2>4
  <1>19. Calm(i)'
    BY <1>5, <1>11 DEF Renamed, Calm
  <1>20. names'[i] = Shape(n)
    BY <1>3, <1>8, <1>14, <1>17 DEF Shape, Old
  <1>21. Doing(n)'
    BY <1>2, <1>3, <1>5, <1>8, <1>10, <1>17, <1>19, <1>20 DEF Doing
  <1> QED BY <1>1, <1>2, <1>3, <1>9, <1>10, <1>13, <1>15, <1>16, <1>18, <1>21, GotoLemma

LEMMA SyncLinkLemma ==
  ASSUME IInv, NEW t \in Threads, SyncLink(t)
  PROVE  IInv'
  <1>1. PICK o : o = op[t]
    OBVIOUS
  <1>2. o.pc = "linked" /\ o.call # "none"
    BY <1>1 DEF SyncLink, At, IInv, Types, Tasks, Program, Ops, NoOp
  <1>3. /\ o \in Ops /\ Program(o) /\ Doing(o) /\ o.id \in Ids
        /\ o = [call |-> o.call, pc |-> "linked", id |-> o.id, to |-> o.to]
        /\ o.call \in Calls /\ o.to \in Kinds
    BY <1>1, <1>2, WorkerLemma
  <1>4. alts' \in [Ids -> SUBSET SUBSET Names] /\ Disk'
    BY SyncLemma DEF SyncLink, IInv, Types
  <1>5. Data' /\ Bytewise'
    BY <1>4 DEF SyncLink, IInv, Types, Data, Bytewise
  <1>6. PICK n : n = [call |-> o.call, pc |-> "unlink", id |-> o.id, to |-> o.to]
    OBVIOUS
  <1>7. n \in Ops /\ n = [o EXCEPT !.pc = "unlink"] /\ Program(n)
    BY <1>2, <1>3, <1>6 DEF Ops, Steps, Program, Calls
  <1>8. Calm(o.id)' /\ names'[o.id] = Shape(o) /\ alts'[o.id] = {names'[o.id]}
    BY <1>2, <1>3 DEF SyncLink, SyncDirectory, Doing, Calm
  <1>9. Doing(n)'
    BY <1>2, <1>3, <1>6, <1>8 DEF SyncLink, Doing, Shape, Old
  <1> QED BY <1>1, <1>2, <1>3, <1>4, <1>5, <1>7, <1>9, GotoLemma DEF SyncLink, Steps

LEMMA UnlinkLemma ==
  ASSUME IInv, NEW t \in Threads, UnlinkOld(t)
  PROVE  IInv'
  <1>1. PICK o : o = op[t]
    OBVIOUS
  <1>2. o.pc = "unlink" /\ o.call # "none"
    BY <1>1 DEF UnlinkOld, At, IInv, Types, Tasks, Program, Ops, NoOp
  <1>3. /\ o \in Ops /\ Program(o) /\ Doing(o) /\ o.id \in Ids
        /\ o = [call |-> o.call, pc |-> "unlink", id |-> o.id, to |-> o.to]
        /\ o.call \in Calls /\ o.to \in Kinds
    BY <1>1, <1>2, WorkerLemma
  <1>4. PICK i : i = o.id
    OBVIOUS
  <1>5. /\ i \in Ids /\ names[i] = {Old(o), o.to} /\ alts[i] = {names[i]} /\ Calm(i)
        /\ o.to # Old(o)
    BY <1>2, <1>3, <1>4 DEF Doing, Shape, Kinds, Evidence, Program, Old, Calls
  <1>6. Renamed(i, {Old(o)}, {})
    <2>1. Rename(i, {Old(o)}, {})
      BY <1>1, <1>4 DEF UnlinkOld, Target, From, Old
    <2>2. {Old(o)} \in SUBSET Names /\ {} \in SUBSET Names
      BY DEF Old, Names
    <2> QED BY <1>5, <2>1, <2>2, RenameLemma DEF IInv, Types
  <1>7. Data' /\ Bytewise'
    BY <1>6 DEF Renamed, UnlinkOld, IInv, Types, Data, Bytewise
  <1>8. names'[i] = {o.to}
    BY <1>5, <1>6 DEF Renamed
  <1>9. i \in issued /\ i \in published
    <2>1. names[i] \in alts[i] /\ o.to \in names[i] /\ o.to # "tmp"
      BY <1>3, <1>5 DEF Kinds, Evidence
    <2> QED BY <1>5, <2>1 DEF IInv, Disk
  <1>10. Disk'
    <2>1. \A j \in Ids \ issued' : alts'[j] = {{}}
      BY <1>6, <1>9 DEF UnlinkOld, Renamed, IInv, Disk
    <2>2. \A j \in Ids \ published' : \A ns \in alts'[j] : ns \subseteq {"tmp"}
      BY <1>6, <1>9 DEF UnlinkOld, Renamed, IInv, Disk
    <2>3. ASSUME NEW j \in Ids, names'[j] \cap Evidence = {}, NEW ns \in alts'[j]
          PROVE  ns \cap Evidence = {}
      <3>1. CASE j # i
        BY <1>6, <2>3, <3>1 DEF Renamed, IInv, Disk
      <3>2. CASE j = i
        <4>1. ns \subseteq {Old(o), o.to}
          BY <1>5, <1>6, <2>3, <3>2 DEF Renamed
        <4>2. o.to \notin Evidence
          BY <1>8, <2>3, <3>2
        <4> QED BY <4>1, <4>2 DEF Old, Evidence
      <3> QED BY <3>1, <3>2
    <2> QED BY <1>6, <2>1, <2>2, <2>3 DEF Renamed, Disk
  <1>11. PICK n : n = [call |-> o.call, pc |-> "sync", id |-> i, to |-> o.to]
    OBVIOUS
  <1>12. n \in Ops /\ n = [o EXCEPT !.pc = "sync"] /\ Program(n)
    BY <1>2, <1>3, <1>4, <1>11 DEF Ops, Steps, Program, Calls
  <1>13. Calm(i)'
    BY <1>5, <1>6 DEF Renamed, Calm
  <1>14. o.call # "ack"
    BY <1>2, <1>3 DEF Program
  <1>15. Doing(n)'
    BY <1>2, <1>3, <1>4, <1>8, <1>11, <1>13, <1>14 DEF UnlinkOld, Doing, Shape
  <1> QED BY <1>1, <1>2, <1>3, <1>7, <1>10, <1>12, <1>15, GotoLemma DEF UnlinkOld, Steps

LEMMA RemoveLemma ==
  ASSUME IInv, NEW t \in Threads, Remove(t)
  PROVE  IInv'
  <1>1. PICK o : o = op[t]
    OBVIOUS
  <1>2. o.pc = "remove" /\ o.call # "none"
    BY <1>1 DEF Remove, At, IInv, Types, Tasks, Program, Ops, NoOp
  <1>3. /\ o \in Ops /\ Program(o) /\ Doing(o) /\ o.id \in Ids /\ o.call = "ack"
        /\ o = [call |-> "ack", pc |-> "remove", id |-> o.id, to |-> o.to]
        /\ o.to \in Kinds
    BY <1>1, <1>2, WorkerLemma DEF Program, Calls
  <1>4. PICK i : i = o.id
    OBVIOUS
  <1>5. i \in Ids /\ names[i] = {"record"} /\ Calm(i) /\ names[i] \in alts[i]
    BY <1>2, <1>3, <1>4 DEF Doing, Shape, Old, IInv, Disk
  <1>6. Renamed(i, {"record"}, {})
    <2>1. Rename(i, {"record"}, {})
      BY <1>1, <1>4 DEF Remove, Target
    <2> QED BY <1>5, <2>1, RenameLemma DEF IInv, Types, Names
  <1>7. i \in issued /\ i \in published /\ released' = released \cup {i}
    BY <1>1, <1>4, <1>5 DEF Remove, Target, IInv, Disk
  <1>8. Data' /\ Bytewise'
    BY <1>5, <1>6, <1>7 DEF Renamed, Remove, IInv, Types, Data, Bytewise
  <1>9. Disk'
    <2>1. \A j \in Ids \ issued' : alts'[j] = {{}}
      BY <1>6, <1>7 DEF Remove, Renamed, IInv, Disk
    <2>2. \A j \in Ids \ published' : \A ns \in alts'[j] : ns \subseteq {"tmp"}
      BY <1>6, <1>7 DEF Remove, Renamed, IInv, Disk
    <2>3. ASSUME NEW j \in Ids, names'[j] \cap Evidence = {}, NEW ns \in alts'[j]
          PROVE  ns \cap Evidence = {}
      <3>1. CASE j # i
        BY <1>6, <2>3, <3>1 DEF Renamed, IInv, Disk
      <3>2. CASE j = i
        <4>1. \A x \in alts[i] : x \cap Evidence = {}
          BY <1>5 DEF IInv, Disk, Evidence
        <4> QED BY <1>6, <2>3, <3>2, <4>1 DEF Renamed
      <3> QED BY <3>1, <3>2
    <2> QED BY <1>6, <2>1, <2>2, <2>3 DEF Renamed, Disk
  <1>10. PICK n : n = [call |-> "ack", pc |-> "sync", id |-> i, to |-> o.to]
    OBVIOUS
  <1>11. n \in Ops /\ n = [o EXCEPT !.pc = "sync"] /\ Program(n)
    BY <1>2, <1>3, <1>4, <1>10 DEF Ops, Steps, Program, Calls
  <1>12. Calm(i)' /\ names'[i] = {}
    BY <1>5, <1>6 DEF Renamed, Calm
  <1>13. Doing(n)'
    BY <1>3, <1>4, <1>10, <1>12 DEF Doing, Shape
  <1> QED BY <1>1, <1>2, <1>3, <1>8, <1>9, <1>11, <1>13, GotoLemma DEF Remove, Steps

LEMMA SyncAndReturnLemma ==
  ASSUME IInv, NEW t \in Threads, SyncAndReturn(t)
  PROVE  IInv'
  <1>1. PICK o : o = op[t]
    OBVIOUS
  <1>2. o.pc = "sync" /\ o.call # "none"
    BY <1>1 DEF SyncAndReturn, At, IInv, Types, Tasks, Program, Ops, NoOp
  <1>3. /\ o \in Ops /\ Program(o) /\ Doing(o) /\ o.id \in Ids
        /\ o = [call |-> o.call, pc |-> "sync", id |-> o.id, to |-> o.to]
    BY <1>1, <1>2, WorkerLemma
  <1>4. PICK i : i = o.id
    OBVIOUS
  <1>5. alts' \in [Ids -> SUBSET SUBSET Names] /\ Disk'
    BY SyncLemma DEF SyncAndReturn, IInv, Types
  <1>6. promised' = IF o.call = "enqueue" THEN promised \cup {i} ELSE promised
    BY <1>1, <1>4 DEF SyncAndReturn, Target
  <1>7. o.call = "enqueue" => i \in written /\ i \notin torn
    BY <1>2, <1>3, <1>4 DEF Doing
  <1>8. Data' /\ Bytewise'
    BY <1>3, <1>4, <1>5, <1>6, <1>7 DEF SyncAndReturn, IInv, Types, Data, Bytewise
  <1>9. CASE o.call = "next"
    <2>1. PICK n : n = [call |-> "next", pc |-> "scan", id |-> None, to |-> "bad"]
      OBVIOUS
    <2>2. o.to = "bad" /\ names[i] = {"bad"} /\ Calm(i)
      BY <1>2, <1>3, <1>4, <1>9 DEF Program, Doing, Shape
    <2>3. op' = [op EXCEPT ![t] = n] /\ gate' = gate
      BY <1>1, <1>3, <1>9, <2>1, <2>2 DEF SyncAndReturn, IInv, Types, Ops
    <2>4. gate' = [gate EXCEPT ![ProcOf[t]] = IF n.call = "none" THEN None ELSE t]
      <3>1. gate[ProcOf[t]] = t
        BY <1>1, <1>2, Alone DEF IInv
      <3> QED BY <2>1, <2>3, <3>1 DEF IInv, Types
    <2>5. n \in Ops /\ Program(n)
      BY <2>1 DEF Ops, Calls, Steps, Kinds, Evidence, Program
    <2>6. Calm(None)'
      BY <2>2 DEF SyncAndReturn, Calm
    <2>7. Doing(n)'
      BY <2>1, <2>6 DEF Doing
    <2> QED BY <1>1, <1>2, <1>5, <1>8, <2>3, <2>4, <2>5, <2>7, WorkLemma DEF SyncAndReturn
  <1>10. CASE o.call # "next"
    BY <1>1, <1>2, <1>5, <1>8, <1>10, ReturnLemma DEF SyncAndReturn
  <1> QED BY <1>9, <1>10

LEMMA FailLemma ==
  ASSUME IInv, NEW t \in Threads, Fail(t)
  PROVE  IInv'
  <1>1. op[t].call # "none"
    BY DEF Fail, IInv, Types, Tasks, Program
  <1>2. faults' \in Nat /\ UNCHANGED <<written, torn, issued, history, outside, crashes>>
    BY DEF Fail, Fault, IInv, Types, Data
  <1>3. Data' /\ Disk' /\ Bytewise'
    <2>1. CASE UNCHANGED disk
      BY <1>2, <2>1, SameLemma DEF IInv, Types, Data
    <2>2. CASE UNCHANGED names /\ SyncDirectory
      BY <1>2, <2>2, SyncLemma DEF IInv, Types, Data, Bytewise
    <2>3. CASE /\ op[t].call = "enqueue" /\ "tmp" \in names[Target(t)]
               /\ Rename(Target(t), {"tmp"}, {})
      <3>1. PICK o : o = op[t]
        OBVIOUS
      <3>2. PICK i : i = o.id
        OBVIOUS
      <3>3. i \in issued /\ i \in Ids /\ names[i] \cap Evidence = {}
        <4>1. o.call = "enqueue" /\ Program(o) /\ Doing(o) /\ o.id \in Ids /\ o.id # None
          BY <1>1, <2>3, <3>1, WorkerLemma DEF Program
        <4>2. names[i] \subseteq {"tmp", "record"}
          BY <3>2, <4>1 DEF Program, Doing, Shape, Old
        <4> QED BY <3>2, <4>1, <4>2 DEF Doing, Evidence
      <3>4. Renamed(i, {"tmp"}, {})
        BY <2>3, <3>1, <3>2, <3>3, RenameLemma DEF Target, IInv, Types, Names
      <3>5. Data' /\ Bytewise'
        BY <1>2, <3>4 DEF Renamed, IInv, Types, Data, Bytewise
      <3>6. \A ns \in alts'[i] : \E old \in alts[i] : ns \subseteq old
        BY <3>4 DEF Renamed
      <3>7. Disk'
        <4>1. \A j \in Ids \ issued' : alts'[j] = {{}}
          BY <1>2, <3>3, <3>4 DEF Renamed, IInv, Disk
        <4>2. ASSUME NEW j \in Ids \ published', NEW ns \in alts'[j] PROVE ns \subseteq {"tmp"}
          BY <1>2, <3>4, <3>6, <4>2 DEF Renamed, IInv, Disk
        <4>3. ASSUME NEW j \in Ids, names'[j] \cap Evidence = {}, NEW ns \in alts'[j]
              PROVE  ns \cap Evidence = {}
          <5>1. CASE j # i
            BY <3>4, <4>3, <5>1 DEF Renamed, IInv, Disk
          <5>2. CASE j = i
            BY <3>3, <3>6, <4>3, <5>2 DEF IInv, Disk
          <5> QED BY <5>1, <5>2
        <4> QED BY <3>4, <4>1, <4>2, <4>3 DEF Renamed, Disk
      <3> QED BY <3>5, <3>7
    <2> QED BY <2>1, <2>2, <2>3 DEF Fail
  <1> QED BY <1>1, <1>3, ReturnLemma DEF Fail

-----------------------------------------------------------------------------
(* Processes, crashes and damage.                                           *)

LEMMA RestingLemma ==
  ASSUME Types, Owner, Tasks,
         \A q \in Procs : lock = q => proc[q] = "opening" \/ gate[q] = None
  PROVE  \A q \in Procs : gate[q] = None
  BY DEF Types, Owner

\* While no thread works, an operation has no say about the directory.
LEMMA RestLemma ==
  ASSUME IInv, \A q \in Procs : gate[q] = None, UNCHANGED <<op, gate>>
  PROVE  Tasks' /\ \A t \in Threads : op[t] = NoOp
  <1>1. \A t \in Threads : op[t].call = "none"
    BY DEF IInv, Types, Owner
  <1>2. \A t \in Threads : op[t] = NoOp
    BY <1>1 DEF IInv, Types, Tasks, Program
  <1>3. Program(NoOp) /\ Doing(NoOp)'
    BY DEF Program, Doing, NoOp
  <1>4. ASSUME NEW t \in Threads, NEW x \in Ops, op'[t] = x
        PROVE  Program(x) /\ Doing(x)'
    <2>1. x = NoOp
      BY <1>2, <1>4
    <2> QED BY <1>3, <2>1
  <1> QED BY <1>2, <1>4 DEF Tasks

LEMMA TryLockLemma ==
  ASSUME IInv, NEW p \in Procs, TryLock(p)
  PROVE  IInv'
  <1>1. Data' /\ Disk' /\ Bytewise'
    BY SameLemma DEF TryLock, IInv, Types, Data
  <1>2. \A q \in Procs : gate[q] = None
    BY RestingLemma DEF TryLock, IInv
  <1>3. Tasks'
    BY <1>2, RestLemma DEF TryLock
  <1>4. Types'
    BY <1>1 DEF TryLock, IInv, Types
  <1>5. Owner'
    <2>1. \A q \in Procs : proc'[q] # "down" <=> lock' = q
      BY DEF TryLock, IInv, Types, Owner
    <2>2. \A q \in Procs : gate'[q] = None
      BY <1>2 DEF TryLock
    <2>3. \A t \in Threads : op'[t].call # "none" <=> gate'[ProcOf[t]] = t
      BY DEF TryLock, IInv, Owner
    <2> QED BY <2>1, <2>2, <2>3 DEF Owner
  <1> QED BY <1>1, <1>3, <1>4, <1>5 DEF IInv

\* The end of an opening and of a process that is open but not at work.
LEMMA PassLemma ==
  ASSUME IInv, NEW p \in Procs, proc[p] = "opening" \/ gate[p] = None,
         NEW q \in {"down", "opening", "open"}, proc[p] # "down",
         proc' = [proc EXCEPT ![p] = q],
         lock' = IF q = "down" THEN None ELSE lock,
         UNCHANGED <<gate, op>>, Data', Disk', Bytewise'
  PROVE  IInv'
  <1>1. lock = p
    BY DEF IInv, Owner
  <1>2. \A r \in Procs : gate[r] = None
    BY <1>1, RestingLemma DEF IInv
  <1>3. Tasks'
    BY <1>2, RestLemma
  <1>4. Types'
    BY <1>1 DEF IInv, Types
  <1>5. Owner'
    <2>1. \A r \in Procs : proc'[r] # "down" <=> lock' = r
      BY <1>1 DEF IInv, Types, Owner
    <2>2. \A r \in Procs : gate'[r] = None
      BY <1>2
    <2>3. \A t \in Threads : op'[t].call # "none" <=> gate'[ProcOf[t]] = t
      BY DEF IInv, Owner
    <2> QED BY <2>1, <2>2, <2>3 DEF Owner
  <1> QED BY <1>3, <1>4, <1>5 DEF IInv

LEMMA SweepLemma ==
  ASSUME IInv, NEW p \in Procs, NEW i \in Ids, Sweep(p, i)
  PROVE  IInv'
  <1>1. /\ names' = [names EXCEPT ![i] = {}]
        /\ alts' = [j \in Ids |-> {names'[j]}]
    BY DEF Sweep, SyncDirectory
  <1>2. names' \in [Ids -> SUBSET Names]
    BY <1>1 DEF IInv, Types, Data
  <1>3. alts' \in [Ids -> SUBSET SUBSET Names]
    BY <1>1, <1>2
  <1>4. \A j \in Ids : alts'[j] = {names'[j]} /\ names'[j] \subseteq names[j] /\ names[j] \in alts[j]
    BY <1>1 DEF IInv, Types, Data, Disk
  <1>5. Data' /\ Bytewise'
    BY <1>2, <1>3 DEF Sweep, IInv, Types, Data, Bytewise
  <1>6. Disk'
    <2>1. \A j \in Ids \ issued : names[j] = {}
      BY <1>4 DEF IInv, Disk
    <2>2. \A j \in Ids \ issued' : alts'[j] = {{}}
      <3>1. issued' = issued
        BY DEF Sweep
      <3> QED BY <1>4, <2>1, <3>1
    <2>3. \A j \in Ids \ published' : \A ns \in alts'[j] : ns \subseteq {"tmp"}
      BY <1>4 DEF Sweep, IInv, Disk
    <2>4. \A j \in Ids : names'[j] \in alts'[j]
      BY <1>4
    <2>5. \A j \in Ids : names'[j] \cap Evidence = {} => \A ns \in alts'[j] : ns \cap Evidence = {}
      BY <1>4
    <2> QED BY <2>2, <2>3, <2>4, <2>5 DEF Disk
  <1>7. proc' = [proc EXCEPT ![p] = "opening"]
    BY DEF Sweep, IInv, Types
  <1> QED BY <1>5, <1>6, <1>7, PassLemma DEF Sweep

LEMMA OpenFailsLemma ==
  ASSUME IInv, NEW p \in Procs, OpenFails(p)
  PROVE  IInv'
  <1>1. faults' \in Nat /\ UNCHANGED <<written, torn, issued, history, outside, crashes>>
    BY DEF OpenFails, Fault, IInv, Types, Data
  <1>2. Data' /\ Disk' /\ Bytewise'
    <2>1. CASE UNCHANGED disk
      BY <1>1, <2>1, SameLemma DEF IInv, Types, Data
    <2>2. ASSUME NEW i \in Temporaries, Sweepable, Rename(i, {"tmp"}, {})
          PROVE  Data' /\ Disk' /\ Bytewise'
      <3>1. i \in Ids
        BY DEF Temporaries, Files
      <3>2. Renamed(i, {"tmp"}, {})
        BY <2>2, <3>1, RenameLemma DEF IInv, Types, Names
      <3>3. Data' /\ Bytewise'
        BY <1>1, <3>2 DEF Renamed, IInv, Types, Data, Bytewise
      <3>4. \A ns \in alts'[i] : \E old \in alts[i] : ns \subseteq old
        BY <3>2 DEF Renamed
      <3>5. Disk'
        <4>1. \A j \in Ids \ issued' : alts'[j] = {{}}
          <5>1. ASSUME i \notin issued PROVE FALSE
            BY <2>2, <3>1, <5>1 DEF Temporaries, Files, IInv, Disk
          <5> QED BY <1>1, <3>2, <5>1 DEF Renamed, IInv, Disk
        <4>2. ASSUME NEW j \in Ids \ published', NEW ns \in alts'[j] PROVE ns \subseteq {"tmp"}
          BY <1>1, <3>2, <3>4, <4>2 DEF Renamed, IInv, Disk
        <4>3. ASSUME NEW j \in Ids, names'[j] \cap Evidence = {}, NEW ns \in alts'[j]
              PROVE  ns \cap Evidence = {}
          <5>1. CASE j # i
            BY <3>2, <4>3, <5>1 DEF Renamed, IInv, Disk
          <5>2. CASE j = i
            <6>1. names[i] \cap Evidence = {}
              BY <3>2, <4>3, <5>2 DEF Renamed, Evidence
            <6> QED BY <3>1, <3>4, <4>3, <5>2, <6>1 DEF IInv, Disk
          <5> QED BY <5>1, <5>2
        <4> QED BY <3>2, <4>1, <4>2, <4>3 DEF Renamed, Disk
      <3> QED BY <3>3, <3>5
    <2> QED BY <2>1, <2>2 DEF OpenFails
  <1>3. lock' = IF "down" = "down" THEN None ELSE lock
    BY DEF OpenFails
  <1> QED BY <1>2, <1>3, PassLemma DEF OpenFails

LEMMA OpeningLemma ==
  ASSUME IInv, NEW p \in Procs, Opening(p)
  PROVE  IInv'
  <1>1. CASE Opened(p)
    <2>1. Data' /\ Disk' /\ Bytewise'
      BY <1>1, SameLemma DEF Opened, IInv, Types, Data
    <2> QED BY <1>1, <2>1, PassLemma DEF Opened
  <1>2. CASE Close(p)
    <2>1. Data' /\ Disk' /\ Bytewise'
      BY <1>2, SameLemma DEF Close, IInv, Types, Data
    <2>2. lock' = IF "down" = "down" THEN None ELSE lock
      BY <1>2 DEF Close
    <2> QED BY <1>2, <2>1, <2>2, PassLemma DEF Close
  <1> QED BY <1>1, <1>2, TryLockLemma, SweepLemma, OpenFailsLemma DEF Opening

\* What is left of the processes ps: nothing.
LEMMA CrashLemma ==
  ASSUME IInv, NEW what \in {"killed", "power"}, NEW ps \in SUBSET Procs, Crash(what, ps), Data'
  PROVE  /\ Types' /\ Owner'
         /\ \A t \in Threads : op'[t] = NoOp \/ (op'[t] = op[t] /\ ProcOf[t] \notin ps)
  <1>1. NoOp \in Ops
    BY DEF NoOp, Ops, Calls, Steps, Kinds
  <1>2. Types'
    BY <1>1 DEF Crash, IInv, Types
  <1>3. \A q \in Procs : proc'[q] = IF q \in ps THEN "down" ELSE proc[q]
    BY DEF Crash
  <1>4. \A q \in Procs : gate'[q] = IF q \in ps THEN None ELSE gate[q]
    BY DEF Crash
  <1>5. \A t \in Threads : op'[t] = IF ProcOf[t] \in ps THEN NoOp ELSE op[t]
    BY DEF Crash
  <1>6. lock' = IF lock \in ps THEN None ELSE lock
    BY DEF Crash
  <1>7. Owner'
    <2>1. \A q \in Procs : proc'[q] # "down" <=> lock' = q
      BY <1>3, <1>6 DEF IInv, Types, Owner
    <2>2. \A q \in Procs : gate'[q] # None => proc'[q] = "open" /\ ProcOf[gate'[q]] = q
      BY <1>3, <1>4 DEF IInv, Owner
    <2>3. ASSUME NEW t \in Threads
          PROVE  op'[t].call # "none" <=> gate'[ProcOf[t]] = t
      <3>1. CASE ProcOf[t] \in ps
        BY <1>4, <1>5, <3>1 DEF NoOp
      <3>2. CASE ProcOf[t] \notin ps
        BY <1>4, <1>5, <3>2 DEF IInv, Owner
      <3> QED BY <3>1, <3>2
    <2> QED BY <2>1, <2>2, <2>3 DEF Owner
  <1> QED BY <1>2, <1>5, <1>7

LEMMA KillLemma ==
  ASSUME IInv, NEW p \in Procs, Kill(p)
  PROVE  IInv'
  <1>1. crashes' \in [killed : Nat, power : Nat]
    BY DEF Kill, Crash, IInv, Types, Data
  <1>2. Data' /\ Disk' /\ Bytewise'
    BY <1>1, SameLemma DEF Kill, Crash, IInv, Types, Data
  <1>3. /\ Types' /\ Owner'
        /\ \A t \in Threads : op'[t] = NoOp \/ op'[t] = op[t]
    BY <1>2, CrashLemma DEF Kill
  <1>4. Tasks'
    <2>1. Program(NoOp) /\ Doing(NoOp)'
      BY DEF Program, Doing, NoOp
    <2>2. ASSUME NEW t \in Threads, NEW x \in Ops, op'[t] = x
          PROVE  Program(x) /\ Doing(x)'
      <3>1. CASE x = NoOp
        BY <2>1, <3>1
      <3>2. CASE op[t] = x
        <4>1. Program(x) /\ Doing(x)
          BY <3>2 DEF IInv, Tasks
        <4> QED BY <4>1 DEF Kill, Crash, Doing, Calm
      <3> QED BY <1>3, <2>2, <3>1, <3>2
    <2> QED BY <2>2 DEF Tasks
  <1> QED BY <1>2, <1>3, <1>4 DEF IInv

LEMMA PowerFailLemma ==
  ASSUME IInv, PowerFail
  PROVE  IInv'
  <1>1. names' \in [Ids -> SUBSET Names] /\ \A i \in Ids : names'[i] \in alts[i]
    <2>1. /\ names' \in [Ids -> UNION {alts[i] : i \in Ids}]
          /\ \A i \in Ids : names'[i] \in alts[i]
      BY DEF PowerFail
    <2>2. \A i \in Ids : names'[i] \in SUBSET Names
      BY <2>1 DEF IInv, Types, Data
    <2> QED BY <2>1, <2>2
  <1>2. alts' \in [Ids -> SUBSET SUBSET Names] /\ \A i \in Ids : alts'[i] = {names'[i]}
    BY <1>1 DEF PowerFail, SyncDirectory
  <1>3. /\ torn \subseteq torn' /\ torn' \subseteq torn \cup (issued \ written)
        /\ UNCHANGED <<written, issued, history, outside, faults>>
    BY DEF PowerFail, Crash
  <1>4. crashes' \in [killed : Nat, power : Nat]
    BY DEF PowerFail, Crash, IInv, Types, Data
  <1>5. Data'
    BY <1>1, <1>2, <1>3, <1>4 DEF IInv, Types, Data
  <1>6. Bytewise'
    BY <1>3 DEF IInv, Bytewise
  <1>7. Disk'
    <2>1. \A i \in Ids \ issued' : alts'[i] = {{}}
      BY <1>1, <1>2, <1>3 DEF IInv, Disk
    <2>2. \A i \in Ids \ published' : \A ns \in alts'[i] : ns \subseteq {"tmp"}
      BY <1>1, <1>2, <1>3 DEF IInv, Disk
    <2>3. \A i \in Ids : names'[i] \in alts'[i]
      BY <1>2
    <2>4. \A i \in Ids : names'[i] \cap Evidence = {} =>
            \A ns \in alts'[i] : ns \cap Evidence = {}
      BY <1>2
    <2> QED BY <2>1, <2>2, <2>3, <2>4 DEF Disk
  <1>8. Types' /\ Owner' /\ \A t \in Threads : op'[t] = NoOp
    BY <1>5, CrashLemma DEF PowerFail
  <1>9. Tasks'
    <2>1. Program(NoOp) /\ Doing(NoOp)'
      BY DEF Program, Doing, NoOp
    <2>2. ASSUME NEW t \in Threads, NEW x \in Ops, op'[t] = x
          PROVE  Program(x) /\ Doing(x)'
      <3>1. x = NoOp
        BY <1>8, <2>2
      <3> QED BY <2>1, <3>1
    <2> QED BY <2>2 DEF Tasks
  <1> QED BY <1>6, <1>7, <1>8, <1>9 DEF IInv

LEMMA RotLemma ==
  ASSUME IInv, NEW i \in Ids, Rot(i)
  PROVE  IInv'
  <1>1. i \in issued
    BY DEF Rot, IInv, Disk
  <1>2. Types'
    BY DEF Rot, IInv, Types, Data
  <1>3. Owner' /\ Disk'
    BY DEF Rot, IInv, Owner, Disk
  <1>4. Bytewise'
    BY <1>1 DEF Rot, IInv, Bytewise
  <1>5. ASSUME NEW t \in Threads, NEW x \in Ops, op'[t] = x
        PROVE  Program(x) /\ Doing(x)'
    <2>1. Program(x) /\ Doing(x) /\ x.id # i
      BY <1>5 DEF Rot, Target, IInv, Tasks
    <2> QED BY <2>1 DEF Rot, Doing, Calm
  <1> QED BY <1>2, <1>3, <1>4, <1>5 DEF IInv, Tasks

LEMMA InitHolds == Init => IInv
  <1> SUFFICES ASSUME Init PROVE IInv
    OBVIOUS
  <1>1. NoOp \in Ops
    BY DEF NoOp, Ops, Calls, Steps, Kinds
  <1>2. Types
    BY <1>1 DEF Init, Types, Data
  <1>3. Owner
    BY DEF Init, Owner, NoOp
  <1>4. Program(NoOp) /\ Doing(NoOp)
    BY DEF Program, Doing, NoOp
  <1>5. ASSUME NEW t \in Threads, NEW x \in Ops, op[t] = x
        PROVE  Program(x) /\ Doing(x)
    <2>1. x = NoOp
      BY <1>5 DEF Init
    <2> QED BY <1>4, <2>1
  <1>6. Tasks
    BY <1>5 DEF Tasks
  <1>7. Disk /\ Bytewise
    BY DEF Init, Disk, Bytewise
  <1> QED BY <1>2, <1>3, <1>6, <1>7 DEF IInv

LEMMA NextHolds == IInv /\ [Next]_vars => IInv'
  <1> SUFFICES ASSUME IInv, [Next]_vars PROVE IInv'
    OBVIOUS
  <1>1. ASSUME NEW t \in Threads, Working(t) PROVE IInv'
    BY <1>1, ScanLemma, CreateLemma, WriteLemma, PublishLemma, SyncLinkLemma, UnlinkLemma,
       RemoveLemma, SyncAndReturnLemma, FailLemma DEF Working
  <1>2. CASE UNCHANGED vars
    <2>1. Types' /\ Owner' /\ Disk' /\ Bytewise'
      BY <1>2 DEF vars, IInv, Types, Data, Owner, Disk, Bytewise
    <2>2. ASSUME NEW t \in Threads, NEW x \in Ops, op'[t] = x
          PROVE  Program(x) /\ Doing(x)'
      <3>1. Program(x) /\ Doing(x)
        BY <1>2, <2>2 DEF vars, IInv, Tasks
      <3> QED BY <1>2, <3>1 DEF vars, Doing, Calm
    <2> QED BY <2>1, <2>2 DEF IInv, Tasks
  <1> QED BY <1>1, <1>2, OpeningLemma, KillLemma, CallingLemma, PowerFailLemma, RotLemma
          DEF Next

\* The inductive invariant holds of every reachable state.
THEOREM Inductive == Spec => []IInv
  <1> QED BY InitHolds, NextHolds, PTL DEF Spec

\* However many processes, threads, failures and crashes there are, no enqueue
\* ever finds its temporary gone and no promised record is damaged by a crash.
THEOREM BytesSafe == Spec => []BytesAreSafe
  <1>1. IInv => BytesAreSafe
    <2> SUFFICES ASSUME IInv PROVE BytesAreSafe
      OBVIOUS
    <2>1. ASSUME NEW t \in Threads, Writes(t) PROVE "tmp" \in names[Target(t)]
      <3>1. PICK o : o = op[t]
        OBVIOUS
      <3>2. /\ o.call = "enqueue" /\ o.pc \in {"write", "publish"}
            /\ Doing(o) /\ o.id \in Ids /\ o.id # None
        BY <2>1, <3>1, WorkerLemma DEF Writes
      <3>3. names[o.id] = {"tmp"}
        BY <3>2 DEF Doing, Shape, Old
      <3> QED BY <3>1, <3>3 DEF Target
    <2>2. promised \cap torn \subseteq rotted
      BY DEF IInv, Bytewise
    <2> QED BY <2>1, <2>2 DEF BytesAreSafe
  <1> QED BY <1>1, Inductive, PTL

-----------------------------------------------------------------------------
(* The spool is a durable queue: each step is one of the queue or leaves it *)
(* alone.                                                                   *)

View == [i \in Ids |-> PlaceOf(names[i])]
Fate == [i \in Ids |-> {PlaceOf(ns) : ns \in alts[i]}]

\* DurableQueue with its proofs; its definitions are those of Queue.
QP == INSTANCE DurableQueue_proofs WITH view <- View, fate <- Fate

LEMMA SameQueue == (QP!Init <=> Queue!Init) /\ (QP!Next <=> Queue!Next)
  BY DEF QP!Init, Queue!Init, QP!Next, Queue!Next, QP!qvars, Queue!qvars, QP!Places,
         Queue!Places, QP!Publish, Queue!Publish, QP!Remove, Queue!Remove, QP!Isolate,
         Queue!Isolate, QP!Leave, Queue!Leave, QP!Change, Queue!Change, QP!Synced,
         Queue!Synced, QP!Unsynced, Queue!Unsynced, QP!Promise, Queue!Promise, QP!Flush,
         Queue!Flush, QP!Confirm, Queue!Confirm, QP!PowerFail, Queue!PowerFail, View, Fate

LEMMA PlaceLemma ==
  /\ \A ns : PlaceOf(ns) \in QP!Places
  /\ \A ns : PlaceOf(ns \ {"tmp"}) = PlaceOf(ns) /\ PlaceOf(ns \cup {"tmp"}) = PlaceOf(ns)
  /\ \A ns, x : x \in Evidence => PlaceOf(ns \cup {x}) = "iso"
  /\ \A ns : ns \cap Evidence = {} => PlaceOf(ns \cup {"record"}) = "in"
                                      /\ PlaceOf(ns \ {"record"}) = "out"
  BY DEF PlaceOf, QP!Places, Evidence

\* An operation on a file moves its record to the place p, or leaves it there.
LEMMA MoveLemma ==
  ASSUME Data, Disk, NEW i \in Ids, NEW drop, NEW add, Renamed(i, drop, add), NEW p,
         \A ns \in alts[i] : PlaceOf((ns \ drop) \cup add) = p
  PROVE  QP!Unsynced([View EXCEPT ![i] = p])
  <1> DEFINE v == [View EXCEPT ![i] = p]
  <1>1. /\ \A j \in Ids \ {i} : names'[j] = names[j] /\ alts'[j] = alts[j]
        /\ names'[i] = (names[i] \ drop) \cup add
        /\ \A ns : ns \in alts'[i] <=>
             ns \in alts[i] \/ \E old \in alts[i] : ns = (old \ drop) \cup add
        /\ \A j \in Ids : names[j] \in alts[j]
    BY DEF Renamed, Disk
  <1>2. \A j \in Ids : v[j] = IF j = i THEN p ELSE PlaceOf(names[j])
    BY DEF View
  <1>3. View' = v
    <2>1. \A j \in Ids : View'[j] = v[j]
      <3>1. \A j \in Ids : View'[j] = PlaceOf(names'[j])
        BY DEF View, PlaceOf
      <3>2. PlaceOf(names'[i]) = p
        BY <1>1
      <3>3. \A j \in Ids \ {i} : PlaceOf(names'[j]) = PlaceOf(names[j])
        BY <1>1
      <3> QED BY <1>2, <3>1, <3>2, <3>3
    <2>2. View' = [j \in Ids |-> View'[j]] /\ v = [j \in Ids |-> v[j]]
      BY DEF View
    <2> QED BY <2>1, <2>2
  <1>4. \A j \in Ids : Fate'[j] = Fate[j] \cup {v[j]}
    <2>1. ASSUME NEW j \in Ids, j # i PROVE Fate'[j] = Fate[j] \cup {v[j]}
      BY <1>1, <1>2, <2>1 DEF Fate
    <2>2. ASSUME NEW x PROVE x \in Fate'[i] <=> x \in Fate[i] \cup {p}
      <3>1. x \in Fate'[i] <=> \E ns \in alts'[i] : x = PlaceOf(ns)
        BY DEF Fate
      <3>2. x \in Fate[i] <=> \E ns \in alts[i] : x = PlaceOf(ns)
        BY DEF Fate
      <3>3. \A ns : ns \in alts[i] => ns \in alts'[i]
        BY <1>1
      <3>4. PlaceOf(names'[i]) = p /\ names'[i] \in alts'[i]
        BY <1>1
      <3>5. ASSUME NEW ns \in alts'[i], ns \notin alts[i] PROVE PlaceOf(ns) = p
        <4>1. PICK old \in alts[i] : ns = (old \ drop) \cup add
          BY <1>1, <3>5
        <4> QED BY <4>1
      <3> QED BY <3>1, <3>2, <3>3, <3>4, <3>5
    <2>3. Fate'[i] = Fate[i] \cup {v[i]}
      BY <1>2, <2>2
    <2> QED BY <2>1, <2>3
  <1>5. Fate' = [j \in Ids |-> Fate[j] \cup {v[j]}]
    BY <1>4 DEF Fate
  <1> QED BY <1>3, <1>5 DEF QP!Unsynced

LEMMA StayLemma ==
  ASSUME Data, Disk, NEW i \in Ids, NEW drop, NEW add, Renamed(i, drop, add),
         \A ns \in alts[i] : PlaceOf((ns \ drop) \cup add) = PlaceOf(ns)
  PROVE  View' = View /\ Fate' = Fate
  <1>1. /\ \A j \in Ids \ {i} : names'[j] = names[j] /\ alts'[j] = alts[j]
        /\ names'[i] = (names[i] \ drop) \cup add /\ names[i] \in alts[i]
        /\ \A ns : ns \in alts'[i] <=>
             ns \in alts[i] \/ \E old \in alts[i] : ns = (old \ drop) \cup add
    BY DEF Renamed, Disk
  <1>2. \A j \in Ids : PlaceOf(names'[j]) = PlaceOf(names[j])
    BY <1>1
  <1>3. ASSUME NEW j \in Ids
        PROVE  {PlaceOf(ns) : ns \in alts'[j]} = {PlaceOf(ns) : ns \in alts[j]}
    <2>1. CASE j # i
      BY <1>1, <2>1
    <2>2. CASE j = i
      <3>1. ASSUME NEW ns \in alts'[i] PROVE \E old \in alts[i] : PlaceOf(ns) = PlaceOf(old)
        BY <1>1, <3>1
      <3>2. alts[i] \subseteq alts'[i]
        BY <1>1
      <3> QED BY <2>2, <3>1, <3>2
    <2> QED BY <2>1, <2>2
  <1> QED BY <1>2, <1>3 DEF View, Fate

\* A synchronized directory flushes the queue.
LEMMA FlushLemma ==
  ASSUME Data, SyncDirectory, \A i \in Ids : PlaceOf(names'[i]) = PlaceOf(names[i])
  PROVE  QP!Synced(View)
  <1>1. View' = View
    BY DEF View
  <1>2. \A i \in Ids : {PlaceOf(ns) : ns \in alts'[i]} = {View[i]}
    <2> SUFFICES ASSUME NEW i \in Ids PROVE {PlaceOf(ns) : ns \in alts'[i]} = {View[i]}
      OBVIOUS
    <2>1. alts'[i] = {names'[i]}
      BY DEF SyncDirectory
    <2>2. View[i] = PlaceOf(names'[i])
      BY DEF View
    <2> QED BY <2>1, <2>2
  <1>3. Fate' = [i \in Ids |-> {View[i]}]
    BY <1>2 DEF Fate
  <1> QED BY <1>1, <1>3 DEF QP!Synced

\* Nothing more is promised.
LEMMA NoPromise == promised' = promised => QP!Promise
  <1>1. {} \in SUBSET published' /\ (\A i \in {} \ promised : Fate'[i] = {"in"})
    OBVIOUS
  <1>2. promised = promised \cup {}
    OBVIOUS
  <1> QED BY <1>1, <1>2 DEF QP!Promise

\* The queue does not move when the directory and its history do not.
LEMMA StillLemma == UNCHANGED <<disk, history>> => UNCHANGED QP!qvars
  BY DEF QP!qvars, View, Fate

LEMMA PublishQueue ==
  ASSUME IInv, NEW t \in Threads, PublishRename(t) \/ PublishLink(t)
  PROVE  QP!Next
  <1>1. PICK o : o = op[t]
    OBVIOUS
  <1>2. o.pc = "publish" /\ o.call # "none"
    BY <1>1 DEF PublishRename, PublishLink, At, IInv, Types, Tasks, Program, Ops, NoOp
  <1>3. /\ o.call = "enqueue" => o.to = "record"
        /\ o.call # "enqueue" => o.to \in Evidence
        /\ o.to \in Kinds
    BY <1>1, <1>2, WorkerLemma DEF Program, Calls, Evidence
  <1>4. PICK i : i = o.id
    OBVIOUS
  <1>5. /\ i \in Ids /\ names[i] = {Old(o)} /\ Data /\ Disk
        /\ o.call = "enqueue" => i \notin published
    BY <1>1, <1>2, <1>3, <1>4, WorkerLemma DEF Doing, Shape
  <1>6. PICK drop : drop = IF linking THEN {} ELSE {Old(o)}
    OBVIOUS
  <1>7. /\ Rename(i, drop, {o.to})
        /\ published' = IF o.call = "enqueue" THEN published \cup {i} ELSE published
        /\ released' = IF o.call = "enqueue" THEN released ELSE released \cup {i}
        /\ promised' = promised
    BY <1>1, <1>4, <1>6
    DEF PublishRename, PublishLink, Published, Released, Target, From, Old
  <1>8. Renamed(i, drop, {o.to})
    <2>1. drop \in SUBSET Names /\ {o.to} \in SUBSET Names
      BY <1>3, <1>6 DEF Old, Names, Evidence, Kinds
    <2> QED BY <1>5, <1>7, <2>1, RenameLemma
  <1>9. CASE o.call = "enqueue"
    <2>1. \A ns \in alts[i] : PlaceOf((ns \ drop) \cup {o.to}) = "in"
      <3>1. \A ns \in alts[i] : ns \subseteq {"tmp"}
        BY <1>5, <1>9 DEF Disk
      <3> QED BY <1>3, <1>9, <3>1 DEF PlaceOf, Evidence
    <2>2. QP!Unsynced([View EXCEPT ![i] = "in"])
      BY <1>5, <1>8, <2>1, MoveLemma
    <2>3. View[i] = "out"
      BY <1>5, <1>9 DEF View, PlaceOf, Old, Evidence
    <2>4. QP!Publish(i)
      BY <1>5, <1>7, <1>9, <2>2, <2>3, NoPromise DEF QP!Publish, QP!Change
    <2> QED BY <1>5, <2>4 DEF QP!Next
  <1>10. CASE o.call # "enqueue"
    <2>1. \A ns \in alts[i] : PlaceOf((ns \ drop) \cup {o.to}) = "iso"
      BY <1>3, <1>10, PlaceLemma
    <2>2. QP!Unsynced([View EXCEPT ![i] = "iso"])
      BY <1>5, <1>8, <2>1, MoveLemma
    <2>3. View[i] = "in"
      BY <1>5, <1>10 DEF View, PlaceOf, Old, Evidence
    <2>4. QP!Isolate(i)
      BY <1>7, <1>10, <2>2, <2>3 DEF QP!Isolate, QP!Leave, QP!Change
    <2> QED BY <1>5, <2>4 DEF QP!Next
  <1> QED BY <1>9, <1>10

LEMMA UnlinkQueue ==
  ASSUME IInv, NEW t \in Threads, UnlinkOld(t)
  PROVE  UNCHANGED QP!qvars
  <1>1. PICK o : o = op[t]
    OBVIOUS
  <1>2. o.pc = "unlink" /\ o.call # "none"
    BY <1>1 DEF UnlinkOld, At, IInv, Types, Tasks, Program, Ops, NoOp
  <1>3. /\ Program(o) /\ Doing(o) /\ o.id \in Ids /\ o.call \in Calls /\ Data /\ Disk
    BY <1>1, <1>2, WorkerLemma
  <1>4. PICK i : i = o.id
    OBVIOUS
  <1>5. i \in Ids /\ alts[i] = {{Old(o), o.to}} /\ (o.call # "enqueue" => o.to \in Evidence)
    BY <1>2, <1>3, <1>4 DEF Doing, Shape, Program, Calls, Evidence
  <1>6. Renamed(i, {Old(o)}, {})
    <2>1. Rename(i, {Old(o)}, {})
      BY <1>1, <1>4 DEF UnlinkOld, Target, From, Old
    <2>2. {Old(o)} \in SUBSET Names /\ {} \in SUBSET Names
      BY DEF Old, Names
    <2> QED BY <1>3, <1>5, <2>1, <2>2, RenameLemma
  <1>7. \A ns \in alts[i] : PlaceOf((ns \ {Old(o)}) \cup {}) = PlaceOf(ns)
    <2>1. CASE o.call = "enqueue"
      BY <2>1 DEF PlaceOf, Old, Evidence
    <2>2. CASE o.call # "enqueue"
      <3> SUFFICES ASSUME NEW ns \in alts[i]
                   PROVE  PlaceOf((ns \ {Old(o)}) \cup {}) = PlaceOf(ns)
        OBVIOUS
      <3>1. o.to \in ns /\ o.to \in (ns \ {Old(o)}) \cup {}
        BY <1>5, <2>2 DEF Old, Evidence
      <3> QED BY <1>5, <2>2, <3>1 DEF PlaceOf
    <2> QED BY <2>1, <2>2
  <1>8. View' = View /\ Fate' = Fate
    BY <1>3, <1>5, <1>6, <1>7, StayLemma
  <1> QED BY <1>8 DEF UnlinkOld, QP!qvars

LEMMA RemoveQueue ==
  ASSUME IInv, NEW t \in Threads, Remove(t)
  PROVE  QP!Next
  <1>1. PICK o : o = op[t]
    OBVIOUS
  <1>2. o.pc = "remove" /\ o.call # "none"
    BY <1>1 DEF Remove, At, IInv, Types, Tasks, Program, Ops, NoOp
  <1>3. o.call = "ack" /\ Doing(o) /\ o.id \in Ids /\ o.id # None /\ Data /\ Disk
    BY <1>1, <1>2, WorkerLemma DEF Program, Calls
  <1>4. PICK i : i = o.id
    OBVIOUS
  <1>5. i \in Ids /\ names[i] = {"record"}
    BY <1>2, <1>3, <1>4 DEF Doing, Shape, Old
  <1>6. Renamed(i, {"record"}, {})
    BY <1>1, <1>3, <1>4, <1>5, RenameLemma DEF Remove, Target, Names
  <1>7. \A ns \in alts[i] : PlaceOf((ns \ {"record"}) \cup {}) = "out"
    <2>1. \A ns \in alts[i] : ns \cap Evidence = {}
      BY <1>3, <1>5 DEF Disk, Evidence
    <2> QED BY <2>1 DEF PlaceOf
  <1>8. QP!Unsynced([View EXCEPT ![i] = "out"])
    BY <1>3, <1>5, <1>6, <1>7, MoveLemma
  <1>9. View[i] = "in"
    BY <1>5 DEF View, PlaceOf, Evidence
  <1>10. QP!Remove(i)
    BY <1>1, <1>4, <1>8, <1>9 DEF Remove, Target, QP!Remove, QP!Leave, QP!Change
  <1> QED BY <1>5, <1>10 DEF QP!Next

LEMMA SyncQueue ==
  ASSUME IInv, NEW t \in Threads, SyncAndReturn(t)
  PROVE  QP!Next
  <1>1. PICK o : o = op[t]
    OBVIOUS
  <1>2. o.pc = "sync" /\ o.call # "none"
    BY <1>1 DEF SyncAndReturn, At, IInv, Types, Tasks, Program, Ops, NoOp
  <1>3. Program(o) /\ Doing(o) /\ o.id \in Ids /\ o.id # None /\ Data /\ Disk
    BY <1>1, <1>2, WorkerLemma
  <1>4. PICK i : i = o.id
    OBVIOUS
  <1>5. QP!Synced(View)
    BY <1>3, FlushLemma DEF SyncAndReturn
  <1>6. CASE o.call = "enqueue"
    <2>1. names[i] = {"record"} /\ names[i] \in alts[i]
      BY <1>2, <1>3, <1>4, <1>6 DEF Program, Doing, Shape, Disk
    <2>2. i \in published
      BY <1>3, <1>4, <2>1 DEF Disk
    <2>3. Fate'[i] = {"in"}
      <3>1. View[i] = "in"
        BY <1>3, <1>4, <2>1 DEF View, PlaceOf, Evidence
      <3> QED BY <1>3, <1>4, <1>5, <3>1 DEF QP!Synced
    <2>4. promised' = promised \cup {i} /\ published' = published
      BY <1>1, <1>4, <1>6 DEF SyncAndReturn, Target
    <2>5. QP!Promise
      BY <2>2, <2>3, <2>4 DEF QP!Promise
    <2> QED BY <1>5, <2>5 DEF SyncAndReturn, QP!Flush, QP!Next
  <1>7. CASE o.call # "enqueue"
    BY <1>1, <1>5, <1>7, NoPromise DEF SyncAndReturn, QP!Flush, QP!Next
  <1> QED BY <1>6, <1>7

LEMMA PowerQueue ==
  ASSUME IInv, PowerFail
  PROVE  QP!Next
  <1>1. \A i \in Ids : names'[i] \in alts[i] /\ alts'[i] = {names'[i]}
    BY DEF PowerFail, SyncDirectory
  <1>2. \A i \in Ids : View'[i] \in Fate[i] /\ View'[i] \in QP!Places
    BY <1>1, PlaceLemma DEF View, Fate
  <1>3. View' \in {v \in [Ids -> QP!Places] : \A i \in Ids : v[i] \in Fate[i]}
    <2>1. View' = [i \in Ids |-> View'[i]]
      BY DEF View
    <2> QED BY <1>2, <2>1
  <1>4. \A i \in Ids : {PlaceOf(ns) : ns \in alts'[i]} = {View'[i]}
    <2> SUFFICES ASSUME NEW i \in Ids PROVE {PlaceOf(ns) : ns \in alts'[i]} = {View'[i]}
      OBVIOUS
    <2>1. View'[i] = PlaceOf(names'[i]) /\ alts'[i] = {names'[i]}
      BY <1>1 DEF View
    <2> QED BY <2>1
  <1>5. Fate' = [i \in Ids |-> {View'[i]}]
    BY <1>4 DEF Fate
  <1> QED BY <1>3, <1>5 DEF PowerFail, Crash, QP!PowerFail, QP!Next

\* Every step of the spool is a step of the queue or leaves it as it is.
LEMMA QueueStep ==
  ASSUME IInv, [Next]_vars
  PROVE  QP!Next \/ UNCHANGED QP!qvars
  <1>0. Data /\ Disk
    BY DEF IInv, Types
  <1>1. ASSUME NEW t \in Threads, Calling(t) PROVE UNCHANGED QP!qvars
    BY <1>1, StillLemma DEF Calling, Enqueue, Ack, Quarantine, NextRecord
  <1>2. ASSUME NEW t \in Threads, Scan(t) \/ WriteTemporary(t) PROVE UNCHANGED QP!qvars
    BY <1>2, StillLemma DEF Scan, WriteTemporary
  <1>3. ASSUME NEW t \in Threads, CreateTemporary(t) PROVE UNCHANGED QP!qvars
    <2>1. PICK i : i = op[t].id
      OBVIOUS
    <2>2. i \in Ids
      BY <1>3, <2>1, WorkerLemma
      DEF CreateTemporary, At, IInv, Types, Tasks, Program, Ops, NoOp
    <2>3. Renamed(i, {}, {"tmp"})
      BY <1>0, <1>3, <2>1, <2>2, RenameLemma DEF CreateTemporary, Target, Names
    <2>4. \A ns \in alts[i] : PlaceOf((ns \ {}) \cup {"tmp"}) = PlaceOf(ns)
      BY DEF PlaceOf, Evidence
    <2>5. View' = View /\ Fate' = Fate
      BY <1>0, <2>2, <2>3, <2>4, StayLemma
    <2> QED BY <1>3, <2>5 DEF CreateTemporary, QP!qvars
  <1>4. ASSUME NEW t \in Threads, PublishRename(t) \/ PublishLink(t) PROVE QP!Next
    BY <1>4, PublishQueue
  <1>5. ASSUME NEW t \in Threads, SyncLink(t) PROVE QP!Next
    <2>1. QP!Synced(View)
      BY <1>0, <1>5, FlushLemma DEF SyncLink
    <2> QED BY <1>5, <2>1, NoPromise DEF SyncLink, QP!Flush, QP!Next
  <1>6. ASSUME NEW t \in Threads, UnlinkOld(t) PROVE UNCHANGED QP!qvars
    BY <1>6, UnlinkQueue
  <1>7. ASSUME NEW t \in Threads, Remove(t) PROVE QP!Next
    BY <1>7, RemoveQueue
  <1>8. ASSUME NEW t \in Threads, SyncAndReturn(t) PROVE QP!Next
    BY <1>8, SyncQueue
  <1>9. ASSUME NEW t \in Threads, Fail(t) PROVE QP!Next \/ UNCHANGED QP!qvars
    <2>1. CASE UNCHANGED disk
      BY <1>9, <2>1, StillLemma DEF Fail
    <2>2. CASE UNCHANGED names /\ SyncDirectory
      <3>1. QP!Synced(View)
        BY <1>0, <2>2, FlushLemma
      <3> QED BY <1>9, <3>1, NoPromise DEF Fail, QP!Flush, QP!Next
    <2>3. CASE /\ op[t].call = "enqueue" /\ "tmp" \in names[Target(t)]
               /\ Rename(Target(t), {"tmp"}, {})
      <3>1. PICK i : i = op[t].id
        OBVIOUS
      <3>2. i \in Ids
        BY <2>3, <3>1, WorkerLemma DEF Program
      <3>3. Renamed(i, {"tmp"}, {})
        BY <1>0, <2>3, <3>1, <3>2, RenameLemma DEF Target, Names
      <3>4. \A ns \in alts[i] : PlaceOf((ns \ {"tmp"}) \cup {}) = PlaceOf(ns)
        BY DEF PlaceOf, Evidence
      <3>5. View' = View /\ Fate' = Fate
        BY <1>0, <3>2, <3>3, <3>4, StayLemma
      <3> QED BY <1>9, <3>5 DEF Fail, QP!qvars
    <2> QED BY <1>9, <2>1, <2>2, <2>3 DEF Fail
  <1>10. ASSUME NEW p \in Procs, TryLock(p) \/ Opened(p) \/ Close(p) \/ Kill(p)
         PROVE  UNCHANGED QP!qvars
    BY <1>10, StillLemma DEF TryLock, Opened, Close, Kill, Crash
  <1>11. ASSUME NEW p \in Procs, NEW i \in Ids, Sweep(p, i) PROVE QP!Next
    <2>1. names[i] = {"tmp"}
      <3>1. names[i] \in SUBSET Names /\ Cardinality(names[i]) <= 1 /\ "tmp" \in names[i]
        BY <1>0, <1>11 DEF Sweep, Sweepable, Listable, Data
      <3>2. \A x, y \in names[i] : x = y
        BY <3>1, SingleLemma
      <3> QED BY <3>1, <3>2
    <2>2. \A j \in Ids : PlaceOf(names'[j]) = PlaceOf(names[j])
      <3>1. \A j \in Ids : names'[j] = IF j = i THEN {} ELSE names[j]
        BY <1>0, <1>11 DEF Sweep, Data
      <3>2. PlaceOf({}) = "out" /\ PlaceOf({"tmp"}) = "out"
        BY DEF PlaceOf, Evidence
      <3> QED BY <2>1, <3>1, <3>2
    <2>3. QP!Synced(View)
      BY <1>0, <1>11, <2>2, FlushLemma DEF Sweep
    <2> QED BY <1>11, <2>3, NoPromise DEF Sweep, QP!Flush, QP!Next
  <1>12. ASSUME NEW p \in Procs, OpenFails(p) PROVE UNCHANGED QP!qvars
    <2>1. CASE UNCHANGED disk
      BY <1>12, <2>1, StillLemma DEF OpenFails
    <2>2. ASSUME NEW i \in Temporaries, Rename(i, {"tmp"}, {}) PROVE UNCHANGED QP!qvars
      <3>1. i \in Ids
        BY DEF Temporaries, Files
      <3>2. Renamed(i, {"tmp"}, {})
        BY <1>0, <2>2, <3>1, RenameLemma DEF Names
      <3>3. \A ns \in alts[i] : PlaceOf((ns \ {"tmp"}) \cup {}) = PlaceOf(ns)
        BY DEF PlaceOf, Evidence
      <3>4. View' = View /\ Fate' = Fate
        BY <1>0, <3>1, <3>2, <3>3, StayLemma
      <3> QED BY <1>12, <3>4 DEF OpenFails, QP!qvars
    <2> QED BY <1>12, <2>1, <2>2 DEF OpenFails
  <1>13. CASE PowerFail
    BY <1>13, PowerQueue
  <1>14. ASSUME NEW i \in Ids, Rot(i) PROVE UNCHANGED QP!qvars
    BY <1>14, StillLemma DEF Rot
  <1>15. CASE UNCHANGED vars
    BY <1>15, StillLemma DEF vars
  <1>16. ASSUME NEW t \in Threads, Working(t) PROVE QP!Next \/ UNCHANGED QP!qvars
    BY <1>2, <1>3, <1>4, <1>5, <1>6, <1>7, <1>8, <1>9, <1>16 DEF Working
  <1>17. ASSUME NEW p \in Procs, Opening(p) \/ Kill(p) PROVE QP!Next \/ UNCHANGED QP!qvars
    BY <1>10, <1>11, <1>12, <1>17 DEF Opening
  <1> QED BY <1>1, <1>13, <1>14, <1>15, <1>16, <1>17 DEF Next

LEMMA QueueInit == Init => QP!Init
  <1> SUFFICES ASSUME Init PROVE QP!Init
    OBVIOUS
  <1>1. PlaceOf({}) = "out"
    BY DEF PlaceOf, Evidence
  <1>2. \A i \in Ids : View[i] = "out"
    BY <1>1 DEF Init, View
  <1>3. \A i \in Ids : {PlaceOf(ns) : ns \in alts[i]} = {"out"}
    BY <1>1 DEF Init
  <1>4. Fate = [i \in Ids |-> {View[i]}]
    BY <1>2, <1>3 DEF Fate
  <1>5. View \in [Ids -> QP!Places]
    BY <1>2 DEF View, QP!Places
  <1>6. published = {i \in Ids : View[i] # "out"}
    BY <1>2 DEF Init
  <1> QED BY <1>4, <1>5, <1>6 DEF Init, QP!Init

\* Every call, crash, clean-up and failure of the spool is a step of a durable
\* queue: whatever the interleaving, it does to its records what a queue may do.
THEOREM IsAQueue == Spec => ImplementsQueue
  <1>1. Init => Queue!Init
    BY QueueInit, SameQueue
  <1>2. IInv /\ [Next]_vars => [Queue!Next]_Queue!qvars
    <2>1. UNCHANGED QP!qvars => UNCHANGED Queue!qvars
      BY DEF QP!qvars, Queue!qvars, View, Fate
    <2> QED BY <2>1, QueueStep, SameQueue
  <1> QED BY <1>1, <1>2, Inductive, PTL DEF Spec, ImplementsQueue, Queue!Spec

\* What DurableQueue proves of a queue therefore holds of the spool: a record whose
\* enqueue returned Ok is in the queue, and after every power failure there still
\* is, until somebody acknowledges or quarantines it.
THEOREM KeepsPromises == Spec => []Queue!PromiseKept
  <1>1. Init => QP!Init
    BY QueueInit
  <1>2. IInv /\ [Next]_vars => [QP!Next]_(QP!qvars)
    BY QueueStep
  <1>3. Spec => QP!Spec
    BY <1>1, <1>2, Inductive, PTL DEF Spec, QP!Spec
  <1>4. QP!PromiseKept => Queue!PromiseKept
    BY DEF QP!PromiseKept, Queue!PromiseKept, View, Fate
  <1> QED BY <1>3, <1>4, QP!KeepsPromises, PTL

\* No crash brings back a record whose removal reached the disk, or loses evidence.
THEOREM StaysSettled == Spec => Queue!SettledForever
  <1>1. Init => QP!Init
    BY QueueInit
  <1>2. IInv /\ [Next]_vars => [QP!Next]_(QP!qvars)
    BY QueueStep
  <1>3. Spec => QP!Spec
    BY <1>1, <1>2, Inductive, PTL DEF Spec, QP!Spec
  <1> QED BY <1>3, QP!StaysSettled, PTL
          DEF QP!SettledForever, Queue!SettledForever, QP!qvars, Queue!qvars, View, Fate

-----------------------------------------------------------------------------
(* The limits: while no call has failed, and processes were killed or the   *)
(* power failed but not both, the files that are there, those that a power  *)
(* failure may leave and those being enqueued fit together.                 *)

Whole == faults = 0 /\ crashes.killed = 0
Healthy == Whole \/ (faults = 0 /\ crashes.power = 0)

Small(ns) == \A x, y \in ns : x = y
Within(files) == Cardinality(files) <= MaxEntries /\ Bytes(files) <= MaxBytes

Present == {i \in Ids : names[i] # {}}
Held    == {i \in Ids : \E ns \in alts[i] : ns # {}}
Coming  == {i \in Ids : \E t \in Threads : op[t].call = "enqueue" /\ op[t].id = i}

\* An operation that has not yet changed the names of its file.
Starting(o) == o.pc \in {"create", "remove"} \/ (o.pc = "publish" /\ o.call # "enqueue")
Changing(i) == \E t \in Threads : op[t].id = i /\ ~Starting(op[t])

InBudget ==
  Healthy => /\ Within(Present \cup Coming)
             /\ ~linking => \A i \in Ids : Small(names[i])

CrashBudget ==
  Whole => /\ Within(Held \cup Coming)
           /\ ~linking => \A i \in Ids : \A ns \in alts[i] : Small(ns)
           /\ \A i \in Ids : Changing(i) \/ alts[i] = {names[i]}

Ready ==
  Healthy => \A p \in Procs : proc[p] = "open" /\ gate[p] = None => Usable

Budget == InBudget /\ CrashBudget /\ Ready

USE DEF Small

\* Sizes of sets of files.
LEMMA SizeLemma ==
  ASSUME NEW F \in SUBSET Ids
  PROVE  /\ IsFiniteSet(F) /\ Cardinality(F) \in Nat /\ Bytes(F) \in Nat
         /\ IsFiniteSet({b \in F \X (1..MaxRecord) : b[2] <= Size[b[1]]})
  <1>1. IsFiniteSet(F)
    BY FS_Subset
  <1>2. IsFiniteSet(F \X (1..MaxRecord))
    <2>1. IsFiniteSet(1..MaxRecord)
      BY FS_Interval
    <2> QED BY <1>1, <2>1, FS_Product
  <1>3. IsFiniteSet({b \in F \X (1..MaxRecord) : b[2] <= Size[b[1]]})
    BY <1>2, FS_Subset
  <1> QED BY <1>1, <1>3, FS_CardinalityType DEF Bytes

LEMMA WithinLemma ==
  ASSUME NEW F, NEW G \in SUBSET Ids, F \subseteq G, Within(G)
  PROVE  Within(F)
  <1> DEFINE B(S) == {b \in S \X (1..MaxRecord) : b[2] <= Size[b[1]]}
  <1>1. IsFiniteSet(G) /\ IsFiniteSet(B(G)) /\ F \in SUBSET Ids
    BY SizeLemma
  <1>2. Cardinality(F) <= Cardinality(G)
    BY <1>1, FS_Subset
  <1>3. B(F) \in SUBSET B(G)
    OBVIOUS
  <1>4. Cardinality(B(F)) <= Cardinality(B(G))
    BY <1>1, <1>3, FS_Subset
  <1>5. Bytes(F) <= Bytes(G)
    BY <1>4 DEF Bytes
  <1>6. /\ Cardinality(F) \in Nat /\ Cardinality(G) \in Nat
        /\ Bytes(F) \in Nat /\ Bytes(G) \in Nat
    BY <1>1, SizeLemma
  <1> QED BY <1>2, <1>5, <1>6 DEF Within

\* What a new record adds.
LEMMA AddLemma ==
  ASSUME NEW F \in SUBSET Ids, NEW i \in Ids,
         Cardinality(F) < MaxEntries, Bytes(F) + Size[i] <= MaxBytes
  PROVE  Within(F \cup {i})
  <1> DEFINE B(S) == {b \in S \X (1..MaxRecord) : b[2] <= Size[b[1]]}
  <1>1. /\ IsFiniteSet(F) /\ Cardinality(F) \in Nat /\ Bytes(F) \in Nat
        /\ IsFiniteSet(B(F)) /\ F \cup {i} \in SUBSET Ids
    BY SizeLemma
  <1>2. Cardinality(F \cup {i}) <= Cardinality(F) + 1 /\ Cardinality(F \cup {i}) \in Nat
    <2>1. Cardinality(F \cup {i})
            = IF i \in F THEN Cardinality(F) ELSE Cardinality(F) + 1
      BY <1>1, FS_AddElement
    <2> QED BY <1>1, <2>1
  <1>3. /\ IsFiniteSet({i} \X (1..Size[i]))
        /\ Cardinality({i} \X (1..Size[i])) = Size[i]
    <2>1. Size[i] \in Nat /\ Size[i] >= 1
      OBVIOUS
    <2>2. IsFiniteSet(1..Size[i]) /\ Cardinality(1..Size[i]) = Size[i]
      BY <2>1, FS_Interval
    <2>3. IsFiniteSet({i}) /\ Cardinality({i}) = 1
      BY FS_Singleton
    <2>4. /\ IsFiniteSet({i} \X (1..Size[i]))
          /\ Cardinality({i} \X (1..Size[i])) = Cardinality({i}) * Cardinality(1..Size[i])
      BY <2>2, <2>3, FS_Product
    <2> QED BY <2>1, <2>2, <2>3, <2>4
  <1>4. B(F \cup {i}) = B(F) \cup ({i} \X (1..Size[i]))
    OBVIOUS
  <1>5. Cardinality(B(F) \cup ({i} \X (1..Size[i])))
          = Cardinality(B(F)) + Cardinality({i} \X (1..Size[i]))
            - Cardinality(B(F) \cap ({i} \X (1..Size[i])))
    BY <1>1, <1>3, FS_Union
  <1>6. Cardinality(B(F) \cap ({i} \X (1..Size[i]))) \in Nat
    BY <1>1, FS_Intersection, FS_CardinalityType
  <1>7. Cardinality(B(F)) \in Nat
    BY <1>1, FS_CardinalityType
  <1>8. Cardinality(B(F \cup {i})) <= Cardinality(B(F)) + Size[i]
    BY <1>3, <1>4, <1>5, <1>6, <1>7
  <1>9. Bytes(F \cup {i}) <= Bytes(F) + Size[i] /\ Bytes(F \cup {i}) \in Nat
    BY <1>1, <1>8, SizeLemma DEF Bytes
  <1> QED BY <1>1, <1>2, <1>9 DEF Within

LEMMA SmallLemma ==
  ASSUME NEW S \in SUBSET Names
  PROVE  Cardinality(S) <= 1 <=> Small(S)
  <1>1. Cardinality(S) <= 1 => Small(S)
    BY SingleLemma
  <1>2. ASSUME Small(S) PROVE Cardinality(S) <= 1
    <2>1. CASE S = {}
      BY <2>1, FS_EmptySet
    <2>2. ASSUME NEW x \in S PROVE Cardinality(S) <= 1
      <3>1. S = {x}
        BY <1>2
      <3>2. Cardinality({x}) = 1
        BY FS_Singleton
      <3> QED BY <3>1, <3>2
    <2> QED BY <2>1, <2>2
  <1> QED BY <1>1, <1>2

\* What the budgets of the spool ask of a directory.
LEMMA ListLemma ==
  ASSUME Data
  PROVE  /\ Temporaries \cup Entries = Present /\ Present \in SUBSET Ids
         /\ Usable <=> (\A i \in Ids : Small(names[i])) /\ Temporaries = {} /\ Within(Present)
         /\ (\A i \in Ids : Small(names[i])) /\ Within(Present) => Sweepable
  <1>1. Temporaries \cup Entries = Present /\ Present \in SUBSET Ids
    <2>1. \A i \in Ids : names[i] \subseteq {"tmp"} \cup ({"record"} \cup Evidence)
      BY DEF Data, Names, Evidence
    <2> QED BY <2>1 DEF Temporaries, Entries, Files, Present
  <1>2. \A i \in Ids : Cardinality(names[i]) <= 1 <=> Small(names[i])
    BY SmallLemma DEF Data
  <1>3. Cardinality(Present) \in Nat /\ Bytes(Present) \in Nat
    BY <1>1, SizeLemma
  <1>4. \A n, b \in Nat : Listable(n + 1, b) <=>
          /\ \A i \in Ids : Small(names[i])
          /\ Cardinality(Present) <= n /\ Bytes(Present) <= b
    BY <1>1, <1>2, <1>3 DEF Listable
  <1>5. Usable <=> (\A i \in Ids : Small(names[i])) /\ Temporaries = {} /\ Within(Present)
    BY <1>4 DEF Usable, Within
  <1>6. (\A i \in Ids : Small(names[i])) /\ Within(Present) => Sweepable
    <2>1. MaxEntries + 1 \in Nat /\ MaxBytes + MaxRecord \in Nat
      OBVIOUS
    <2>2. Sweepable <=> Listable((MaxEntries + 1) + 1, MaxBytes + MaxRecord)
      BY DEF Sweepable
    <2> QED BY <1>3, <1>4, <2>1, <2>2 DEF Within
  <1> QED BY <1>1, <1>5, <1>6

\* Steps that leave the directory alone.
LEMMA QuietLemma ==
  ASSUME Data, Budget, UNCHANGED <<linking, disk, faults, crashes>>,
         Coming' \subseteq Coming, \A i \in Ids : Changing(i) => Changing(i)'
  PROVE  InBudget' /\ CrashBudget'
  <1>1. Present' = Present /\ Held' = Held /\ (Whole' <=> Whole) /\ (Healthy' <=> Healthy)
    BY DEF Present, Held, Whole, Healthy
  <1>2. Present \cup Coming \in SUBSET Ids /\ Held \cup Coming \in SUBSET Ids
    BY DEF Present, Held, Coming
  <1>3. InBudget'
    <2>1. Healthy => Within(Present' \cup Coming')
      BY <1>1, <1>2, WithinLemma DEF Budget, InBudget
    <2> QED BY <1>1, <2>1 DEF Budget, InBudget, Within, Bytes
  <1>4. CrashBudget'
    <2>1. Whole => Within(Held' \cup Coming')
      BY <1>1, <1>2, WithinLemma DEF Budget, CrashBudget
    <2>2. Whole => \A i \in Ids : Changing(i)' \/ alts'[i] = {names'[i]}
      BY DEF Budget, CrashBudget
    <2> QED BY <1>1, <2>1, <2>2 DEF Budget, CrashBudget, Within, Bytes
  <1> QED BY <1>3, <1>4

\* An operation on a file that is there or coming.
LEMMA MovesLemma ==
  ASSUME Data, Disk, Budget, NEW i \in Ids, NEW drop, NEW add, Renamed(i, drop, add),
         UNCHANGED <<linking, faults, crashes>>,
         Coming' \subseteq Coming, i \in Present \cup Coming,
         Changing(i)', \A j \in Ids : Changing(j) => Changing(j)',
         ~linking /\ Whole => \A ns \in alts[i] : Small((ns \ drop) \cup add),
         ~linking => Small(names'[i])
  PROVE  InBudget' /\ CrashBudget'
  <1>1. (Whole' <=> Whole) /\ (Healthy' <=> Healthy)
    BY DEF Whole, Healthy
  <1>2. Present \cup Coming \in SUBSET Ids /\ Held \cup Coming \in SUBSET Ids
    BY DEF Present, Held, Coming
  <1>3. /\ \A j \in Ids \ {i} : names'[j] = names[j] /\ alts'[j] = alts[j]
        /\ \A ns : ns \in alts'[i] <=>
             ns \in alts[i] \/ \E old \in alts[i] : ns = (old \ drop) \cup add
        /\ \A j \in Ids : names[j] \in alts[j]
    BY DEF Renamed, Disk
  <1>4. Present' \subseteq Present \cup {i} /\ Held' \subseteq Held \cup {i}
    BY <1>3 DEF Present, Held
  <1>5. Present \subseteq Held
    BY <1>3 DEF Present, Held
  <1>6. InBudget'
    <2>1. Healthy => Within(Present' \cup Coming')
      <3>1. Present' \cup Coming' \subseteq Present \cup Coming
        BY <1>4
      <3>2. Healthy => Within(Present \cup Coming)
        BY DEF Budget, InBudget
      <3> QED BY <1>2, <3>1, <3>2, WithinLemma
    <2>2. Healthy /\ ~linking => \A j \in Ids : Small(names'[j])
      BY <1>3 DEF Budget, InBudget
    <2> QED BY <1>1, <2>1, <2>2 DEF InBudget, Within, Bytes
  <1>7. CrashBudget'
    <2>0. Held' \cup Coming' \subseteq Held \cup Coming
      BY <1>4, <1>5
    <2>1. Whole => Within(Held' \cup Coming')
      BY <1>2, <2>0, WithinLemma DEF Budget, CrashBudget
    <2>2. Whole /\ ~linking => \A j \in Ids : \A ns \in alts'[j] : Small(ns)
      <3> SUFFICES ASSUME Whole, ~linking, NEW j \in Ids, NEW ns \in alts'[j] PROVE Small(ns)
        OBVIOUS
      <3>1. \A k \in Ids : \A x \in alts[k] : Small(x)
        BY DEF Budget, CrashBudget
      <3>2. CASE ns \in alts[j]
        BY <3>1, <3>2
      <3>3. CASE ns \notin alts[j]
        <4>1. j = i
          BY <1>3, <3>3
        <4>2. PICK old \in alts[i] : ns = (old \ drop) \cup add
          BY <1>3, <3>3, <4>1
        <4> QED BY <4>2
      <3> QED BY <3>2, <3>3
    <2>3. Whole => \A j \in Ids : Changing(j)' \/ alts'[j] = {names'[j]}
      BY <1>3 DEF Budget, CrashBudget
    <2> QED BY <1>1, <2>1, <2>2, <2>3 DEF CrashBudget, Within, Bytes
  <1> QED BY <1>6, <1>7

\* A synchronization, after which no file has more names than before.
LEMMA SyncsLemma ==
  ASSUME Data, Disk, Budget, SyncDirectory, \A i \in Ids : names'[i] \subseteq names[i],
         UNCHANGED <<linking, faults, crashes>>, Coming' \subseteq Coming
  PROVE  InBudget' /\ CrashBudget'
  <1>1. (Whole' <=> Whole) /\ (Healthy' <=> Healthy)
    BY DEF Whole, Healthy
  <1>2. Present \cup Coming \in SUBSET Ids
    BY DEF Present, Coming
  <1>3. \A i \in Ids : alts'[i] = {names'[i]}
    BY DEF SyncDirectory
  <1>4. Present' \subseteq Present /\ Held' \subseteq Present
    <2>1. Held' = Present'
      BY <1>3 DEF Present, Held
    <2>2. \A i \in Ids : names'[i] # {} => names[i] # {}
      OBVIOUS
    <2> QED BY <2>1, <2>2 DEF Present
  <1>5. Healthy => Within(Present' \cup Coming') /\ Within(Held' \cup Coming')
    BY <1>2, <1>4, WithinLemma DEF Budget, InBudget
  <1>6. Healthy /\ ~linking => \A i \in Ids : Small(names'[i])
    BY DEF Budget, InBudget
  <1>7. InBudget'
    BY <1>1, <1>5, <1>6 DEF InBudget, Within, Bytes
  <1>8. Whole => Healthy
    BY DEF Healthy
  <1>9. CrashBudget'
    BY <1>1, <1>3, <1>5, <1>6, <1>8 DEF CrashBudget, Within, Bytes
  <1> QED BY <1>7, <1>9

\* After a failing call, or a mixture of crashes, nothing is claimed.
LEMMA UnhealthyLemma == ~Healthy' => Budget'
  BY DEF Budget, InBudget, CrashBudget, Ready, Healthy

\* While a thread works there is no process that another one could enter.
LEMMA BusyLemma ==
  ASSUME Owner', NEW t \in Threads, op'[t].call # "none"
  PROVE  Ready'
  <1>1. gate'[ProcOf[t]] = t /\ t # None /\ ProcOf[t] \in Procs
    BY DEF Owner
  <1>2. lock' = ProcOf[t]
    BY <1>1 DEF Owner
  <1>3. \A p \in Procs : proc'[p] = "open" => p = ProcOf[t]
    BY <1>2 DEF Owner
  <1> QED BY <1>1, <1>3 DEF Ready

\* A process that was at rest and still is.
LEMMA SameReadyLemma ==
  ASSUME Ready, UNCHANGED names, Healthy' => Healthy,
         \A p \in Procs : proc'[p] = "open" /\ gate'[p] = None
                            => proc[p] = "open" /\ gate[p] = None
  PROVE  Ready'
  <1>1. Usable => Usable'
    BY DEF Usable, Listable, Temporaries, Entries, Files, Bytes
  <1> QED BY <1>1 DEF Ready

\* Before a call nothing is coming and no file is changing.
LEMMA EnteringLemma ==
  ASSUME IInv, Budget, NEW t \in Threads, Idle(t)
  PROVE  /\ Coming = {} /\ \A i \in Ids : ~Changing(i)
         /\ Whole => Held = Present
         /\ \A u \in Threads : op[u] = NoOp
  <1>1. \A u \in Threads : op[u] = NoOp
    BY Alone DEF IInv
  <1>2. \A i \in Ids : \A u \in Threads : op[u].id # i /\ op[u].call # "enqueue"
    BY <1>1 DEF NoOp
  <1>3. Coming = {} /\ \A i \in Ids : ~Changing(i)
    BY <1>2 DEF Coming, Changing
  <1>4. Whole => \A i \in Ids : alts[i] = {names[i]}
    BY <1>3 DEF Budget, CrashBudget
  <1>5. Whole => Held = Present
    BY <1>4 DEF Held, Present
  <1> QED BY <1>1, <1>3, <1>5

LEMMA CallingBudget ==
  ASSUME IInv, IInv', Budget, NEW t \in Threads, Calling(t)
  PROVE  Budget'
  <1>1. /\ Idle(t) /\ Data /\ Usable
        /\ UNCHANGED <<disk, linking, faults, crashes>>
    BY DEF Calling, Enqueue, Ack, Quarantine, NextRecord, Enter, Idle, IInv, Types
  <1>2. /\ Coming = {} /\ \A i \in Ids : ~Changing(i)
        /\ Whole => Held = Present
        /\ \A u \in Threads : op[u] = NoOp
    BY <1>1, EnteringLemma
  <1>3. PICK call, pc, i, to : Enter(t, call, pc, i, to) /\ call # "none"
    BY DEF Calling, Enqueue, Ack, Quarantine, NextRecord
  <1>4. op'[t].call # "none"
    BY <1>3 DEF Enter, IInv, Types
  <1>5. Ready'
    BY <1>4, BusyLemma DEF IInv
  <1>6. ASSUME NEW j \in Ids, Enqueue(t, j) PROVE Budget'
    <2>1. \A u \in Threads : op'[u].call = "enqueue" => u = t /\ op'[u].id = j
      BY <1>2, <1>6 DEF Enqueue, Enter, IInv, Types, NoOp
    <2>2. Coming' \subseteq {j}
      BY <2>1 DEF Coming
    <2>3. Present = Entries /\ Entries \in SUBSET Ids
      BY <1>1, ListLemma
    <2>4. Cardinality(Entries) < MaxEntries /\ Bytes(Entries) + Size[j] <= MaxBytes
      BY <1>6 DEF Enqueue, Room
    <2>5. Within(Entries \cup {j})
      BY <2>3, <2>4, AddLemma
    <2>6. Present' = Present /\ Held' = Held /\ (Whole' <=> Whole) /\ (Healthy' <=> Healthy)
      BY <1>1 DEF Present, Held, Whole, Healthy
    <2>7. Present' \cup Coming' \subseteq Entries \cup {j} /\ Entries \cup {j} \in SUBSET Ids
      BY <2>2, <2>3, <2>6
    <2>8. Within(Present' \cup Coming')
      BY <2>5, <2>7, WithinLemma
    <2>9. Whole => Within(Held' \cup Coming')
      BY <1>2, <2>6, <2>8
    <2>10. InBudget'
      BY <1>1, <2>6, <2>8 DEF Budget, InBudget, Within, Bytes
    <2>11. CrashBudget'
      BY <1>1, <1>2, <2>6, <2>9 DEF Budget, CrashBudget, Within, Bytes
    <2> QED BY <1>5, <2>10, <2>11 DEF Budget
  <1>7. ASSUME \A u \in Threads : op'[u].call # "enqueue" PROVE Budget'
    <2>1. Coming' = {}
      BY <1>7 DEF Coming
    <2>2. InBudget' /\ CrashBudget'
      BY <1>1, <1>2, <2>1, QuietLemma
    <2> QED BY <1>5, <2>2 DEF Budget
  <1>8. CASE \A j \in Ids : ~Enqueue(t, j)
    <2>1. PICK o : o.call # "enqueue" /\ op' = [op EXCEPT ![t] = o]
      <3>1. PICK c, p, x, y : Enter(t, c, p, x, y) /\ c # "enqueue"
        BY <1>8 DEF Calling, Ack, Quarantine, NextRecord
      <3>2. PICK o : o = [call |-> c, pc |-> p, id |-> x, to |-> y]
        OBVIOUS
      <3> QED BY <3>1, <3>2 DEF Enter
    <2>2. \A u \in Threads : op'[u].call # "enqueue"
      BY <1>2, <2>1 DEF IInv, Types, NoOp
    <2> QED BY <1>7, <2>2
  <1> QED BY <1>6, <1>8

\* An operation goes on to a step after its first change.
LEMMA OnwardLemma ==
  ASSUME IInv, IInv', NEW t \in Threads, NEW o, o = op[t], o.call # "none",
         NEW pc, Goto(t, pc), pc \notin {"create", "remove"},
         pc = "publish" => o.call = "enqueue"
  PROVE  /\ Coming' \subseteq Coming /\ Changing(o.id)'
         /\ \A i \in Ids : Changing(i) => Changing(i)'
         /\ Ready'
  <1>1. o \in Ops /\ op' = [op EXCEPT ![t].pc = pc]
    BY DEF Goto, IInv, Types
  <1>2. /\ op'[t].call = o.call /\ op'[t].id = o.id /\ op'[t].pc = pc
        /\ \A u \in Threads : u # t => op'[u] = op[u]
    BY <1>1 DEF IInv, Types, Ops
  <1>3. ~Starting(op[t])'
    BY <1>2 DEF Starting
  <1>4. Coming' \subseteq Coming
    BY <1>2 DEF Coming
  <1>5. Changing(o.id)'
    BY <1>2, <1>3 DEF Changing
  <1>6. ASSUME NEW i \in Ids, Changing(i) PROVE Changing(i)'
    <2>1. PICK u \in Threads : op[u].id = i /\ ~Starting(op[u])
      BY <1>6 DEF Changing
    <2>2. CASE u = t
      BY <1>5, <2>1, <2>2
    <2>3. CASE u # t
      <3>1. op'[u].id = i /\ ~Starting(op[u])'
        BY <1>2, <2>1, <2>3 DEF Starting
      <3> QED BY <3>1 DEF Changing
    <2> QED BY <2>2, <2>3
  <1>7. Ready'
    BY <1>2, BusyLemma DEF IInv
  <1> QED BY <1>4, <1>5, <1>6, <1>7

\* An operation that has not begun to change its file finds it settled.
LEMMA SettledLemma ==
  ASSUME IInv, Budget, Whole, NEW t \in Threads, op[t].call # "none", Starting(op[t]),
         op[t].id \in Ids
  PROVE  alts[op[t].id] = {names[op[t].id]}
  <1>1. \A u \in Threads \ {t} : op[u] = NoOp
    BY Alone DEF IInv
  <1>2. ~Changing(op[t].id)
    BY <1>1 DEF Changing, NoOp
  <1> QED BY <1>2 DEF Budget, CrashBudget

\* What an operation leaves behind when it returns is a directory to work with.
LEMMA CalmLemma ==
  ASSUME Data, InBudget, NEW i, Calm(i),
         i \in Ids => names[i] \in {{}, {"record"}, {"bad"}, {"identity"}}
  PROVE  Healthy => Usable
  <1>1. \A j \in Ids : names[j] \in {{}, {"record"}, {"bad"}, {"identity"}}
    BY DEF Calm
  <1>2. \A j \in Ids : Small(names[j])
    BY <1>1
  <1>3. Temporaries = {}
    BY <1>1 DEF Temporaries, Files
  <1>4. Healthy => Within(Present)
    <2>1. Present \cup Coming \in SUBSET Ids
      BY DEF Present, Coming
    <2> QED BY <2>1, WithinLemma DEF InBudget
  <1> QED BY <1>2, <1>3, <1>4, ListLemma

LEMMA ScanBudget ==
  ASSUME IInv, IInv', Budget, NEW t \in Threads, Scan(t)
  PROVE  Budget'
  <1>1. PICK o : o = op[t]
    OBVIOUS
  <1>2. /\ o.pc = "scan" /\ o.call = "next" /\ o \in Ops /\ o.id = None /\ Calm(None) /\ Data
        /\ UNCHANGED <<linking, disk, faults, crashes>>
    <2>1. o.pc = "scan" /\ o.call = "next" /\ o \in Ops
      BY <1>1 DEF Scan, At, IInv, Types, Tasks, Program, Ops, Calls, NoOp
    <2> QED BY <1>1, <2>1, WorkerLemma DEF Scan, Program, Doing
  <1>3. \A u \in Threads : op[u].call # "enqueue" /\ (u = t \/ op[u] = NoOp)
    BY <1>1, <1>2, Alone DEF IInv, NoOp
  <1>4. \A i \in Ids : ~Changing(i)
    BY <1>1, <1>2, <1>3 DEF Changing, NoOp
  <1>5. \A u \in Threads : op'[u].call # "enqueue"
    BY <1>1, <1>2, <1>3 DEF Scan, Return, IInv, Types, Ops, NoOp
  <1>6. InBudget' /\ CrashBudget'
    <2>1. Coming' = {}
      BY <1>5 DEF Coming
    <2> QED BY <1>2, <1>4, <2>1, QuietLemma
  <1>7. Healthy => Usable
    BY <1>2, CalmLemma DEF Budget
  <1>8. Ready'
    <2>1. Usable => Usable'
      BY <1>2 DEF Usable, Listable, Temporaries, Entries, Files, Bytes
    <2>2. Healthy' => Healthy
      BY <1>2 DEF Healthy, Whole
    <2> QED BY <1>7, <2>1, <2>2 DEF Ready
  <1> QED BY <1>6, <1>8 DEF Budget

LEMMA CreateBudget ==
  ASSUME IInv, IInv', Budget, NEW t \in Threads, CreateTemporary(t)
  PROVE  Budget'
  <1>1. PICK o : o = op[t]
    OBVIOUS
  <1>2. o.pc = "create" /\ o.call # "none"
    BY <1>1 DEF CreateTemporary, At, IInv, Types, Tasks, Program, Ops, NoOp
  <1>3. o.call = "enqueue" /\ o \in Ops
    BY <1>1, <1>2, WorkerLemma DEF Program, Calls
  <1>4. PICK i : i = o.id
    OBVIOUS
  <1>5. i \in Ids /\ names[i] = {} /\ i \notin published /\ Data /\ Disk
    BY <1>1, <1>2, <1>3, <1>4, WorkerLemma DEF Doing, Shape
  <1>6. Renamed(i, {}, {"tmp"})
    BY <1>1, <1>4, <1>5, RenameLemma DEF CreateTemporary, Target, Names
  <1>7. i \in Coming
    BY <1>1, <1>3, <1>4, <1>5 DEF Coming
  <1>8. \A ns \in alts[i] : Small((ns \ {}) \cup {"tmp"})
    BY <1>5 DEF Disk
  <1>9. Small(names'[i])
    BY <1>5, <1>6 DEF Renamed
  <1>10. /\ Coming' \subseteq Coming /\ Changing(i)'
         /\ \A j \in Ids : Changing(j) => Changing(j)'
         /\ Ready'
    BY <1>1, <1>2, <1>4, OnwardLemma DEF CreateTemporary
  <1>11. InBudget' /\ CrashBudget'
    BY <1>5, <1>6, <1>7, <1>8, <1>9, <1>10, MovesLemma DEF CreateTemporary
  <1> QED BY <1>10, <1>11 DEF Budget

LEMMA WriteBudget ==
  ASSUME IInv, IInv', Budget, NEW t \in Threads, WriteTemporary(t)
  PROVE  Budget'
  <1>1. PICK o : o = op[t]
    OBVIOUS
  <1>2. o.pc = "write" /\ o.call # "none"
    BY <1>1 DEF WriteTemporary, At, IInv, Types, Tasks, Program, Ops, NoOp
  <1>3. o.call = "enqueue" /\ Data
    BY <1>1, <1>2, WorkerLemma DEF Program, Calls
  <1>4. /\ Coming' \subseteq Coming /\ \A j \in Ids : Changing(j) => Changing(j)'
        /\ Ready'
    BY <1>1, <1>2, <1>3, OnwardLemma DEF WriteTemporary
  <1> QED BY <1>3, <1>4, QuietLemma DEF WriteTemporary, Budget

LEMMA PublishBudget ==
  ASSUME IInv, IInv', Budget, NEW t \in Threads, PublishRename(t) \/ PublishLink(t)
  PROVE  Budget'
  <1>1. PICK o : o = op[t]
    OBVIOUS
  <1>2. o.pc = "publish" /\ o.call # "none"
    BY <1>1 DEF PublishRename, PublishLink, At, IInv, Types, Tasks, Program, Ops, NoOp
  <1>3. o.to \in Kinds
    BY <1>1, <1>2, WorkerLemma
  <1>4. PICK i : i = o.id
    OBVIOUS
  <1>5. /\ i \in Ids /\ names[i] = {Old(o)} /\ Data /\ Disk
        /\ o.call = "enqueue" => i \notin published
    BY <1>1, <1>2, <1>4, WorkerLemma DEF Doing, Shape
  <1>6. PICK drop : drop = IF linking THEN {} ELSE {Old(o)}
    OBVIOUS
  <1>7. PICK pc : pc = IF linking THEN "linked" ELSE "sync"
    OBVIOUS
  <1>8. /\ Rename(i, drop, {o.to}) /\ Goto(t, pc) /\ UNCHANGED <<linking, faults, crashes>>
    BY <1>1, <1>4, <1>6, <1>7 DEF PublishRename, PublishLink, Target, From, Old
  <1>9. Renamed(i, drop, {o.to})
    <2>1. drop \in SUBSET Names /\ {o.to} \in SUBSET Names
      BY <1>3, <1>6 DEF Old, Names, Evidence, Kinds
    <2> QED BY <1>5, <1>8, <2>1, RenameLemma
  <1>10. i \in Present
    BY <1>5 DEF Present
  <1>11. ASSUME ~linking, Whole, NEW ns \in alts[i] PROVE Small((ns \ drop) \cup {o.to})
    <2>1. CASE o.call = "enqueue"
      BY <1>5, <1>6, <1>11, <2>1 DEF Disk, Old
    <2>2. CASE o.call # "enqueue"
      <3>1. alts[i] = {names[i]}
        BY <1>1, <1>2, <1>4, <1>5, <1>11, <2>2, SettledLemma DEF Starting
      <3> QED BY <1>5, <1>6, <1>11, <3>1
    <2> QED BY <2>1, <2>2
  <1>12. ~linking => Small(names'[i])
    BY <1>5, <1>6, <1>9 DEF Renamed
  <1>13. /\ Coming' \subseteq Coming /\ Changing(i)'
         /\ \A j \in Ids : Changing(j) => Changing(j)'
         /\ Ready'
    BY <1>1, <1>2, <1>4, <1>7, <1>8, OnwardLemma
  <1>14. InBudget' /\ CrashBudget'
    BY <1>5, <1>8, <1>9, <1>10, <1>11, <1>12, <1>13, MovesLemma
  <1> QED BY <1>13, <1>14 DEF Budget

LEMMA SyncLinkBudget ==
  ASSUME IInv, IInv', Budget, NEW t \in Threads, SyncLink(t)
  PROVE  Budget'
  <1>1. PICK o : o = op[t]
    OBVIOUS
  <1>2. o.pc = "linked" /\ o.call # "none"
    BY <1>1 DEF SyncLink, At, IInv, Types, Tasks, Program, Ops, NoOp
  <1>3. Coming' \subseteq Coming /\ Ready'
    BY <1>1, <1>2, OnwardLemma DEF SyncLink
  <1>4. Data /\ Disk
    BY DEF IInv, Types
  <1> QED BY <1>3, <1>4, SyncsLemma DEF SyncLink, Budget

LEMMA UnlinkBudget ==
  ASSUME IInv, IInv', Budget, NEW t \in Threads, UnlinkOld(t)
  PROVE  Budget'
  <1>1. PICK o : o = op[t]
    OBVIOUS
  <1>2. o.pc = "unlink" /\ o.call # "none"
    BY <1>1 DEF UnlinkOld, At, IInv, Types, Tasks, Program, Ops, NoOp
  <1>3. Program(o) /\ Doing(o) /\ o.id \in Ids /\ Data /\ Disk /\ o.id # None
    BY <1>1, <1>2, WorkerLemma
  <1>4. PICK i : i = o.id
    OBVIOUS
  <1>5. i \in Ids /\ names[i] = {Old(o), o.to}
    BY <1>2, <1>3, <1>4 DEF Doing, Shape
  <1>6. Renamed(i, {Old(o)}, {})
    <2>1. Rename(i, {Old(o)}, {})
      BY <1>1, <1>4 DEF UnlinkOld, Target, From, Old
    <2>2. {Old(o)} \in SUBSET Names /\ {} \in SUBSET Names
      BY DEF Old, Names
    <2> QED BY <1>3, <1>5, <2>1, <2>2, RenameLemma
  <1>7. i \in Present
    BY <1>5 DEF Present
  <1>8. ~linking /\ Whole => \A ns \in alts[i] : Small((ns \ {Old(o)}) \cup {})
    BY <1>5 DEF Budget, CrashBudget
  <1>9. Small(names'[i])
    BY <1>5, <1>6 DEF Renamed
  <1>10. /\ Coming' \subseteq Coming /\ Changing(i)'
         /\ \A j \in Ids : Changing(j) => Changing(j)'
         /\ Ready'
    BY <1>1, <1>2, <1>4, OnwardLemma DEF UnlinkOld
  <1>11. InBudget' /\ CrashBudget'
    BY <1>3, <1>5, <1>6, <1>7, <1>8, <1>9, <1>10, MovesLemma DEF UnlinkOld
  <1> QED BY <1>10, <1>11 DEF Budget

LEMMA RemoveBudget ==
  ASSUME IInv, IInv', Budget, NEW t \in Threads, Remove(t)
  PROVE  Budget'
  <1>1. PICK o : o = op[t]
    OBVIOUS
  <1>2. o.pc = "remove" /\ o.call # "none"
    BY <1>1 DEF Remove, At, IInv, Types, Tasks, Program, Ops, NoOp
  <1>3. o.call = "ack" /\ Doing(o) /\ o.id \in Ids /\ o.id # None /\ Data /\ Disk
    BY <1>1, <1>2, WorkerLemma DEF Program, Calls
  <1>4. PICK i : i = o.id
    OBVIOUS
  <1>5. i \in Ids /\ names[i] = {"record"}
    BY <1>2, <1>3, <1>4 DEF Doing, Shape, Old
  <1>6. Renamed(i, {"record"}, {})
    BY <1>1, <1>3, <1>4, <1>5, RenameLemma DEF Remove, Target, Names
  <1>7. i \in Present
    BY <1>5 DEF Present
  <1>8. ASSUME Whole, NEW ns \in alts[i] PROVE Small((ns \ {"record"}) \cup {})
    <2>1. alts[i] = {names[i]}
      BY <1>1, <1>2, <1>4, <1>5, <1>8, SettledLemma DEF Starting
    <2> QED BY <1>5, <1>8, <2>1
  <1>9. Small(names'[i])
    BY <1>5, <1>6 DEF Renamed
  <1>10. /\ Coming' \subseteq Coming /\ Changing(i)'
         /\ \A j \in Ids : Changing(j) => Changing(j)'
         /\ Ready'
    BY <1>1, <1>2, <1>4, OnwardLemma DEF Remove
  <1>11. InBudget' /\ CrashBudget'
    BY <1>3, <1>5, <1>6, <1>7, <1>8, <1>9, <1>10, MovesLemma DEF Remove
  <1> QED BY <1>10, <1>11 DEF Budget

LEMMA SyncAndReturnBudget ==
  ASSUME IInv, IInv', Budget, NEW t \in Threads, SyncAndReturn(t)
  PROVE  Budget'
  <1>1. PICK o : o = op[t]
    OBVIOUS
  <1>2. o.pc = "sync" /\ o.call # "none"
    BY <1>1 DEF SyncAndReturn, At, IInv, Types, Tasks, Program, Ops, NoOp
  <1>3. Program(o) /\ Doing(o) /\ o.id \in Ids /\ o.id # None /\ Data /\ Disk /\ o.to \in Kinds
    BY <1>1, <1>2, WorkerLemma
  <1>4. \A u \in Threads : u # t => op'[u] = op[u]
    BY DEF SyncAndReturn, Return, IInv, Types
  <1>5. op'[t].call # "enqueue"
    BY <1>1 DEF SyncAndReturn, Return, IInv, Types, Ops, NoOp
  <1>6. Coming' \subseteq Coming
    BY <1>4, <1>5 DEF Coming
  <1>7. InBudget' /\ CrashBudget'
    BY <1>3, <1>6, SyncsLemma DEF SyncAndReturn
  <1>8. Healthy => Usable
    <2>1. names[o.id] \in {{}, {"record"}, {"bad"}, {"identity"}} /\ Calm(o.id)
      BY <1>2, <1>3 DEF Doing, Shape, Kinds, Evidence
    <2> QED BY <1>3, <2>1, CalmLemma DEF Budget
  <1>9. Ready'
    <2>1. Usable => Usable'
      BY DEF SyncAndReturn, Usable, Listable, Temporaries, Entries, Files, Bytes
    <2>2. Healthy' => Healthy
      BY DEF SyncAndReturn, Healthy, Whole
    <2> QED BY <1>8, <2>1, <2>2 DEF Ready
  <1> QED BY <1>7, <1>9 DEF Budget

\* Steps of no operation that leave the directory alone.
LEMMA AsideLemma ==
  ASSUME Data, Budget, UNCHANGED <<linking, disk, op, faults, crashes>>,
         \A p \in Procs : proc'[p] = "open" /\ gate'[p] = None
                            => proc[p] = "open" /\ gate[p] = None
  PROVE  Budget'
  <1>1. Coming' = Coming /\ \A i \in Ids : Changing(i) => Changing(i)'
    BY DEF Coming, Changing, Starting
  <1>2. InBudget' /\ CrashBudget'
    BY <1>1, QuietLemma
  <1>3. Healthy' => Healthy
    BY DEF Healthy, Whole
  <1>4. Ready'
    BY <1>3, SameReadyLemma DEF Budget
  <1> QED BY <1>2, <1>4 DEF Budget

LEMMA OpeningBudget ==
  ASSUME IInv, IInv', Budget, NEW p \in Procs, Opening(p)
  PROVE  Budget'
  <1>0. Data /\ Disk
    BY DEF IInv, Types
  <1>1. CASE TryLock(p)
    BY <1>0, <1>1, AsideLemma DEF TryLock, IInv, Types
  <1>2. ASSUME NEW i \in Ids, Sweep(p, i) PROVE Budget'
    <2>1. /\ Coming' = Coming
          /\ \A j \in Ids : names'[j] \subseteq names[j]
      BY <1>0, <1>2 DEF Sweep, Coming, Data
    <2>2. InBudget' /\ CrashBudget'
      BY <1>0, <1>2, <2>1, SyncsLemma DEF Sweep
    <2>3. \A q \in Procs : proc'[q] # "open"
      BY <1>2 DEF Sweep, IInv, Owner
    <2> QED BY <2>2, <2>3 DEF Budget, Ready
  <1>3. CASE Opened(p)
    <2>1. Coming' = Coming /\ \A i \in Ids : Changing(i) => Changing(i)'
      BY <1>3 DEF Opened, Coming, Changing, Starting
    <2>2. InBudget' /\ CrashBudget'
      BY <1>0, <1>3, <2>1, QuietLemma DEF Opened
    <2>3. Usable'
      BY <1>3 DEF Opened, Usable, Listable, Temporaries, Entries, Files, Bytes
    <2> QED BY <2>2, <2>3 DEF Budget, Ready
  <1>4. CASE OpenFails(p)
    <2>1. CASE Fault
      <3>1. ~Healthy'
        BY <1>0, <2>1 DEF Fault, Data, Healthy, Whole
      <3> QED BY <3>1, UnhealthyLemma
    <2>2. CASE UNCHANGED <<disk, faults>>
      BY <1>0, <1>4, <2>2, AsideLemma DEF OpenFails, IInv, Types
    <2> QED BY <1>4, <2>1, <2>2 DEF OpenFails
  <1>5. CASE Close(p)
    BY <1>0, <1>5, AsideLemma DEF Close, IInv, Types
  <1> QED BY <1>1, <1>2, <1>3, <1>4, <1>5 DEF Opening

LEMMA KillBudget ==
  ASSUME IInv, IInv', Budget, NEW p \in Procs, Kill(p)
  PROVE  Budget'
  <1>1. /\ crashes'.killed = crashes.killed + 1 /\ crashes'.power = crashes.power
        /\ crashes.killed \in Nat
        /\ UNCHANGED <<linking, disk, faults>>
    BY DEF Kill, Crash, IInv, Types, Data
  <1>2. ~Whole' /\ (Healthy' => Healthy)
    BY <1>1 DEF Healthy, Whole
  <1>3. \A t \in Threads : op'[t] = NoOp \/ op'[t] = op[t]
    BY DEF Kill, Crash
  <1>4. Present' = Present /\ Coming' \subseteq Coming
    BY <1>1, <1>3 DEF Present, Coming, NoOp
  <1>5. Present \cup Coming \in SUBSET Ids
    BY DEF Present, Coming
  <1>6. Healthy => Within(Present' \cup Coming')
    BY <1>4, <1>5, WithinLemma DEF Budget, InBudget
  <1>7. InBudget'
    BY <1>1, <1>2, <1>6 DEF Budget, InBudget, Within, Bytes
  <1>8. CrashBudget'
    BY <1>2 DEF CrashBudget
  <1>9. \A q \in Procs : proc'[q] = "open" /\ gate'[q] = None
                           => proc[q] = "open" /\ gate[q] = None
    BY DEF Kill, Crash
  <1>10. Ready'
    BY <1>1, <1>2, <1>9, SameReadyLemma DEF Budget
  <1> QED BY <1>7, <1>8, <1>10 DEF Budget

LEMMA PowerBudget ==
  ASSUME IInv, IInv', Budget, PowerFail
  PROVE  Budget'
  <1>1. /\ crashes'.killed = crashes.killed /\ crashes'.power = crashes.power + 1
        /\ crashes.power \in Nat
        /\ UNCHANGED <<linking, faults>>
    BY DEF PowerFail, Crash, IInv, Types, Data
  <1>2. (Whole' => Whole) /\ (Healthy' => Whole)
    BY <1>1 DEF Healthy, Whole
  <1>3. \A i \in Ids : names'[i] \in alts[i] /\ alts'[i] = {names'[i]}
    BY DEF PowerFail, SyncDirectory
  <1>4. Present' \subseteq Held /\ Held' \subseteq Held
    BY <1>3 DEF Present, Held
  <1>5. Coming' = {}
    <2>1. \A t \in Threads : op'[t] = NoOp
      BY DEF PowerFail, Crash
    <2> QED BY <2>1 DEF Coming, NoOp
  <1>6. Whole => Within(Present' \cup Coming') /\ Within(Held' \cup Coming')
    <2>1. Held \cup Coming \in SUBSET Ids
      BY DEF Held, Coming
    <2> QED BY <1>4, <1>5, <2>1, WithinLemma DEF Budget, CrashBudget
  <1>7. Whole /\ ~linking => \A i \in Ids : Small(names'[i])
    BY <1>3 DEF Budget, CrashBudget
  <1>8. InBudget'
    BY <1>1, <1>2, <1>6, <1>7 DEF InBudget, Within, Bytes
  <1>9. CrashBudget'
    BY <1>1, <1>2, <1>3, <1>6, <1>7 DEF CrashBudget, Within, Bytes
  <1>10. \A q \in Procs : proc'[q] # "open"
    BY DEF PowerFail, Crash
  <1> QED BY <1>8, <1>9, <1>10 DEF Budget, Ready

LEMMA BudgetInit == Init => Budget
  <1> SUFFICES ASSUME Init PROVE Budget
    OBVIOUS
  <1>1. Present = {} /\ Held = {} /\ Coming = {}
    BY DEF Init, Present, Held, Coming, NoOp
  <1>2. Within({})
    <2>1. Cardinality({}) = 0
      BY FS_EmptySet
    <2>2. {b \in {} \X (1..MaxRecord) : b[2] <= Size[b[1]]} = {}
      OBVIOUS
    <2> QED BY <2>1, <2>2 DEF Within, Bytes
  <1>3. {} \cup {} = {}
    OBVIOUS
  <1>4. \A i \in Ids : names[i] = {} /\ alts[i] = {{}}
    BY DEF Init
  <1>5. \A p \in Procs : proc[p] # "open"
    BY DEF Init
  <1> QED BY <1>1, <1>2, <1>3, <1>4, <1>5 DEF Budget, InBudget, CrashBudget, Ready

LEMMA BudgetNext ==
  ASSUME IInv, IInv', Budget, [Next]_vars
  PROVE  Budget'
  <1>0. Data
    BY DEF IInv, Types
  <1>1. ASSUME NEW t \in Threads, Fail(t) PROVE Budget'
    <2>1. ~Healthy'
      BY <1>0, <1>1 DEF Fail, Fault, Data, Healthy, Whole
    <2> QED BY <2>1, UnhealthyLemma
  <1>2. ASSUME NEW t \in Threads, Working(t) PROVE Budget'
    BY <1>1, <1>2, ScanBudget, CreateBudget, WriteBudget, PublishBudget, SyncLinkBudget,
       UnlinkBudget, RemoveBudget, SyncAndReturnBudget DEF Working
  <1>3. ASSUME NEW i \in Ids, Rot(i) PROVE Budget'
    BY <1>0, <1>3, AsideLemma DEF Rot
  <1>4. CASE UNCHANGED vars
    BY <1>0, <1>4, AsideLemma DEF vars
  <1> QED BY <1>2, <1>3, <1>4, OpeningBudget, KillBudget, CallingBudget, PowerBudget DEF Next

\* As long as no system call has failed, the limits hold whatever threads race for
\* the last slot, no operation leaves a directory the next one would refuse, and
\* where publication is a rename the spool can be opened again after every crash.
THEOREM RemainsUsable == Spec => []StaysUsable
  <1>1. Spec => []Budget
    BY BudgetInit, BudgetNext, Inductive, PTL DEF Spec
  <1>2. IInv /\ Budget => StaysUsable
    <2> SUFFICES ASSUME IInv, Budget, Healthy PROVE
           /\ \A p \in Procs : proc[p] = "open" /\ gate[p] = None => Usable
           /\ Cardinality(Entries) <= MaxEntries /\ Bytes(Entries) <= MaxBytes
           /\ ~linking => ~Refused
      BY DEF StaysUsable, Healthy, Whole
    <2>0. Data
      BY DEF IInv, Types
    <2>1. Present \cup Coming \in SUBSET Ids /\ Within(Present \cup Coming)
      BY DEF Present, Coming, Budget, InBudget
    <2>2. Entries \subseteq Present /\ Present \in SUBSET Ids
      BY <2>0, ListLemma
    <2>3. Within(Entries) /\ Within(Present)
      BY <2>1, <2>2, WithinLemma
    <2>4. ~linking => \A i \in Ids : Small(names[i])
      BY DEF Budget, InBudget
    <2>5. ~linking => ~Refused
      BY <2>0, <2>3, <2>4, ListLemma DEF Refused
    <2> QED BY <2>3, <2>5 DEF Budget, Ready, Within
  <1> QED BY <1>1, <1>2, Inductive, PTL
=============================================================================
