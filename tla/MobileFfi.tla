----------------------------- MODULE MobileFfi ------------------------------
(***************************************************************************)
(* The native boundary of src/src/mobile_ffi/mod.rs: product work runs     *)
(* inside nested panic boundaries, looks values up in a registry of        *)
(* generational handles behind one poisoning mutex, and hands owned bytes  *)
(* to the host, which gives them back.                                     *)
(***************************************************************************)
EXTENDS Integers, Sequences, FiniteSets

CONSTANTS
  Threads,
  Outputs,        \* result storages of the host
  MaxHandles,     \* MAX_HANDLES: slots of the registry
  MaxGeneration,  \* u32::MAX
  MaxInserts,     \* bound: values ever inserted
  MaxDepth,       \* bound: nested boundaries of a thread
  NoOne,          \* nobody holds the mutex
  NoOutput        \* a boundary that is not a guard

ASSUME MobileFfiAssumption ==
  /\ MaxHandles \in Nat \ {0} /\ MaxGeneration \in Nat \ {0}
  /\ MaxInserts \in Nat /\ MaxDepth \in Nat \ {0}
  /\ NoOne \notin Threads
  /\ IsFiniteSet(Outputs) /\ NoOutput \notin Outputs

VARIABLES
  length,      \* of the vector of slots
  generation,  \* of each slot
  value,       \* of each slot; 0 is None
  poisoned,    \* the mutex saw a panic
  holder,      \* who has the mutex
  using,       \* the handle a with operation works on, and what it found
  stack,       \* of each thread: the output of each boundary it is inside
  depth,       \* FFI_DEPTH of each thread
  doing,       \* what each thread does
  escaped,     \* a panic inside a boundary got to the host's own hook
  results,     \* the bytes each storage owns; 0 is none
  allocated,   \* boxed bytes
  inserted,    \* values inserted so far
  issued,      \* the handles insert returned, and the value each was for
  taken        \* the values remove returned

vars == <<length, generation, value, poisoned, holder, using, stack, depth, doing,
          escaped, results, allocated, inserted, issued, taken>>
slots   == <<length, generation, value>>
history == <<inserted, issued, taken>>
memory  == <<results, allocated>>

Slots == 0..MaxHandles - 1
Handles == [slot : 0..MaxHandles, generation : 0..MaxGeneration]
Values == 1..MaxInserts
Buffers == 1..Cardinality(Outputs)

Types ==
  /\ length \in 0..MaxHandles
  /\ generation \in [Slots -> 0..MaxGeneration]
  /\ value \in [Slots -> 0..MaxInserts]
  /\ holder \in Threads \cup {NoOne}
  /\ using \in [Threads -> [handle : Handles, value : 0..MaxInserts]]
  /\ inserted \in 0..MaxInserts
  /\ issued \subseteq [handle : Handles, value : Values]
  /\ taken \subseteq Values

BoundaryTypes ==
  /\ poisoned \in BOOLEAN /\ escaped \in BOOLEAN
  /\ stack \in [Threads -> Seq(Outputs \cup {NoOutput})]
  /\ depth \in [Threads -> Nat]
  /\ doing \in [Threads -> {"host", "product", "operation", "caught"}]
  /\ results \in [Outputs -> 0..Cardinality(Outputs)]
  /\ allocated \subseteq Buffers

Init ==
  /\ length = 0
  /\ generation = [s \in Slots |-> 0]
  /\ value = [s \in Slots |-> 0]
  /\ poisoned = FALSE
  /\ holder = NoOne
  /\ using = [t \in Threads |-> [handle |-> [slot |-> 0, generation |-> 0], value |-> 0]]
  /\ stack = [t \in Threads |-> << >>]
  /\ depth = [t \in Threads |-> 0]
  /\ doing = [t \in Threads |-> "host"]
  /\ escaped = FALSE
  /\ results = [o \in Outputs |-> 0]
  /\ allocated = {}
  /\ inserted = 0
  /\ issued = {}
  /\ taken = {}

-----------------------------------------------------------------------------
\* HandleRegistry.

\* Faulty variant: a poisoned mutex is entered all the same.
PoisonIgnored == holder = NoOne
Enters == holder = NoOne /\ ~poisoned

\* A slot that is free and not retired.
Reusable(s) == s < length /\ value[s] = 0 /\ generation[s] < MaxGeneration

\* The slot insert takes: the first reusable one, or a new one.
IsNext(s) ==
  IF \E r \in Slots : Reusable(r)
  THEN Reusable(s) /\ \A r \in Slots : Reusable(r) => s <= r
  ELSE s = length

NextGeneration(s) == IF s = length THEN 1 ELSE generation[s] + 1

Insert(t) ==
  /\ doing[t] = "product" /\ Enters /\ inserted < MaxInserts
  /\ \E s \in Slots :
       /\ IsNext(s)
       /\ length' = IF s = length THEN length + 1 ELSE length
       /\ generation' = [generation EXCEPT ![s] = NextGeneration(s)]
       /\ value' = [value EXCEPT ![s] = inserted + 1]
       /\ issued' = issued \cup {[handle |-> [slot |-> s, generation |-> NextGeneration(s)],
                                  value |-> inserted + 1]}
  /\ inserted' = inserted + 1
  /\ UNCHANGED <<poisoned, holder, using, stack, depth, doing, escaped, memory, taken>>

\* The value a handle leads to, 0 when the handle is not valid.
Found(h) ==
  IF h.slot < length /\ generation[h.slot] = h.generation THEN value[h.slot] ELSE 0

\* Faulty variant: the mutex is left before the operation runs.
LeftEarly(t) == NoOne
HeldThroughout(t) == t

\* with: the operation runs under the mutex.
With(t, h) ==
  /\ doing[t] = "product" /\ Enters /\ Found(h) # 0
  /\ holder' = HeldThroughout(t)
  /\ using' = [using EXCEPT ![t] = [handle |-> h, value |-> Found(h)]]
  /\ doing' = [doing EXCEPT ![t] = "operation"]
  /\ UNCHANGED <<slots, poisoned, stack, depth, escaped, memory, history>>

WithReturns(t) ==
  /\ doing[t] = "operation"
  /\ holder' = NoOne
  /\ doing' = [doing EXCEPT ![t] = "product"]
  /\ UNCHANGED <<slots, poisoned, using, stack, depth, escaped, memory, history>>

Remove(t, h) ==
  /\ doing[t] = "product" /\ Enters /\ Found(h) # 0
  /\ value' = [value EXCEPT ![h.slot] = 0]
  /\ taken' = taken \cup {Found(h)}
  /\ UNCHANGED <<length, generation, poisoned, holder, using, stack, depth, doing, escaped,
                 memory, inserted, issued>>

-----------------------------------------------------------------------------
\* boundary and guard.

Busy(o) == \E t \in Threads : \E i \in 1..Len(stack[t]) : stack[t][i] = o

\* Every boundary the thread is inside counts.
Enter(t, o) ==
  /\ doing[t] \in {"host", "product"} /\ Len(stack[t]) < MaxDepth
  /\ o # NoOutput => results[o] = 0 /\ ~Busy(o)
  /\ stack' = [stack EXCEPT ![t] = Append(@, o)]
  /\ depth' = [depth EXCEPT ![t] = @ + 1]
  /\ doing' = [doing EXCEPT ![t] = "product"]
  /\ UNCHANGED <<slots, poisoned, holder, using, escaped, memory, history>>

\* Faulty variant: leaving a boundary forgets the ones around it.
Forgets(n) == 0
Leaves(n) == IF n = 0 THEN 0 ELSE n - 1

\* guard writes the payload, or the message of the error, and owned_bytes boxes it.
WriteOutput(o, bytes) ==
  IF o = NoOutput \/ ~bytes THEN UNCHANGED memory
  ELSE \E b \in Buffers \ allocated :
         /\ allocated' = allocated \cup {b}
         /\ results' = [results EXCEPT ![o] = b]

Leave(t, bytes) ==
  LET inside == Len(stack[t]) IN
  /\ stack' = [stack EXCEPT ![t] = SubSeq(@, 1, inside - 1)]
  /\ depth' = [depth EXCEPT ![t] = Leaves(@)]
  /\ doing' = [doing EXCEPT ![t] = IF inside = 1 THEN "host" ELSE "product"]
  /\ WriteOutput(stack[t][inside], bytes)

Return(t, bytes) ==
  /\ doing[t] = "product"
  /\ Leave(t, bytes)
  /\ UNCHANGED <<slots, poisoned, holder, using, escaped, history>>

\* The installed hook: a panic outside every boundary goes to the host's own.
Reaches(t) == depth[t] = 0

\* The unwinding drops the guard of the mutex, and ends in the innermost boundary.
Panic(t) ==
  /\ doing[t] \in {"product", "operation"}
  /\ escaped' = (escaped \/ Reaches(t))
  /\ poisoned' = (poisoned \/ doing[t] = "operation")
  /\ holder' = IF doing[t] = "operation" THEN NoOne ELSE holder
  /\ doing' = [doing EXCEPT ![t] = "caught"]
  /\ UNCHANGED <<slots, using, stack, depth, memory, history>>

\* The payload is dropped inside the scope, and may panic again.
DropPayload(t, again) ==
  /\ doing[t] = "caught"
  /\ escaped' = (escaped \/ (again /\ Reaches(t)))
  /\ Leave(t, TRUE)
  /\ UNCHANGED <<slots, poisoned, holder, using, history>>

\* Faulty variant: the storage is not reset.
NotReset(o) == results
Reset(o) == [results EXCEPT ![o] = 0]

\* xcsc_ffi_result_free_v1; the storage of a call in progress is not freed.
Free(o) ==
  /\ ~Busy(o)
  /\ results' = Reset(o)
  /\ allocated' = allocated \ {results[o]}
  /\ UNCHANGED <<slots, poisoned, holder, using, stack, depth, doing, escaped, history>>

-----------------------------------------------------------------------------
Next ==
  \/ \E t \in Threads :
       \/ Insert(t) \/ WithReturns(t) \/ Panic(t)
       \/ \E h \in Handles : With(t, h) \/ Remove(t, h)
       \/ \E o \in Outputs \cup {NoOutput} : Enter(t, o)
       \/ \E b \in BOOLEAN : Return(t, b) \/ DropPayload(t, b)
  \/ \E o \in Outputs : Free(o)

Spec == Init /\ [][Next]_vars

-----------------------------------------------------------------------------
\* Properties.

\* One operation at a time is inside the registry, and what it works on is still
\* what its handle leads to: no remove or reuse of the slot gets between the
\* look-up and the end of the operation (with).
InUseStays ==
  \A t \in Threads : doing[t] = "operation" =>
    holder = t /\ using[t].value # 0 /\ Found(using[t].handle) = using[t].value

TypeOK == Types /\ BoundaryTypes /\ (holder # NoOne => doing[holder] = "operation")

\* A handle leads to the value it was issued for until remove returns that value,
\* and to nothing from then on, however often its slot is used again (insert,
\* with, remove; "stale handles and exhausted generations never alias").
HandlesNeverAlias ==
  \A i \in issued : Found(i.handle) = IF i.value \in taken THEN 0 ELSE i.value

\* Whoever looks a handle up, before or during an operation, meets the one object
\* it was issued for or nothing.
OneObjectPerHandle == HandlesNeverAlias /\ InUseStays

\* After an operation panicked under the mutex the registry refuses everything:
\* no value is inserted, removed or worked on ("poison fails closed").
PoisonFailsClosed ==
  [][poisoned => UNCHANGED <<slots, using>>]_vars

\* Handles lead where they should, and nowhere once the registry is closed.
RegistryIsSound == [][OneObjectPerHandle']_vars /\ PoisonFailsClosed

\* No panic of product work, nested boundaries and payloads that panic when they
\* are dropped included, gets to the host's own hook (boundary, PanicScope).
NothingEscapes == ~escaped

\* Every box has exactly one owner among the storages: none is freed twice or
\* under another result, and none is lost (guard, xcsc_ffi_result_free_v1).
ResultsOwnTheirBytes ==
  /\ allocated = {results[o] : o \in Outputs} \ {0}
  /\ \A o, p \in Outputs : o # p /\ results[o] # 0 => results[o] # results[p]

\* Whatever product work does, no panic crosses the boundary, and of what crosses it no
\* byte is lost or given twice.
BoundaryIsTight == NothingEscapes /\ ResultsOwnTheirBytes
=============================================================================
