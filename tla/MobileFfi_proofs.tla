-------------------------- MODULE MobileFfi_proofs --------------------------
(* Proofs about MobileFfi, for any number of threads, slots, generations,   *)
(* nested boundaries and result storages; about MobileJni, for any nesting  *)
(* of native calls and any exceptions; and about LogRotation, for any       *)
(* number of archives, lines, failures and crashes and any size of a file.  *)
EXTENDS MobileFfi, MobileJni, LogRotation, FiniteSetTheorems, SequenceTheorems, TLAPS

Entry(s) == [handle |-> [slot |-> s, generation |-> generation[s]], value |-> value[s]]

\* Slots beyond the vector were never used.
Unused == \A s \in Slots : s >= length => generation[s] = 0 /\ value[s] = 0

\* Handles were issued for values inserted, in slots that have been pushed, and
\* for no generation that a slot has yet to reach.
Past ==
  /\ \A i \in issued :
       /\ i.handle.slot < length /\ i.value <= inserted
       /\ i.handle.generation <= generation[i.handle.slot]
  /\ \A v \in taken : v <= inserted

\* No handle was issued twice.
Once == \A i, j \in issued : i.handle = j.handle \/ i.value = j.value => i = j

\* What is in a slot was issued under the slot's generation and not taken.
Listed ==
  \A s \in Slots : value[s] # 0 => Entry(s) \in issued /\ value[s] \notin taken

\* What was issued and not taken is in its slot.
Kept ==
  \A i \in issued : i.value \notin taken =>
    value[i.handle.slot] = i.value /\ generation[i.handle.slot] = i.handle.generation

\* The mutex is held exactly by the thread whose operation runs.
Exclusive ==
  /\ holder # NoOne => doing[holder] = "operation"
  /\ InUseStays

RegistryInv == Types /\ Unused /\ Past /\ Once /\ Listed /\ Kept /\ Exclusive

\* FFI_DEPTH is the number of boundaries around a thread.
Depths ==
  \A t \in Threads :
    /\ depth[t] = Len(stack[t])
    /\ doing[t] = "host" <=> Len(stack[t]) = 0

\* A storage is written by at most one call, and has no bytes until then.
Writers ==
  /\ \A t, u \in Threads : \A i \in 1..Len(stack[t]), j \in 1..Len(stack[u]) :
       stack[t][i] = stack[u][j] /\ stack[t][i] # NoOutput => t = u /\ i = j
  /\ \A o \in Outputs : Busy(o) => results[o] = 0

BoundaryInv == BoundaryTypes /\ Depths /\ NothingEscapes /\ Writers /\ ResultsOwnTheirBytes

IInv == RegistryInv /\ BoundaryInv

-----------------------------------------------------------------------------
\* The registry.

Book == Unused /\ Past /\ Once /\ Listed /\ Kept

LEMMA FoundLemma ==
  ASSUME Types, NEW h \in Handles, Found(h) # 0
  PROVE  /\ h.slot \in Slots /\ h.slot < length
         /\ generation[h.slot] = h.generation
         /\ value[h.slot] = Found(h)
         /\ Found(h) \in Values
  BY MobileFfiAssumption DEF Types, Found, Handles, Slots, Values

LEMMA SameBook ==
  ASSUME Book, UNCHANGED <<slots, history>>
  PROVE  Book'
  BY DEF Book, Unused, Past, Once, Listed, Kept, Entry, slots, history

LEMMA InitRegistry == Init => RegistryInv
  <1> SUFFICES ASSUME Init PROVE RegistryInv
    OBVIOUS
  <1>1. Types
    BY MobileFfiAssumption DEF Init, Types, Slots, Handles, Values
  <1>2. Unused /\ Past /\ Once /\ Listed /\ Kept
    BY DEF Init, Unused, Past, Once, Listed, Kept, Slots
  <1>3. Exclusive
    BY DEF Init, Exclusive, InUseStays
  <1> QED BY <1>1, <1>2, <1>3 DEF RegistryInv

LEMMA InsertRegistry ==
  ASSUME IInv, NEW t \in Threads, Insert(t)
  PROVE  RegistryInv'
  <1>0. /\ Types /\ Unused /\ Past /\ Once /\ Listed /\ Kept /\ Exclusive
        /\ BoundaryTypes
    BY DEF IInv, RegistryInv, BoundaryInv
  <1>1. PICK s \in Slots :
          /\ IsNext(s)
          /\ length' = IF s = length THEN length + 1 ELSE length
          /\ generation' = [generation EXCEPT ![s] = NextGeneration(s)]
          /\ value' = [value EXCEPT ![s] = inserted + 1]
          /\ issued' = issued \cup {[handle |-> [slot |-> s, generation |-> NextGeneration(s)],
                                     value |-> inserted + 1]}
    BY DEF Insert
  <1> DEFINE h == [slot |-> s, generation |-> NextGeneration(s)]
             new == [handle |-> h, value |-> inserted + 1]
  <1>2. /\ inserted' = inserted + 1 /\ inserted < MaxInserts /\ holder = NoOne
        /\ UNCHANGED <<holder, using, doing, taken>>
    BY DEF Insert, Enters
  <1>3. /\ s <= length /\ s < length' /\ length <= length' /\ value[s] = 0
        /\ length' \in 0..MaxHandles
    BY <1>0, <1>1, MobileFfiAssumption DEF IsNext, Reusable, Types, Slots, Unused
  <1>4. NextGeneration(s) \in 1..MaxGeneration /\ generation[s] < NextGeneration(s)
    <2>1. generation[s] \in 0..MaxGeneration
      BY <1>0 DEF Types
    <2>2. s # length => generation[s] < MaxGeneration
      BY <1>1 DEF IsNext, Reusable
    <2>3. s = length => generation[s] = 0
      BY <1>0 DEF Types, Unused
    <2> QED BY <2>1, <2>2, <2>3, MobileFfiAssumption DEF NextGeneration
  <1>5. h \in Handles /\ new \in [handle : Handles, value : Values]
    BY <1>0, <1>2, <1>4, MobileFfiAssumption DEF Handles, Slots, Values, Types
  <1>6. Types'
    <2>1. generation' \in [Slots -> 0..MaxGeneration]
      BY <1>0, <1>1, <1>4, MobileFfiAssumption DEF Types
    <2>2. value' \in [Slots -> 0..MaxInserts]
      BY <1>0, <1>1, <1>2, MobileFfiAssumption DEF Types
    <2>3. issued' \subseteq [handle : Handles, value : Values]
      BY <1>0, <1>1, <1>5 DEF Types
    <2>4. inserted' \in 0..MaxInserts
      BY <1>0, <1>2, MobileFfiAssumption DEF Types
    <2> QED BY <1>0, <1>2, <1>3, <2>1, <2>2, <2>3, <2>4 DEF Types, Slots, Handles, Values
  <1>7. /\ \A r \in Slots : r # s => generation'[r] = generation[r] /\ value'[r] = value[r]
        /\ generation'[s] = NextGeneration(s) /\ value'[s] = inserted + 1
    BY <1>0, <1>1 DEF Types
  <1>8. \A i \in issued : /\ i.handle \in Handles /\ i.value \in Values
                          /\ i.handle.slot < length /\ i.value <= inserted
                          /\ i.handle.generation <= generation[i.handle.slot]
                          /\ i.handle.slot \in Slots
    <2> SUFFICES ASSUME NEW i \in issued
                 PROVE  /\ i.handle \in Handles /\ i.value \in Values
                        /\ i.handle.slot < length /\ i.value <= inserted
                        /\ i.handle.generation <= generation[i.handle.slot]
                        /\ i.handle.slot \in Slots
      OBVIOUS
    <2>1. i.handle \in Handles /\ i.value \in Values
      BY <1>0 DEF Types
    <2>2. /\ i.handle.slot < length /\ i.value <= inserted
          /\ i.handle.generation <= generation[i.handle.slot]
      BY <1>0 DEF Past
    <2>3. i.handle.slot \in 0..MaxHandles /\ length \in 0..MaxHandles
      BY <1>0, <2>1 DEF Types, Handles
    <2>4. i.handle.slot \in Slots
      BY <2>2, <2>3, MobileFfiAssumption DEF Slots
    <2> QED BY <2>1, <2>2, <2>4
  <1>9. Unused'
    BY <1>0, <1>3, <1>7 DEF Unused, Types, Slots
  <1>10. Past'
    <2>1. new.handle.slot < length' /\ new.value <= inserted'
            /\ new.handle.generation <= generation'[new.handle.slot]
      BY <1>0, <1>2, <1>3, <1>4, <1>7, MobileFfiAssumption DEF Types
    <2>2. ASSUME NEW i \in issued
          PROVE  /\ i.handle.slot < length' /\ i.value <= inserted'
                 /\ i.handle.generation <= generation'[i.handle.slot]
      <3>1. i.handle.slot < length'
        BY <1>0, <1>3, <1>8, MobileFfiAssumption DEF Types, Slots
      <3>2. i.value <= inserted'
        BY <1>0, <1>2, <1>8, MobileFfiAssumption DEF Types, Values
      <3>3. i.handle.generation <= generation'[i.handle.slot]
        BY <1>0, <1>4, <1>7, <1>8, MobileFfiAssumption DEF Types, Handles
      <3> QED BY <3>1, <3>2, <3>3
    <2>3. \A v \in taken' : v <= inserted'
      BY <1>0, <1>2, MobileFfiAssumption DEF Types, Past, Values
    <2> QED BY <1>1, <2>1, <2>2, <2>3 DEF Past
  <1>11. \A i \in issued : i.handle # h /\ i.value # inserted + 1
    <2> SUFFICES ASSUME NEW i \in issued PROVE i.handle # h /\ i.value # inserted + 1
      OBVIOUS
    <2>1. i.handle = h => i.handle.generation = NextGeneration(s) /\ i.handle.slot = s
      OBVIOUS
    <2>2. i.handle # h
      BY <1>0, <1>4, <1>8, <2>1, MobileFfiAssumption DEF Types
    <2>3. i.value # inserted + 1
      BY <1>0, <1>8, MobileFfiAssumption DEF Types, Values
    <2> QED BY <2>2, <2>3
  <1>12. Once'
    BY <1>0, <1>1, <1>11 DEF Once
  <1>13. Listed'
    <2>1. inserted + 1 \notin taken
      BY <1>0, MobileFfiAssumption DEF Past, Types, Values
    <2>2. ASSUME NEW r \in Slots, value'[r] # 0
          PROVE  [handle |-> [slot |-> r, generation |-> generation'[r]],
                  value |-> value'[r]] \in issued' /\ value'[r] \notin taken'
      <3>1. CASE r = s
        BY <1>1, <1>2, <1>7, <2>1, <3>1
      <3>2. CASE r # s
        <4>1. value'[r] = value[r] /\ generation'[r] = generation[r]
          BY <1>7, <3>2
        <4>2. Entry(r) \in issued /\ value[r] \notin taken
          BY <1>0, <2>2, <4>1 DEF Listed
        <4> QED BY <1>1, <1>2, <4>1, <4>2 DEF Entry
      <3> QED BY <3>1, <3>2
    <2> QED BY <2>2 DEF Listed, Entry, Slots
  <1>14. Kept'
    <2>1. ASSUME NEW i \in issued, i.value \notin taken
          PROVE  /\ value'[i.handle.slot] = i.value
                 /\ generation'[i.handle.slot] = i.handle.generation
      <3>1. value[i.handle.slot] = i.value /\ generation[i.handle.slot] = i.handle.generation
        BY <1>0, <2>1 DEF Kept
      <3>2. i.handle.slot # s
        BY <1>3, <1>8, <3>1 DEF Values
      <3> QED BY <1>7, <1>8, <3>1, <3>2
    <2>2. value'[new.handle.slot] = new.value /\ generation'[new.handle.slot] = new.handle.generation
      BY <1>7
    <2> QED BY <1>1, <1>2, <2>1, <2>2 DEF Kept
  <1>15. Exclusive'
    <2>1. \A u \in Threads : doing[u] # "operation"
      BY <1>0, <1>2, MobileFfiAssumption DEF Exclusive, InUseStays
    <2> QED BY <1>2, <2>1 DEF Exclusive, InUseStays
  <1> QED BY <1>6, <1>9, <1>10, <1>12, <1>13, <1>14, <1>15 DEF RegistryInv

LEMMA WithRegistry ==
  ASSUME IInv, NEW t \in Threads, NEW h \in Handles, With(t, h)
  PROVE  RegistryInv'
  <1>0. /\ Types /\ Book /\ Exclusive
        /\ BoundaryTypes
    BY DEF IInv, RegistryInv, BoundaryInv, Book
  <1>1. /\ holder = NoOne /\ holder' = t /\ Found(h) # 0
        /\ using' = [using EXCEPT ![t] = [handle |-> h, value |-> Found(h)]]
        /\ doing' = [doing EXCEPT ![t] = "operation"]
        /\ UNCHANGED <<slots, history>>
    BY DEF With, Enters, HeldThroughout
  <1>2. Found(h) \in Values
    BY <1>0, <1>1, FoundLemma
  <1>3. Types'
    <2>1. using' \in [Threads -> [handle : Handles, value : 0..MaxInserts]]
      BY <1>0, <1>1, <1>2, MobileFfiAssumption DEF Types, Values
    <2> QED BY <1>0, <1>1, <2>1 DEF Types, slots, history, Slots, Handles, Values
  <1>4. Book'
    BY <1>0, <1>1, SameBook
  <1>5. Exclusive'
    <2>1. \A u \in Threads : doing[u] # "operation"
      BY <1>0, <1>1, MobileFfiAssumption DEF Exclusive, InUseStays
    <2>2. \A u \in Threads : doing'[u] = "operation" => u = t
      BY <1>0, <1>1, <2>1 DEF BoundaryTypes
    <2>3. using'[t].value = Found(h) /\ using'[t].handle = h /\ doing'[t] = "operation"
      BY <1>0, <1>1 DEF Types, BoundaryTypes
    <2>4. Found(h)' = Found(h)
      BY <1>1 DEF Found, slots
    <2> QED BY <1>1, <2>2, <2>3, <2>4 DEF Exclusive, InUseStays, Found
  <1> QED BY <1>3, <1>4, <1>5 DEF RegistryInv, Book

LEMMA RemoveRegistry ==
  ASSUME IInv, NEW t \in Threads, NEW h \in Handles, Remove(t, h)
  PROVE  RegistryInv'
  <1>0. /\ Types /\ Unused /\ Past /\ Once /\ Listed /\ Kept /\ Exclusive
        /\ BoundaryTypes
    BY DEF IInv, RegistryInv, BoundaryInv
  <1>1. /\ holder = NoOne /\ Found(h) # 0
        /\ value' = [value EXCEPT ![h.slot] = 0]
        /\ taken' = taken \cup {Found(h)}
        /\ UNCHANGED <<length, generation, holder, using, doing, inserted, issued>>
    BY DEF Remove, Enters
  <1>2. /\ h.slot \in Slots /\ h.slot < length
        /\ generation[h.slot] = h.generation
        /\ value[h.slot] = Found(h)
        /\ Found(h) \in Values
    BY <1>0, <1>1, FoundLemma
  <1>3. Types'
    <2>1. value \in [Slots -> 0..MaxInserts] /\ 0 \in 0..MaxInserts
      BY <1>0, MobileFfiAssumption DEF Types
    <2>2. value' \in [Slots -> 0..MaxInserts]
      BY <1>1, <2>1
    <2> QED BY <1>0, <1>1, <1>2, <2>2 DEF Types, Slots, Handles, Values
  <1>4. /\ \A r \in Slots : r # h.slot => value'[r] = value[r]
        /\ value'[h.slot] = 0
    BY <1>0, <1>1, <1>2 DEF Types
  <1>5. Unused'
    BY <1>0, <1>1, <1>4 DEF Unused, Slots
  <1>6. Entry(h.slot) \in issued /\ value[h.slot] \notin taken
    BY <1>0, <1>1, <1>2 DEF Listed
  <1>7. Past'
    <2>1. Found(h) <= inserted
      BY <1>0, <1>2, <1>6 DEF Past, Entry
    <2> QED BY <1>0, <1>1, <2>1 DEF Past
  <1>8. Once'
    BY <1>0, <1>1 DEF Once
  <1>9. Listed'
    <2> SUFFICES ASSUME NEW r \in Slots, value'[r] # 0
                 PROVE  Entry(r) \in issued /\ value'[r] = value[r] /\ value[r] \notin taken'
      BY <1>1 DEF Listed, Entry, Slots
    <2>1. r # h.slot /\ value'[r] = value[r]
      BY <1>4
    <2>2. Entry(r) \in issued /\ value[r] \notin taken
      BY <1>0, <2>1 DEF Listed
    <2>3. value[r] # Found(h)
      <3> SUFFICES ASSUME value[r] = Found(h) PROVE FALSE
        OBVIOUS
      <3>1. Entry(r).value = Entry(h.slot).value
        BY <1>2 DEF Entry
      <3>2. Entry(r) = Entry(h.slot)
        BY <1>0, <1>6, <2>2, <3>1 DEF Once
      <3>3. Entry(r).handle.slot = Entry(h.slot).handle.slot
        BY <3>2
      <3> QED BY <2>1, <3>3 DEF Entry
    <2> QED BY <1>1, <2>1, <2>2, <2>3
  <1>10. Kept'
    <2> SUFFICES ASSUME NEW i \in issued, i.value \notin taken'
                 PROVE  value'[i.handle.slot] = i.value
                        /\ generation[i.handle.slot] = i.handle.generation
      BY <1>1 DEF Kept
    <2>1. i.value \notin taken /\ i.value # Found(h)
      BY <1>1
    <2>2. value[i.handle.slot] = i.value /\ generation[i.handle.slot] = i.handle.generation
      BY <1>0, <2>1 DEF Kept
    <2>3. i.handle.slot # h.slot
      BY <1>2, <2>1, <2>2
    <2>4. i.handle.slot \in Slots
      <3>1. i.handle.slot \in 0..MaxHandles
        BY <1>0 DEF Types, Handles
      <3>2. i.handle.slot < length /\ length \in 0..MaxHandles
        BY <1>0 DEF Past, Types
      <3> QED BY <3>1, <3>2, MobileFfiAssumption DEF Slots
    <2> QED BY <1>4, <2>2, <2>3, <2>4
  <1>11. Exclusive'
    <2>1. \A u \in Threads : doing[u] # "operation"
      BY <1>0, <1>1, MobileFfiAssumption DEF Exclusive, InUseStays
    <2> QED BY <1>1, <2>1 DEF Exclusive, InUseStays
  <1> QED BY <1>3, <1>5, <1>7, <1>8, <1>9, <1>10, <1>11 DEF RegistryInv

\* A step that leaves the slots alone, and the mutex to whoever operates.
LEMMA OutsideRegistry ==
  ASSUME IInv, UNCHANGED <<slots, using, history>>, NEW t \in Threads,
         \/ holder' = holder /\ doing[t] # "operation"
         \/ holder' = NoOne /\ doing[t] = "operation",
         \E d \in {"host", "product", "caught"} : doing' = [doing EXCEPT ![t] = d]
  PROVE  RegistryInv'
  <1>0. /\ Types /\ Book /\ Exclusive
        /\ BoundaryTypes
    BY DEF IInv, RegistryInv, BoundaryInv, Book
  <1>1. Types'
    BY <1>0 DEF Types, slots, history, Slots, Handles, Values
  <1>2. Book'
    BY <1>0, SameBook
  <1>3. doing'[t] # "operation" /\ \A u \in Threads : u # t => doing'[u] = doing[u]
    BY <1>0 DEF BoundaryTypes
  <1>4. Exclusive'
    <2>1. holder' # NoOne => doing'[holder'] = "operation"
      BY <1>0, <1>3, MobileFfiAssumption DEF Exclusive, Types
    <2>2. ASSUME NEW u \in Threads, doing'[u] = "operation"
          PROVE  /\ holder' = u /\ using'[u].value # 0
                 /\ Found(using[u].handle)' = using'[u].value
      <3>1. u # t /\ doing[u] = "operation"
        BY <1>3, <2>2
      <3>2. holder = u /\ using[u].value # 0 /\ Found(using[u].handle) = using[u].value
        BY <1>0, <3>1 DEF Exclusive, InUseStays
      <3>3. holder' = u
        BY <1>0, <3>1, <3>2 DEF Exclusive, InUseStays
      <3>4. Found(using[u].handle)' = Found(using[u].handle)
        BY DEF Found, slots
      <3> QED BY <3>2, <3>3, <3>4
    <2> QED BY <2>1, <2>2 DEF Exclusive, InUseStays, Found
  <1> QED BY <1>1, <1>2, <1>4 DEF RegistryInv, Book

-----------------------------------------------------------------------------
\* The boundary and the results.

LEMMA BufferTypes == Cardinality(Outputs) \in Nat
  BY MobileFfiAssumption, FS_CardinalityType

LEMMA InitBoundary == Init => BoundaryInv
  <1> SUFFICES ASSUME Init PROVE BoundaryInv
    OBVIOUS
  <1>1. BoundaryTypes
    <2>1. << >> \in Seq(Outputs \cup {NoOutput})
      OBVIOUS
    <2>2. stack \in [Threads -> Seq(Outputs \cup {NoOutput})]
      BY <2>1 DEF Init
    <2>3. results \in [Outputs -> 0..Cardinality(Outputs)]
      BY BufferTypes DEF Init
    <2>4. /\ poisoned \in BOOLEAN /\ escaped \in BOOLEAN
          /\ depth \in [Threads -> Nat]
          /\ doing \in [Threads -> {"host", "product", "operation", "caught"}]
          /\ allocated \subseteq Buffers
      BY DEF Init
    <2> QED BY <2>2, <2>3, <2>4 DEF BoundaryTypes
  <1>2. Depths /\ NothingEscapes
    BY DEF Init, Depths, NothingEscapes
  <1>3. Writers
    BY DEF Init, Writers
  <1>4. ResultsOwnTheirBytes
    BY DEF Init, ResultsOwnTheirBytes
  <1> QED BY <1>1, <1>2, <1>3, <1>4 DEF BoundaryInv

\* The registry's steps.
LEMMA InsideBoundary ==
  ASSUME IInv, UNCHANGED <<stack, depth, escaped, memory>>, poisoned' \in BOOLEAN,
         NEW t \in Threads, doing[t] # "host",
         NEW d \in {"product", "operation", "caught"},
         doing' = [doing EXCEPT ![t] = d]
  PROVE  BoundaryInv'
  <1>0. BoundaryTypes /\ Depths /\ NothingEscapes /\ Writers /\ ResultsOwnTheirBytes
    BY DEF IInv, BoundaryInv
  <1>1. BoundaryTypes'
    BY <1>0 DEF BoundaryTypes, memory, Buffers
  <1>2. Depths'
    BY <1>0 DEF BoundaryTypes, Depths
  <1>3. NothingEscapes' /\ Writers' /\ ResultsOwnTheirBytes'
    BY <1>0 DEF NothingEscapes, Writers, Busy, ResultsOwnTheirBytes, memory
  <1> QED BY <1>1, <1>2, <1>3 DEF BoundaryInv

LEMMA SameBoundary ==
  ASSUME IInv, UNCHANGED <<poisoned, stack, depth, doing, escaped, memory>>
  PROVE  BoundaryInv'
  BY DEF IInv, BoundaryInv, BoundaryTypes, Depths, NothingEscapes, Writers, Busy,
         ResultsOwnTheirBytes, memory, Buffers

LEMMA EnterBoundary ==
  ASSUME IInv, NEW t \in Threads, NEW o \in Outputs \cup {NoOutput}, Enter(t, o)
  PROVE  BoundaryInv'
  <1>0. BoundaryTypes /\ Depths /\ NothingEscapes /\ Writers /\ ResultsOwnTheirBytes
    BY DEF IInv, BoundaryInv
  <1>1. /\ stack' = [stack EXCEPT ![t] = Append(stack[t], o)]
        /\ depth' = [depth EXCEPT ![t] = depth[t] + 1]
        /\ doing' = [doing EXCEPT ![t] = "product"]
        /\ o # NoOutput => results[o] = 0 /\ ~Busy(o)
        /\ UNCHANGED <<poisoned, escaped, results, allocated>>
    BY DEF Enter, memory
  <1>2. stack[t] \in Seq(Outputs \cup {NoOutput})
    BY <1>0 DEF BoundaryTypes
  <1>3. /\ Append(stack[t], o) \in Seq(Outputs \cup {NoOutput})
        /\ Len(Append(stack[t], o)) = Len(stack[t]) + 1
        /\ \A i \in 1..Len(stack[t]) : Append(stack[t], o)[i] = stack[t][i]
        /\ Append(stack[t], o)[Len(stack[t]) + 1] = o
    BY <1>2
  <1>4. /\ stack'[t] = Append(stack[t], o)
        /\ \A u \in Threads : u # t => stack'[u] = stack[u]
    BY <1>0, <1>1 DEF BoundaryTypes
  <1>5. BoundaryTypes'
    <2>1. stack' \in [Threads -> Seq(Outputs \cup {NoOutput})]
      BY <1>0, <1>1, <1>3 DEF BoundaryTypes
    <2>2. depth' \in [Threads -> Nat]
      BY <1>0, <1>1 DEF BoundaryTypes
    <2>3. doing' \in [Threads -> {"host", "product", "operation", "caught"}]
      BY <1>0, <1>1 DEF BoundaryTypes
    <2> QED BY <1>0, <1>1, <2>1, <2>2, <2>3 DEF BoundaryTypes, Buffers
  <1>6. Depths'
    <2> SUFFICES ASSUME NEW u \in Threads
                 PROVE  /\ depth'[u] = Len(stack'[u])
                        /\ doing'[u] = "host" <=> Len(stack'[u]) = 0
      BY DEF Depths
    <2>1. CASE u = t
      <3>1. depth'[t] = depth[t] + 1 /\ doing'[t] = "product"
        BY <1>0, <1>1 DEF BoundaryTypes
      <3>2. Len(stack[t]) \in Nat /\ depth[t] = Len(stack[t])
        BY <1>0, <1>2 DEF Depths
      <3> QED BY <1>3, <1>4, <2>1, <3>1, <3>2
    <2>2. CASE u # t
      <3>1. depth'[u] = depth[u] /\ doing'[u] = doing[u] /\ stack'[u] = stack[u]
        BY <1>0, <1>1, <1>4, <2>2 DEF BoundaryTypes
      <3> QED BY <1>0, <3>1 DEF Depths
    <2> QED BY <2>1, <2>2
  <1>7. \A u \in Threads : \A i \in 1..Len(stack'[u]) :
          \/ i \in 1..Len(stack[u]) /\ stack'[u][i] = stack[u][i]
          \/ u = t /\ i = Len(stack[t]) + 1 /\ stack'[u][i] = o
    BY <1>2, <1>3, <1>4
  <1>8. Writers'
    <2>1. ASSUME NEW u \in Threads, NEW v \in Threads,
                 NEW i \in 1..Len(stack'[u]), NEW j \in 1..Len(stack'[v]),
                 stack'[u][i] = stack'[v][j], stack'[u][i] # NoOutput
          PROVE  u = v /\ i = j
      <3>1. CASE /\ i \in 1..Len(stack[u]) /\ stack'[u][i] = stack[u][i]
                 /\ j \in 1..Len(stack[v]) /\ stack'[v][j] = stack[v][j]
        <4>1. stack[u][i] = stack[v][j] /\ stack[u][i] # NoOutput
          BY <2>1, <3>1
        <4>2. i \in 1..Len(stack[u]) /\ j \in 1..Len(stack[v])
          BY <3>1
        <4> QED BY <1>0, <2>1, <4>1, <4>2 DEF Writers
      <3>2. CASE /\ i \in 1..Len(stack[u]) /\ stack'[u][i] = stack[u][i]
                 /\ v = t /\ j = Len(stack[t]) + 1 /\ stack'[v][j] = o
        <4>1. o # NoOutput /\ Busy(o)
          BY <2>1, <3>2 DEF Busy
        <4> QED BY <1>1, <4>1
      <3>3. CASE /\ j \in 1..Len(stack[v]) /\ stack'[v][j] = stack[v][j]
                 /\ u = t /\ i = Len(stack[t]) + 1 /\ stack'[u][i] = o
        <4>1. o # NoOutput /\ Busy(o)
          BY <2>1, <3>3 DEF Busy
        <4> QED BY <1>1, <4>1
      <3>4. CASE u = t /\ i = Len(stack[t]) + 1 /\ v = t /\ j = Len(stack[t]) + 1
        BY <3>4
      <3> QED BY <1>7, <3>1, <3>2, <3>3, <3>4
    <2>2. ASSUME NEW p \in Outputs, Busy(p)'
          PROVE  results'[p] = 0
      <3>1. PICK u \in Threads : \E i \in 1..Len(stack'[u]) : stack'[u][i] = p
        BY <2>2 DEF Busy
      <3>2. PICK i \in 1..Len(stack'[u]) : stack'[u][i] = p
        BY <3>1
      <3>3. CASE i \in 1..Len(stack[u]) /\ stack'[u][i] = stack[u][i]
        <4>1. Busy(p)
          BY <3>2, <3>3 DEF Busy
        <4> QED BY <1>0, <1>1, <4>1 DEF Writers
      <3>4. CASE stack'[u][i] = o
        BY <1>1, <3>2, <3>4, MobileFfiAssumption
      <3> QED BY <1>7, <3>3, <3>4
    <2> QED BY <2>1, <2>2 DEF Writers
  <1>9. NothingEscapes' /\ ResultsOwnTheirBytes'
    BY <1>0, <1>1 DEF NothingEscapes, ResultsOwnTheirBytes
  <1> QED BY <1>5, <1>6, <1>8, <1>9 DEF BoundaryInv

LEMMA LeaveBoundary ==
  ASSUME IInv, NEW t \in Threads, NEW owned \in BOOLEAN, Leave(t, owned),
         doing[t] # "host", UNCHANGED <<poisoned, escaped>>
  PROVE  BoundaryInv'
  <1>0. BoundaryTypes /\ Depths /\ NothingEscapes /\ Writers /\ ResultsOwnTheirBytes
    BY DEF IInv, BoundaryInv
  <1> DEFINE n == Len(stack[t])
             o == stack[t][n]
  <1>1. /\ stack' = [stack EXCEPT ![t] = SubSeq(stack[t], 1, n - 1)]
        /\ depth' = [depth EXCEPT ![t] = Leaves(depth[t])]
        /\ doing' = [doing EXCEPT ![t] = IF n = 1 THEN "host" ELSE "product"]
        /\ WriteOutput(o, owned)
    BY DEF Leave
  <1>2. stack[t] \in Seq(Outputs \cup {NoOutput}) /\ n \in Nat /\ n > 0 /\ depth[t] = n
    <2>1. stack[t] \in Seq(Outputs \cup {NoOutput})
      BY <1>0 DEF BoundaryTypes
    <2>2. n # 0 /\ depth[t] = n
      BY <1>0 DEF Depths
    <2> QED BY <2>1, <2>2
  <1>3. /\ SubSeq(stack[t], 1, n - 1) \in Seq(Outputs \cup {NoOutput})
        /\ Len(SubSeq(stack[t], 1, n - 1)) = n - 1
        /\ \A i \in 1..n - 1 : SubSeq(stack[t], 1, n - 1)[i] = stack[t][i]
        /\ o \in Outputs \cup {NoOutput}
    BY <1>2
  <1>4. /\ stack'[t] = SubSeq(stack[t], 1, n - 1)
        /\ \A u \in Threads : u # t => stack'[u] = stack[u]
    BY <1>0, <1>1 DEF BoundaryTypes
  <1>5. \A u \in Threads : \A i \in 1..Len(stack'[u]) :
          /\ i \in 1..Len(stack[u]) /\ stack'[u][i] = stack[u][i]
          /\ ~(u = t /\ i = n)
    <2> SUFFICES ASSUME NEW u \in Threads, NEW i \in 1..Len(stack'[u])
                 PROVE  i \in 1..Len(stack[u]) /\ stack'[u][i] = stack[u][i] /\ ~(u = t /\ i = n)
      OBVIOUS
    <2>1. CASE u = t
      <3>1. i \in 1..n - 1
        BY <1>3, <1>4, <2>1
      <3>2. i \in 1..n /\ i # n
        BY <1>2, <3>1
      <3> QED BY <1>3, <1>4, <2>1, <3>1, <3>2
    <2>2. CASE u # t
      BY <1>4, <2>2
    <2> QED BY <2>1, <2>2
  <1>6. Depths'
    <2> SUFFICES ASSUME NEW u \in Threads
                 PROVE  /\ depth'[u] = Len(stack'[u])
                        /\ doing'[u] = "host" <=> Len(stack'[u]) = 0
      BY DEF Depths
    <2>1. CASE u = t
      <3>1. depth'[t] = n - 1
        BY <1>0, <1>1, <1>2 DEF BoundaryTypes, Leaves
      <3>2. doing'[t] = IF n = 1 THEN "host" ELSE "product"
        BY <1>0, <1>1 DEF BoundaryTypes
      <3>3. Len(stack'[t]) = n - 1
        BY <1>3, <1>4
      <3>4. doing'[t] = "host" <=> n - 1 = 0
        BY <1>2, <3>2
      <3> QED BY <2>1, <3>1, <3>3, <3>4
    <2>2. CASE u # t
      <3>1. depth'[u] = depth[u] /\ doing'[u] = doing[u] /\ stack'[u] = stack[u]
        BY <1>0, <1>1, <1>4, <2>2 DEF BoundaryTypes
      <3> QED BY <1>0, <3>1 DEF Depths
    <2> QED BY <2>1, <2>2
  <1>7. /\ stack' \in [Threads -> Seq(Outputs \cup {NoOutput})]
        /\ depth' \in [Threads -> Nat]
        /\ doing' \in [Threads -> {"host", "product", "operation", "caught"}]
    <2>1. stack' \in [Threads -> Seq(Outputs \cup {NoOutput})]
      BY <1>0, <1>1, <1>3 DEF BoundaryTypes
    <2>2. Leaves(depth[t]) \in Nat
      BY <1>2 DEF Leaves
    <2>3. depth' \in [Threads -> Nat]
      BY <1>0, <1>1, <2>2 DEF BoundaryTypes
    <2>4. doing' \in [Threads -> {"host", "product", "operation", "caught"}]
      BY <1>0, <1>1 DEF BoundaryTypes
    <2> QED BY <2>1, <2>3, <2>4
  <1>8. \A u, v \in Threads : \A i \in 1..Len(stack'[u]), j \in 1..Len(stack'[v]) :
          stack'[u][i] = stack'[v][j] /\ stack'[u][i] # NoOutput => u = v /\ i = j
    <2> TAKE u, v \in Threads
    <2> TAKE i \in 1..Len(stack'[u]), j \in 1..Len(stack'[v])
    <2>1. i \in 1..Len(stack[u]) /\ stack'[u][i] = stack[u][i]
      BY <1>5
    <2>2. j \in 1..Len(stack[v]) /\ stack'[v][j] = stack[v][j]
      BY <1>5
    <2>3. stack[u][i] = stack[v][j] /\ stack[u][i] # NoOutput => u = v /\ i = j
      BY <1>0, <2>1, <2>2 DEF Writers
    <2> QED BY <2>1, <2>2, <2>3
  <1>9. \A p \in Outputs : Busy(p)' => Busy(p) /\ results[p] = 0 /\ p # o
    <2> SUFFICES ASSUME NEW p \in Outputs, Busy(p)'
                 PROVE  Busy(p) /\ results[p] = 0 /\ p # o
      OBVIOUS
    <2>1. PICK u \in Threads : \E i \in 1..Len(stack'[u]) : stack'[u][i] = p
      BY DEF Busy
    <2>2. PICK i \in 1..Len(stack'[u]) : stack'[u][i] = p
      BY <2>1
    <2>3. i \in 1..Len(stack[u]) /\ stack[u][i] = p /\ ~(u = t /\ i = n)
      BY <1>5, <2>2
    <2>4. Busy(p) /\ results[p] = 0
      BY <1>0, <2>3 DEF Busy, Writers
    <2>5. p # o
      <3>1. n \in 1..Len(stack[t]) /\ p # NoOutput
        BY <1>2, MobileFfiAssumption
      <3> QED BY <1>0, <2>3, <3>1 DEF Writers
    <2> QED BY <2>4, <2>5
  <1>10. CASE o = NoOutput \/ ~owned
    <2>1. UNCHANGED <<results, allocated>>
      BY <1>1, <1>10 DEF WriteOutput, memory
    <2>2. Writers'
      BY <1>8, <1>9, <2>1 DEF Writers
    <2>3. BoundaryTypes'
      BY <1>0, <1>7, <2>1 DEF BoundaryTypes, Buffers
    <2>4. NothingEscapes' /\ ResultsOwnTheirBytes'
      BY <1>0, <2>1 DEF NothingEscapes, ResultsOwnTheirBytes
    <2> QED BY <1>6, <2>2, <2>3, <2>4 DEF BoundaryInv
  <1>11. CASE o # NoOutput /\ owned
    <2>1. PICK b \in Buffers \ allocated :
            /\ allocated' = allocated \cup {b}
            /\ results' = [results EXCEPT ![o] = b]
      BY <1>1, <1>11 DEF WriteOutput
    <2>2. o \in Outputs /\ results[o] = 0
      <3>1. o \in Outputs
        BY <1>3, <1>11
      <3>2. Busy(o)
        BY <1>2 DEF Busy
      <3> QED BY <1>0, <3>1, <3>2 DEF Writers
    <2>3. /\ results'[o] = b
          /\ \A p \in Outputs : p # o => results'[p] = results[p]
      BY <1>0, <2>1, <2>2 DEF BoundaryTypes
    <2>4. b # 0 /\ b \in 0..Cardinality(Outputs) /\ b \in Buffers
      BY BufferTypes DEF Buffers
    <2>5. Writers'
      BY <1>8, <1>9, <2>3 DEF Writers
    <2>6. BoundaryTypes'
      <3>1. results' \in [Outputs -> 0..Cardinality(Outputs)]
        BY <1>0, <2>1, <2>4 DEF BoundaryTypes
      <3>2. allocated' \subseteq Buffers
        BY <1>0, <2>1, <2>4 DEF BoundaryTypes
      <3> QED BY <1>0, <1>7, <3>1, <3>2 DEF BoundaryTypes, Buffers
    <2>7. ResultsOwnTheirBytes'
      <3>1. \A p \in Outputs : results[p] # b
        BY <1>0, <2>4 DEF ResultsOwnTheirBytes
      <3>2. {results'[p] : p \in Outputs} \ {0} = ({results[p] : p \in Outputs} \ {0}) \cup {b}
        BY <2>2, <2>3, <2>4
      <3>3. allocated' = {results'[p] : p \in Outputs} \ {0}
        BY <1>0, <2>1, <3>2 DEF ResultsOwnTheirBytes
      <3>4. \A p, q \in Outputs : p # q /\ results'[p] # 0 => results'[p] # results'[q]
        BY <1>0, <2>2, <2>3, <3>1 DEF ResultsOwnTheirBytes
      <3> QED BY <3>3, <3>4 DEF ResultsOwnTheirBytes
    <2> QED BY <1>0, <1>6, <2>5, <2>6, <2>7 DEF BoundaryInv, NothingEscapes
  <1> QED BY <1>10, <1>11

LEMMA FreeBoundary ==
  ASSUME IInv, NEW o \in Outputs, Free(o)
  PROVE  BoundaryInv'
  <1>0. BoundaryTypes /\ Depths /\ NothingEscapes /\ Writers /\ ResultsOwnTheirBytes
    BY DEF IInv, BoundaryInv
  <1>1. /\ results' = [results EXCEPT ![o] = 0]
        /\ allocated' = allocated \ {results[o]}
        /\ UNCHANGED <<poisoned, stack, depth, doing, escaped>>
    BY DEF Free, Reset
  <1>2. results'[o] = 0 /\ \A p \in Outputs : p # o => results'[p] = results[p]
    BY <1>0, <1>1 DEF BoundaryTypes
  <1>3. BoundaryTypes'
    <2>1. results' \in [Outputs -> 0..Cardinality(Outputs)]
      BY <1>0, <1>1, BufferTypes DEF BoundaryTypes
    <2> QED BY <1>0, <1>1, <2>1 DEF BoundaryTypes, Buffers
  <1>4. Depths' /\ NothingEscapes'
    BY <1>0, <1>1 DEF Depths, NothingEscapes
  <1>5. Writers'
    BY <1>0, <1>1, <1>2 DEF Writers, Busy
  <1>6. ResultsOwnTheirBytes'
    <2>1. {results'[p] : p \in Outputs} \ {0}
            = ({results[p] : p \in Outputs} \ {0}) \ {results[o]}
      BY <1>0, <1>2 DEF ResultsOwnTheirBytes
    <2>2. allocated' = {results'[p] : p \in Outputs} \ {0}
      BY <1>0, <1>1, <2>1 DEF ResultsOwnTheirBytes
    <2>3. \A p, q \in Outputs : p # q /\ results'[p] # 0 => results'[p] # results'[q]
      BY <1>0, <1>2 DEF ResultsOwnTheirBytes
    <2> QED BY <2>2, <2>3 DEF ResultsOwnTheirBytes
  <1> QED BY <1>3, <1>4, <1>5, <1>6 DEF BoundaryInv

-----------------------------------------------------------------------------
\* The two together.

LEMMA StepIInv ==
  ASSUME IInv, Next
  PROVE  IInv'
  <1>0. Depths /\ NothingEscapes /\ BoundaryTypes
    BY DEF IInv, BoundaryInv
  <1>1. ASSUME NEW t \in Threads, Insert(t)
        PROVE  IInv'
    <2>1. UNCHANGED <<poisoned, stack, depth, doing, escaped, memory>>
      BY <1>1 DEF Insert
    <2> QED BY <1>1, <2>1, InsertRegistry, SameBoundary DEF IInv
  <1>2. ASSUME NEW t \in Threads, NEW h \in Handles, With(t, h)
        PROVE  IInv'
    <2>1. /\ UNCHANGED <<stack, depth, escaped, memory, poisoned>>
          /\ doing[t] # "host" /\ doing' = [doing EXCEPT ![t] = "operation"]
      BY <1>2 DEF With
    <2>2. poisoned' \in BOOLEAN
      BY <1>0, <2>1 DEF BoundaryTypes
    <2> QED BY <1>2, <2>1, <2>2, WithRegistry, InsideBoundary DEF IInv
  <1>3. ASSUME NEW t \in Threads, NEW h \in Handles, Remove(t, h)
        PROVE  IInv'
    <2>1. UNCHANGED <<poisoned, stack, depth, doing, escaped, memory>>
      BY <1>3 DEF Remove
    <2> QED BY <1>3, <2>1, RemoveRegistry, SameBoundary DEF IInv
  <1>4. ASSUME NEW t \in Threads, WithReturns(t)
        PROVE  IInv'
    <2>1. /\ UNCHANGED <<stack, depth, escaped, memory, poisoned>>
          /\ UNCHANGED <<slots, using, history>>
          /\ holder' = NoOne /\ doing[t] = "operation"
          /\ doing' = [doing EXCEPT ![t] = "product"]
      BY <1>4 DEF WithReturns
    <2>2. poisoned' \in BOOLEAN
      BY <1>0, <2>1 DEF BoundaryTypes
    <2>3. RegistryInv'
      BY <2>1, OutsideRegistry
    <2>4. BoundaryInv'
      BY <2>1, <2>2, InsideBoundary
    <2> QED BY <2>3, <2>4 DEF IInv
  <1>5. ASSUME NEW t \in Threads, NEW o \in Outputs \cup {NoOutput}, Enter(t, o)
        PROVE  IInv'
    <2>1. /\ UNCHANGED <<slots, using, history>>
          /\ holder' = holder /\ doing[t] # "operation"
          /\ doing' = [doing EXCEPT ![t] = "product"]
      BY <1>5 DEF Enter
    <2>2. RegistryInv'
      BY <2>1, OutsideRegistry
    <2> QED BY <1>5, <2>2, EnterBoundary DEF IInv
  <1>6. ASSUME NEW t \in Threads, NEW owned \in BOOLEAN, Return(t, owned)
        PROVE  IInv'
    <2>1. /\ UNCHANGED <<slots, using, history>>
          /\ holder' = holder /\ doing[t] = "product"
          /\ \E d \in {"host", "product", "caught"} : doing' = [doing EXCEPT ![t] = d]
          /\ UNCHANGED <<poisoned, escaped>> /\ Leave(t, owned)
      BY <1>6 DEF Return, Leave
    <2>2. RegistryInv'
      BY <2>1, OutsideRegistry
    <2>3. BoundaryInv'
      BY <2>1, LeaveBoundary
    <2> QED BY <2>2, <2>3 DEF IInv
  <1>7. ASSUME NEW t \in Threads, NEW again \in BOOLEAN, DropPayload(t, again)
        PROVE  IInv'
    <2>1. /\ UNCHANGED <<slots, using, history>>
          /\ holder' = holder /\ doing[t] = "caught"
          /\ \E d \in {"host", "product", "caught"} : doing' = [doing EXCEPT ![t] = d]
          /\ UNCHANGED poisoned /\ Leave(t, TRUE)
      BY <1>7 DEF DropPayload, Leave
    <2>2. depth[t] # 0
      BY <1>0, <2>1 DEF Depths
    <2>3. UNCHANGED escaped
      <3>1. escaped' = (escaped \/ (again /\ Reaches(t))) /\ ~Reaches(t) /\ escaped = FALSE
        BY <1>0, <1>7, <2>2 DEF DropPayload, Reaches, NothingEscapes, BoundaryTypes
      <3>2. (escaped \/ (again /\ Reaches(t))) = FALSE
        BY <3>1
      <3> QED BY <3>1, <3>2
    <2>4. RegistryInv'
      BY <2>1, OutsideRegistry
    <2>5. BoundaryInv'
      BY <2>1, <2>3, LeaveBoundary
    <2> QED BY <2>4, <2>5 DEF IInv
  <1>8. ASSUME NEW t \in Threads, Panic(t)
        PROVE  IInv'
    <2>1. /\ UNCHANGED <<slots, using, history>> /\ UNCHANGED <<stack, depth, memory>>
          /\ \/ holder' = holder /\ doing[t] # "operation"
             \/ holder' = NoOne /\ doing[t] = "operation"
          /\ doing[t] # "host" /\ doing' = [doing EXCEPT ![t] = "caught"]
      BY <1>8 DEF Panic
    <2>2. depth[t] # 0
      BY <1>0, <2>1 DEF Depths
    <2>3. escaped' = (escaped \/ Reaches(t)) /\ ~Reaches(t) /\ escaped = FALSE
      BY <1>0, <1>8, <2>2 DEF Panic, Reaches, NothingEscapes, BoundaryTypes
    <2>4. UNCHANGED escaped
      <3>1. (escaped \/ Reaches(t)) = FALSE
        BY <2>3
      <3> QED BY <2>3, <3>1
    <2>5. poisoned' \in BOOLEAN
      BY <1>8, Zenon DEF Panic
    <2>6. RegistryInv'
      BY <2>1, OutsideRegistry
    <2>7. BoundaryInv'
      BY <2>1, <2>4, <2>5, InsideBoundary
    <2> QED BY <2>6, <2>7 DEF IInv
  <1>9. ASSUME NEW o \in Outputs, Free(o)
        PROVE  IInv'
    <2>1. UNCHANGED <<slots, using, history, holder, doing>>
      BY <1>9 DEF Free
    <2>2. RegistryInv'
      BY <2>1, SameBook
         DEF IInv, RegistryInv, Types, Exclusive, InUseStays, Found, slots, history,
             Slots, Handles, Values, Book
    <2> QED BY <1>9, <2>2, FreeBoundary DEF IInv
  <1> QED BY <1>1, <1>2, <1>3, <1>4, <1>5, <1>6, <1>7, <1>8, <1>9 DEF Next

LEMMA StutterIInv ==
  ASSUME IInv, UNCHANGED vars
  PROVE  IInv'
  <1>1. RegistryInv'
    BY SameBook
       DEF IInv, RegistryInv, Types, Exclusive, InUseStays, Found, slots, history,
           Slots, Handles, Values, Book, vars
  <1>2. BoundaryInv'
    BY SameBoundary DEF vars, memory
  <1> QED BY <1>1, <1>2 DEF IInv

\* The registry's bookkeeping and the boundary's accounts are never disturbed:
\* what was issued and not taken is in its slot, FFI_DEPTH counts the boundaries.
THEOREM Inductive == Spec => []IInv
  <1>1. Init => IInv
    BY InitRegistry, InitBoundary DEF IInv
  <1>2. IInv /\ [Next]_vars => IInv'
    BY StepIInv, StutterIInv
  <1> QED BY <1>1, <1>2, PTL DEF Spec

\* Every variable keeps its type, and the mutex its holder.
THEOREM TypeCorrect == Spec => []TypeOK
  <1>1. IInv => TypeOK
    BY DEF IInv, RegistryInv, BoundaryInv, Exclusive, TypeOK
  <1> QED BY <1>1, Inductive, PTL

\* No remove or reuse of a slot gets into a with operation on it.
THEOREM OperationsAreExclusive == Spec => []InUseStays
  <1>1. IInv => InUseStays
    BY DEF IInv, RegistryInv, Exclusive
  <1> QED BY <1>1, Inductive, PTL

\* A handle leads to its own value or to nothing, for any number of slots,
\* generations and threads.
THEOREM NoStaleHandle == Spec => []HandlesNeverAlias
  <1>1. IInv => HandlesNeverAlias
    <2> SUFFICES ASSUME IInv, NEW i \in issued
                 PROVE  Found(i.handle) = IF i.value \in taken THEN 0 ELSE i.value
      BY DEF HandlesNeverAlias
    <2>0. Types /\ Past /\ Once /\ Listed /\ Kept
      BY DEF IInv, RegistryInv
    <2>1. i.handle \in Handles /\ i.value \in Values /\ i.handle.slot < length
      BY <2>0 DEF Types, Past
    <2>2. CASE i.value \notin taken
      BY <2>0, <2>1, <2>2 DEF Kept, Found
    <2>3. CASE i.value \in taken
      <3> SUFFICES ASSUME Found(i.handle) # 0 PROVE FALSE
        BY <2>3
      <3> DEFINE s == i.handle.slot
      <3>1. /\ s \in Slots /\ generation[s] = i.handle.generation
            /\ value[s] = Found(i.handle)
        BY <2>0, <2>1, FoundLemma
      <3>2. Entry(s) \in issued /\ value[s] \notin taken
        BY <2>0, <3>1 DEF Listed
      <3>3. Entry(s).handle = i.handle
        BY <2>1, <3>1 DEF Entry, Handles
      <3>4. Entry(s) = i
        BY <2>0, <3>2, <3>3 DEF Once
      <3> QED BY <2>3, <3>2, <3>4 DEF Entry
    <2> QED BY <2>2, <2>3
  <1> QED BY <1>1, Inductive, PTL

\* Whoever looks a handle up meets its one object or nothing.
THEOREM HandlesAreSound == Spec => []OneObjectPerHandle
  <1>1. HandlesNeverAlias /\ InUseStays => OneObjectPerHandle
    BY DEF OneObjectPerHandle
  <1> QED BY <1>1, NoStaleHandle, OperationsAreExclusive, PTL

\* A poisoned registry refuses everything.
THEOREM PoisonedIsClosed == Spec => PoisonFailsClosed
  <1>1. [Next]_vars => [poisoned => UNCHANGED <<slots, using>>]_vars
    <2> SUFFICES ASSUME Next, poisoned
                 PROVE  UNCHANGED <<slots, using>>
      BY DEF vars, slots
    <2> QED BY DEF Next, Insert, With, WithReturns, Remove, Enter, Return, Panic, DropPayload,
                   Free, Enters
  <1> QED BY <1>1, PTL DEF Spec, PoisonFailsClosed

\* No handle aliases a later object, also not after a panic closed the registry.
THEOREM RegistrySound == Spec => RegistryIsSound
  <1> QED BY HandlesAreSound, PoisonedIsClosed, PTL DEF RegistryIsSound

\* No panic inside a boundary, however deep, reaches the host's own hook.
THEOREM PanicsStayInside == Spec => []NothingEscapes
  <1>1. IInv => NothingEscapes
    BY DEF IInv, BoundaryInv
  <1> QED BY <1>1, Inductive, PTL

\* Every box of owned has exactly one owner.
THEOREM BytesHaveOneOwner == Spec => []ResultsOwnTheirBytes
  <1>1. IInv => ResultsOwnTheirBytes
    BY DEF IInv, BoundaryInv
  <1> QED BY <1>1, Inductive, PTL

\* The two together.
THEOREM BoundaryTight == Spec => []BoundaryIsTight
  <1>1. NothingEscapes /\ ResultsOwnTheirBytes => BoundaryIsTight
    BY DEF BoundaryIsTight
  <1> QED BY <1>1, PanicsStayInside, BytesHaveOneOwner, PTL

-----------------------------------------------------------------------------
\* The JNI half.

Classes == {"IllegalArgumentException", "IllegalStateException", "OutOfMemoryError",
            "RuntimeException", "NoClassDefFoundError"}
Exceptions == {Nothing} \cup [number : Nat, class : Classes]
NativeCalls ==
  [at : {"attach", "check", "operation", "failed", "resolved", "return"}, fallback : BOOLEAN,
   value : {"value", "error_return", "default", Nothing}, status : Statuses \cup {Nothing},
   before : Exceptions, met : Exceptions, ran : BOOLEAN]

\* What a call may remember at each of its steps.
Consistent(call) ==
  /\ call.before # Nothing => ~call.ran
  /\ call.at # "return" => call.fallback
  /\ call.at \in {"attach", "check", "operation"} => call.status = Nothing
  /\ call.at \in {"attach", "check", "operation", "failed"} => call.met = Nothing
  /\ call.at = "operation" => call.ran
  /\ call.at = "return" => /\ call.value \in {"value", "error_return"}
                           /\ call.value = "value" => call.ran /\ call.status = Nothing

\* What the innermost call has met is still what is pending.
Outlasts(call) ==
  /\ call.before # Nothing => exception = call.before
  /\ call.met # Nothing => exception = call.met

JniInv ==
  /\ calls \in Seq(NativeCalls) /\ exception \in Exceptions /\ thrown \in Nat
  /\ \A n \in 1..Len(calls) : Consistent(calls[n])
  /\ \A n \in 1..Len(calls) : n < Len(calls) => calls[n].at = "operation"
  /\ calls # <<>> => Outlasts(Call)
  /\ ErrorsLookLikeErrors

\* Only the innermost call moves.
LEMMA InnermostMoves ==
  ASSUME JniInv, calls # <<>>, NEW call \in NativeCalls, Moves(call), Consistent(call),
         exception' \in Exceptions, thrown' \in Nat, UNCHANGED returned,
         call.before # Nothing => exception' = call.before,
         call.met # Nothing => exception' = call.met
  PROVE  JniInv'
<1>1. calls \in Seq(NativeCalls) /\ Len(calls) \in Nat /\ Len(calls) \in 1..Len(calls)
  BY EmptySeq, LenProperties DEF JniInv
<1>2. /\ calls' \in Seq(NativeCalls) /\ Len(calls') = Len(calls)
      /\ \A n \in 1..Len(calls) : calls'[n] = IF n = Len(calls) THEN call ELSE calls[n]
  BY <1>1, ExceptSeq DEF Moves
<1>3. Call' = call
  BY <1>1, <1>2 DEF Call
<1>4. \A n \in 1..Len(calls') : Consistent(calls'[n]) /\ (n < Len(calls') => calls'[n].at = "operation")
  BY <1>1, <1>2 DEF JniInv
<1>5. ErrorsLookLikeErrors'
  BY DEF JniInv, ErrorsLookLikeErrors
<1> QED BY <1>2, <1>3, <1>4, <1>5 DEF JniInv, Outlasts, Consistent

LEMMA Innermost ==
  ASSUME JniInv, calls # <<>>
  PROVE  Call \in NativeCalls /\ Consistent(Call) /\ Outlasts(Call) /\ exception \in Exceptions
<1>1. calls \in Seq(NativeCalls) /\ Len(calls) \in 1..Len(calls)
  BY EmptySeq, LenProperties DEF JniInv
<1> QED BY <1>1 DEF JniInv, Call

\* An operation fails, with what is pending by then.
LEMMA OperationFailsKeeps ==
  ASSUME JniInv, At("operation") \/ At("attach") \/ At("check"), NEW status \in Statuses, Fails(status),
         exception' = exception \/ At("operation"), exception' \in Exceptions, thrown' \in Nat, UNCHANGED returned
  PROVE  JniInv'
<1>1. calls # <<>> /\ Call \in NativeCalls /\ Consistent(Call) /\ Outlasts(Call)
  BY Innermost DEF At
<1>2. PICK call : call = [Call EXCEPT !.at = "failed", !.status = status]
  OBVIOUS
<1>3. call \in NativeCalls /\ Consistent(call) /\ call.before = Call.before /\ call.met = Nothing
  BY <1>1, <1>2 DEF NativeCalls, Consistent, At
<1>4. call.before # Nothing => exception' = call.before
  BY <1>1, <1>3 DEF Outlasts, Consistent, At
<1> QED BY <1>1, <1>2, <1>3, <1>4, InnermostMoves DEF Fails

LEMMA ThrowsTypes ==
  ASSUME JniInv,
         \/ UNCHANGED <<exception, thrown>>
         \/ exception' = Nothing /\ UNCHANGED thrown
         \/ \E class \in Classes : Throws(class)
  PROVE  exception' \in Exceptions /\ thrown' \in Nat
BY DEF JniInv, Throws, Exceptions

LEMMA ClassIsKnown ==
  ASSUME NEW status
  PROVE  Class(status) \in Classes
BY DEF Class, Classes

LEMMA CallNativeKeeps ==
  ASSUME JniInv, CallNative
  PROVE  JniInv'
<1>1. PICK call : call = [at |-> "attach", fallback |-> TRUE, value |-> Nothing, status |-> Nothing,
                          before |-> exception, met |-> Nothing, ran |-> FALSE]
  OBVIOUS
<1>2. call \in NativeCalls /\ Consistent(call)
  BY <1>1 DEF NativeCalls, Consistent, JniInv, Exceptions
<1>3. calls \in Seq(NativeCalls) /\ Len(calls) \in Nat
  BY LenProperties DEF JniInv
<1>4. /\ calls' \in Seq(NativeCalls) /\ Len(calls') = Len(calls) + 1
      /\ \A n \in 1..Len(calls) + 1 : calls'[n] = IF n = Len(calls) + 1 THEN call ELSE calls[n]
  BY <1>1, <1>2, <1>3, AppendProperties DEF CallNative
<1>5. \A n \in 1..Len(calls) : calls[n].at = "operation"
  BY <1>3, EmptySeq DEF CallNative, At, Call, JniInv
<1>6. \A n \in 1..Len(calls') : Consistent(calls'[n]) /\ (n < Len(calls') => calls'[n].at = "operation")
  BY <1>2, <1>3, <1>4, <1>5 DEF JniInv
<1>7. Call' = call
  BY <1>3, <1>4 DEF Call
<1>8. Outlasts(Call)'
  BY <1>1, <1>7 DEF Outlasts, CallNative
<1> QED BY <1>4, <1>6, <1>8 DEF JniInv, ErrorsLookLikeErrors, CallNative

\* The call around the one that returns was in its operation all the time.
LEMMA ReturnNativeKeeps ==
  ASSUME JniInv, ReturnNative
  PROVE  JniInv'
<1>0. calls # <<>> /\ Call \in NativeCalls /\ Consistent(Call) /\ Outlasts(Call)
  BY Innermost DEF ReturnNative, At
<1>1. calls \in Seq(NativeCalls) /\ Len(calls) \in Nat /\ Len(calls) - 1 \in Nat
  BY EmptySeq, LenProperties DEF JniInv, ReturnNative, At
<1>2. /\ calls' \in Seq(NativeCalls) /\ Len(calls') = Len(calls) - 1
      /\ \A n \in 1..Len(calls) - 1 : calls'[n] = calls[n]
  <2>1. PICK m \in Nat : Len(calls) = m + 1
    BY <1>1
  <2>2. calls' = SubSeq(calls, 1, m)
    BY <2>1 DEF ReturnNative
  <2>3. \A n \in 1..m : calls[n] \in NativeCalls
    BY <1>1, <2>1
  <2>4. /\ calls' \in Seq(NativeCalls)
        /\ Len(calls') = IF 1 <= m THEN m - 1 + 1 ELSE 0
        /\ \A n \in 1..m - 1 + 1 : calls'[n] = calls[1 + n - 1]
    BY <2>2, <2>3, SubSeqProperties, SMT
  <2> QED BY <1>1, <2>1, <2>4
<1>3. \A n \in 1..Len(calls') : Consistent(calls'[n]) /\ calls'[n].at = "operation"
  BY <1>1, <1>2 DEF JniInv
<1>4. calls' # <<>> => Outlasts(Call)'
  BY <1>1, <1>2, <1>3, EmptySeq DEF Call, Outlasts, Consistent
<1>5. exception' \in Exceptions /\ thrown' \in Nat
  BY DEF JniInv, ReturnNative, Exceptions
<1>6. ErrorsLookLikeErrors'
  BY <1>0 DEF ReturnNative, At, ErrorsLookLikeErrors, Consistent, Outlasts
<1> QED BY <1>2, <1>3, <1>4, <1>5, <1>6 DEF JniInv

\* Every other step of guard.
LEMMA GuardKeeps ==
  ASSUME JniInv, Attach \/ CheckException \/ OnError \/ TakeFallback \/ OperationReturns
  PROVE  JniInv'
<1>1. /\ calls # <<>> /\ Call \in NativeCalls /\ Consistent(Call) /\ Outlasts(Call)
      /\ exception \in Exceptions /\ thrown \in Nat
  BY Innermost DEF Attach, CheckException, OnError, TakeFallback, OperationReturns, At, JniInv
<1>2. CASE (At("attach") /\ Fails("panic")) \/ (At("check") /\ Fails("internal"))
  BY <1>1, <1>2, OperationFailsKeeps DEF Attach, CheckException, OnError, TakeFallback, OperationReturns, At, Statuses
<1>3. CASE Attach /\ ~Fails("panic")
  <2>1. PICK call : /\ Moves(call)
                    /\ \/ call = [Call EXCEPT !.at = "check"]
                       \/ call = [Call EXCEPT !.at = "return", !.value = "error_return", !.fallback = FALSE]
    BY <1>3 DEF Attach, Steps
  <2>2. call \in NativeCalls /\ Consistent(call) /\ call.before = Call.before /\ call.met = Call.met
    BY <1>1, <1>3, <2>1 DEF NativeCalls, Consistent, Attach, At
  <2> QED BY <1>1, <1>3, <2>1, <2>2, InnermostMoves DEF Attach, Outlasts
<1>4. CASE CheckException /\ ~Fails("internal")
  <2>1. PICK call : call = [Call EXCEPT !.at = "operation", !.ran = TRUE]
    OBVIOUS
  <2>2. /\ call \in NativeCalls /\ call.before = Call.before /\ call.met = Call.met
        /\ exception = Nothing
    BY <1>1, <1>4, <2>1 DEF NativeCalls, CheckException
  <2>3. Consistent(call)
    BY <1>1, <1>4, <2>1, <2>2 DEF NativeCalls, Consistent, Outlasts, CheckException, At
  <2> QED BY <1>1, <1>4, <2>1, <2>2, <2>3, InnermostMoves DEF CheckException, Outlasts
<1>5. CASE OnError
  <2>1. PICK call : call = [Call EXCEPT !.met = exception, !.at = "resolved"]
    OBVIOUS
  <2>2. call \in NativeCalls /\ Consistent(call) /\ call.before = Call.before /\ call.met = exception
    BY <1>1, <1>5, <2>1 DEF NativeCalls, Consistent, OnError, At
  <2>3. exception' \in Exceptions /\ thrown' \in Nat /\ (exception # Nothing => exception' = exception)
    <3>1. Class(Call.status) \in Classes /\ "NoClassDefFoundError" \in Classes
      BY ClassIsKnown DEF Classes
    <3>2. UNCHANGED <<exception, thrown>> \/ (~Pending /\ \E class \in Classes : Throws(class))
      BY <1>5, <3>1, Zenon DEF OnError
    <3> QED BY <3>2, ThrowsTypes DEF Pending
  <2> QED BY <1>1, <1>5, <2>1, <2>2, <2>3, InnermostMoves DEF OnError, Outlasts
<1>6. CASE TakeFallback
  <2>1. PICK call : call = [Call EXCEPT !.at = "return", !.fallback = FALSE,
                        !.value = IF Call.fallback THEN "error_return" ELSE "default"]
    OBVIOUS
  <2>2. call \in NativeCalls /\ Consistent(call) /\ call.before = Call.before /\ call.met = Call.met
    BY <1>1, <1>6, <2>1 DEF NativeCalls, Consistent, TakeFallback, At
  <2> QED BY <1>1, <1>6, <2>1, <2>2, InnermostMoves DEF TakeFallback, Outlasts
<1>7. CASE OperationReturns
  <2>1. PICK call : call = [Call EXCEPT !.at = "return", !.value = "value", !.met = exception]
    OBVIOUS
  <2>2. call \in NativeCalls /\ Consistent(call) /\ call.before = Call.before /\ call.met = exception
    BY <1>1, <1>7, <2>1 DEF NativeCalls, Consistent, OperationReturns, At
  <2> QED BY <1>1, <1>7, <2>1, <2>2, InnermostMoves DEF OperationReturns, Outlasts
<1>8. CASE Attach
  <2>1. At("attach")
    BY <1>8 DEF Attach
  <2>2. CASE Fails("panic")
    BY <1>2, <2>1, <2>2
  <2>3. CASE ~Fails("panic")
    BY <1>3, <1>8, <2>3
  <2> QED BY <2>2, <2>3
<1>9. CASE CheckException
  <2>1. At("check")
    BY <1>9 DEF CheckException
  <2>2. CASE Fails("internal")
    BY <1>2, <2>1, <2>2
  <2>3. CASE ~Fails("internal")
    BY <1>4, <1>9, <2>3
  <2> QED BY <2>2, <2>3
<1> QED BY <1>5, <1>6, <1>7, <1>8, <1>9, Zenon

\* What an operation may do.
LEMMA OperationKeeps ==
  ASSUME JniInv,
         (\E string \in Strings : ReadString(string)) \/ NewString \/ CallJava \/ ClearException
           \/ \E status \in Statuses : OperationFails(status)
  PROVE  JniInv'
<1>0. At("operation") /\ UNCHANGED returned
  BY DEF ReadString, NewString, CallJava, ClearException, OperationFails
<1>1. exception' \in Exceptions /\ thrown' \in Nat
  <2>1. \/ UNCHANGED <<exception, thrown>>
        \/ exception' = Nothing /\ UNCHANGED thrown
        \/ \E class \in Classes : Throws(class)
    <3>1. "OutOfMemoryError" \in Classes /\ "RuntimeException" \in Classes
      BY DEF Classes
    <3> QED BY <3>1, Zenon DEF ReadString, NewString, CallJava, ClearException, OperationFails
  <2> QED BY <2>1, ThrowsTypes
<1>2. UNCHANGED calls \/ \E status \in Statuses : Fails(status)
  BY DEF ReadString, NewString, CallJava, ClearException, OperationFails, Statuses
<1>3. CASE \E status \in Statuses : Fails(status)
  BY <1>0, <1>1, <1>3, OperationFailsKeeps
<1>4. CASE UNCHANGED calls
  <2>1. calls # <<>> /\ Call' = Call /\ Call.before = Nothing /\ Call.met = Nothing
    BY <1>0, <1>4, Innermost DEF At, Call, Consistent, NativeCalls
  <2> QED BY <1>0, <1>1, <1>4, <2>1 DEF JniInv, Outlasts, ErrorsLookLikeErrors
<1> QED BY <1>2, <1>3, <1>4

\* However native calls are nested, however they fail or panic and whatever Java
\* throws meanwhile, no error passes for a success and the first exception wins (guard).
THEOREM ErrorsAreErrors == JniSpec => []ErrorsLookLikeErrors
<1>1. JniInit => JniInv
  BY EmptySeq DEF JniInit, JniInv, ErrorsLookLikeErrors, Exceptions
<1>2. JniInv /\ [JniNext]_jniVars => JniInv'
  <2> SUFFICES ASSUME JniInv, [JniNext]_jniVars PROVE JniInv'
    OBVIOUS
  <2>1. CASE UNCHANGED jniVars
    BY <2>1 DEF jniVars, JniInv, Call, Outlasts, ErrorsLookLikeErrors
  <2> QED BY <2>1, CallNativeKeeps, GuardKeeps, OperationKeeps, ReturnNativeKeeps DEF JniNext
<1>3. JniInv => ErrorsLookLikeErrors
  BY DEF JniInv
<1> QED BY <1>1, <1>2, <1>3, PTL DEF JniSpec

-----------------------------------------------------------------------------
\* The rotating log files. What a power failure leaves is one of several recent
\* directories, so the inductive invariant LogInv speaks of each of them: a file that
\* is out of order, not synchronized or missing in one of them is out of order, not
\* synchronized or missing once the power has failed.

Directories == [Numbers -> Files \cup {None}]

\* The directories that a power failure may leave.
Recent == {dirs[n] : n \in DOMAIN dirs}

LogTypes ==
  /\ windows \in BOOLEAN
  /\ dirs \in Seq(Directories) /\ dirs # <<>>
  /\ data \in [Files -> Seq(Nat)]
  /\ synced \in [Files -> Nat] /\ \A f \in Files : synced[f] <= Len(data[f])
  /\ fd \in Files \cup {None} /\ bytes \in Int
  /\ pc \in {"closed", "idle", "failed", "append"} \cup Rotating
  /\ index \in 0..Archives /\ last \in Nat /\ durable \subseteq Nat
  /\ faults \in Nat /\ crashes \in Nat

\* A line is on its way.
Writing == pc \in {"append"} \cup Rotating

\* Lines are not ahead of the counter.
Bounded ==
  /\ \A f \in Files : \A r \in LinesIn(data[f]) : r <= last /\ (Writing => r < last)
  /\ \A r \in durable : r > 0 /\ r <= last /\ (Writing => r < last)
  /\ Writing => last > 0

\* Where a line is written, the sink's file is the active one and the bytes are known.
Positioned ==
  /\ pc \in {"append", "syncdir", "sync"} => fd \in Files /\ fd = names[0]
  /\ pc = "append" => Size(data[fd]) = bytes /\ bytes + 2 <= FileBytes
  /\ pc = "syncdir" => data[fd] = <<>> /\ bytes = 0
  /\ pc \in {"remove", "shift"} /\ names[0] # None => synced[names[0]] = Len(data[names[0]])

\* What a rename is about to take is free.
Gaps ==
  /\ pc = "shift" => index < Archives /\ names[index + 1] = None
  /\ pc = "create" => names[0] = None

\* Nothing having failed, the only slot left out is the one being filled.
Packed ==
  faults + crashes = 0 =>
    \A s, t \in Numbers : t < s /\ names[s] # None /\ names[t] = None =>
      (pc = "shift" /\ t = index + 1) \/ (pc = "create" /\ t = 0)

\* The archives are in order, and no file has two names.
Ordered(d) ==
  \A s, t \in Numbers : t < s /\ d[s] # None /\ d[t] # None =>
    d[s] # d[t] /\ Older(d[s], d[t])

\* The active file is an archive in no earlier directory.
StaysActive(d) == \A s \in Numbers : names[0] # None /\ d[s] = names[0] => s = 0

\* The archives are synchronized.
Flushed(d) == \A s \in Numbers : s > 0 /\ d[s] # None => synced[d[s]] = Len(data[d[s]])

\* A line that was on the disk is on it, or no older line is.
Survives(r, d) ==
  \/ \E f \in Present(d) : \E n \in 1..synced[f] : data[f][n] = r
  \/ \A f \in Present(d) : \A b \in LinesIn(data[f]) : r < b

KeepsDurable(d) == \A r \in durable : Survives(r, d)

Disk == \A d \in Recent : Ordered(d) /\ StaysActive(d) /\ Flushed(d) /\ KeepsDurable(d)

LogInv == LogTypes /\ Bounded /\ Positioned /\ Gaps /\ Packed /\ Disk

-----------------------------------------------------------------------------
\* Files and directories.

LEMMA SizeLemma ==
  ASSUME NEW f \in Seq(Nat), NEW r \in Nat
  PROVE  /\ Size(f) \in Int /\ Size(<<>>) = 0
         /\ Size(Append(f, r)) = Size(f) + IF r = Torn THEN 1 ELSE 2
<1> DEFINE Halves(g) == {n \in DOMAIN g : g[n] = Torn}
           more == Append(f, r)
           new == Len(f) + 1
<1>1. /\ Len(f) \in Nat /\ DOMAIN f = 1..Len(f) /\ Len(more) = new /\ DOMAIN more = 1..new
      /\ more[new] = r /\ \A n \in 1..Len(f) : more[n] = f[n]
  OBVIOUS
<1>2. IsFiniteSet(1..Len(f))
  BY <1>1, FS_Interval
<1>3. IsFiniteSet(Halves(f)) /\ Cardinality(Halves(f)) \in Nat
  BY <1>1, <1>2, FS_Subset, FS_CardinalityType
<1>4. Cardinality({}) = 0
  BY FS_EmptySet
<1>5. Halves(<<>>) = {}
  OBVIOUS
<1>6. Size(f) \in Int /\ Size(<<>>) = 0
  BY <1>1, <1>3, <1>4, <1>5 DEF Size
<1>7. /\ Size(f) = 2 * Len(f) - Cardinality(Halves(f))
      /\ Size(Append(f, r)) = 2 * new - Cardinality(Halves(more))
  BY <1>1 DEF Size
<1>8. CASE r = Torn
  <2>1. Halves(more) = Halves(f) \cup {new} /\ new \notin Halves(f)
    BY <1>1, <1>8
  <2>2. Cardinality(Halves(more)) = Cardinality(Halves(f)) + 1
    BY <2>1, <1>3, FS_AddElement
  <2> HIDE DEF Halves, more
  <2> QED
    BY <1>1, <1>3, <1>6, <1>8, <1>7, <2>2
<1>9. CASE r # Torn
  <2>1. Halves(more) = Halves(f)
    BY <1>1, <1>9
  <2> HIDE DEF Halves, more
  <2> QED
    BY <1>1, <1>3, <1>6, <1>9, <1>7, <2>1
<1> QED
  BY <1>8, <1>9

LEMMA LinesLemma ==
  ASSUME NEW f \in Seq(Nat), NEW r \in Nat
  PROVE  /\ LinesIn(f) \subseteq Nat /\ LinesIn(<<>>) = {}
         /\ LinesIn(Append(f, r)) = LinesIn(f) \cup ({r} \ {Torn})
<1> DEFINE more == Append(f, r)
           new == Len(f) + 1
<1>1. /\ Len(f) \in Nat /\ DOMAIN f = 1..Len(f) /\ Len(more) = new /\ DOMAIN more = 1..new
      /\ more[new] = r /\ \A n \in 1..Len(f) : more[n] = f[n] /\ f[n] \in Nat
  OBVIOUS
<1>2. LinesIn(f) \subseteq Nat /\ LinesIn(<<>>) = {}
  BY <1>1 DEF LinesIn
<1>3. {more[n] : n \in 1..new} = {f[n] : n \in 1..Len(f)} \cup {r}
  BY <1>1
<1> QED
  BY <1>1, <1>2, <1>3 DEF LinesIn

LEMMA LineNumbers == ASSUME NEW f \in Seq(Nat) PROVE LinesIn(f) \subseteq Nat
BY DEF LinesIn

LEMMA EmptyLines == LinesIn(<<>>) = {}
BY DEF LinesIn

LEMMA NumbersLemma ==
  /\ Archives \in Nat /\ Archives > 0 /\ Numbers = 0..Archives /\ None \notin Files
  /\ FileBytes \in Nat /\ FileBytes >= 2
BY LogRotationAssumption DEF Numbers, Files

LEMMA PresentLemma ==
  ASSUME NEW d \in Directories
  PROVE  /\ Present(d) \subseteq Files
         /\ \A f \in Present(d) : \E s \in Numbers : d[s] = f /\ d[s] # None
         /\ \A s \in Numbers : d[s] # None => d[s] \in Present(d)
BY DEF Present, Directories

LEMMA NamesLemma ==
  ASSUME LogTypes
  PROVE  names \in Recent /\ Recent \subseteq Directories /\ names \in Directories
<1>1. Len(dirs) \in Nat /\ Len(dirs) > 0 /\ DOMAIN dirs = 1..Len(dirs)
  BY DEF LogTypes
<1>2. \A n \in DOMAIN dirs : dirs[n] \in Directories
  BY DEF LogTypes
<1>3. names \in Recent
  BY <1>1 DEF names, Recent
<1> QED
  BY <1>2, <1>3 DEF Recent

\* A change of the directory.
LEMMA NamedLemma ==
  ASSUME LogTypes, NEW d \in Directories, Named(d)
  PROVE  names' = d /\ Recent' = Recent \cup {d} /\ dirs' \in Seq(Directories) /\ dirs' # <<>>
<1>1. Len(dirs) \in Nat /\ DOMAIN dirs = 1..Len(dirs)
  BY DEF LogTypes
<1>2. /\ dirs' \in Seq(Directories) /\ Len(dirs') = Len(dirs) + 1
      /\ DOMAIN dirs' = 1..Len(dirs) + 1
      /\ dirs'[Len(dirs) + 1] = d /\ \A n \in 1..Len(dirs) : dirs'[n] = dirs[n]
  BY DEF LogTypes, Named
<1>3. dirs' # <<>>
  BY <1>1, <1>2
<1>4. names' = d
  BY <1>2 DEF names
<1> DEFINE before == dirs
           after == dirs'
           size == Len(dirs)
<1>5. {after[n] : n \in 1..size + 1} = {before[n] : n \in 1..size} \cup {d}
  <2> HIDE DEF before, after, size
  <2>1. size \in Nat /\ after[size + 1] = d /\ \A n \in 1..size : after[n] = before[n]
    BY <1>1, <1>2 DEF before, after, size
  <2> QED
    BY <2>1
<1> QED
  BY <1>1, <1>2, <1>3, <1>4, <1>5 DEF Recent

\* The directory is synchronized.
LEMMA SettledLemma ==
  ASSUME NEW d \in Directories, dirs' = <<d>>
  PROVE  names' = d /\ Recent' = {d} /\ dirs' \in Seq(Directories) /\ dirs' # <<>>
BY DEF names, Recent
-----------------------------------------------------------------------------
\* What the directories and files go through.

\* Nothing on the disk changes, or only the earlier directories are forgotten.
LEMMA SameDisk ==
  ASSUME LogTypes, Disk, UNCHANGED <<data, synced, durable>>,
         Recent' \subseteq Recent, names' = names
  PROVE  Disk'
<1> SUFFICES ASSUME NEW d \in Recent'
             PROVE  (Ordered(d) /\ StaysActive(d) /\ Flushed(d) /\ KeepsDurable(d))'
  BY DEF Disk
<1>1. Ordered(d) /\ StaysActive(d) /\ Flushed(d) /\ KeepsDurable(d)
  BY DEF Disk
<1>2. Ordered(d)'
  BY <1>1 DEF Ordered, Older
<1>3. StaysActive(d)' /\ Flushed(d)'
  BY <1>1 DEF StaysActive, Flushed
<1>4. KeepsDurable(d)'
  BY <1>1 DEF KeepsDurable, Survives, Present
<1> QED
  BY <1>2, <1>3, <1>4

\* A file moves up into a free slot.
LEMMA MoveUp ==
  ASSUME LogInv, NEW i \in Numbers, i < Archives, names[i + 1] = None, Rename(i, i + 1),
         i = 0 /\ names[0] # None => synced[names[0]] = Len(data[names[0]]),
         UNCHANGED <<data, synced, durable>>
  PROVE  /\ Disk' /\ dirs' \in Seq(Directories) /\ dirs' # <<>>
         /\ names' = [names EXCEPT ![i + 1] = names[i], ![i] = None]
         /\ Present(names') = Present(names)
<1> DEFINE d == [names EXCEPT ![i + 1] = names[i], ![i] = None]
<1>0. LogTypes /\ Disk
  BY DEF LogInv
<1>1. names \in Recent /\ names \in Directories
  BY <1>0, NamesLemma
<1>2. i \in Nat /\ i + 1 \in Numbers /\ i + 1 # i /\ None \notin Files
  BY NumbersLemma
<1>3. d \in Directories
  BY <1>1, <1>2 DEF Directories
<1>4. /\ d[i] = None /\ d[i + 1] = names[i]
      /\ \A s \in Numbers : s # i /\ s # i + 1 => d[s] = names[s]
  BY <1>1, <1>2 DEF Directories
<1>5. names' = d /\ Recent' = Recent \cup {d} /\ dirs' \in Seq(Directories) /\ dirs' # <<>>
  <2> HIDE DEF d
  <2>1. Named(d)
    BY DEF Rename, d
  <2> QED
    BY <1>0, <1>3, <2>1, NamedLemma
<1> HIDE DEF d
\* Whence the file in a slot has come.
<1> DEFINE from(s) == IF s = i + 1 THEN i ELSE s
<1>6. \A s \in Numbers : d[s] # None => from(s) \in Numbers /\ d[s] = names[from(s)] /\ s # i
  BY <1>2, <1>4
<1>7. \A s, t \in Numbers : t < s /\ d[s] # None /\ d[t] # None => from(t) < from(s)
  <2> TAKE s, t \in Numbers
  <2>1. s \in Int /\ t \in Int /\ i \in Int
    BY NumbersLemma
  <2> QED
    BY <1>6, <2>1
<1>8. \A s \in Numbers : names[s] # None => \E t \in Numbers : d[t] = names[s]
  BY <1>2, <1>4
<1>9. Present(d) = Present(names)
  BY <1>6, <1>8 DEF Present
<1>10. Ordered(names) /\ StaysActive(names) /\ Flushed(names) /\ KeepsDurable(names)
  BY <1>0, <1>1 DEF Disk
<1>11. Ordered(d)
  <2> SUFFICES ASSUME NEW s \in Numbers, NEW t \in Numbers, t < s, d[s] # None, d[t] # None
               PROVE  d[s] # d[t] /\ Older(d[s], d[t])
    BY DEF Ordered
  <2>1. from(t) < from(s) /\ from(s) \in Numbers /\ from(t) \in Numbers
    BY <1>6, <1>7
  <2>2. d[s] = names[from(s)] /\ d[t] = names[from(t)]
    BY <1>6
  <2> HIDE DEF from
  <2> QED
    BY <1>10, <2>1, <2>2 DEF Ordered
<1>12. Flushed(d)
  <2> SUFFICES ASSUME NEW s \in Numbers, s > 0, d[s] # None
               PROVE  synced[d[s]] = Len(data[d[s]])
    BY DEF Flushed
  <2>1. d[s] = names[from(s)] /\ from(s) \in Numbers
    BY <1>6
  <2>2. CASE from(s) > 0
    <3> HIDE DEF from
    <3> QED
      BY <1>10, <2>1, <2>2 DEF Flushed
  <2>3. CASE ~(from(s) > 0)
    <3>1. i = 0 /\ s = i + 1
      BY <1>2, <2>3, NumbersLemma
    <3> QED
      BY <1>4, <3>1
  <2> QED
    BY <2>2, <2>3
<1>13. \A e \in Recent' : StaysActive(e)'
  <2> SUFFICES ASSUME NEW e \in Recent', NEW s \in Numbers, d[0] # None, e[s] = d[0]
               PROVE  s = 0
    BY <1>5 DEF StaysActive
  <2>1. 0 \in Numbers /\ 0 # i + 1
    BY <1>2, NumbersLemma
  <2>2. i # 0 /\ d[0] = names[0]
    BY <1>4, <2>1
  <2>3. CASE e \in Recent
    BY <1>0, <2>2, <2>3 DEF Disk, StaysActive
  <2>4. CASE e = d
    <3>1. d[s] = names[from(s)] /\ from(s) \in Numbers
      BY <1>6, <2>4
    <3>2. from(s) = 0
      <4> HIDE DEF from
      <4> QED
        BY <1>10, <2>2, <2>4, <3>1 DEF StaysActive
    <3> QED
      BY <2>2, <3>2
  <2> QED
    BY <1>5, <2>3, <2>4
<1>14. KeepsDurable(d)
  BY <1>9, <1>10 DEF KeepsDurable, Survives
<1>15. \A e \in Recent' : Ordered(e) /\ Flushed(e) /\ KeepsDurable(e)
  BY <1>0, <1>5, <1>11, <1>12, <1>14 DEF Disk
<1>16. ASSUME NEW e \in Recent' PROVE Ordered(e)' /\ Flushed(e)' /\ KeepsDurable(e)'
  <2>1. Ordered(e)'
    BY <1>15 DEF Ordered, Older
  <2>2. Flushed(e)'
    BY <1>15 DEF Flushed
  <2>3. KeepsDurable(e)'
    BY <1>15 DEF KeepsDurable, Survives, Present
  <2> QED
    BY <2>1, <2>2, <2>3
<1>17. Disk'
  BY <1>13, <1>16 DEF Disk
<1> QED
  BY <1>5, <1>9, <1>17 DEF d

\* The last archive is removed: it holds the oldest lines.
LEMMA RemovesTheOldest ==
  ASSUME LogInv, names[Archives] # None, Named([names EXCEPT ![Archives] = None]),
         UNCHANGED <<data, synced, durable>>
  PROVE  /\ Disk' /\ dirs' \in Seq(Directories) /\ dirs' # <<>>
         /\ names' = [names EXCEPT ![Archives] = None]
<1> DEFINE d == [names EXCEPT ![Archives] = None]
           oldest == names[Archives]
<1>0. LogTypes /\ Disk
  BY DEF LogInv
<1>1. names \in Recent /\ names \in Directories /\ Archives \in Numbers
  BY <1>0, NamesLemma, NumbersLemma
<1>2. d \in Directories
  BY <1>1 DEF Directories
<1>3. d[Archives] = None /\ \A s \in Numbers : s # Archives => d[s] = names[s]
  BY <1>1 DEF Directories
<1>4. names' = d /\ Recent' = Recent \cup {d} /\ dirs' \in Seq(Directories) /\ dirs' # <<>>
  <2> HIDE DEF d
  <2>1. Named(d)
    BY DEF d
  <2> QED
    BY <1>0, <1>2, <2>1, NamedLemma
<1> HIDE DEF d, oldest
<1>5. \A s \in Numbers : d[s] # None => d[s] = names[s] /\ s # Archives
  BY <1>3
<1>6. Ordered(names) /\ StaysActive(names) /\ Flushed(names) /\ KeepsDurable(names)
  BY <1>0, <1>1 DEF Disk
<1>7. Ordered(d) /\ Flushed(d)
  BY <1>5, <1>6 DEF Ordered, Flushed
<1>8. \A e \in Recent' : StaysActive(e)'
  <2> SUFFICES ASSUME NEW e \in Recent', NEW s \in Numbers, d[0] # None, e[s] = d[0]
               PROVE  s = 0
    BY <1>4 DEF StaysActive
  <2>1. 0 \in Numbers /\ d[0] = names[0]
    BY <1>5, NumbersLemma
  <2>2. e[s] = names[0] /\ (e \in Recent \/ e = d)
    BY <1>4, <2>1
  <2>3. e = d => d[s] = names[s]
    BY <1>5
  <2> QED
    BY <1>0, <1>6, <2>1, <2>2, <2>3 DEF Disk, StaysActive
<1>9. Present(d) \subseteq Present(names) /\ oldest \notin Present(d)
  <2>1. ASSUME NEW s \in Numbers, d[s] # None PROVE d[s] # oldest
    <3>1. s < Archives /\ names[s] # None /\ d[s] = names[s]
      BY <1>5, <2>1, NumbersLemma
    <3> QED
      BY <1>1, <1>6, <3>1 DEF Ordered, oldest
  <2> QED
    BY <1>5, <2>1 DEF Present
<1>10. \A f \in Present(names) : f # oldest => f \in Present(d)
  BY <1>1, <1>3, PresentLemma DEF Present, oldest
<1>11. \A f \in Present(d) : Older(oldest, f)
  <2> TAKE f \in Present(d)
  <2>1. PICK s \in Numbers : names[s] = f /\ names[s] # None /\ s < Archives
    BY <1>2, <1>5, PresentLemma, NumbersLemma
  <2> QED
    BY <1>1, <1>6, <2>1 DEF Ordered, oldest
<1>12. ASSUME NEW r \in durable PROVE Survives(r, d)
  <2>1. CASE \A f \in Present(names) : \A b \in LinesIn(data[f]) : r < b
    BY <1>9, <2>1 DEF Survives
  <2>2. CASE \E f \in Present(names) : \E n \in 1..synced[f] : data[f][n] = r
    <3>1. PICK f \in Present(names) : \E n \in 1..synced[f] : data[f][n] = r
      BY <2>2
    <3>2. CASE f # oldest
      BY <1>10, <3>1, <3>2 DEF Survives
    <3>3. CASE f = oldest
      <4>1. f \in Files /\ synced[f] <= Len(data[f]) /\ data[f] \in Seq(Nat) /\ synced[f] \in Nat
        BY <1>0, <1>1, PresentLemma DEF LogTypes
      <4>2. \E n \in DOMAIN data[f] : data[f][n] = r
        BY <3>1, <4>1
      <4>3. r > 0
        BY DEF LogInv, Bounded
      <4>4. r \in LinesIn(data[oldest])
        BY <3>3, <4>2, <4>3 DEF LinesIn, Torn
      <4> QED
        BY <1>11, <4>4 DEF Survives, Older
    <3> QED
      BY <3>2, <3>3
  <2>3. Survives(r, names)
    BY <1>6 DEF KeepsDurable
  <2> QED
    BY <2>1, <2>2, <2>3 DEF Survives
<1>13. ASSUME NEW e \in Recent' PROVE Ordered(e)' /\ Flushed(e)' /\ KeepsDurable(e)'
  <2>1. Ordered(e) /\ Flushed(e) /\ KeepsDurable(e)
    BY <1>0, <1>4, <1>7, <1>12 DEF Disk, KeepsDurable
  <2>2. Ordered(e)'
    BY <2>1 DEF Ordered, Older
  <2>3. Flushed(e)'
    BY <2>1 DEF Flushed
  <2>4. KeepsDurable(e)'
    BY <2>1 DEF KeepsDurable, Survives, Present
  <2> QED
    BY <2>2, <2>3, <2>4
<1>14. Disk'
  BY <1>8, <1>13 DEF Disk
<1> QED
  BY <1>4, <1>14 DEF d

\* A new file is known to no directory, nor to the sink.
LEMMA FreshLemma ==
  ASSUME LogTypes, Spare # {}
  PROVE  /\ Fresh \in Files /\ Fresh # None /\ Fresh # fd
         /\ \A d \in Recent : \A s \in Numbers : d[s] # Fresh
<1>1. Fresh \in Files /\ Fresh \notin Used
  BY DEF Fresh, Spare
<1>2. Fresh # None
  BY <1>1, NumbersLemma
<1>3. Fresh # fd
  BY <1>1 DEF Used
<1>4. ASSUME NEW d \in Recent, NEW s \in Numbers, d[s] = Fresh PROVE FALSE
  <2>1. Fresh \in Present(d)
    BY <1>2, <1>4 DEF Present
  <2> QED
    BY <1>1, <2>1 DEF Used, Recent
<1> QED
  BY <1>1, <1>2, <1>3, <1>4

\* The new active file.
LEMMA CreatesDisk ==
  ASSUME LogInv, names[0] = None, CreateActive(Fresh), UNCHANGED durable
  PROVE  /\ Disk' /\ dirs' \in Seq(Directories) /\ dirs' # <<>> /\ Spare # {}
         /\ names' = [names EXCEPT ![0] = Fresh]
         /\ data' \in [Files -> Seq(Nat)]
         /\ synced' \in [Files -> Nat] /\ \A f \in Files : synced'[f] <= Len(data'[f])
         /\ data'[Fresh] = <<>> /\ \A f \in Files : f # Fresh => data'[f] = data[f]
<1>0. LogTypes /\ Disk /\ Spare # {}
  BY DEF LogInv, CreateActive
<1>1. /\ Fresh \in Files /\ Fresh # None
      /\ \A e \in Recent : \A s \in Numbers : e[s] # Fresh
  BY <1>0, FreshLemma
<1>2. names \in Recent /\ names \in Directories /\ 0 \in Numbers /\ None \notin Files
  BY <1>0, NamesLemma, NumbersLemma
<1>3. PICK d \in Directories : d = [names EXCEPT ![0] = Fresh]
  BY <1>1, <1>2 DEF Directories
<1>4. d[0] = Fresh /\ \A s \in Numbers : s # 0 => d[s] = names[s]
  BY <1>2, <1>3 DEF Directories
<1>5. names' = d /\ Recent' = Recent \cup {d} /\ dirs' \in Seq(Directories) /\ dirs' # <<>>
  <2>1. Named(d)
    BY <1>3 DEF CreateActive
  <2> QED
    BY <1>0, <1>3, <2>1, NamedLemma
<1>6. /\ data' \in [Files -> Seq(Nat)] /\ data'[Fresh] = <<>>
      /\ \A f \in Files : f # Fresh => data'[f] = data[f]
  BY <1>0, <1>1 DEF LogTypes, CreateActive
<1>7. /\ synced' \in [Files -> Nat] /\ synced'[Fresh] = 0
      /\ \A f \in Files : f # Fresh => synced'[f] = synced[f]
  BY <1>0, <1>1 DEF LogTypes, CreateActive
<1>8. Len(<<>>) = 0 /\ LinesIn(<<>>) = {}
  BY DEF LinesIn
<1>9. \A f \in Files : synced'[f] <= Len(data'[f])
  <2> TAKE f \in Files
  <2>1. synced[f] <= Len(data[f])
    BY <1>0 DEF LogTypes
  <2> QED
    BY <1>6, <1>7, <1>8, <2>1
\* What holds of a directory without the new file goes on holding.
<1>10. ASSUME NEW e \in Directories, \A s \in Numbers : e[s] # Fresh,
              Ordered(e) /\ Flushed(e) /\ KeepsDurable(e)
       PROVE  (Ordered(e) /\ Flushed(e) /\ KeepsDurable(e))'
  <2>1. \A s \in Numbers : e[s] # None =>
          e[s] \in Files /\ data'[e[s]] = data[e[s]] /\ synced'[e[s]] = synced[e[s]]
    BY <1>6, <1>7, <1>10 DEF Directories
  <2>2. Ordered(e)'
    BY <1>10, <2>1 DEF Ordered, Older
  <2>3. Flushed(e)'
    BY <1>10, <2>1 DEF Flushed
  <2>4. \A f \in Present(e) : data'[f] = data[f] /\ synced'[f] = synced[f]
    BY <2>1, PresentLemma
  <2>5. KeepsDurable(e)'
    <3>1. Present(e)' = Present(e) /\ durable' = durable
      BY DEF Present
    <3>2. ASSUME NEW r \in durable, Survives(r, e) PROVE Survives(r, e)'
      BY <2>4, <3>1, <3>2 DEF Survives
    <3> QED
      BY <1>10, <3>1, <3>2 DEF KeepsDurable
  <2> QED
    BY <2>2, <2>3, <2>5
<1>11. PICK was \in Recent : was = names
  BY <1>2
<1>12. was \in Directories /\ Ordered(was) /\ Flushed(was) /\ KeepsDurable(was)
  BY <1>0, <1>2, <1>11 DEF Disk
<1>13. (Ordered(was) /\ Flushed(was) /\ KeepsDurable(was))'
  BY <1>1, <1>10, <1>11, <1>12
<1>14. \A s \in Numbers : s # 0 => d[s] = was[s]
  BY <1>4, <1>11
<1>15. Ordered(d)'
  <2> SUFFICES ASSUME NEW s \in Numbers, NEW t \in Numbers, t < s, d[s] # None, d[t] # None
               PROVE  d[s] # d[t] /\ Older(d[s], d[t])'
    BY DEF Ordered
  <2>1. s # 0 /\ d[s] = was[s]
    BY <1>14, NumbersLemma
  <2>2. CASE t = 0
    BY <1>1, <1>2, <1>4, <1>6, <1>8, <2>1, <2>2 DEF Older
  <2>3. CASE t # 0
    BY <1>13, <1>14, <2>1, <2>3 DEF Ordered
  <2> QED
    BY <2>2, <2>3
<1>16. Flushed(d)'
  BY <1>13, <1>14, NumbersLemma DEF Flushed
<1>17. KeepsDurable(d)'
  <2>1. \A f \in Present(d) : f = Fresh \/ f \in Present(was)
    BY <1>4, <1>14 DEF Present
  <2>2. \A f \in Present(was) : f \in Present(d)
    <3>1. ASSUME NEW s \in Numbers, was[s] # None PROVE was[s] = d[s]
      BY <1>11, <1>14, <3>1
    <3> QED
      BY <3>1, <1>12, PresentLemma DEF Present
  <2>3. ASSUME NEW r \in durable', Survives(r, was)' PROVE Survives(r, d)'
    BY <1>6, <1>8, <2>1, <2>2, <2>3 DEF Survives, Present
  <2> QED
    BY <1>13, <2>3 DEF KeepsDurable
<1>18. ASSUME NEW e \in Recent' PROVE (Ordered(e) /\ Flushed(e) /\ KeepsDurable(e))'
  <2>1. CASE e \in Recent
    <3>1. e \in Directories /\ Ordered(e) /\ Flushed(e) /\ KeepsDurable(e)
      BY <1>0, <2>1, NamesLemma DEF Disk
    <3> QED
      BY <1>1, <1>10, <2>1, <3>1
  <2>2. CASE e = d
    BY <1>15, <1>16, <1>17, <2>2
  <2> QED
    BY <1>5, <2>1, <2>2
<1>19. ASSUME NEW e \in Recent' PROVE StaysActive(e)'
  <2> SUFFICES ASSUME NEW s \in Numbers, e[s] = Fresh PROVE s = 0
    BY <1>4, <1>5 DEF StaysActive
  <2>1. e = d
    BY <1>1, <1>5
  <2> QED
    BY <1>1, <1>2, <1>4, <2>1
<1>20. Disk'
  BY <1>18, <1>19 DEF Disk
<1> QED
  BY <1>0, <1>5, <1>6, <1>7, <1>3, <1>9, <1>20

\* A file is synchronized.
LEMMA SyncsDisk ==
  ASSUME LogTypes, Disk, fd \in Files, Sync(fd), UNCHANGED <<data, durable>>
  PROVE  /\ Disk' /\ names' = names /\ dirs' \in Seq(Directories) /\ dirs' # <<>>
         /\ synced' \in [Files -> Nat] /\ \A f \in Files : synced'[f] <= Len(data'[f])
         /\ synced'[fd] = Len(data[fd])
<1>1. Recent' \subseteq Recent /\ names' = names /\ dirs' \in Seq(Directories) /\ dirs' # <<>>
  <2>1. names \in Recent /\ names \in Directories
    BY NamesLemma
  <2>2. CASE dirs' = <<names>>
    <3>1. PICK d \in Directories : d = names
      BY <2>1
    <3>2. dirs' = <<d>>
      BY <2>2, <3>1
    <3> QED
      BY <2>1, <3>1, <3>2, SettledLemma
  <2>3. CASE dirs' = dirs
    BY <2>3 DEF Recent, names, LogTypes
  <2> QED
    BY <2>2, <2>3 DEF Sync
<1>2. data' = data /\ data \in [Files -> Seq(Nat)] /\ synced \in [Files -> Nat]
  BY DEF LogTypes
<1>3. \A f \in Files : Len(data[f]) \in Nat /\ synced[f] <= Len(data[f])
  BY DEF LogTypes
<1>4. /\ synced' \in [Files -> Nat] /\ synced'[fd] = Len(data[fd])
      /\ \A f \in Files : f # fd => synced'[f] = synced[f]
  BY <1>2, <1>3 DEF Sync
<1>5. \A f \in Files : synced[f] <= synced'[f] /\ synced'[f] <= Len(data'[f])
  <2> TAKE f \in Files
  <2>1. synced[f] \in Nat /\ Len(data[f]) \in Nat /\ synced[f] <= Len(data[f])
    BY <1>2, <1>3
  <2>2. synced'[f] = Len(data[f]) \/ synced'[f] = synced[f]
    BY <1>4
  <2> QED
    BY <1>2, <2>1, <2>2
<1>6. ASSUME NEW d \in Recent'
      PROVE  (Ordered(d) /\ StaysActive(d) /\ Flushed(d) /\ KeepsDurable(d))'
  <2>1. d \in Directories /\ Ordered(d) /\ StaysActive(d) /\ Flushed(d) /\ KeepsDurable(d)
    BY <1>1, NamesLemma DEF Disk
  <2>2. Ordered(d)'
    BY <1>2, <2>1 DEF Ordered, Older
  <2>3. StaysActive(d)'
    BY <1>1, <2>1 DEF StaysActive
  <2>4. Flushed(d)'
    <3> SUFFICES ASSUME NEW s \in Numbers, s > 0, d[s] # None
                 PROVE  synced'[d[s]] = Len(data'[d[s]])
      BY DEF Flushed
    <3>1. d[s] \in Files /\ synced[d[s]] = Len(data[d[s]])
      BY <2>1 DEF Flushed, Directories
    <3> QED
      BY <1>2, <1>4, <3>1
  <2>5. KeepsDurable(d)'
    <3>1. Present(d) \subseteq Files
      BY <2>1, PresentLemma
    <3>2. ASSUME NEW r \in durable, Survives(r, d) PROVE Survives(r, d)'
      <4>1. CASE \E f \in Present(d) : \E n \in 1..synced[f] : data[f][n] = r
        <5>1. PICK f \in Present(d) : \E n \in 1..synced[f] : data[f][n] = r
          BY <4>1
        <5>2. PICK n \in 1..synced[f] : data[f][n] = r
          BY <5>1
        <5>3. f \in Files /\ synced[f] \in Nat /\ synced'[f] \in Nat /\ synced[f] <= synced'[f]
          BY <1>2, <1>4, <1>5, <3>1
        <5>4. n \in 1..synced'[f]
          BY <5>3
        <5> QED
          BY <1>2, <5>2, <5>4 DEF Survives, Present
      <4>2. CASE \A f \in Present(d) : \A b \in LinesIn(data[f]) : r < b
        BY <1>2, <4>2 DEF Survives, Present
      <4> QED
        BY <3>2, <4>1, <4>2 DEF Survives
    <3> QED
      BY <2>1, <3>2 DEF KeepsDurable
  <2> QED
    BY <2>2, <2>3, <2>4, <2>5
<1> QED
  BY <1>1, <1>4, <1>5, <1>6 DEF Disk

\* The lines of the active directory when every file of it is synchronized.
LEMMA AllSynced ==
  ASSUME LogTypes, NEW d \in Directories, NEW f \in Present(d), NEW r \in LinesIn(data[f]),
         synced[f] = Len(data[f])
  PROVE  \E n \in 1..synced[f] : data[f][n] = r
<1>1. f \in Files /\ data[f] \in Seq(Nat)
  BY PresentLemma DEF LogTypes
<1>2. DOMAIN data[f] = 1..Len(data[f])
  BY <1>1
<1> QED
  BY <1>2 DEF LinesIn

\* The directory is synchronized, after its files.
LEMMA SettlesDisk ==
  ASSUME LogInv, pc = "syncdir", SyncDirectory
  PROVE  Disk' /\ names' = names /\ dirs' \in Seq(Directories) /\ dirs' # <<>>
<1>0. LogTypes /\ Disk /\ fd = names[0] /\ data[fd] = <<>>
  BY DEF LogInv, Positioned
<1>1. PICK d \in Recent : d = names /\ d \in Directories
  BY <1>0, NamesLemma
<1>2. names' = d /\ Recent' = {d} /\ dirs' \in Seq(Directories) /\ dirs' # <<>>
  BY <1>1, SettledLemma DEF SyncDirectory
<1>3. Ordered(d) /\ StaysActive(d) /\ Flushed(d)
  BY <1>0 DEF Disk
<1>4. data' = data /\ synced' = synced /\ durable' = OnDisk
  BY DEF SyncDirectory
<1>5. Ordered(d)' /\ StaysActive(d)' /\ Flushed(d)'
  <2>1. Ordered(d)'
    BY <1>3, <1>4 DEF Ordered, Older
  <2>2. StaysActive(d)'
    BY <1>1, <1>2, <1>3 DEF StaysActive
  <2>3. Flushed(d)'
    BY <1>3, <1>4 DEF Flushed
  <2> QED
    BY <2>1, <2>2, <2>3
<1>6. ASSUME NEW r \in OnDisk PROVE Survives(r, d)'
  <2>1. PICK f \in Present(d) : r \in LinesIn(data[f])
    BY <1>1 DEF OnDisk
  <2>2. PICK s \in Numbers : d[s] = f /\ d[s] # None
    BY <1>1, PresentLemma
  <2>3. s # 0
    <3> SUFFICES ASSUME s = 0 PROVE FALSE
      OBVIOUS
    <3>1. f = fd
      BY <1>0, <1>1, <2>2
    <3> QED
      BY <1>0, <2>1, <3>1, EmptyLines
  <2>4. synced[f] = Len(data[f])
    BY <1>3, <2>2, <2>3, NumbersLemma DEF Flushed
  <2>5. \E n \in 1..synced[f] : data[f][n] = r
    BY <1>0, <1>1, <2>1, <2>4, AllSynced
  <2> QED
    BY <1>4, <2>5 DEF Survives, Present
<1>7. KeepsDurable(d)'
  BY <1>4, <1>6 DEF KeepsDurable
<1> QED
  BY <1>1, <1>2, <1>5, <1>7 DEF Disk

\* A line is appended to the active file, or the beginning of one.
LEMMA AppendsDisk ==
  ASSUME LogInv, pc = "append", NEW x \in {Torn, last}, data' = [data EXCEPT ![fd] = Append(@, x)],
         UNCHANGED <<dirs, synced, durable>>
  PROVE  /\ Disk' /\ data' \in [Files -> Seq(Nat)]
         /\ \A f \in Files : synced'[f] <= Len(data'[f])
<1>0. /\ LogTypes /\ Disk /\ fd \in Files /\ fd = names[0]
      /\ last \in Nat /\ x \in Nat /\ None \notin Files
  BY NumbersLemma DEF LogInv, Positioned, LogTypes, Torn
<1>1. data[fd] \in Seq(Nat) /\ synced \in [Files -> Nat]
  BY <1>0 DEF LogTypes
<1>2. /\ data' \in [Files -> Seq(Nat)] /\ data'[fd] = Append(data[fd], x)
      /\ \A f \in Files : f # fd => data'[f] = data[f]
  BY <1>0 DEF LogTypes
<1>3. /\ Len(data[fd]) \in Nat /\ Len(data'[fd]) = Len(data[fd]) + 1
      /\ \A n \in 1..Len(data[fd]) : data'[fd][n] = data[fd][n]
  BY <1>1, <1>2
<1>4. ASSUME NEW f \in Files
      PROVE  /\ LinesIn(data'[f]) \subseteq LinesIn(data[f]) \cup ({last} \ {Torn})
             /\ \A n \in 1..synced[f] : data'[f][n] = data[f][n]
             /\ synced'[f] <= Len(data'[f])
  <2>1. synced[f] <= Len(data[f]) /\ synced[f] \in Nat
    BY <1>0 DEF LogTypes
  <2>2. CASE f = fd
    <3>1. LinesIn(data'[f]) = LinesIn(data[f]) \cup ({x} \ {Torn})
      BY <1>0, <1>1, <1>2, <2>2, LinesLemma
    <3>2. synced'[f] <= Len(data'[f]) /\ \A n \in 1..synced[f] : data'[f][n] = data[f][n]
      BY <1>3, <2>1, <2>2
    <3> QED
      BY <3>1, <3>2
  <2>3. CASE f # fd
    BY <1>2, <2>1, <2>3
  <2> QED
    BY <2>2, <2>3
<1>5. /\ \A f \in Files : \A r \in LinesIn(data[f]) : r < last
      /\ \A r \in durable : r < last
  BY DEF LogInv, Bounded, Writing
<1>6. Recent' = Recent /\ names' = names
  BY DEF Recent, names
<1>7. ASSUME NEW d \in Recent PROVE (Ordered(d) /\ StaysActive(d) /\ Flushed(d) /\ KeepsDurable(d))'
  <2>1. d \in Directories /\ Ordered(d) /\ StaysActive(d) /\ Flushed(d) /\ KeepsDurable(d)
    BY <1>0, NamesLemma DEF Disk
  <2>2. ASSUME NEW s \in Numbers, s > 0, d[s] # None
        PROVE  d[s] \in Files /\ data'[d[s]] = data[d[s]]
    <3>1. d[s] \in Files /\ d[s] # fd
      BY <1>0, <2>1, <2>2 DEF Directories, StaysActive
    <3> QED
      BY <1>2, <3>1
  <2>3. Ordered(d)'
    <3> SUFFICES ASSUME NEW s \in Numbers, NEW t \in Numbers, t < s, d[s] # None, d[t] # None
                 PROVE  d[s] # d[t] /\ Older(d[s], d[t])'
      BY DEF Ordered
    <3>1. d[s] # d[t] /\ Older(d[s], d[t]) /\ d[t] \in Files
      BY <2>1 DEF Ordered, Directories
    <3>2. d[s] \in Files /\ data'[d[s]] = data[d[s]]
      BY <2>2, NumbersLemma
    <3>3. ASSUME NEW a \in LinesIn(data[d[s]]), NEW b \in LinesIn(data'[d[t]]) PROVE a < b
      BY <1>4, <1>5, <3>1, <3>2 DEF Older
    <3> QED
      BY <3>1, <3>2, <3>3 DEF Older
  <2>4. StaysActive(d)'
    BY <1>6, <2>1 DEF StaysActive
  <2>5. Flushed(d)'
    BY <2>1, <2>2 DEF Flushed
  <2>6. KeepsDurable(d)'
    <3>1. Present(d) \subseteq Files
      BY <2>1, PresentLemma
    <3>2. ASSUME NEW r \in durable, Survives(r, d) PROVE Survives(r, d)'
      <4>1. CASE \E f \in Present(d) : \E n \in 1..synced[f] : data[f][n] = r
        <5>1. PICK f \in Present(d) : \E n \in 1..synced[f] : data[f][n] = r
          BY <4>1
        <5>2. \E n \in 1..synced'[f] : data'[f][n] = r
          BY <1>4, <3>1, <5>1
        <5> QED
          BY <5>2 DEF Survives, Present
      <4>2. CASE \A f \in Present(d) : \A b \in LinesIn(data[f]) : r < b
        <5>1. \A f \in Present(d) : \A b \in LinesIn(data'[f]) : r < b
          BY <1>4, <1>5, <3>1, <4>2
        <5> QED
          BY <5>1 DEF Survives, Present
      <4> QED
        BY <3>2, <4>1, <4>2 DEF Survives
    <3> QED
      BY <2>1, <3>2 DEF KeepsDurable
  <2> QED
    BY <2>3, <2>4, <2>5, <2>6
<1> QED
  BY <1>2, <1>4, <1>6, <1>7 DEF Disk

\* On Windows the line is on the disk, too, and with it all that is in the directory.
LEMMA WritesDisk ==
  ASSUME LogInv, pc = "append", WriteThrough, data' = [data EXCEPT ![fd] = Append(@, last)]
  PROVE  /\ Disk' /\ names' = names /\ dirs' \in Seq(Directories) /\ dirs' # <<>>
         /\ data' \in [Files -> Seq(Nat)]
         /\ synced' \in [Files -> Nat] /\ \A f \in Files : synced'[f] <= Len(data'[f])
<1>0. /\ LogTypes /\ Disk /\ fd \in Files /\ fd = names[0] /\ last \in Nat /\ last > 0
      /\ None \notin Files /\ 0 \in Numbers
  BY NumbersLemma DEF LogInv, Positioned, LogTypes, Bounded, Writing
<1>1. PICK d \in Recent : d = names /\ d \in Directories
  BY <1>0, NamesLemma
<1>2. names' = d /\ Recent' = {d} /\ dirs' \in Seq(Directories) /\ dirs' # <<>>
  BY <1>1, SettledLemma DEF WriteThrough
<1>3. data[fd] \in Seq(Nat) /\ synced \in [Files -> Nat]
  BY <1>0 DEF LogTypes
<1>4. /\ data' \in [Files -> Seq(Nat)] /\ data'[fd] = Append(data[fd], last)
      /\ \A f \in Files : f # fd => data'[f] = data[f]
  BY <1>0 DEF LogTypes
<1>5. /\ Len(data[fd]) \in Nat /\ Len(data'[fd]) = Len(data[fd]) + 1
      /\ data'[fd][Len(data[fd]) + 1] = last
      /\ \A n \in 1..Len(data[fd]) : data'[fd][n] = data[fd][n]
  BY <1>0, <1>3, <1>4
<1>6. /\ synced' \in [Files -> Nat] /\ synced'[fd] = Len(data[fd]) + 1
      /\ \A f \in Files : f # fd => synced'[f] = synced[f]
  BY <1>0, <1>3, <1>5 DEF WriteThrough
<1>7. \A f \in Files : synced'[f] <= Len(data'[f])
  <2> TAKE f \in Files
  <2>1. synced[f] <= Len(data[f])
    BY <1>0 DEF LogTypes
  <2>2. CASE f = fd
    BY <1>5, <1>6, <2>2
  <2>3. CASE f # fd
    BY <1>4, <1>6, <2>1, <2>3
  <2> QED
    BY <2>2, <2>3
<1>8. Ordered(d) /\ StaysActive(d) /\ Flushed(d)
  BY <1>0 DEF Disk
<1>9. ASSUME NEW s \in Numbers, s > 0, d[s] # None
      PROVE  /\ d[s] \in Files /\ d[s] # fd /\ data'[d[s]] = data[d[s]]
             /\ synced'[d[s]] = synced[d[s]] /\ synced[d[s]] = Len(data[d[s]])
  <2>1. d[s] \in Files /\ d[s] # fd
    BY <1>0, <1>1, <1>8, <1>9 DEF Directories, StaysActive
  <2> QED
    BY <1>4, <1>6, <1>8, <1>9, <2>1 DEF Flushed
<1>10. Ordered(d)'
  <2> SUFFICES ASSUME NEW s \in Numbers, NEW t \in Numbers, t < s, d[s] # None, d[t] # None
               PROVE  d[s] # d[t] /\ Older(d[s], d[t])'
    BY DEF Ordered
  <2>1. d[s] # d[t] /\ Older(d[s], d[t]) /\ d[t] \in Files
    BY <1>1, <1>8 DEF Ordered, Directories
  <2>2. d[s] \in Files /\ data'[d[s]] = data[d[s]]
    BY <1>9, NumbersLemma
  <2>3. LinesIn(data'[d[t]]) \subseteq LinesIn(data[d[t]]) \cup {last}
    BY <1>0, <1>3, <1>4, <2>1, LinesLemma
  <2>4. \A a \in LinesIn(data[d[s]]) : a < last
    BY <2>2 DEF LogInv, Bounded, Writing
  <2> QED
    BY <2>1, <2>2, <2>3, <2>4 DEF Older
<1>11. StaysActive(d)' /\ Flushed(d)'
  <2>1. StaysActive(d)'
    BY <1>1, <1>2, <1>8 DEF StaysActive
  <2>2. Flushed(d)'
    BY <1>9 DEF Flushed
  <2> QED
    BY <2>1, <2>2
<1>12. fd \in Present(d)
  BY <1>0, <1>1, PresentLemma
<1>13. ASSUME NEW r \in OnDisk \cup {last} PROVE Survives(r, d)'
  <2>1. CASE r = last
    <3>1. Len(data[fd]) + 1 \in 1..synced'[fd]
      BY <1>5, <1>6
    <3> QED
      BY <1>5, <1>12, <2>1, <3>1 DEF Survives, Present
  <2>2. CASE r \in OnDisk
    <3>1. PICK f \in Present(d) : r \in LinesIn(data[f])
      BY <1>1, <2>2 DEF OnDisk
    <3>2. PICK n \in DOMAIN data[f] : data[f][n] = r
      BY <3>1 DEF LinesIn
    <3>3. f \in Files /\ data[f] \in Seq(Nat)
      BY <1>0, <1>1, PresentLemma DEF LogTypes
    <3>4. n \in 1..Len(data[f]) /\ Len(data[f]) \in Nat
      BY <3>3
    <3>5. n \in 1..synced'[f] /\ data'[f][n] = r
      <4>1. CASE f = fd
        BY <1>5, <1>6, <3>2, <3>4, <4>1
      <4>2. CASE f # fd
        <5>1. PICK s \in Numbers : d[s] = f /\ d[s] # None
          BY <1>1, PresentLemma
        <5>2. s > 0
          BY <1>0, <1>1, <4>2, <5>1, NumbersLemma
        <5> QED
          BY <1>9, <3>2, <3>4, <5>1, <5>2
      <4> QED
        BY <4>1, <4>2
    <3> QED
      BY <3>5 DEF Survives, Present
  <2> QED
    BY <2>1, <2>2
<1>14. KeepsDurable(d)'
  BY <1>13 DEF KeepsDurable, WriteThrough
<1> QED
  BY <1>1, <1>2, <1>4, <1>6, <1>7, <1>10, <1>11, <1>14 DEF Disk

\* The beginning of a file.
LEMMA BeginningLemma ==
  ASSUME NEW f \in Seq(Nat), NEW c \in Nat, c <= Len(f)
  PROVE  /\ SubSeq(f, 1, c) \in Seq(Nat) /\ Len(SubSeq(f, 1, c)) = c
         /\ \A n \in 1..c : SubSeq(f, 1, c)[n] = f[n]
         /\ LinesIn(SubSeq(f, 1, c)) \subseteq LinesIn(f)
<1>1. SubSeq(f, 1, c) \in Seq(Nat)
  OBVIOUS
<1>2. Len(SubSeq(f, 1, c)) = c
  OBVIOUS
<1>3. \A n \in 1..c : SubSeq(f, 1, c)[n] = f[n]
  OBVIOUS
<1> DEFINE beginning == SubSeq(f, 1, c)
<1>4. beginning \in Seq(Nat) /\ Len(beginning) = c /\ \A n \in 1..c : beginning[n] = f[n]
  BY <1>1, <1>2, <1>3
<1> HIDE DEF beginning
<1>5. DOMAIN beginning = 1..c /\ 1..c \subseteq DOMAIN f
  BY <1>4
<1>6. LinesIn(beginning) \subseteq LinesIn(f)
  BY <1>4, <1>5 DEF LinesIn
<1> QED
  BY <1>1, <1>2, <1>3, <1>6 DEF beginning

\* What a power failure leaves of a file, perhaps with the beginning of one more line.
LEMMA CutLemma ==
  ASSUME NEW f \in Seq(Nat), NEW c \in Nat, c <= Len(f), NEW tail \in {<<>>, <<Torn>>},
         tail # <<>> => c + 1 <= Len(f)
  PROVE  /\ SubSeq(f, 1, c) \o tail \in Seq(Nat)
         /\ LinesIn(SubSeq(f, 1, c) \o tail) \subseteq LinesIn(f)
         /\ Len(SubSeq(f, 1, c) \o tail) <= Len(f)
         /\ \A n \in 1..c : /\ n \in 1..Len(SubSeq(f, 1, c) \o tail)
                          /\ (SubSeq(f, 1, c) \o tail)[n] = f[n]
<1> DEFINE cut == SubSeq(f, 1, c)
<1>1. /\ cut \in Seq(Nat) /\ Len(cut) = c /\ LinesIn(cut) \subseteq LinesIn(f)
      /\ \A n \in 1..c : cut[n] = f[n]
  BY BeginningLemma
<1> HIDE DEF cut
<1>2. CASE tail = <<>>
  <2>1. cut \o tail = cut
    BY <1>1, <1>2, ConcatEmptySeq
  <2>2. \A n \in 1..c : n \in 1..Len(cut)
    BY <1>1
  <2> QED
    BY <1>1, <2>1, <2>2 DEF cut
<1>3. CASE tail = <<Torn>>
  <2> DEFINE left == Append(cut, Torn)
  <2>1. Torn \in Nat /\ tail # <<>>
    BY <1>3 DEF Torn
  <2>2. cut \o tail = left
    BY <1>1, <1>3, <2>1, AppendIsConcat
  <2>3. left \in Seq(Nat) /\ Len(left) = c + 1 /\ \A n \in 1..c : left[n] = cut[n]
    BY <1>1, <2>1
  <2>4. LinesIn(left) = LinesIn(cut) \cup ({Torn} \ {Torn})
    BY <1>1, <2>1, LinesLemma
  <2> HIDE DEF left
  <2>5. Len(left) <= Len(f)
    BY <2>1, <2>3
  <2>6. \A n \in 1..c : n \in 1..Len(left) /\ left[n] = f[n]
    BY <1>1, <2>3
  <2> QED
    BY <1>1, <2>2, <2>3, <2>4, <2>5, <2>6 DEF cut
<1> QED
  BY <1>2, <1>3

LEMMA PowerLemma ==
  ASSUME LogTypes, PowerFail
  PROVE  \E d \in Recent :
           /\ dirs' = <<d>> /\ data' \in [Files -> Seq(Nat)]
           /\ synced' = [f \in Files |-> Len(data'[f])]
           /\ \A f \in Files :
                /\ LinesIn(data'[f]) \subseteq LinesIn(data[f]) /\ Len(data'[f]) <= Len(data[f])
                /\ f \in Present(d) =>
                     \A n \in 1..synced[f] : n \in 1..Len(data'[f]) /\ data'[f][n] = data[f][n]
<1> DEFINE Loose(d) == {f \in Present(d) : synced[f] < Len(data[f])}
           End(ragged, f) == IF f \in ragged THEN <<Torn>> ELSE <<>>
           Left(d, cut, ragged, f) ==
             IF f \in Loose(d) THEN SubSeq(data[f], 1, cut[f]) \o End(ragged, f) ELSE data[f]
<1>1. PICK n \in DOMAIN dirs :
        \E cut \in [Loose(dirs[n]) -> 0..FileBytes], ragged \in SUBSET Loose(dirs[n]) :
          /\ \A f \in Loose(dirs[n]) :
               cut[f] \in synced[f]..Len(data[f]) - (IF f \in ragged THEN 1 ELSE 0)
          /\ dirs' = <<dirs[n]>>
          /\ data' = [f \in Files |-> Left(dirs[n], cut, ragged, f)]
          /\ synced' = [f \in Files |-> Len([g \in Files |-> Left(dirs[n], cut, ragged, g)][f])]
  BY Zenon DEF PowerFail
<1>2. PICK cut \in [Loose(dirs[n]) -> 0..FileBytes], ragged \in SUBSET Loose(dirs[n]) :
        /\ \A f \in Loose(dirs[n]) :
             cut[f] \in synced[f]..Len(data[f]) - (IF f \in ragged THEN 1 ELSE 0)
        /\ dirs' = <<dirs[n]>>
        /\ data' = [f \in Files |-> Left(dirs[n], cut, ragged, f)]
        /\ synced' = [f \in Files |-> Len([g \in Files |-> Left(dirs[n], cut, ragged, g)][f])]
  BY <1>1
<1>3. dirs[n] \in Recent
  BY DEF Recent
<1>4. synced' = [f \in Files |-> Len(data'[f])]
  BY <1>2, Zenon
<1>5. ASSUME NEW f \in Files
      PROVE  /\ data'[f] \in Seq(Nat)
             /\ LinesIn(data'[f]) \subseteq LinesIn(data[f]) /\ Len(data'[f]) <= Len(data[f])
             /\ f \in Present(dirs[n]) =>
                  \A m \in 1..synced[f] : m \in 1..Len(data'[f]) /\ data'[f][m] = data[f][m]
  <2>1. data[f] \in Seq(Nat) /\ synced[f] \in Nat /\ synced[f] <= Len(data[f])
    BY DEF LogTypes
  <2>2. CASE f \in Loose(dirs[n])
    <3>1. PICK c : c = cut[f]
      OBVIOUS
    <3>2. PICK tail : tail = End(ragged, f)
      OBVIOUS
    <3>3. data'[f] = SubSeq(data[f], 1, c) \o tail
      BY <1>2, <2>2, <3>1, <3>2
    <3>4. c \in synced[f]..Len(data[f]) - (IF f \in ragged THEN 1 ELSE 0)
      BY <1>2, <2>2, <3>1
    <3>5. tail \in {<<>>, <<Torn>>} /\ (tail # <<>> => f \in ragged)
      BY <3>2
    <3> HIDE DEF End, Loose, Left
    <3>6. c \in Nat /\ c <= Len(data[f]) /\ synced[f] <= c /\ (tail # <<>> => c + 1 <= Len(data[f]))
      BY <2>1, <3>4, <3>5
    <3>7. /\ data'[f] \in Seq(Nat)
          /\ LinesIn(data'[f]) \subseteq LinesIn(data[f]) /\ Len(data'[f]) <= Len(data[f])
          /\ \A m \in 1..c : m \in 1..Len(data'[f]) /\ data'[f][m] = data[f][m]
      <4>1. /\ SubSeq(data[f], 1, c) \o tail \in Seq(Nat)
            /\ LinesIn(SubSeq(data[f], 1, c) \o tail) \subseteq LinesIn(data[f])
            /\ Len(SubSeq(data[f], 1, c) \o tail) <= Len(data[f])
            /\ \A m \in 1..c : /\ m \in 1..Len(SubSeq(data[f], 1, c) \o tail)
                              /\ (SubSeq(data[f], 1, c) \o tail)[m] = data[f][m]
        BY <2>1, <3>5, <3>6, CutLemma
      <4> QED
        BY <3>3, <4>1, Zenon
    <3> QED
      BY <2>1, <3>6, <3>7
  <2>3. CASE f \notin Loose(dirs[n])
    <3>1. data'[f] = data[f]
      BY <1>2, <2>3
    <3> QED
      BY <2>1, <3>1
  <2> QED
    BY <2>2, <2>3
<1>6. data' \in [Files -> Seq(Nat)]
  <2>1. data' = [f \in Files |-> data'[f]]
    BY <1>2, Zenon
  <2> QED
    BY <1>5, <2>1
<1> QED
  BY <1>2, <1>3, <1>4, <1>5, <1>6

LEMMA PowerDisk ==
  ASSUME LogInv, PowerFail
  PROVE  /\ Disk' /\ dirs' \in Seq(Directories) /\ dirs' # <<>>
         /\ data' \in [Files -> Seq(Nat)]
         /\ synced' \in [Files -> Nat] /\ \A f \in Files : synced'[f] <= Len(data'[f])
         /\ \A f \in Files : /\ LinesIn(data'[f]) \subseteq LinesIn(data[f])
                            /\ Len(data'[f]) <= Len(data[f])
<1>0. LogTypes /\ Disk /\ durable' = durable
  BY DEF LogInv, PowerFail, Crash
<1>1. PICK d \in Recent :
        /\ dirs' = <<d>> /\ data' \in [Files -> Seq(Nat)]
        /\ synced' = [f \in Files |-> Len(data'[f])]
        /\ \A f \in Files :
             /\ LinesIn(data'[f]) \subseteq LinesIn(data[f]) /\ Len(data'[f]) <= Len(data[f])
             /\ f \in Present(d) =>
                  \A n \in 1..synced[f] : n \in 1..Len(data'[f]) /\ data'[f][n] = data[f][n]
  BY <1>0, PowerLemma
<1>2. d \in Directories /\ Ordered(d) /\ KeepsDurable(d)
  BY <1>0, NamesLemma DEF Disk
<1>3. names' = d /\ Recent' = {d} /\ dirs' \in Seq(Directories) /\ dirs' # <<>>
  BY <1>1, <1>2, SettledLemma
<1>4. synced' \in [Files -> Nat] /\ \A f \in Files : synced'[f] = Len(data'[f])
  BY <1>1
<1>5. \A s \in Numbers : d[s] # None => d[s] \in Files
  BY <1>2 DEF Directories
<1>6. Ordered(d)'
  BY <1>1, <1>2, <1>5 DEF Ordered, Older
<1>7. StaysActive(d)'
  <2> SUFFICES ASSUME NEW s \in Numbers, d[0] # None, d[s] = d[0] PROVE s = 0
    BY <1>3 DEF StaysActive
  <2> QED
    BY <1>2, NumbersLemma DEF Ordered
<1>8. Flushed(d)'
  BY <1>4, <1>5 DEF Flushed
<1>9. ASSUME NEW r \in durable, Survives(r, d) PROVE Survives(r, d)'
  <2>1. Present(d) \subseteq Files
    BY <1>2, PresentLemma
  <2>2. CASE \E f \in Present(d) : \E n \in 1..synced[f] : data[f][n] = r
    <3>1. PICK f \in Present(d) : \E n \in 1..synced[f] : data[f][n] = r
      BY <2>2
    <3>2. PICK n \in 1..synced[f] : data[f][n] = r
      BY <3>1
    <3>3. n \in 1..synced'[f] /\ data'[f][n] = r
      BY <1>1, <1>4, <2>1, <3>2
    <3> QED
      BY <3>3 DEF Survives, Present
  <2>3. CASE \A f \in Present(d) : \A b \in LinesIn(data[f]) : r < b
    BY <1>1, <2>1, <2>3 DEF Survives, Present
  <2> QED
    BY <1>9, <2>2, <2>3 DEF Survives
<1>10. KeepsDurable(d)'
  BY <1>0, <1>2, <1>9 DEF KeepsDurable
<1> QED
  BY <1>1, <1>3, <1>4, <1>6, <1>7, <1>8, <1>10 DEF Disk

-----------------------------------------------------------------------------
\* One action after the other.

LEMMA LogInvInit == LogInit => LogInv
<1> SUFFICES ASSUME LogInit PROVE LogInv
  OBVIOUS
<1> DEFINE empty == [s \in Numbers |-> None]
<1>1. empty \in Directories /\ \A s \in Numbers : empty[s] = None
  BY DEF Directories
<1>2. names = empty /\ dirs \in Seq(Directories) /\ dirs # <<>> /\ Recent = {empty}
  BY <1>1 DEF LogInit, names, Recent
<1> HIDE DEF empty
<1>3. /\ data \in [Files -> Seq(Nat)] /\ synced \in [Files -> Nat]
      /\ \A f \in Files : data[f] = <<>> /\ synced[f] = 0
  BY DEF LogInit
<1>4. LogTypes
  <2>1. 0 \in 0..Archives
    BY NumbersLemma
  <2>2. \A f \in Files : synced[f] <= Len(data[f])
    BY <1>3
  <2> QED
    BY <1>2, <1>3, <2>1, <2>2 DEF LogInit, LogTypes
<1>5. Bounded
  BY <1>3, EmptyLines DEF LogInit, Bounded, Writing, Rotating
<1>6. Positioned /\ Gaps
  BY DEF LogInit, Positioned, Gaps
<1>7. Packed
  BY <1>1, <1>2 DEF Packed
<1>8. Disk
  BY <1>1, <1>2 DEF LogInit, Disk, Ordered, StaysActive, Flushed, KeepsDurable
<1> QED
  BY <1>4, <1>5, <1>6, <1>7, <1>8 DEF LogInv

\* Nothing on the disk is touched.
LEMMA QuietDisk ==
  ASSUME LogInv, UNCHANGED <<dirs, data, synced, durable>>
  PROVE  /\ Disk' /\ names' = names
         /\ dirs' \in Seq(Directories) /\ dirs' # <<>> /\ data' \in [Files -> Seq(Nat)]
         /\ synced' \in [Files -> Nat] /\ \A f \in Files : synced'[f] <= Len(data'[f])
         /\ durable' \subseteq Nat
<1>1. LogTypes /\ Disk
  BY DEF LogInv
<1>2. Recent' = Recent /\ names' = names
  BY DEF Recent, names
<1>3. Disk'
  BY <1>1, <1>2, SameDisk
<1> QED
  BY <1>1, <1>2, <1>3 DEF LogTypes

\* The sink is at rest, with the lines it had.
LEMMA AtRest ==
  ASSUME LogInv, pc' \in {"closed", "idle", "failed"}, last' = last,
         \A f \in Files : LinesIn(data'[f]) \subseteq LinesIn(data[f]), durable' = durable
  PROVE  Bounded' /\ Positioned' /\ Gaps'
<1>1. Bounded'
  BY DEF LogInv, Bounded, Writing, Rotating
<1>2. Positioned' /\ Gaps'
  BY DEF Positioned, Gaps
<1> QED
  BY <1>1, <1>2

\* From its first failure on Packed claims nothing.
LEMMA FailedOnce ==
  ASSUME LogTypes, \/ faults' = faults + 1 /\ crashes' = crashes
                   \/ crashes' = crashes + 1 /\ faults' = faults
  PROVE  Packed' /\ faults' \in Nat /\ crashes' \in Nat
<1>1. faults \in Nat /\ crashes \in Nat
  BY DEF LogTypes
<1>2. faults' \in Nat /\ crashes' \in Nat /\ faults' + crashes' # 0
  BY <1>1
<1> QED
  BY <1>2 DEF Packed

LEMMA StutterLog == LogInv /\ UNCHANGED logVars => LogInv'
<1> SUFFICES ASSUME LogInv, UNCHANGED logVars PROVE LogInv'
  OBVIOUS
<1>1. /\ UNCHANGED <<dirs, data, synced, durable, windows, fd, bytes, pc>>
      /\ UNCHANGED <<index, last, faults, crashes>>
  BY DEF logVars
<1>2. Disk' /\ names' = names
  BY <1>1, QuietDisk
<1>3. LogTypes'
  BY <1>1 DEF LogInv, LogTypes
<1>4. Bounded'
  BY <1>1 DEF LogInv, Bounded, Writing
<1>5. Positioned' /\ Gaps'
  BY <1>1, <1>2 DEF LogInv, Positioned, Gaps
<1>6. Packed'
  BY <1>1, <1>2 DEF LogInv, Packed
<1> QED
  BY <1>2, <1>3, <1>4, <1>5, <1>6 DEF LogInv

LEMMA SizeOf ==
  ASSUME LogTypes, NEW f \in Files
  PROVE  Size(data[f]) \in Int /\ Size(<<>>) = 0 /\ data[f] \in Seq(Nat)
BY SizeLemma DEF LogTypes

LEMMA OpenInv ==
  ASSUME LogInv, Open
  PROVE  LogInv'
<1>0. /\ LogTypes /\ pc = "closed" /\ pc' = "idle"
      /\ UNCHANGED <<windows, durable, faults, crashes, index, last>>
  BY DEF LogInv, Open, world
<1>1. names \in Directories /\ 0 \in Numbers
  BY <1>0, NamesLemma, NumbersLemma
<1>2. CASE names[0] = None
  <2>1. CreateActive(Fresh) /\ fd' = Fresh /\ bytes' = 0
    BY <1>2 DEF Open
  <2>2. /\ Disk' /\ dirs' \in Seq(Directories) /\ dirs' # <<>> /\ Spare # {}
        /\ names' = [names EXCEPT ![0] = Fresh]
        /\ data' \in [Files -> Seq(Nat)]
        /\ synced' \in [Files -> Nat] /\ \A f \in Files : synced'[f] <= Len(data'[f])
        /\ data'[Fresh] = <<>> /\ \A f \in Files : f # Fresh => data'[f] = data[f]
    BY <1>0, <1>2, <2>1, CreatesDisk
  <2>3. Fresh \in Files /\ Fresh # None
    BY <1>0, <2>2, FreshLemma
  <2>4. LogTypes'
    BY <1>0, <2>1, <2>2, <2>3 DEF LogTypes
  <2>5. \A f \in Files : LinesIn(data'[f]) \subseteq LinesIn(data[f])
    BY <2>2, EmptyLines
  <2>6. Bounded' /\ Positioned' /\ Gaps'
    BY <1>0, <2>5, AtRest
  <2>7. names'[0] = Fresh /\ \A s \in Numbers : s # 0 => names'[s] = names[s]
    BY <1>1, <2>2 DEF Directories
  <2>8. Packed'
    BY <1>0, <2>3, <2>7, NumbersLemma DEF LogInv, Packed
  <2> QED
    BY <2>2, <2>4, <2>6, <2>8 DEF LogInv
<1>3. CASE names[0] # None
  <2>1. /\ UNCHANGED <<dirs, data, synced, durable>>
        /\ fd' = names[0] /\ bytes' = Size(data[names[0]])
    BY <1>0, <1>3 DEF Open
  <2>2. names[0] \in Files
    BY <1>1, <1>3 DEF Directories
  <2>3. /\ Disk' /\ names' = names
        /\ dirs' \in Seq(Directories) /\ dirs' # <<>> /\ data' \in [Files -> Seq(Nat)]
        /\ synced' \in [Files -> Nat] /\ \A f \in Files : synced'[f] <= Len(data'[f])
    BY <2>1, QuietDisk
  <2>4. bytes' \in Int
    BY <1>0, <2>1, <2>2, SizeOf
  <2>5. LogTypes'
    BY <1>0, <2>1, <2>2, <2>3, <2>4 DEF LogTypes
  <2>6. Bounded' /\ Positioned' /\ Gaps'
    BY <1>0, <2>1, AtRest
  <2>7. Packed'
    BY <1>0, <2>3 DEF LogInv, Packed
  <2> QED
    BY <2>3, <2>5, <2>6, <2>7 DEF LogInv
<1> QED
  BY <1>2, <1>3

LEMMA DropInv ==
  ASSUME LogInv, Drop
  PROVE  LogInv'
<1>0. /\ LogTypes /\ pc \in {"idle", "failed"}
      /\ pc' = "closed" /\ fd' = None /\ bytes' = 0 /\ index' = 0
      /\ UNCHANGED <<windows, durable, faults, crashes, dirs, data, synced, last>>
  BY DEF LogInv, Drop, Closed, world
<1>1. Disk' /\ names' = names
  BY <1>0, QuietDisk
<1>2. LogTypes'
  BY <1>0, NumbersLemma DEF LogTypes
<1>3. Bounded' /\ Positioned' /\ Gaps'
  BY <1>0, AtRest
<1>4. Packed'
  BY <1>0, <1>1 DEF LogInv, Packed
<1> QED
  BY <1>1, <1>2, <1>3, <1>4 DEF LogInv

LEMMA WriteInv ==
  ASSUME LogInv, Write
  PROVE  LogInv'
<1>0. /\ LogTypes /\ pc = "idle" /\ last' = last + 1 /\ pc' = IF Fits THEN "append" ELSE "sync"
      /\ UNCHANGED <<windows, durable, faults, crashes, dirs, data, synced, fd, bytes, index>>
      /\ fd # None /\ fd = names[0] /\ Size(data[fd]) = bytes
  BY DEF LogInv, Write, world, Verified
<1>1. Disk' /\ names' = names
  BY <1>0, QuietDisk
<1>2. LogTypes'
  BY <1>0 DEF LogTypes, Rotating
<1>3. Bounded'
  <2>1. last \in Nat /\ \A f \in Files : LinesIn(data[f]) \subseteq Nat
    BY <1>0, LineNumbers DEF LogTypes
  <2>2. ASSUME NEW f \in Files, NEW r \in LinesIn(data'[f]) PROVE r < last'
    BY <1>0, <2>1 DEF LogInv, Bounded
  <2>3. ASSUME NEW r \in durable' PROVE r > 0 /\ r < last'
    BY <1>0, <2>1 DEF LogInv, Bounded, LogTypes
  <2>4. last' > 0 /\ last' \in Nat
    BY <1>0, <2>1
  <2> QED
    BY <2>1, <2>2, <2>3, <2>4, <1>0 DEF Bounded, LogTypes
<1>4. Positioned' /\ Gaps'
  BY <1>0, <1>1 DEF Positioned, Gaps, Fits, LogTypes
<1>5. Packed'
  BY <1>0, <1>1 DEF LogInv, Packed
<1> QED
  BY <1>1, <1>2, <1>3, <1>4, <1>5 DEF LogInv

LEMMA FailInv ==
  ASSUME LogInv, Fail
  PROVE  LogInv'
<1>0. /\ LogTypes /\ pc' \in {"idle", "failed"} /\ faults' = faults + 1
      /\ UNCHANGED <<windows, durable, crashes, dirs, data, synced, fd, bytes, index, last>>
  BY DEF LogInv, Fail, Fault, AfterError, sink
<1>1. Disk'
  BY <1>0, QuietDisk
<1>2. LogTypes'
  BY <1>0 DEF LogTypes
<1>3. Bounded' /\ Positioned' /\ Gaps'
  BY <1>0, AtRest
<1>4. Packed'
  BY <1>0, FailedOnce
<1> QED
  BY <1>1, <1>2, <1>3, <1>4 DEF LogInv

LEMMA AppendInv ==
  ASSUME LogInv, AppendLine
  PROVE  LogInv'
<1>0. /\ LogTypes /\ pc = "append" /\ pc' = "idle" /\ bytes' = bytes + 2
      /\ UNCHANGED <<windows, faults, crashes, fd, index, last>>
      /\ data' = [data EXCEPT ![fd] = Append(@, last)]
      /\ fd \in Files /\ last \in Nat /\ last > 0
  BY DEF LogInv, AppendLine, Positioned, LogTypes, Bounded, Writing
<1>1. /\ Disk' /\ names' = names /\ dirs' \in Seq(Directories) /\ dirs' # <<>>
      /\ data' \in [Files -> Seq(Nat)]
      /\ synced' \in [Files -> Nat] /\ \A f \in Files : synced'[f] <= Len(data'[f])
      /\ \A r \in durable' : r \in durable \cup OnDisk \cup {last}
  <2>1. CASE windows
    <3>1. WriteThrough /\ durable' = OnDisk \cup {last}
      BY <2>1 DEF AppendLine, WriteThrough
    <3>2. /\ Disk' /\ names' = names /\ dirs' \in Seq(Directories) /\ dirs' # <<>>
          /\ data' \in [Files -> Seq(Nat)]
          /\ synced' \in [Files -> Nat] /\ \A f \in Files : synced'[f] <= Len(data'[f])
      BY <1>0, <3>1, WritesDisk
    <3> QED
      BY <3>1, <3>2
  <2>2. CASE ~windows
    <3>1. UNCHANGED <<dirs, synced, durable>>
      BY <2>2 DEF AppendLine
    <3>2. /\ Disk' /\ data' \in [Files -> Seq(Nat)]
          /\ \A f \in Files : synced'[f] <= Len(data'[f])
      BY <1>0, <3>1, AppendsDisk
    <3>3. names' = names
      BY <3>1 DEF names
    <3> QED
      BY <1>0, <3>1, <3>2, <3>3 DEF LogTypes
  <2> QED
    BY <2>1, <2>2
<1>2. \A f \in Files : LinesIn(data'[f]) \subseteq LinesIn(data[f]) \cup {last}
  <2> TAKE f \in Files
  <2>1. /\ data[fd] \in Seq(Nat)
        /\ f = fd => data'[f] = Append(data[f], last)
        /\ f # fd => data'[f] = data[f]
    BY <1>0 DEF LogTypes
  <2> QED
    BY <1>0, <2>1, LinesLemma
<1>3. \A r \in OnDisk : r > 0 /\ r <= last
  <2> SUFFICES ASSUME NEW r \in OnDisk PROVE r > 0 /\ r <= last
    OBVIOUS
  <2>1. PICK f \in Present(names) : r \in LinesIn(data[f])
    BY DEF OnDisk
  <2>2. f \in Files
    BY <1>0, NamesLemma, PresentLemma
  <2>3. r \in Nat /\ r # 0
    <3>1. data[f] \in Seq(Nat)
      BY <1>0, <2>2 DEF LogTypes
    <3> QED
      BY <2>1, <3>1, LineNumbers DEF LinesIn, Torn
  <2> QED
    BY <1>0, <2>1, <2>2, <2>3 DEF LogInv, Bounded
<1>4. \A r \in durable' : r \in Nat /\ r > 0 /\ r <= last
  <2>1. \A r \in durable : r \in Nat /\ r > 0 /\ r <= last
    BY <1>0 DEF LogInv, Bounded, LogTypes
  <2>2. \A r \in OnDisk : r \in Nat
    <3>1. \A f \in Files : LinesIn(data[f]) \subseteq Nat
      BY <1>0, LineNumbers DEF LogTypes
    <3>2. Present(names) \subseteq Files
      BY <1>0, NamesLemma, PresentLemma
    <3> QED
      BY <3>1, <3>2 DEF OnDisk
  <2> QED
    BY <1>0, <1>1, <1>3, <2>1, <2>2
<1>5. LogTypes'
  BY <1>0, <1>1, <1>4 DEF LogTypes
<1>6. Bounded'
  <2>1. ASSUME NEW f \in Files, NEW r \in LinesIn(data'[f]) PROVE r <= last
    <3>1. CASE r \in LinesIn(data[f])
      BY <3>1 DEF LogInv, Bounded
    <3>2. CASE r = last
      BY <1>0, <3>2
    <3> QED
      BY <1>2, <3>1, <3>2
  <2> QED
    BY <1>0, <1>4, <2>1 DEF Bounded, Writing, Rotating
<1>7. Positioned' /\ Gaps'
  BY <1>0 DEF Positioned, Gaps
<1>8. Packed'
  BY <1>0, <1>1 DEF LogInv, Packed
<1> QED
  BY <1>1, <1>5, <1>6, <1>7, <1>8 DEF LogInv

LEMMA SyncActiveInv ==
  ASSUME LogInv, SyncActive
  PROVE  LogInv'
<1>0. /\ LogTypes /\ Disk /\ pc = "sync" /\ pc' = "remove"
      /\ Sync(fd) /\ fd \in Files /\ fd = names[0]
      /\ UNCHANGED <<windows, durable, faults, crashes, data, bytes, index, last>>
      /\ fd' \in {fd, None}
  BY DEF LogInv, SyncActive, Positioned, world
<1>1. /\ Disk' /\ names' = names /\ dirs' \in Seq(Directories) /\ dirs' # <<>>
      /\ synced' \in [Files -> Nat] /\ \A f \in Files : synced'[f] <= Len(data'[f])
      /\ synced'[fd] = Len(data[fd])
  BY <1>0, SyncsDisk
<1>2. LogTypes'
  BY <1>0, <1>1 DEF LogTypes, Rotating
<1>3. Bounded'
  BY <1>0 DEF LogInv, Bounded, Writing, Rotating
<1>4. Positioned' /\ Gaps'
  BY <1>0, <1>1 DEF Positioned, Gaps
<1>5. Packed'
  BY <1>0, <1>1 DEF LogInv, Packed
<1> QED
  BY <1>1, <1>2, <1>3, <1>4, <1>5 DEF LogInv

LEMMA RemoveLastInv ==
  ASSUME LogInv, RemoveLast
  PROVE  LogInv'
<1>0. /\ LogTypes /\ pc = "remove" /\ pc' = "shift" /\ index' = Archives - 1
      /\ UNCHANGED <<windows, durable, faults, crashes, data, synced, fd, bytes, last>>
  BY DEF LogInv, RemoveLast, world
<1>1. names \in Directories /\ 0 \in Numbers /\ Archives \in Numbers /\ 0 # Archives
  BY <1>0, NamesLemma, NumbersLemma
<1>2. /\ Disk' /\ dirs' \in Seq(Directories) /\ dirs' # <<>>
      /\ names'[Archives] = None /\ \A s \in Numbers : s # Archives => names'[s] = names[s]
  <2>1. CASE names[Archives] = None
    <3>1. UNCHANGED dirs
      BY <2>1 DEF RemoveLast
    <3> QED
      BY <1>0, <2>1, <3>1, QuietDisk
  <2>2. CASE names[Archives] # None
    <3>1. Named([names EXCEPT ![Archives] = None])
      BY <2>2 DEF RemoveLast
    <3>2. /\ Disk' /\ dirs' \in Seq(Directories) /\ dirs' # <<>>
          /\ names' = [names EXCEPT ![Archives] = None]
      BY <1>0, <2>2, <3>1, RemovesTheOldest
    <3> QED
      BY <1>1, <3>2 DEF Directories
  <2> QED
    BY <2>1, <2>2
<1>3. LogTypes'
  BY <1>0, <1>2, NumbersLemma DEF LogTypes, Rotating
<1>4. Bounded'
  BY <1>0 DEF LogInv, Bounded, Writing, Rotating
<1>5. Positioned' /\ Gaps'
  <2>1. Positioned'
    BY <1>0, <1>1, <1>2 DEF LogInv, Positioned
  <2>2. index' < Archives /\ index' + 1 = Archives
    BY <1>0, NumbersLemma
  <2> QED
    BY <1>0, <1>2, <2>1, <2>2 DEF Gaps
<1>6. Packed'
  <2> SUFFICES ASSUME faults + crashes = 0, NEW s \in Numbers, NEW t \in Numbers,
                      t < s, names'[s] # None, names'[t] = None
               PROVE  FALSE
    BY <1>0 DEF Packed
  <2>1. s # Archives /\ t # Archives
    BY <1>2, NumbersLemma
  <2> QED
    BY <1>0, <1>2, <2>1 DEF LogInv, Packed
<1> QED
  BY <1>2, <1>3, <1>4, <1>5, <1>6 DEF LogInv

LEMMA ShiftInv ==
  ASSUME LogInv, Shift
  PROVE  LogInv' /\ Present(names') = Present(names)
<1>0. /\ LogTypes /\ pc = "shift" /\ pc' = "shift" /\ index > 0 /\ index' = index - 1
      /\ UNCHANGED <<windows, durable, faults, crashes, data, synced, fd, bytes, last>>
      /\ index \in Nat /\ index < Archives /\ names[index + 1] = None
  BY NumbersLemma DEF LogInv, Shift, world, Gaps, LogTypes
<1>1. /\ names \in Directories /\ 0 \in Numbers /\ index \in Numbers /\ index + 1 \in Numbers
      /\ 0 # index /\ 0 # index + 1 /\ index # index + 1
  BY <1>0, NamesLemma, NumbersLemma
<1>2. /\ Disk' /\ dirs' \in Seq(Directories) /\ dirs' # <<>> /\ Present(names') = Present(names)
      /\ names'[index] = None /\ names'[index + 1] = names[index]
      /\ \A s \in Numbers : s # index /\ s # index + 1 => names'[s] = names[s]
  <2>1. CASE names[index] = None
    <3>1. UNCHANGED dirs
      BY <2>1 DEF Shift, Downwards
    <3> QED
      BY <1>0, <2>1, <3>1, QuietDisk
  <2>2. CASE names[index] # None
    <3>1. Rename(index, index + 1)
      BY <2>2 DEF Shift, Downwards
    <3>2. /\ Disk' /\ dirs' \in Seq(Directories) /\ dirs' # <<>>
          /\ names' = [names EXCEPT ![index + 1] = names[index], ![index] = None]
          /\ Present(names') = Present(names)
      BY <1>0, <1>1, <3>1, MoveUp
    <3> QED
      BY <1>1, <3>2 DEF Directories
  <2> QED
    BY <2>1, <2>2
<1>3. LogTypes'
  BY <1>0, <1>2, NumbersLemma DEF LogTypes
<1>4. Bounded'
  BY <1>0 DEF LogInv, Bounded, Writing
<1>5. Positioned'
  BY <1>0, <1>1, <1>2 DEF LogInv, Positioned
<1>6. Gaps'
  <2>1. index' + 1 = index /\ index' < Archives
    BY <1>0, NumbersLemma
  <2> QED
    BY <1>0, <1>2, <2>1 DEF Gaps
<1>7. Packed'
  <2> SUFFICES ASSUME faults + crashes = 0, NEW s \in Numbers, NEW t \in Numbers,
                      t < s, names'[s] # None, names'[t] = None
               PROVE  t = index
    BY <1>0 DEF Packed
  <2>1. \A x, y \in Numbers : y < x /\ names[x] # None /\ names[y] = None => y = index + 1
    BY <1>0 DEF LogInv, Packed
  <2>2. s \in Int /\ t \in Int
    BY NumbersLemma
  <2>3. CASE t = index + 1
    <3>1. names[index] = None /\ names[s] # None /\ index < s
      BY <1>0, <1>2, <2>2, <2>3
    <3> QED
      BY <1>1, <2>1, <3>1
  <2>4. CASE t # index /\ t # index + 1
    <3>1. names[t] = None
      BY <1>2, <2>4
    <3>2. CASE s = index + 1
      <4>1. names[index] # None /\ t < index
        BY <1>0, <1>2, <2>2, <2>4, <3>2
      <4> QED
        BY <1>1, <2>1, <2>4, <3>1, <4>1
    <3>3. CASE s # index + 1
      BY <1>2, <2>1, <2>4, <3>1, <3>3
    <3> QED
      BY <3>2, <3>3
  <2> QED
    BY <2>3, <2>4
<1> QED
  BY <1>2, <1>3, <1>4, <1>5, <1>6, <1>7 DEF LogInv

LEMMA MoveActiveInv ==
  ASSUME LogInv, MoveActive
  PROVE  LogInv' /\ Present(names') = Present(names)
<1>0. /\ LogTypes /\ pc = "shift" /\ pc' = "create" /\ index = 0 /\ Rename(0, 1)
      /\ UNCHANGED <<windows, durable, faults, crashes, data, synced, fd, bytes, index, last>>
      /\ names[0 + 1] = None /\ 0 < Archives
  BY NumbersLemma DEF LogInv, MoveActive, world, sink, Gaps
<1>1. names \in Directories /\ 0 \in Numbers /\ 1 \in Numbers /\ 0 + 1 = 1
  BY <1>0, NamesLemma, NumbersLemma
<1>2. /\ Disk' /\ dirs' \in Seq(Directories) /\ dirs' # <<>> /\ Present(names') = Present(names)
      /\ names' = [names EXCEPT ![1] = names[0], ![0] = None]
  <2>1. names[0] # None => synced[names[0]] = Len(data[names[0]])
    BY <1>0 DEF LogInv, Positioned
  <2> QED
    BY <1>0, <1>1, <2>1, MoveUp
<1>3. /\ names'[0] = None /\ names'[1] = names[0]
      /\ \A s \in Numbers : s # 0 /\ s # 1 => names'[s] = names[s]
  BY <1>1, <1>2 DEF Directories
<1>4. LogTypes'
  BY <1>0, <1>2 DEF LogTypes, Rotating
<1>5. Bounded'
  BY <1>0 DEF LogInv, Bounded, Writing, Rotating
<1>6. Positioned' /\ Gaps'
  BY <1>0, <1>3 DEF Positioned, Gaps
<1>7. Packed'
  <2> SUFFICES ASSUME faults + crashes = 0, NEW s \in Numbers, NEW t \in Numbers,
                      t < s, names'[s] # None, names'[t] = None
               PROVE  t = 0
    BY <1>0 DEF Packed
  <2>1. \A x, y \in Numbers : y < x /\ names[x] # None /\ names[y] = None => y = 1
    BY <1>0 DEF LogInv, Packed
  <2>2. s \in Int /\ t \in Int
    BY NumbersLemma
  <2>3. CASE t = 1
    <3>1. names[0] = None /\ names[s] # None /\ 0 < s
      BY <1>3, <2>2, <2>3
    <3> QED
      BY <1>1, <2>1, <3>1
  <2>4. CASE t # 0 /\ t # 1
    <3>1. names[t] = None /\ s # 1 /\ s # 0
      BY <1>3, <2>2, <2>4, NumbersLemma
    <3> QED
      BY <1>3, <2>1, <2>4, <3>1
  <2> QED
    BY <2>3, <2>4
<1> QED
  BY <1>2, <1>4, <1>5, <1>6, <1>7 DEF LogInv

LEMMA CreateInv ==
  ASSUME LogInv, Create
  PROVE  LogInv'
<1>0. /\ LogTypes /\ pc = "create" /\ pc' \in {"append", "syncdir"} /\ CreateActive(Fresh)
      /\ fd' = Fresh /\ bytes' = 0 /\ names[0] = None
      /\ UNCHANGED <<windows, durable, faults, crashes, index, last>>
  BY DEF LogInv, Create, world, Gaps
<1>1. /\ Disk' /\ dirs' \in Seq(Directories) /\ dirs' # <<>> /\ Spare # {}
      /\ names' = [names EXCEPT ![0] = Fresh]
      /\ data' \in [Files -> Seq(Nat)]
      /\ synced' \in [Files -> Nat] /\ \A f \in Files : synced'[f] <= Len(data'[f])
      /\ data'[Fresh] = <<>> /\ \A f \in Files : f # Fresh => data'[f] = data[f]
  BY <1>0, CreatesDisk
<1>2. Fresh \in Files /\ Fresh # None
  BY <1>0, <1>1, FreshLemma
<1>3. names \in Directories /\ 0 \in Numbers
  BY <1>0, NamesLemma, NumbersLemma
<1>4. names'[0] = Fresh /\ \A s \in Numbers : s # 0 => names'[s] = names[s]
  BY <1>1, <1>3 DEF Directories
<1>5. LogTypes'
  BY <1>0, <1>1, <1>2 DEF LogTypes, Rotating
<1>6. Bounded'
  <2>1. \A f \in Files : LinesIn(data'[f]) \subseteq LinesIn(data[f])
    BY <1>1, EmptyLines
  <2>2. Writing
    BY <1>0 DEF Writing, Rotating
  <2>3. \A f \in Files : \A r \in LinesIn(data[f]) : r <= last /\ r < last
    BY <2>2 DEF LogInv, Bounded
  <2>4. (\A r \in durable : r > 0 /\ r <= last /\ r < last) /\ last > 0
    BY <2>2 DEF LogInv, Bounded
  <2> QED
    BY <1>0, <2>1, <2>3, <2>4 DEF Bounded
<1>7. Positioned'
  <2>1. Size(<<>>) = 0
    BY <1>0, <1>2, SizeOf
  <2>2. Size(data'[fd']) = bytes' /\ bytes' + 2 <= FileBytes
    BY <1>0, <1>1, <2>1, NumbersLemma
  <2> QED
    BY <1>0, <1>1, <1>2, <1>4, <2>2 DEF Positioned
<1>8. Gaps' /\ Packed'
  <2>1. Gaps'
    BY <1>0 DEF Gaps
  <2>2. Packed'
    <3> SUFFICES ASSUME faults + crashes = 0, NEW s \in Numbers, NEW t \in Numbers,
                        t < s, names'[s] # None, names'[t] = None
                 PROVE  FALSE
      BY <1>0 DEF Packed
    <3>1. t # 0 /\ s # 0
      BY <1>2, <1>4, NumbersLemma
    <3> QED
      BY <1>0, <1>4, <3>1 DEF LogInv, Packed
  <2> QED
    BY <2>1, <2>2
<1> QED
  BY <1>1, <1>5, <1>6, <1>7, <1>8 DEF LogInv

LEMMA OnDiskLemma ==
  ASSUME LogTypes, NEW r \in OnDisk
  PROVE  r \in Nat /\ r > 0 /\ \E f \in Files : r \in LinesIn(data[f])
<1>1. PICK f \in Present(names) : r \in LinesIn(data[f])
  BY DEF OnDisk
<1>2. f \in Files
  BY <1>1, NamesLemma, PresentLemma
<1>3. data[f] \in Seq(Nat)
  BY <1>2 DEF LogTypes
<1>4. r \in Nat /\ r # 0
  BY <1>1, <1>3, LineNumbers DEF LinesIn, Torn
<1> QED
  BY <1>1, <1>2, <1>4

LEMMA SyncDirectoryInv ==
  ASSUME LogInv, SyncDirectory
  PROVE  LogInv'
<1>0. /\ LogTypes /\ pc = "syncdir" /\ pc' = "append" /\ durable' = OnDisk
      /\ UNCHANGED <<windows, faults, crashes, data, synced, fd, bytes, index, last>>
      /\ fd \in Files /\ fd = names[0] /\ data[fd] = <<>> /\ bytes = 0
  BY DEF LogInv, SyncDirectory, sink, Positioned
<1>1. Disk' /\ names' = names /\ dirs' \in Seq(Directories) /\ dirs' # <<>>
  BY <1>0, SettlesDisk
<1>2. Writing
  BY <1>0 DEF Writing, Rotating
<1>3. \A r \in OnDisk : r \in Nat /\ r > 0 /\ r <= last /\ r < last
  <2> TAKE r \in OnDisk
  <2>1. r \in Nat /\ r > 0 /\ \E f \in Files : r \in LinesIn(data[f])
    BY <1>0, OnDiskLemma
  <2> QED
    BY <1>2, <2>1 DEF LogInv, Bounded
<1>4. LogTypes'
  BY <1>0, <1>1, <1>3 DEF LogTypes
<1>5. Bounded'
  BY <1>0, <1>2, <1>3 DEF LogInv, Bounded
<1>6. Positioned' /\ Gaps'
  <2>1. Size(data[fd]) = 0
    BY <1>0, SizeOf
  <2> QED
    BY <1>0, <1>1, <2>1, NumbersLemma DEF Positioned, Gaps
<1>7. Packed'
  BY <1>0, <1>1 DEF LogInv, Packed
<1> QED
  BY <1>1, <1>4, <1>5, <1>6, <1>7 DEF LogInv

LEMMA CreateUnverifiedInv ==
  ASSUME LogInv, CreateUnverified
  PROVE  LogInv'
<1>0. /\ LogTypes /\ pc = "create" /\ pc' \in {"idle", "failed"} /\ CreateActive(Fresh)
      /\ names[0] = None /\ faults' = faults + 1
      /\ UNCHANGED <<windows, durable, crashes, fd, bytes, index, last>>
  BY DEF LogInv, CreateUnverified, Fault, AfterError, sink, Gaps
<1>1. /\ Disk' /\ dirs' \in Seq(Directories) /\ dirs' # <<>> /\ Spare # {}
      /\ names' = [names EXCEPT ![0] = Fresh]
      /\ data' \in [Files -> Seq(Nat)]
      /\ synced' \in [Files -> Nat] /\ \A f \in Files : synced'[f] <= Len(data'[f])
      /\ data'[Fresh] = <<>> /\ \A f \in Files : f # Fresh => data'[f] = data[f]
  BY <1>0, CreatesDisk
<1>2. Packed' /\ faults' \in Nat
  BY <1>0, FailedOnce
<1>3. LogTypes'
  BY <1>0, <1>1, <1>2 DEF LogTypes
<1>4. \A f \in Files : LinesIn(data'[f]) \subseteq LinesIn(data[f])
  BY <1>1, EmptyLines
<1>5. Bounded' /\ Positioned' /\ Gaps'
  BY <1>0, <1>4, AtRest
<1> QED
  BY <1>1, <1>2, <1>3, <1>5 DEF LogInv

\* Half a line is no line.
LEMMA TornLines ==
  ASSUME LogTypes, fd \in Files, Tear
  PROVE  \A f \in Files : LinesIn(data'[f]) \subseteq LinesIn(data[f])
<1> TAKE f \in Files
<1>1. /\ data[fd] \in Seq(Nat) /\ (f = fd => data'[f] = Append(data[f], Torn))
      /\ (f # fd => data'[f] = data[f])
  BY DEF LogTypes, Tear
<1>2. LinesIn(Append(data[fd], Torn)) = LinesIn(data[fd]) \cup ({Torn} \ {Torn})
  <2>1. Torn \in Nat
    BY DEF Torn
  <2> QED
    BY <1>1, <2>1, LinesLemma
<1> QED
  BY <1>1, <1>2

LEMMA TearLineInv ==
  ASSUME LogInv, TearLine
  PROVE  LogInv'
<1>0. /\ LogTypes /\ pc = "append" /\ pc' \in {"idle", "failed"} /\ Tear /\ faults' = faults + 1
      /\ fd \in Files
      /\ UNCHANGED <<windows, durable, crashes, dirs, synced, fd, bytes, index, last>>
  BY DEF LogInv, TearLine, Fault, AfterError, sink, Positioned
<1>1. /\ Disk' /\ data' \in [Files -> Seq(Nat)] /\ \A f \in Files : synced'[f] <= Len(data'[f])
  BY <1>0, AppendsDisk DEF Tear
<1>2. Packed' /\ faults' \in Nat
  BY <1>0, FailedOnce
<1>3. LogTypes'
  BY <1>0, <1>1, <1>2 DEF LogTypes
<1>4. Bounded' /\ Positioned' /\ Gaps'
  BY <1>0, TornLines, AtRest
<1> QED
  BY <1>1, <1>2, <1>3, <1>4 DEF LogInv

LEMMA KillInv ==
  ASSUME LogInv, Kill
  PROVE  LogInv'
<1>0. /\ LogTypes /\ pc' = "closed" /\ fd' = None /\ bytes' = 0 /\ index' = 0
      /\ crashes' = crashes + 1
      /\ UNCHANGED <<windows, durable, faults, dirs, synced, last>>
      /\ data' = data \/ (pc = "append" /\ fd \in Files /\ Tear)
  BY DEF LogInv, Kill, Crash, Closed, Positioned
<1>1. /\ Disk' /\ data' \in [Files -> Seq(Nat)] /\ \A f \in Files : synced'[f] <= Len(data'[f])
      /\ \A f \in Files : LinesIn(data'[f]) \subseteq LinesIn(data[f])
  <2>1. CASE data' = data
    BY <1>0, <2>1, QuietDisk
  <2>2. CASE pc = "append" /\ fd \in Files /\ Tear
    BY <1>0, <2>2, AppendsDisk, TornLines DEF Tear
  <2> QED
    BY <1>0, <2>1, <2>2
<1>2. Packed' /\ crashes' \in Nat
  BY <1>0, FailedOnce
<1>3. LogTypes'
  BY <1>0, <1>1, <1>2, NumbersLemma DEF LogTypes
<1>4. Bounded' /\ Positioned' /\ Gaps'
  BY <1>0, <1>1, AtRest
<1> QED
  BY <1>1, <1>2, <1>3, <1>4 DEF LogInv

LEMMA PowerFailInv ==
  ASSUME LogInv, PowerFail
  PROVE  LogInv'
<1>0. /\ LogTypes /\ pc' = "closed" /\ fd' = None /\ bytes' = 0 /\ index' = 0
      /\ crashes' = crashes + 1
      /\ UNCHANGED <<windows, durable, faults, last>>
  BY DEF LogInv, PowerFail, Crash, Closed
<1>1. /\ Disk' /\ dirs' \in Seq(Directories) /\ dirs' # <<>>
      /\ data' \in [Files -> Seq(Nat)]
      /\ synced' \in [Files -> Nat] /\ \A f \in Files : synced'[f] <= Len(data'[f])
      /\ \A f \in Files : LinesIn(data'[f]) \subseteq LinesIn(data[f])
  BY PowerDisk
<1>2. Packed' /\ crashes' \in Nat
  BY <1>0, FailedOnce
<1>3. LogTypes'
  BY <1>0, <1>1, <1>2, NumbersLemma DEF LogTypes
<1>4. Bounded' /\ Positioned' /\ Gaps'
  BY <1>0, <1>1, AtRest
<1> QED
  BY <1>1, <1>2, <1>3, <1>4 DEF LogInv

LEMMA LogInvKept == LogInv /\ [LogNext]_logVars => LogInv'
BY OpenInv, DropInv, WriteInv, AppendInv, SyncActiveInv, RemoveLastInv, ShiftInv, MoveActiveInv,
   CreateInv, SyncDirectoryInv, FailInv, CreateUnverifiedInv, TearLineInv, KillInv, PowerFailInv,
   StutterLog DEF LogNext, Step

\* A running sink knows its active file and how much is in it, a rotation only
\* renames to free names, and in every directory a power failure may leave the files
\* are in order, the archives are synchronized and no line that was on the disk is
\* gone before an older one (write, rotate).
THEOREM LogInductive == LogSpec => []LogInv
BY LogInvInit, LogInvKept, PTL DEF LogSpec

-----------------------------------------------------------------------------
\* The properties.

\* An active file takes nobody's place.
LEMMA CreateKeepsNames ==
  ASSUME LogInv, names[0] = None, CreateActive(Fresh)
  PROVE  Present(names) \subseteq Present(names')
<1>1. LogTypes /\ Named([names EXCEPT ![0] = Fresh]) /\ Fresh \in Files
  BY FreshLemma DEF LogInv, CreateActive
<1>2. names \in Directories /\ 0 \in Numbers
  BY <1>1, NamesLemma, NumbersLemma
<1>3. [names EXCEPT ![0] = Fresh] \in Directories
  BY <1>1, <1>2 DEF Directories
<1>4. names' = [names EXCEPT ![0] = Fresh]
  BY <1>1, <1>3, NamedLemma
<1>5. \A s \in Numbers : names[s] # None => names'[s] = names[s]
  BY <1>2, <1>4 DEF Directories
<1> QED
  BY <1>5 DEF Present

LEMMA StepKeepsNames ==
  ASSUME LogInv, Step, ~RemoveLast, crashes' = crashes
  PROVE  Present(names) \subseteq Present(names')
<1>0. LogTypes /\ Disk
  BY DEF LogInv
<1>1. CASE Open
  <2>1. names[0] = None => CreateActive(Fresh)
    BY <1>1 DEF Open
  <2>2. names[0] # None => names' = names
    BY <1>1 DEF Open, names
  <2> QED
    BY <2>1, <2>2, CreateKeepsNames
<1>2. CASE Create \/ CreateUnverified
  <2>1. names[0] = None /\ CreateActive(Fresh)
    BY <1>2 DEF Create, CreateUnverified, LogInv, Gaps
  <2> QED
    BY <2>1, CreateKeepsNames
<1>3. CASE Shift \/ MoveActive
  BY <1>3, ShiftInv, MoveActiveInv
<1>4. CASE SyncActive
  <2>1. fd \in Files /\ Sync(fd) /\ UNCHANGED <<data, durable>>
    BY <1>4 DEF LogInv, Positioned, SyncActive, world
  <2> QED
    BY <1>0, <2>1, SyncsDisk
<1>5. CASE SyncDirectory
  BY <1>5, SettlesDisk DEF SyncDirectory
<1>6. CASE AppendLine
  <2>1. CASE windows
    BY <1>6, <2>1, WritesDisk DEF AppendLine
  <2>2. CASE ~windows
    BY <1>6, <2>2 DEF AppendLine, names
  <2> QED
    BY <2>1, <2>2
<1>7. CASE Drop \/ Write \/ Fail \/ TearLine
  BY <1>7 DEF Drop, Write, Fail, TearLine, names
<1>8. CASE Kill
  <2>1. crashes \in Nat /\ crashes' = crashes + 1
    BY <1>0, <1>8 DEF Kill, Crash, LogTypes
  <2> QED
    BY <2>1
<1> QED
  BY <1>1, <1>2, <1>3, <1>4, <1>5, <1>6, <1>7, <1>8 DEF Step

LEMMA OldestLeaves ==
  ASSUME LogInv, RemoveLast, NEW f \in Present(names) \ Present(names')
  PROVE  /\ names[Archives] = f /\ \A g \in Present(names) \ {f} : Older(f, g)
         /\ faults + crashes = 0 => None \notin {names[s] : s \in Numbers}
<1>1. LogTypes /\ names \in Recent /\ names \in Directories /\ Archives \in Numbers
  BY NamesLemma, NumbersLemma DEF LogInv
<1>2. PICK s \in Numbers : names[s] = f /\ names[s] # None
  BY <1>1, PresentLemma
<1>3. f = names[Archives] /\ f # None
  <2>1. CASE names[Archives] = None
    <3>1. dirs' = dirs
      BY <2>1 DEF RemoveLast
    <3>2. names' = names
      BY <3>1 DEF names
    <3> QED
      BY <3>2
  <2>2. CASE names[Archives] # None
    <3>1. Named([names EXCEPT ![Archives] = None])
      BY <2>2 DEF RemoveLast
    <3>2. [names EXCEPT ![Archives] = None] \in Directories
      BY <1>1 DEF Directories
    <3>3. names' = [names EXCEPT ![Archives] = None]
      BY <1>1, <3>1, <3>2, NamedLemma
    <3>4. \A t \in Numbers : t # Archives => names'[t] = names[t]
      BY <1>1, <3>3 DEF Directories
    <3>5. s = Archives
      BY <1>2, <3>4 DEF Present
    <3> QED
      BY <1>2, <3>5
  <2> QED
    BY <2>1, <2>2
<1>4. \A g \in Present(names) \ {f} : Older(f, g)
  <2> TAKE g \in Present(names) \ {f}
  <2>1. PICK t \in Numbers : names[t] = g /\ names[t] # None
    BY <1>1, PresentLemma
  <2>2. t < Archives
    BY <1>3, <2>1, NumbersLemma
  <2>3. Ordered(names)
    BY <1>1 DEF LogInv, Disk
  <2> QED
    BY <1>1, <1>3, <2>1, <2>2, <2>3 DEF Ordered
<1>5. ASSUME faults + crashes = 0, NEW t \in Numbers PROVE names[t] # None
  <2>1. CASE t = Archives
    BY <1>3, <2>1
  <2>2. CASE t # Archives
    <3>1. t < Archives
      BY <2>2, NumbersLemma
    <3>2. pc = "remove"
      BY DEF RemoveLast
    <3> QED
      BY <1>1, <1>3, <1>5, <3>1, <3>2 DEF LogInv, Packed
  <2> QED
    BY <2>1, <2>2
<1> QED
  BY <1>3, <1>4, <1>5

LEMMA OldestStep ==
  ASSUME LogInv, [LogNext]_logVars, crashes' = crashes, NEW f \in Present(names) \ Present(names')
  PROVE  /\ names[Archives] = f /\ \A g \in Present(names) \ {f} : Older(f, g)
         /\ faults + crashes = 0 => None \notin {names[s] : s \in Numbers}
<1>1. CASE UNCHANGED logVars
  BY <1>1 DEF logVars, names
<1>2. CASE PowerFail
  <2>1. crashes \in Nat /\ crashes' = crashes + 1
    BY <1>2 DEF LogInv, LogTypes, PowerFail, Crash
  <2> QED
    BY <2>1
<1>3. CASE RemoveLast
  BY <1>3, OldestLeaves
<1>4. CASE Step /\ ~RemoveLast
  BY <1>4, StepKeepsNames
<1> QED
  BY <1>1, <1>2, <1>3, <1>4 DEF LogNext

LEMMA DurableStays == LogInv => DurableLinesStay
<1> SUFFICES ASSUME LogInv, NEW r \in durable \ OnDisk, NEW b \in OnDisk PROVE r < b
  BY DEF DurableLinesStay
<1>1. LogTypes /\ names \in Recent /\ names \in Directories
  BY NamesLemma DEF LogInv
<1>2. Survives(r, names)
  BY <1>1 DEF LogInv, Disk, KeepsDurable
<1>3. ASSUME NEW f \in Present(names), NEW n \in 1..synced[f], data[f][n] = r PROVE FALSE
  <2>1. data[f] \in Seq(Nat) /\ synced[f] \in Nat /\ synced[f] <= Len(data[f])
    BY <1>1, PresentLemma DEF LogTypes
  <2>2. n \in DOMAIN data[f]
    BY <2>1
  <2>3. r # Torn
    BY DEF LogInv, Bounded, Torn
  <2>4. r \in LinesIn(data[f])
    BY <1>3, <2>2, <2>3 DEF LinesIn
  <2> QED
    BY <2>4 DEF OnDisk
<1> QED
  BY <1>2, <1>3 DEF Survives, OnDisk

\* LinesAreKept: whatever fails and whenever the power goes, only the oldest file
\* leaves the log, and no line that was on the disk is lost before an older one
\* (rotate, write_line), for any number of archives, lines, failures and crashes.
THEOREM LinesKept == LogSpec => LinesAreKept
<1>1. LogInv /\ [LogNext]_logVars =>
        (crashes' = crashes =>
           \A f \in Present(names) \ Present(names') :
             /\ names[Archives] = f /\ \A g \in Present(names) \ {f} : Older(f, g)
             /\ faults + crashes = 0 => None \notin {names[s] : s \in Numbers})
  BY OldestStep
<1>2. LogInv' => DurableLinesStay'
  BY DurableStays, PTL
<1>3. LogSpec => OnlyTheOldestGoes
  BY <1>1, LogInductive, PTL DEF LogSpec, OnlyTheOldestGoes
<1>4. LogSpec => [][DurableLinesStay']_logVars
  BY <1>2, LogInductive, LogInvKept, PTL DEF LogSpec
<1> QED
  BY <1>3, <1>4 DEF LinesAreKept

\* What an append to the active file does to its length and size.
LEMMA AppendsInPlace ==
  ASSUME LogInv, pc = "append", NEW x \in {Torn, last}, data' = [data EXCEPT ![fd] = Append(@, x)],
         NEW f \in Files, Len(data'[f]) > Len(data[f])
  PROVE  f = fd /\ f = names[0] /\ Size(data[f]) = bytes /\ Size(data'[f]) <= FileBytes
<1>1. /\ fd \in Files /\ fd = names[0] /\ Size(data[fd]) = bytes /\ bytes + 2 <= FileBytes
      /\ data \in [Files -> Seq(Nat)] /\ x \in Nat
  BY DEF LogInv, Positioned, LogTypes, Torn
<1>2. f = fd /\ data'[f] = Append(data[f], x)
  BY <1>1
<1>3. data[f] \in Seq(Nat)
  BY <1>1
<1>4. Size(data[f]) \in Int /\ Size(data'[f]) = Size(data[f]) + IF x = Torn THEN 1 ELSE 2
  BY <1>1, <1>2, <1>3, SizeLemma
<1>5. Size(data'[f]) <= FileBytes
  BY <1>1, <1>2, <1>4, NumbersLemma
<1> QED
  BY <1>1, <1>2, <1>5

LEMMA AppendStep ==
  ASSUME LogInv, [LogNext]_logVars, NEW f \in Files, Len(data'[f]) > Len(data[f])
  PROVE  f = fd /\ f = names[0] /\ Size(data[f]) = bytes /\ Size(data'[f]) <= FileBytes
<1>0. LogTypes /\ data[f] \in Seq(Nat) /\ Len(data[f]) \in Nat
  BY DEF LogInv, LogTypes
<1>1. CASE AppendLine
  BY <1>1, AppendsInPlace DEF AppendLine
<1>2. CASE TearLine
  BY <1>2, AppendsInPlace DEF TearLine, Tear
<1>3. CASE Kill
  <2>1. data' # data
    BY <1>0
  <2>2. pc = "append" /\ Tear
    BY <1>3, <2>1 DEF Kill
  <2> QED
    BY <2>2, AppendsInPlace DEF Tear
<1>4. CASE PowerFail
  <2>1. Len(data'[f]) <= Len(data[f]) /\ data'[f] \in Seq(Nat)
    BY <1>4, PowerDisk
  <2>2. Len(data'[f]) \in Nat
    BY <2>1
  <2> QED
    BY <1>0, <2>1, <2>2
<1>5. CASE Open \/ Create \/ CreateUnverified
  <2>1. data' = data \/ data' = [data EXCEPT ![Fresh] = <<>>]
    BY <1>5 DEF Open, Create, CreateUnverified, CreateActive
  <2>2. data'[f] = data[f] \/ data'[f] = <<>>
    BY <1>0, <2>1 DEF LogTypes
  <2> QED
    BY <1>0, <2>2
<1>6. CASE Drop \/ Write \/ SyncActive \/ RemoveLast \/ Shift \/ MoveActive \/ SyncDirectory \/ Fail
           \/ UNCHANGED logVars
  <2>1. data' = data
    BY <1>6 DEF Drop, Write, SyncActive, RemoveLast, Shift, MoveActive, SyncDirectory, Fail, logVars
  <2> QED
    BY <1>0, <2>1
<1> QED
  BY <1>1, <1>2, <1>3, <1>4, <1>5, <1>6 DEF LogNext, Step

\* AppendsWhereItStands: a sink appends to the active file and to no other, where it
\* left off, and never beyond file_bytes (write, verify_named).
THEOREM AppendsInPlaceOnly == LogSpec => AppendsWhereItStands
<1>1. LogInv /\ [LogNext]_logVars =>
        \A f \in Files : Len(data'[f]) > Len(data[f]) =>
          /\ f = fd /\ f = names[0] /\ Size(data[f]) = bytes
          /\ Size(data'[f]) <= FileBytes
  BY AppendStep
<1> QED
  BY <1>1, LogInductive, PTL DEF LogSpec, AppendsWhereItStands
=============================================================================
