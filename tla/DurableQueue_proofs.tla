------------------------ MODULE DurableQueue_proofs ------------------------
(* Proofs about DurableQueue: for any set of ids, what is promised is kept  *)
(* and what is settled stays settled.                                       *)
EXTENDS DurableQueue, TLAPS

\* The place seen is one a power failure may leave, and an id that was never
\* published can be nowhere.
Known ==
  /\ ViewIsAFate
  /\ \A i \in Ids \ published : fate[i] = {"out"}
  /\ promised \subseteq published

IInv == TypeOK /\ Known /\ PromiseKept

\* A view with every pending change either flushed or not is again a view.
LEMMA ChangeLemma ==
  ASSUME TypeOK, ViewIsAFate,
         NEW v \in [Ids -> Places],
         Change(v)
  PROVE  /\ view' = v
         /\ view' \in [Ids -> Places]
         /\ fate' \in [Ids -> SUBSET Places]
         /\ \A i \in Ids : view'[i] \in fate'[i]
         /\ \A i \in Ids : v[i] = view[i] => fate'[i] \subseteq fate[i]
  BY DEF TypeOK, ViewIsAFate, Change, Synced, Unsynced

LEMMA InitIInv == Init => IInv
  BY DEF Init, IInv, TypeOK, Known, ViewIsAFate, PromiseKept, Places

LEMMA PublishIInv ==
  ASSUME IInv, NEW i \in Ids, Publish(i)
  PROVE  IInv'
  <1> DEFINE v == [view EXCEPT ![i] = "in"]
  <1>1. v \in [Ids -> Places]
    BY DEF IInv, TypeOK, Places
  <1>2. PICK S \in SUBSET published' :
          /\ \A j \in S \ promised : fate'[j] = {"in"}
          /\ promised' = promised \cup S
    BY DEF Publish, Promise
  <1>3. /\ view' = v
        /\ view' \in [Ids -> Places]
        /\ fate' \in [Ids -> SUBSET Places]
        /\ \A j \in Ids : view'[j] \in fate'[j]
        /\ \A j \in Ids : v[j] = view[j] => fate'[j] \subseteq fate[j]
    BY <1>1, ChangeLemma DEF IInv, Known, Publish
  <1>4. TypeOK'
    BY <1>2, <1>3 DEF IInv, TypeOK, Publish
  <1>5. Known'
    BY <1>2, <1>3 DEF IInv, TypeOK, Known, ViewIsAFate, Publish
  <1>6. PromiseKept'
    <2> SUFFICES ASSUME NEW j \in promised', j \notin released
                 PROVE  view'[j] = "in" /\ fate'[j] = {"in"}
      BY DEF PromiseKept, Publish
    <2>0. j \in Ids
      BY <1>4 DEF TypeOK
    <2>1. CASE j \in promised
      <3>1. view[j] = "in" /\ fate[j] = {"in"}
        BY <2>1 DEF IInv, PromiseKept
      <3>2. v[j] = view[j]
        BY <2>0, <3>1 DEF IInv, TypeOK
      <3> QED BY <1>3, <2>0, <3>1, <3>2
    <2>2. CASE j \notin promised
      BY <1>2, <1>3, <2>0, <2>2
    <2> QED BY <2>1, <2>2
  <1> QED BY <1>4, <1>5, <1>6 DEF IInv

LEMMA FlushIInv ==
  ASSUME IInv, Flush \/ Confirm
  PROVE  IInv'
  <1>1. PICK S \in SUBSET published' :
          /\ \A j \in S \ promised : fate'[j] = {"in"}
          /\ promised' = promised \cup S
    BY DEF Flush, Confirm, Promise
  <1>2. /\ view' = view
        /\ fate' \in [Ids -> SUBSET Places]
        /\ \A j \in Ids : view'[j] \in fate'[j] /\ fate'[j] \subseteq fate[j]
    BY DEF IInv, TypeOK, Known, ViewIsAFate, Flush, Confirm, Synced
  <1>3. TypeOK' /\ Known'
    BY <1>1, <1>2 DEF IInv, TypeOK, Known, ViewIsAFate, Flush, Confirm
  <1>4. PromiseKept'
    BY <1>1, <1>2, <1>3 DEF IInv, TypeOK, PromiseKept, Flush, Confirm
  <1> QED BY <1>3, <1>4 DEF IInv

LEMMA LeaveIInv ==
  ASSUME IInv, NEW i \in Ids, NEW place \in Places, Leave(i, place)
  PROVE  IInv'
  <1> DEFINE v == [view EXCEPT ![i] = place]
  <1>1. v \in [Ids -> Places]
    BY DEF IInv, TypeOK
  <1>2. /\ view' = v
        /\ view' \in [Ids -> Places]
        /\ fate' \in [Ids -> SUBSET Places]
        /\ \A j \in Ids : view'[j] \in fate'[j]
        /\ \A j \in Ids : v[j] = view[j] => fate'[j] \subseteq fate[j]
    BY <1>1, ChangeLemma DEF IInv, Known, Leave
  <1>3. i \in published
    BY DEF IInv, TypeOK, Known, ViewIsAFate, Leave
  <1>4. TypeOK' /\ Known'
    BY <1>2, <1>3 DEF IInv, TypeOK, Known, ViewIsAFate, Leave
  <1>5. PromiseKept'
    BY <1>2, <1>4 DEF IInv, TypeOK, PromiseKept, Leave
  <1> QED BY <1>4, <1>5 DEF IInv

LEMMA PowerFailIInv ==
  ASSUME IInv, PowerFail
  PROVE  IInv'
  BY DEF IInv, TypeOK, Known, ViewIsAFate, PromiseKept, PowerFail

LEMMA StepIInv == IInv /\ [Next]_qvars => IInv'
  <1> SUFFICES ASSUME IInv, [Next]_qvars PROVE IInv'
    OBVIOUS
  <1>1. CASE \E i \in Ids : Publish(i)
    BY <1>1, PublishIInv
  <1>2. CASE \E i \in Ids : Remove(i) \/ Isolate(i)
    BY <1>2, LeaveIInv DEF Remove, Isolate, Places
  <1>3. CASE Flush \/ Confirm
    BY <1>3, FlushIInv
  <1>4. CASE PowerFail
    BY <1>4, PowerFailIInv
  <1>5. CASE UNCHANGED qvars
    BY <1>5 DEF qvars, IInv, TypeOK, Known, ViewIsAFate, PromiseKept
  <1> QED BY <1>1, <1>2, <1>3, <1>4, <1>5 DEF Next

\* The inductive invariant holds of every reachable state.
THEOREM Inductive == Spec => []IInv
  <1>1. Init => IInv
    BY InitIInv
  <1>2. IInv /\ [Next]_qvars => IInv'
    BY StepIInv
  <1> QED BY <1>1, <1>2, PTL DEF Spec

\* Type correctness of the durable queue.
THEOREM TypeCorrect == Spec => []TypeOK
  <1>1. IInv => TypeOK
    BY DEF IInv
  <1> QED BY <1>1, Inductive, PTL

\* Whatever fails and in whatever order, a record whose enqueue returned Ok is
\* in the queue until somebody acknowledges or quarantines it.
THEOREM KeepsPromises == Spec => []PromiseKept
  <1>1. IInv => PromiseKept
    BY DEF IInv
  <1> QED BY <1>1, Inductive, PTL

\* No step undoes a flushed removal or isolation.
LEMMA StepSettled ==
  ASSUME IInv, [Next]_qvars
  PROVE  \A i \in published : \A p \in {"out", "iso"} :
           fate[i] = {p} => fate'[i] = {p}
  <1> SUFFICES ASSUME NEW i \in published, NEW p \in {"out", "iso"}, fate[i] = {p}
               PROVE  fate'[i] = {p}
    OBVIOUS
  <1>0. i \in Ids /\ view[i] = p
    BY DEF IInv, TypeOK, Known, ViewIsAFate
  <1>1. ASSUME NEW j \in Ids, Publish(j) PROVE fate'[i] = {p}
    BY <1>0, <1>1 DEF Publish, Change, Synced, Unsynced, IInv, TypeOK
  <1>2. ASSUME NEW j \in Ids, NEW place \in Places, Leave(j, place)
        PROVE  fate'[i] = {p}
    BY <1>0, <1>2 DEF Leave, Change, Synced, Unsynced, IInv, TypeOK
  <1>3. CASE Flush \/ Confirm \/ PowerFail \/ UNCHANGED qvars
    BY <1>0, <1>3 DEF Flush, Confirm, PowerFail, Synced, qvars, IInv, TypeOK
  <1> QED BY <1>1, <1>2, <1>3 DEF Next, Remove, Isolate, Places

\* An acknowledged record never comes back and evidence never disappears.
THEOREM StaysSettled == Spec => SettledForever
  <1>1. IInv /\ [Next]_qvars =>
          [\A i \in published : \A p \in {"out", "iso"} :
             fate[i] = {p} => fate'[i] = {p}]_qvars
    BY StepSettled
  <1> QED BY <1>1, Inductive, PTL DEF Spec, SettledForever
=============================================================================
