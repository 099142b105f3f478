---------------------------- MODULE DurableQueue ----------------------------
(***************************************************************************)
(* What a durable queue promises its callers, whatever file system calls   *)
(* it is made of.  `view` says where each record is for the running        *)
(* system; `fate` says where a power failure may put it.  A step that has  *)
(* not been flushed widens a fate, a flush narrows every fate to the view, *)
(* a power failure picks one place out of each fate.                       *)
(***************************************************************************)

CONSTANT Ids

VARIABLES
  view,        \* place of each record as the running system sees it
  fate,        \* places each record may be in after a power failure
  published,   \* ids whose record has been made visible once
  promised,    \* ids whose enqueue has returned Ok
  released     \* ids the queue was told to let go, or could not decode

qvars == <<view, fate, published, promised, released>>

\* In the queue, out of it (never there or removed), or set aside as evidence.
Places == {"in", "out", "iso"}

TypeOK ==
  /\ view \in [Ids -> Places]
  /\ fate \in [Ids -> SUBSET Places]
  /\ published \subseteq Ids
  /\ promised \subseteq Ids
  /\ released \subseteq Ids

Init ==
  /\ view \in [Ids -> Places]
  /\ fate = [i \in Ids |-> {view[i]}]
  /\ published = {i \in Ids : view[i] # "out"}
  /\ promised = {}
  /\ released = {}

-----------------------------------------------------------------------------
\* The new view with everything flushed, and with the change still unflushed.
Synced(v)   == view' = v /\ fate' = [i \in Ids |-> {v[i]}]
Unsynced(v) == view' = v /\ fate' = [i \in Ids |-> fate[i] \cup {v[i]}]
Change(v)   == Synced(v) \/ Unsynced(v)

\* Only a record no power failure can lose may be promised.
Promise ==
  \E S \in SUBSET published' :
    /\ \A i \in S \ promised : fate'[i] = {"in"}
    /\ promised' = promised \cup S

\* Spool::enqueue: ids are random and never drawn twice.
Publish(i) ==
  /\ i \notin published
  /\ view[i] = "out"
  /\ published' = published \cup {i}
  /\ Change([view EXCEPT ![i] = "in"])
  /\ Promise
  /\ UNCHANGED released

\* The directory is synchronized.
Flush ==
  /\ Synced(view)
  /\ UNCHANGED <<published, released>>
  /\ Promise

\* A promise kept back until the caller is told, with nothing left to flush.
Confirm ==
  /\ UNCHANGED <<view, fate, published, released>>
  /\ Promise

Leave(i, place) ==
  /\ view[i] = "in"
  /\ released' = released \cup {i}
  /\ Change([view EXCEPT ![i] = place])
  /\ UNCHANGED <<published, promised>>

Remove(i)  == Leave(i, "out")
Isolate(i) == Leave(i, "iso")

PowerFail ==
  /\ view' \in {v \in [Ids -> Places] : \A i \in Ids : v[i] \in fate[i]}
  /\ fate' = [i \in Ids |-> {view'[i]}]
  /\ UNCHANGED <<published, promised, released>>

Next ==
  \/ \E i \in Ids : Publish(i) \/ Remove(i) \/ Isolate(i)
  \/ Flush
  \/ Confirm
  \/ PowerFail

Spec == Init /\ [][Next]_qvars

-----------------------------------------------------------------------------
\* A record whose enqueue returned Ok is in the queue after any power failure,
\* until somebody acknowledges or quarantines it (Spool::enqueue, Spool::ack).
PromiseKept == \A i \in promised \ released : view[i] = "in" /\ fate[i] = {"in"}

\* A removal or an isolation that has been flushed is never undone: no later
\* crash brings an acknowledged record back or loses quarantined evidence.
SettledForever ==
  [][\A i \in published : \A p \in {"out", "iso"} :
        fate[i] = {p} => fate'[i] = {p}]_qvars

\* The place seen now is always one a power failure may leave.
ViewIsAFate == \A i \in Ids : view[i] \in fate[i]
=============================================================================
