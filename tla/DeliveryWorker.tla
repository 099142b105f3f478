--------------------------- MODULE DeliveryWorker ---------------------------
(***************************************************************************)
(* The delivery worker of src/src/runtime/worker.rs driving deliver_batch  *)
(* of src/src/runtime/delivery.rs over a durable queue: producers on other *)
(* threads, a coalescing wake-up channel, a server that rotates the        *)
(* credential it accepts, credential recovery running beside delivery,     *)
(* local disk errors, process crashes and power failures.                  *)
(*                                                                         *)
(* Deadlines are "none", "due" or "later": only whether one has passed     *)
(* matters to the control flow.  The bounds MaxVersion, MaxFaults and      *)
(* MaxCrashes limit what the environment does, never what the code does.   *)
(***************************************************************************)
EXTENDS Integers, FiniteSets

CONSTANTS
  Ids,          \* record ids, ordered as their file names are
  Kind,         \* what becomes of each record, see RecordKinds
  Producers,    \* threads that enqueue and then notify
  BatchMax,     \* DELIVERY_BATCH_RECORDS
  MaxStreak,    \* MAX_QUEUE_FAILURES
  MaxVersion,   \* bound: credential rotations of the server
  MaxFaults,    \* bound: network, disk and recovery failures, in all
  MaxCrashes,   \* bound: process crashes and power failures, in all
  None          \* no record

RecordKinds == {"good", "refused", "mismatch", "rotten"}

ASSUME IdsAssumption == Ids \subseteq Nat /\ IsFiniteSet(Ids) /\ None \notin Ids
ASSUME KindAssumption == Kind \in [Ids -> RecordKinds]
ASSUME BoundsAssumption ==
  /\ BatchMax \in Nat \ {0}
  /\ MaxStreak \in Nat \ {0}
  /\ MaxVersion \in Nat
  /\ MaxFaults \in Nat
  /\ MaxCrashes \in Nat

VARIABLES
  view, fate, published, promised, released,   \* the queue, see DurableQueue
  prod,       \* what each producer is about to do: "idle" or "notify"
  chan,       \* wake-ups in the channel of capacity one
  stop,       \* shutdown was requested, or a controller or sender was dropped
  wpc,        \* where the worker is
  retry,      \* retry_at
  recov,      \* recovery_at
  blocked,    \* authorization_blocked
  streak,     \* queue_failures
  rpc,        \* pending_recovery
  rver,       \* the credential version the recovery was answered with
  snap,       \* version of the installed credential snapshot
  bpc,        \* pending_batch: where deliver_batch is
  item,       \* the record it is delivering
  count,      \* the records it has disposed of
  bsnap,      \* the snapshot it was created with
  answer,     \* the answer to its send, or its outcome
  srv,        \* the credential version the server accepts
  net,        \* requests under way to the server, cancelled ones included
  accepted,   \* records the server has stored
  told,       \* callbacks made for each record
  diskErrors, \* failed queue operations since the worker was started
  faults,     \* failures so far
  crashes     \* crashes so far

queue      == <<view, fate, published, promised, released>>
front      == <<prod, chan, stop>>
worker     == <<wpc, retry, recov, blocked, streak>>
credential == <<rpc, rver, snap>>
batch      == <<bpc, item, count, bsnap, answer>>
outside    == <<srv, net, accepted, told>>
counters   == <<diskErrors, faults, crashes>>
vars == <<queue, front, worker, credential, batch, outside, counters>>

Q == INSTANCE DurableQueue

Running == wpc \in {"top", "select"}
Versions == 0..MaxVersion

\* The batch future is inside one poll: it runs to its next await, and no other
\* branch of select! is taken meanwhile.
InPoll == bpc \in {"settle", "tell", "next", "ready"}
Idle == bpc \in {"none", "start", "send"}

Answers == {"none", "sent", "ok", "refused", "mismatch", "auth", "lost"}
Outcomes == {"drained", "complete", "error", "auth", "lost"}
Callbacks == {"acknowledged", "discarded", "quarantined"}

LoopTypes ==
  /\ prod \in [Producers -> {"idle", "notify"}]
  /\ chan \in {0, 1}
  /\ stop \in BOOLEAN
  /\ blocked \in BOOLEAN
  /\ wpc \in {"down", "top", "select", "stopped", "failed", "misled"}

DeadlineTypes ==
  /\ retry \in {"none", "due", "later"}
  /\ recov \in {"due", "later"}
  /\ streak \in 0..MaxStreak
  /\ rpc \in {"none", "asked", "answered", "failed"}
  /\ rver \in Versions
  /\ snap \in Versions

BatchTypes ==
  /\ bpc \in {"none", "start", "next", "send", "settle", "tell", "ready"}
  /\ item \in Ids \cup {None}
  /\ count \in 0..BatchMax
  /\ bsnap \in Versions
  /\ answer \in Answers \cup Outcomes

CounterTypes ==
  /\ diskErrors \in 0..MaxFaults
  /\ faults \in 0..MaxFaults
  /\ crashes \in 0..MaxCrashes

RemoteTypes ==
  /\ srv \in Versions
  /\ net \subseteq Ids \X Versions
  /\ accepted \subseteq Ids
  /\ told \in [Ids -> SUBSET Callbacks]

TypeOK ==
  Q!TypeOK /\ LoopTypes /\ DeadlineTypes /\ BatchTypes /\ CounterTypes /\ RemoteTypes

\* The futures and channels of a worker that is not running are gone.
NoBatch ==
  /\ bpc' = "none" /\ item' = None /\ count' = 0 /\ bsnap' = 0 /\ answer' = "none"
NoRecovery == rpc' = "none" /\ rver' = 0

Fault == faults < MaxFaults /\ faults' = faults + 1
DiskError == Fault /\ diskErrors' = diskErrors + 1

Init ==
  /\ view = [i \in Ids |-> "out"]
  /\ fate = [i \in Ids |-> {"out"}]
  /\ published = {} /\ promised = {} /\ released = {}
  /\ prod = [p \in Producers |-> "idle"]
  /\ chan = 0 /\ stop = FALSE /\ wpc = "top"
  /\ retry = "later" /\ recov = "due"
  /\ blocked = FALSE /\ streak = 0
  /\ rpc = "none" /\ rver = 0 /\ snap = 0
  /\ bpc = "none" /\ item = None /\ count = 0 /\ bsnap = 0 /\ answer = "none"
  /\ srv = 0 /\ net = {} /\ accepted = {}
  /\ told = [i \in Ids |-> {}]
  /\ diskErrors = 0 /\ faults = 0 /\ crashes = 0

-----------------------------------------------------------------------------
\* Producers.

\* Faulty variant: Ok is returned before the directory is flushed.
EnqueueUnflushed(p, i) ==
  /\ wpc # "down" /\ prod[p] = "idle"
  /\ i \notin published
  /\ published' = published \cup {i}
  /\ Q!Unsynced([view EXCEPT ![i] = "in"])
  /\ promised' = promised \cup {i}
  /\ prod' = [prod EXCEPT ![p] = "notify"]
  /\ UNCHANGED <<released, chan, stop, worker, credential, batch, outside, counters>>

\* Spool::enqueue returns Ok: the record is published and the directory flushed.
Enqueue(p, i) ==
  /\ wpc # "down" /\ prod[p] = "idle"
  /\ i \notin published
  /\ Q!Publish(i) /\ Q!Synced([view EXCEPT ![i] = "in"])
  /\ promised' = promised \cup {i}
  /\ prod' = [prod EXCEPT ![p] = "notify"]
  /\ UNCHANGED <<chan, stop, worker, credential, batch, outside, counters>>

\* Spool::enqueue returns PublishedDurabilityUnknown: nothing was promised, and
\* nobody is woken, but the record is there.
EnqueueUnknown(p, i) ==
  /\ wpc # "down" /\ prod[p] = "idle"
  /\ i \notin published
  /\ Q!Publish(i) /\ Q!Unsynced([view EXCEPT ![i] = "in"])
  /\ promised' = promised
  /\ Fault
  /\ UNCHANGED <<front, worker, credential, batch, outside, diskErrors, crashes>>

\* try_send into a channel of capacity one.
Coalesced == 1

\* DeliveryWake::notify: a full channel already holds the wake-up, a closed one
\* belongs to a worker that has returned.
Notify(p) ==
  /\ wpc # "down" /\ prod[p] = "notify"
  /\ prod' = [prod EXCEPT ![p] = "idle"]
  /\ chan' = IF Running THEN Coalesced ELSE chan
  /\ UNCHANGED <<queue, stop, worker, credential, batch, outside, counters>>

RequestStop ==
  /\ Running /\ ~stop
  /\ stop' = TRUE
  /\ UNCHANGED <<queue, prod, chan, worker, credential, batch, outside, counters>>

-----------------------------------------------------------------------------
\* The loop of DeliveryWorker::run.

Leave(why) ==
  /\ wpc' = why
  /\ NoBatch /\ NoRecovery
  /\ chan' = 0

DueDelivery == ~blocked /\ bpc = "none" /\ retry = "due"
DueRecovery == rpc = "none" /\ recov = "due"

\* The head of the loop: leave, or start what is due and wait in select!.
LoopTop ==
  /\ wpc = "top"
  /\ IF stop
     THEN Leave("stopped")
     ELSE /\ wpc' = "select"
          /\ rpc' = IF DueRecovery THEN "asked" ELSE rpc
          /\ bpc' = IF DueDelivery THEN "start" ELSE bpc
          /\ bsnap' = IF DueDelivery THEN snap ELSE bsnap
          /\ UNCHANGED <<chan, rver, item, count, answer>>
  /\ UNCHANGED <<queue, prod, stop, retry, recov, blocked, streak, snap, outside,
                  counters>>

\* Faulty variant: another branch runs between a finished batch and its branch.
SelectingInPoll == wpc = "select"

\* A branch of select! other than the batch can only win between its polls.
Selecting == wpc = "select" /\ Idle

Shutdown ==
  /\ Selecting /\ stop
  /\ Leave("stopped")
  /\ UNCHANGED <<queue, prod, stop, retry, recov, blocked, streak, snap, outside,
                  counters>>

\* The recovery fails, or brings nothing new: its backoff or its poll interval
\* postpones the next one.
RecoveryKeeps ==
  /\ Selecting
  /\ rpc = "failed" \/ (rpc = "answered" /\ rver <= snap)
  /\ NoRecovery
  /\ recov' = "later"
  /\ wpc' = "top"
  /\ UNCHANGED <<queue, front, retry, blocked, streak, snap, batch, outside, counters>>

\* Faulty variant: a renewed snapshot leaves the delivery under way alone.
KeepBatch == UNCHANGED batch
CancelBatch == NoBatch

Unblock == FALSE

\* apply_recovery installs a new snapshot: the delivery under way is cancelled,
\* the authorization block and the backoff are lifted.
RecoveryRenewed ==
  /\ Selecting /\ rpc = "answered" /\ rver > snap
  /\ snap' = rver
  /\ NoRecovery /\ CancelBatch
  /\ recov' = "later"
  /\ blocked' = Unblock
  /\ retry' = "due"
  /\ wpc' = "top"
  /\ UNCHANGED <<queue, front, streak, outside, counters>>

\* The driver's poll interval is out of range: the worker gives up, with the
\* snapshot the driver has already installed.
RecoveryBadPoll ==
  /\ Selecting /\ rpc = "answered" /\ Fault
  /\ snap' = IF rver > snap THEN rver ELSE snap
  /\ Leave("misled")
  /\ UNCHANGED <<queue, prod, stop, retry, recov, blocked, streak, outside, diskErrors,
                  crashes>>

\* Faulty variant: a wake-up makes delivery due whatever it is waiting for.
WakeAlways == "due"
WakeAtRest == IF ~blocked /\ retry = "none" THEN "due" ELSE retry

\* A wake-up neither cancels a delivery nor shortens a backoff.
Notification ==
  /\ Selecting /\ chan = 1
  /\ chan' = 0
  /\ retry' = WakeAtRest
  /\ wpc' = "top"
  /\ UNCHANGED <<queue, prod, stop, recov, blocked, streak, credential, batch, outside,
                  counters>>

\* sleep_until(deadline); with neither deadline set it ends within the hour.
TimerFires ==
  /\ Selecting
  /\ \/ DueDelivery
     \/ DueRecovery
     \/ rpc # "none" /\ (blocked \/ bpc # "none" \/ retry = "none")
  /\ wpc' = "top"
  /\ UNCHANGED <<queue, front, retry, recov, blocked, streak, credential, batch, outside,
                  counters>>

TickRetry ==
  /\ Running /\ retry = "later" /\ retry' = "due"
  /\ UNCHANGED <<queue, front, wpc, recov, blocked, streak, credential, batch, outside,
                  counters>>

TickRecovery ==
  /\ Running /\ recov = "later" /\ recov' = "due"
  /\ UNCHANGED <<queue, front, wpc, retry, blocked, streak, credential, batch, outside,
                  counters>>

-----------------------------------------------------------------------------
\* One poll of deliver_batch, from one await to the next.

Pending == {i \in Ids : view[i] = "in"}
IsHead(i) == i \in Pending /\ \A j \in Pending : i <= j

Polling(pcs) == wpc = "select" /\ bpc \in pcs

BatchReady(outcome) ==
  /\ bpc' = "ready" /\ answer' = outcome
  /\ item' = None
  /\ UNCHANGED <<count, bsnap>>

\* Spool::next sets an undecodable head aside and looks further.
NextIsolates(i) ==
  /\ Polling({"start", "next"})
  /\ IsHead(i) /\ Kind[i] = "rotten"
  /\ Q!Isolate(i) /\ Q!Synced([view EXCEPT ![i] = "iso"])
  /\ bpc' = "next"
  /\ UNCHANGED <<front, worker, credential, item, count, bsnap, answer, outside,
                  counters>>

\* Spool::next fails, possibly after the isolation became visible.
NextFails ==
  /\ Polling({"start", "next"})
  /\ \/ UNCHANGED queue
     \/ \E i \in Ids : /\ IsHead(i) /\ Kind[i] = "rotten"
                       /\ Q!Isolate(i) /\ Q!Unsynced([view EXCEPT ![i] = "iso"])
  /\ DiskError
  /\ BatchReady("error")
  /\ UNCHANGED <<front, worker, credential, outside, crashes>>

NextDrained ==
  /\ Polling({"start", "next"})
  /\ Pending = {}
  /\ BatchReady("drained")
  /\ UNCHANGED <<queue, front, worker, credential, outside, counters>>

\* The head is handed to the adapter; an identity mismatch is found locally.
NextSends(i) ==
  /\ Polling({"start", "next"})
  /\ IsHead(i) /\ Kind[i] # "rotten"
  /\ bpc' = "send" /\ item' = i
  /\ IF Kind[i] = "mismatch"
     THEN answer' = "mismatch" /\ UNCHANGED net
     ELSE answer' = "sent" /\ net' = net \cup {<<i, bsnap>>}
  /\ UNCHANGED <<queue, front, worker, credential, count, bsnap, srv, accepted, told,
                  counters>>

SendDone ==
  /\ Polling({"send"}) /\ answer # "sent"
  /\ bpc' = "settle"
  /\ UNCHANGED <<queue, front, worker, credential, item, count, bsnap, answer, outside,
                  counters>>

\* Faulty variant: a mismatch is discarded like a refused record.
DisposeDiscards(i) == answer \in {"ok", "refused", "mismatch"} /\ Q!Remove(i)

\* DeliveryQueue::acknowledge for a delivery or a definitive refusal,
\* DeliveryQueue::quarantine for a mismatch.
Dispose(i) ==
  \/ answer \in {"ok", "refused"} /\ Q!Remove(i)
  \/ answer = "mismatch" /\ Q!Isolate(i)

Settle ==
  /\ Polling({"settle"}) /\ answer \in {"ok", "refused", "mismatch"}
  /\ Dispose(item) /\ Q!Synced(view')
  /\ bpc' = "tell"
  /\ UNCHANGED <<front, worker, credential, item, count, bsnap, answer, outside,
                  counters>>

\* Faulty variant: a failed queue operation is reported like a successful one.
TellAnyway(outcome) == bpc' = "tell" /\ UNCHANGED <<item, count, bsnap, answer>>
StopBatch(outcome) == BatchReady(outcome)

\* The queue operation fails: the batch stops, and nobody is told.
SettleFails ==
  /\ Polling({"settle"}) /\ answer \in {"ok", "refused", "mismatch"}
  /\ \/ UNCHANGED queue
     \/ Dispose(item) /\ Q!Unsynced(view')
  /\ DiskError
  /\ StopBatch("error")
  /\ UNCHANGED <<front, worker, credential, outside, crashes>>

\* FailureDisposition::Retain: the record stays and the batch reports why.
Retain ==
  /\ Polling({"settle"}) /\ answer \in {"auth", "lost"}
  /\ BatchReady(answer)
  /\ UNCHANGED <<queue, front, worker, credential, outside, counters>>

CallbackFor == [ok |-> "acknowledged", refused |-> "discarded", mismatch |-> "quarantined"]

\* The callback, and on to the next record unless the batch is full.
Tell ==
  /\ Polling({"tell"})
  /\ told' = [told EXCEPT ![item] = @ \cup {CallbackFor[answer]}]
  /\ count' = count + 1
  /\ item' = None
  /\ IF count + 1 < BatchMax
     THEN bpc' = "next" /\ answer' = "none"
     ELSE bpc' = "ready" /\ answer' = "complete"
  /\ UNCHANGED <<queue, front, worker, credential, bsnap, srv, net, accepted, counters>>

-----------------------------------------------------------------------------
\* The batch branch of select!, one action per outcome.

Finished(outcome) == Polling({"ready"}) /\ answer = outcome

\* Faulty variant: a full batch is taken for a drained queue.
RestAfter == [drained |-> "none", complete |-> "none"]

\* A drained queue waits for a wake-up, a full batch has left something behind.
RetryAfter == [drained |-> "none", complete |-> "due"]

BatchSucceeds(outcome) ==
  /\ Finished(outcome)
  /\ NoBatch /\ wpc' = "top"
  /\ streak' = 0 /\ retry' = RetryAfter[outcome]
  /\ UNCHANGED <<queue, front, recov, blocked, credential, outside, counters>>

BatchFailedLocally ==
  /\ Finished("error")
  /\ streak' = streak + 1
  /\ IF streak + 1 >= MaxStreak
     THEN Leave("failed") /\ UNCHANGED retry
     ELSE NoBatch /\ wpc' = "top" /\ retry' = "later" /\ UNCHANGED <<chan, rpc, rver>>
  /\ UNCHANGED <<queue, prod, stop, recov, blocked, snap, outside, counters>>

\* DeliveryResponse::AuthorizationRequired.
BatchUnauthorized ==
  /\ Finished("auth")
  /\ NoBatch /\ wpc' = "top"
  /\ streak' = 0
  /\ blocked' = TRUE /\ retry' = "none" /\ recov' = "due"
  /\ UNCHANGED <<queue, front, credential, outside, counters>>

\* Faulty variant: a network failure counts as a failure of the local queue.
CountsAll == 1
CountsLocalOnly == 0

\* DeliveryResponse::Retry, or RetryAfterRecovery which also makes recovery due.
BatchRetries ==
  /\ Finished("lost")
  /\ NoBatch /\ wpc' = "top"
  /\ streak' = CountsLocalOnly
  /\ retry' = "later"
  /\ recov' \in {recov, "due"}
  /\ UNCHANGED <<queue, front, blocked, credential, outside, counters>>

-----------------------------------------------------------------------------
\* The server and the network.

Rotate ==
  /\ srv < MaxVersion /\ srv' = srv + 1
  /\ UNCHANGED <<queue, front, worker, credential, batch, net, accepted, told, counters>>

Awaited(m) == bpc = "send" /\ answer = "sent" /\ m = <<item, bsnap>>

\* A request is judged by the credential current when it arrives, however late;
\* only a send still waiting for it sees the answer.
ServerHandles(m) ==
  /\ m \in net /\ net' = net \ {m}
  /\ LET verdict == IF m[2] # srv THEN "auth"
                    ELSE IF Kind[m[1]] = "refused" THEN "refused" ELSE "ok"
     IN /\ accepted' = IF verdict = "ok" THEN accepted \cup {m[1]} ELSE accepted
        /\ answer' = IF Awaited(m) THEN verdict ELSE answer
  /\ UNCHANGED <<queue, front, worker, credential, bpc, item, count, bsnap, srv, told,
                  counters>>

\* The send times out, or its answer is lost: the outcome stays unknown.
AnswerLost ==
  /\ bpc = "send" /\ answer \in {"sent", "ok", "refused", "auth"}
  /\ answer' = "lost"
  /\ Fault
  /\ UNCHANGED <<queue, front, worker, credential, bpc, item, count, bsnap, outside,
                  diskErrors, crashes>>

RecoveryAnswered ==
  /\ rpc = "asked" /\ rpc' = "answered" /\ rver' = srv
  /\ UNCHANGED <<queue, front, worker, snap, batch, outside, counters>>

RecoveryLost ==
  /\ rpc = "asked" /\ rpc' = "failed"
  /\ Fault
  /\ UNCHANGED <<queue, front, worker, rver, snap, batch, outside, diskErrors, crashes>>

-----------------------------------------------------------------------------
\* Processes end and start.

FreshProcess ==
  /\ NoBatch /\ NoRecovery
  /\ prod' = [p \in Producers |-> "idle"]
  /\ chan' = 0 /\ stop' = FALSE
  /\ retry' = "later" /\ recov' = "due"
  /\ blocked' = FALSE /\ streak' = 0
  /\ diskErrors' = 0

\* The process is killed, or the machine loses power.
Crash ==
  /\ wpc # "down" /\ crashes < MaxCrashes
  /\ crashes' = crashes + 1
  /\ wpc' = "down"
  /\ FreshProcess
  /\ UNCHANGED queue \/ Q!PowerFail
  /\ UNCHANGED <<snap, outside, faults>>

\* A process starts again after a crash or after its worker has returned.
Restart ==
  /\ ~Running
  /\ wpc' = "top"
  /\ FreshProcess
  /\ UNCHANGED <<queue, snap, outside, faults, crashes>>

-----------------------------------------------------------------------------
Producing == \E p \in Producers :
  Notify(p) \/ \E i \in Ids : Enqueue(p, i) \/ EnqueueUnknown(p, i)

Recovering == RecoveryKeeps \/ RecoveryRenewed \/ RecoveryBadPoll

Batching ==
  \/ \E i \in Ids : NextIsolates(i) \/ NextSends(i)
  \/ NextDrained \/ NextFails \/ SendDone \/ Settle \/ SettleFails \/ Retain \/ Tell
  \/ BatchSucceeds("drained") \/ BatchSucceeds("complete")
  \/ BatchFailedLocally \/ BatchUnauthorized \/ BatchRetries

Serving == (\E m \in net : ServerHandles(m)) \/ Rotate \/ AnswerLost
           \/ RecoveryAnswered \/ RecoveryLost

Next ==
  \/ Producing \/ RequestStop
  \/ LoopTop \/ Shutdown \/ Notification \/ TimerFires \/ TickRetry \/ TickRecovery
  \/ Recovering \/ Batching \/ Serving
  \/ Crash \/ Restart

Spec == Init /\ [][Next]_vars

\* Fairness: the runtime polls the worker's task and its ready branches, timers
\* fire, the server answers what it is asked.  Nothing is assumed of producers,
\* shutdown, credential rotation, failures, crashes or restarts; what may go
\* wrong is bounded by MaxFaults and MaxCrashes.  Strong fairness on the choice
\* of a branch is select!'s: it polls the branches in random order.
Fairness ==
  /\ WF_vars(LoopTop)
  /\ WF_vars(TimerFires) /\ WF_vars(TickRetry) /\ WF_vars(TickRecovery)
  /\ SF_vars(Notification) /\ SF_vars(Recovering) /\ SF_vars(Batching)
  /\ WF_vars(\E m \in net : Awaited(m) /\ ServerHandles(m))
  /\ WF_vars(RecoveryAnswered)
  /\ \A p \in Producers : WF_vars(Notify(p))

FairSpec == Spec /\ Fairness

-----------------------------------------------------------------------------
\* Properties.

WorkLeft == \E i \in promised : view[i] = "in"

\* No lost wake-up: a worker that has gone to sleep with nothing scheduled, no
\* wake-up in its channel and no producer about to send one leaves no promised
\* record behind, although wake-ups coalesce and those received during a
\* delivery or a backoff are dropped (DeliveryWorker::run, notify).
NoLostWakeup ==
  Running /\ bpc = "none" /\ ~blocked /\ retry = "none" /\ chan = 0
          /\ (\A p \in Producers : prod[p] = "idle")
    => ~WorkLeft

\* No stale answer reaches the new credential: a delivery under way always runs
\* on the installed snapshot, and delivery is only ever blocked on a snapshot
\* the server really has retired ("no stale response can invalidate the newly
\* installed credential snapshot").
BlockedOnlyWhenStale ==
  /\ bpc # "none" => bsnap = snap
  /\ Running /\ blocked => snap < srv

\* No silent loss: a promised record may be missing, now or after a power
\* failure, only once the server has stored it or its content was refused, and
\* it is set aside only for a mismatch or for bytes that do not decode.
NoSilentLoss ==
  \A i \in promised :
    /\ "out" \in fate[i] => i \in accepted \/ Kind[i] = "refused"
    /\ "iso" \in fate[i] => Kind[i] \in {"mismatch", "rotten"}

\* A callback is made after the disposal it reports is beyond a power failure,
\* reports what happened, and is the last word on its record: no record is
\* disposed of under two names, or sent again once it has been reported.
CallbackIsFinal ==
  \A i \in Ids :
    /\ \A c, d \in told[i] : c = d
    /\ "acknowledged" \in told[i] => i \in accepted /\ fate[i] = {"out"}
    /\ "discarded" \in told[i] => i \notin accepted /\ fate[i] = {"out"}
    /\ "quarantined" \in told[i] => fate[i] = {"iso"}
    /\ i = item => told[i] = {}

\* The worker gives up on its disk only after that many local failures in a
\* row: network and authorization failures never count.
StopsOnlyForLocalFailures == wpc = "failed" => diskErrors >= MaxStreak

\* A backoff ends with time or with a renewed credential, an authorization block
\* only with a renewed credential, in the life of one worker: no wake-up and no
\* recovery that brings nothing new shortens either.
WakeNeverBypasses ==
  [][Running /\ Running' /\ wpc # wpc' =>
       /\ blocked /\ ~blocked' => snap' > snap
       /\ retry = "later" /\ retry' # "later" => snap' > snap]_vars

\* Every promised record leaves the queue unless the worker stops.
EveryRecordIsDelivered ==
  \A i \in Ids : (Running /\ i \in promised /\ view[i] = "in")
                  ~> (view[i] # "in" \/ ~Running)

\* A worker blocked on a retired credential is unblocked by recovery.
BlockEnds == blocked ~> (~blocked \/ ~Running)

\* Delivery never comes to rest with work left: not the records, not the worker.
DeliveryGoesOn == EveryRecordIsDelivered /\ BlockEnds

QueueSpec == Q!Spec
=============================================================================
