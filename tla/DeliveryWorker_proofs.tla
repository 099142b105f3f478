----------------------- MODULE DeliveryWorker_proofs -----------------------
(* Proofs about DeliveryWorker, for any set of records, any batch size and  *)
(* any bounds: it implements DurableQueue, no promised record is lost, no   *)
(* wake-up is lost, and callbacks report what is final.                     *)
EXTENDS DeliveryWorker, TLAPS

QP == INSTANCE DurableQueue_proofs

-----------------------------------------------------------------------------
(* The inductive invariant, in parts. *)

\* A batch under way runs on the installed snapshot, with nothing that would
\* have kept it from being started.
BatchRuns ==
  bpc # "none" => Running /\ ~blocked /\ retry = "due" /\ bsnap = snap

\* What the batch knows at each of its steps.
BatchData ==
  /\ bpc \in {"send", "settle", "tell"} <=> item # None
  /\ bpc = "none" => count = 0
  /\ bpc \notin {"none", "ready"} => count < BatchMax
  /\ bpc = "send" => answer \in {"sent", "ok", "refused", "mismatch", "auth", "lost"}
  /\ bpc = "settle" => answer \in {"ok", "refused", "mismatch", "auth", "lost"}
  /\ bpc = "tell" => answer \in {"ok", "refused", "mismatch"}
  /\ bpc = "ready" => answer \in Outcomes
  /\ bpc \in {"settle", "tell", "next", "ready"} => wpc = "select"

\* An answer means what it says of the record, and disposal has the place to
\* match once the callback is next.
AnswerMeans ==
  /\ bpc \in {"send", "settle"} => view[item] = "in" /\ told[item] = {}
  /\ bpc \in {"send", "settle", "tell"} =>
       /\ answer = "ok" => item \in accepted
       /\ answer = "refused" => Kind[item] = "refused"
       /\ answer = "mismatch" => Kind[item] = "mismatch"
  /\ bpc = "tell" =>
       /\ item \in published /\ told[item] = {}
       /\ fate[item] = IF answer = "mismatch" THEN {"iso"} ELSE {"out"}
  /\ \A i \in accepted : Kind[i] # "refused"

\* What has been told is settled.
ToldSettled ==
  \A i \in Ids :
    /\ told[i] # {} => i \in published
    /\ told[i] \in {{}, {"acknowledged"}, {"discarded"}, {"quarantined"}}
    /\ told[i] = {"acknowledged"} => i \in accepted /\ fate[i] = {"out"}
    /\ told[i] = {"discarded"} => Kind[i] = "refused" /\ fate[i] = {"out"}
    /\ told[i] = {"quarantined"} => fate[i] = {"iso"}

\* Only the server retires credentials, and only its answer blocks delivery.
Versioned ==
  /\ snap <= srv /\ rver <= srv
  /\ bpc \in {"send", "settle", "ready"} /\ answer = "auth" => bsnap < srv
  /\ Running /\ blocked => snap < srv /\ retry = "none"

\* A queue seen empty is a queue whose next record comes with a wake-up.
Awake ==
  /\ Running /\ ~blocked /\ WorkLeft
  /\ \/ bpc = "none" /\ retry = "none"
     \/ bpc = "ready" /\ answer = "drained"
  => chan = 1 \/ \E p \in Producers : prod[p] = "notify"

\* Each failure in the streak was one of the local queue.
Streak ==
  /\ streak <= diskErrors /\ diskErrors <= faults
  /\ bpc = "ready" /\ answer = "error" => streak + 1 <= diskErrors
  /\ Running => streak < MaxStreak
  /\ wpc = "failed" => diskErrors >= MaxStreak

IInv ==
  /\ TypeOK
  /\ QP!IInv
  /\ BatchRuns
  /\ BatchData
  /\ AnswerMeans
  /\ ToldSettled
  /\ NoSilentLoss
  /\ Versioned
  /\ Awake
  /\ Streak
-----------------------------------------------------------------------------
(* The queue: every step of the worker and its surroundings is a step of a  *)
(* durable queue, or leaves it alone.                                       *)

USE DEF queue, front, worker, credential, batch, outside, counters

\* QP is DurableQueue with its proofs; its definitions are those of Q.
LEMMA SameQueue == (QP!Init <=> Q!Init) /\ (QP!Next <=> Q!Next)
  BY DEF QP!Init, Q!Init, QP!Next, Q!Next, QP!qvars, QP!Places, Q!Places, QP!Publish,
         Q!Publish, QP!Remove, Q!Remove, QP!Isolate, Q!Isolate, QP!Leave, Q!Leave,
         QP!Change, Q!Change, QP!Synced, Q!Synced, QP!Unsynced, Q!Unsynced, QP!Promise,
         Q!Promise, QP!Flush, Q!Flush, QP!Confirm, Q!Confirm, QP!PowerFail, Q!PowerFail

LEMMA InitQueue == Init => Q!Init
  BY DEF Init, Q!Init, Q!Places

\* Disposing of the batch's item is a removal or an isolation.
LEMMA SettleQueue ==
  ASSUME TypeOK, BatchData, Settle \/ SettleFails
  PROVE  Q!Next \/ UNCHANGED queue
  <1>1. item \in Ids
    BY DEF TypeOK, BatchTypes, BatchData, Settle, SettleFails, Polling
  <1>2. Dispose(item) \/ UNCHANGED queue
    BY DEF Settle, SettleFails
  <1> QED BY <1>1, <1>2 DEF Dispose, Q!Next

LEMMA QueueStep ==
  ASSUME TypeOK, BatchData, [Next]_vars
  PROVE  Q!Next \/ UNCHANGED queue
  <1>1. CASE Producing
    BY <1>1 DEF Producing, Notify, Enqueue, EnqueueUnknown, Q!Next
  <1>2. CASE Recovering
    BY <1>2 DEF Recovering, RecoveryKeeps, RecoveryRenewed,
                RecoveryBadPoll
  <1>3. CASE Batching
    <2>1. CASE Settle \/ SettleFails
      BY <2>1, SettleQueue
    <2>2. ASSUME NEW i \in Ids, NextIsolates(i) \/ NextSends(i)
          PROVE  Q!Next \/ UNCHANGED queue
      BY <2>2 DEF NextIsolates, NextSends, Q!Next
    <2>3. CASE NextDrained \/ NextFails \/ SendDone \/ Retain \/ Tell
      BY <2>3 DEF NextDrained, NextFails, SendDone, Retain, Tell, Q!Next
    <2>4. CASE \/ BatchSucceeds("drained") \/ BatchSucceeds("complete") \/ BatchFailedLocally
               \/ BatchUnauthorized \/ BatchRetries
      BY <2>4 DEF BatchSucceeds, BatchFailedLocally, BatchUnauthorized,
                  BatchRetries
    <2> QED BY <1>3, <2>1, <2>2, <2>3, <2>4 DEF Batching
  <1>4. CASE Serving
    BY <1>4 DEF Serving, ServerHandles, Rotate, AnswerLost, RecoveryAnswered,
                RecoveryLost
  <1>5. CASE Crash
    BY <1>5 DEF Crash, Q!Next
  <1>6. CASE \/ RequestStop \/ LoopTop \/ Shutdown \/ Notification \/ TimerFires
             \/ TickRetry \/ TickRecovery \/ Restart
    BY <1>6 DEF RequestStop, LoopTop, Shutdown, Notification, TimerFires, TickRetry,
                TickRecovery, Restart
  <1>7. CASE UNCHANGED vars
    BY <1>7 DEF vars
  <1> QED BY <1>1, <1>2, <1>3, <1>4, <1>5, <1>6, <1>7 DEF Next

\* The queue's own invariant, and what it settles, carry over.
LEMMA QueueIInv ==
  ASSUME TypeOK, BatchData, QP!IInv, [Next]_vars
  PROVE  /\ QP!IInv'
         /\ \A i \in published : \A p \in {"out", "iso"} :
              fate[i] = {p} => fate'[i] = {p}
  <1>1. [QP!Next]_(QP!qvars)
    <2>1. Q!Next \/ UNCHANGED queue
      BY QueueStep
    <2> QED BY <2>1, SameQueue DEF QP!qvars
  <1> QED BY <1>1, QP!StepIInv, QP!StepSettled

-----------------------------------------------------------------------------
(* The control of the worker. *)

\* Types are preserved: producers, channel and loop.
LEMMA LoopTypesStep ==
  ASSUME IInv, [Next]_vars
  PROVE  LoopTypes'
  <1>1. LoopTypes
    BY DEF IInv, TypeOK
  <1>2. CASE Producing
    BY <1>1, <1>2 DEF LoopTypes, Running, Producing, Notify, Enqueue, EnqueueUnknown,
       Fault, Coalesced
  <1>3. CASE RequestStop \/ LoopTop \/ Shutdown
    BY <1>1, <1>3 DEF LoopTypes, Running, RequestStop, LoopTop, Shutdown, DueDelivery,
       DueRecovery, Leave, NoBatch, NoRecovery, Selecting, Idle
  <1>4. CASE Notification \/ TimerFires \/ TickRetry \/ TickRecovery
    BY <1>1, <1>4 DEF LoopTypes, Running, Notification, TimerFires, TickRetry,
       TickRecovery, Selecting, Idle, WakeAtRest
  <1>5. CASE Recovering
    BY <1>1, <1>5 DEF LoopTypes, Running, Recovering, RecoveryKeeps, RecoveryRenewed,
       RecoveryBadPoll, Leave, NoBatch, NoRecovery, Fault, Selecting, Idle, CancelBatch,
       Unblock
  <1>6. CASE Batching
    <2>1. CASE \E i \in Ids : NextIsolates(i) \/ NextSends(i)
      BY <1>1, <2>1 DEF LoopTypes, Running, NextIsolates, NextSends, Polling
    <2>2. CASE NextDrained \/ NextFails \/ SendDone \/ Retain
      BY <1>1, <2>2 DEF LoopTypes, Running, NextDrained, NextFails, SendDone, Retain,
         Fault, DiskError, BatchReady, Polling
    <2>3. CASE Settle \/ SettleFails
      BY <1>1, <2>3 DEF LoopTypes, Running, Settle, SettleFails, Fault, DiskError,
         BatchReady, Polling, StopBatch
    <2>4. CASE Tell
      BY <1>1, <2>4 DEF LoopTypes, Running, Tell, Polling
    <2>5. CASE \/ BatchSucceeds("drained") \/ BatchSucceeds("complete")
               \/ BatchRetries
      BY <1>1, <2>5 DEF LoopTypes, Running, BatchSucceeds, BatchRetries, NoBatch, Polling,
         Finished, RetryAfter, CountsLocalOnly
    <2>6. CASE BatchFailedLocally \/ BatchUnauthorized
      BY <1>1, <2>6 DEF LoopTypes, Running, BatchFailedLocally, BatchUnauthorized, Leave,
         NoBatch, NoRecovery, Polling, Finished
    <2> QED BY <1>6, <2>1, <2>2, <2>3, <2>4, <2>5, <2>6 DEF Batching
  <1>7. CASE Serving
    BY <1>1, <1>7 DEF LoopTypes, Running, Serving, ServerHandles, Rotate, AnswerLost,
       RecoveryAnswered, RecoveryLost, Awaited, Fault
  <1>8. CASE Crash \/ Restart
    BY <1>1, <1>8 DEF LoopTypes, Running, Crash, Restart, NoBatch, NoRecovery,
       FreshProcess
  <1>9. CASE UNCHANGED vars
    BY <1>1, <1>9 DEF LoopTypes, Running, vars
  <1> QED BY <1>2, <1>3, <1>4, <1>5, <1>6, <1>7, <1>8, <1>9 DEF Next

\* Types are preserved: deadlines, recovery and snapshot.
LEMMA DeadlineTypesStep ==
  ASSUME IInv, [Next]_vars
  PROVE  DeadlineTypes'
  <1>1. DeadlineTypes
    BY DEF IInv, TypeOK
  <1>2. MaxStreak \in Nat /\ MaxVersion \in Nat
    BY BoundsAssumption
  <1>3. Running => streak < MaxStreak
    BY DEF IInv, Streak
  <1>4. srv \in Versions
    BY DEF IInv, TypeOK, RemoteTypes
  <1>5. CASE Producing
    BY <1>1, <1>2, <1>3, <1>4, <1>5 DEF DeadlineTypes, Versions, Running, Producing,
       Notify, Enqueue, EnqueueUnknown, Coalesced
  <1>6. CASE RequestStop \/ LoopTop \/ Shutdown
    BY <1>1, <1>2, <1>3, <1>4, <1>6 DEF DeadlineTypes, Versions, Running, RequestStop,
       LoopTop, Shutdown, DueDelivery, DueRecovery, Leave, NoRecovery
  <1>7. CASE Notification \/ TimerFires \/ TickRetry \/ TickRecovery
    BY <1>1, <1>2, <1>3, <1>4, <1>7 DEF DeadlineTypes, Versions, Running, Notification,
       TimerFires, TickRetry, TickRecovery, WakeAtRest
  <1>8. CASE Recovering
    BY <1>1, <1>2, <1>3, <1>4, <1>8 DEF DeadlineTypes, Versions, Running, Recovering,
       RecoveryKeeps, RecoveryRenewed, RecoveryBadPoll, Leave, NoRecovery, CancelBatch,
       Unblock
  <1>9. CASE Batching
    <2>1. CASE \E i \in Ids : NextIsolates(i) \/ NextSends(i)
      BY <1>1, <1>2, <1>3, <1>4, <2>1 DEF DeadlineTypes, Versions, Running, NextIsolates,
         NextSends, Polling
    <2>2. CASE NextDrained \/ NextFails \/ SendDone \/ Retain
      BY <1>1, <1>2, <1>3, <1>4, <2>2 DEF DeadlineTypes, Versions, Running, NextDrained,
         NextFails, SendDone, Retain, Polling
    <2>3. CASE Settle \/ SettleFails
      BY <1>1, <1>2, <1>3, <1>4, <2>3 DEF DeadlineTypes, Versions, Running, Settle,
         SettleFails, Polling, StopBatch
    <2>4. CASE Tell
      BY <1>1, <1>2, <1>3, <1>4, <2>4 DEF DeadlineTypes, Versions, Running, Tell, Polling
    <2>5. CASE \/ BatchSucceeds("drained") \/ BatchSucceeds("complete")
               \/ BatchRetries
      BY <1>1, <1>2, <1>3, <1>4, <2>5 DEF DeadlineTypes, Versions, Running, BatchSucceeds,
         BatchRetries, Polling, Finished, RetryAfter, CountsLocalOnly
    <2>6. CASE BatchFailedLocally \/ BatchUnauthorized
      BY <1>1, <1>2, <1>3, <1>4, <2>6 DEF DeadlineTypes, Versions, Running,
         BatchFailedLocally, BatchUnauthorized, Leave, NoRecovery, Polling, Finished
    <2> QED BY <1>9, <2>1, <2>2, <2>3, <2>4, <2>5, <2>6 DEF Batching
  <1>10. CASE Serving
    BY <1>1, <1>2, <1>3, <1>4, <1>10 DEF DeadlineTypes, Versions, Running, Serving,
       ServerHandles, Rotate, AnswerLost, RecoveryAnswered, RecoveryLost, Awaited
  <1>11. CASE Crash \/ Restart
    BY <1>1, <1>2, <1>3, <1>4, <1>11 DEF DeadlineTypes, Versions, Running, Crash, Restart,
       NoRecovery, FreshProcess
  <1>12. CASE UNCHANGED vars
    BY <1>1, <1>2, <1>3, <1>4, <1>12 DEF DeadlineTypes, Versions, Running, vars
  <1> QED BY <1>5, <1>6, <1>7, <1>8, <1>9, <1>10, <1>11, <1>12 DEF Next

\* Types are preserved: the batch.
LEMMA BatchTypesStep ==
  ASSUME IInv, [Next]_vars
  PROVE  BatchTypes'
  <1>1. BatchTypes /\ BatchData
    BY DEF IInv, TypeOK
  <1>2. BatchMax \in Nat /\ MaxVersion \in Nat
    BY BoundsAssumption
  <1>3. snap \in Versions
    BY DEF IInv, TypeOK, DeadlineTypes
  <1>4. CASE Producing
    BY <1>1, <1>2, <1>3, <1>4 DEF BatchTypes, BatchData, Versions, Answers, Outcomes,
       Producing, Notify, Enqueue, EnqueueUnknown, Coalesced
  <1>5. CASE RequestStop \/ LoopTop \/ Shutdown
    BY <1>1, <1>2, <1>3, <1>5 DEF BatchTypes, BatchData, Versions, Answers, Outcomes,
       RequestStop, LoopTop, Shutdown, DueDelivery, DueRecovery, Leave, NoBatch
  <1>6. CASE Notification \/ TimerFires \/ TickRetry \/ TickRecovery
    BY <1>1, <1>2, <1>3, <1>6 DEF BatchTypes, BatchData, Versions, Answers, Outcomes,
       Notification, TimerFires, TickRetry, TickRecovery, WakeAtRest
  <1>7. CASE Recovering
    BY <1>1, <1>2, <1>3, <1>7 DEF BatchTypes, BatchData, Versions, Answers, Outcomes,
       Recovering, RecoveryKeeps, RecoveryRenewed, RecoveryBadPoll, Leave, NoBatch,
       CancelBatch, Unblock
  <1>8. CASE Batching
    <2>1. CASE \E i \in Ids : NextIsolates(i) \/ NextSends(i)
      BY <1>1, <1>2, <1>3, <2>1 DEF BatchTypes, BatchData, Versions, Answers, Outcomes,
         NextIsolates, NextSends, Polling
    <2>2. CASE NextDrained \/ NextFails \/ SendDone \/ Retain
      BY <1>1, <1>2, <1>3, <2>2 DEF BatchTypes, BatchData, Versions, Answers, Outcomes,
         NextDrained, NextFails, SendDone, Retain, BatchReady, Polling
    <2>3. CASE Settle \/ SettleFails
      BY <1>1, <1>2, <1>3, <2>3 DEF BatchTypes, BatchData, Versions, Answers, Outcomes,
         Settle, SettleFails, BatchReady, Polling, StopBatch
    <2>4. CASE Tell
      BY <1>1, <1>2, <1>3, <2>4 DEF BatchTypes, BatchData, Versions, Answers, Outcomes,
         Tell, Polling
    <2>5. CASE \/ BatchSucceeds("drained") \/ BatchSucceeds("complete")
               \/ BatchRetries
      BY <1>1, <1>2, <1>3, <2>5 DEF BatchTypes, BatchData, Versions, Answers, Outcomes,
         BatchSucceeds, BatchRetries, NoBatch, Polling, Finished, RetryAfter,
         CountsLocalOnly
    <2>6. CASE BatchFailedLocally \/ BatchUnauthorized
      BY <1>1, <1>2, <1>3, <2>6 DEF BatchTypes, BatchData, Versions, Answers, Outcomes,
         BatchFailedLocally, BatchUnauthorized, Leave, NoBatch, Polling, Finished
    <2> QED BY <1>8, <2>1, <2>2, <2>3, <2>4, <2>5, <2>6 DEF Batching
  <1>9. CASE Serving
    BY <1>1, <1>2, <1>3, <1>9 DEF BatchTypes, BatchData, Versions, Answers, Outcomes,
       Serving, ServerHandles, Rotate, AnswerLost, RecoveryAnswered, RecoveryLost, Awaited
  <1>10. CASE Crash \/ Restart
    BY <1>1, <1>2, <1>3, <1>10 DEF BatchTypes, BatchData, Versions, Answers, Outcomes,
       Crash, Restart, NoBatch, FreshProcess
  <1>11. CASE UNCHANGED vars
    BY <1>1, <1>2, <1>3, <1>11 DEF BatchTypes, BatchData, Versions, Answers, Outcomes,
       vars
  <1> QED BY <1>4, <1>5, <1>6, <1>7, <1>8, <1>9, <1>10, <1>11 DEF Next

\* Types are preserved: the counters.
LEMMA CounterTypesStep ==
  ASSUME IInv, [Next]_vars
  PROVE  CounterTypes'
  <1>1. CounterTypes
    BY DEF IInv, TypeOK
  <1>2. MaxFaults \in Nat /\ MaxCrashes \in Nat
    BY BoundsAssumption
  <1>3. diskErrors <= faults
    BY DEF IInv, Streak
  <1>4. CASE Producing
    <2>1. ASSUME NEW p \in Producers, Notify(p)
         PROVE  CounterTypes'
      BY <1>1, <1>2, <1>3, <2>1 DEF CounterTypes, Notify, Coalesced
    <2>2. ASSUME NEW p \in Producers, NEW i \in Ids, Enqueue(p, i)
         PROVE  CounterTypes'
      BY <1>1, <1>2, <1>3, <2>2 DEF CounterTypes, Enqueue
    <2>3. ASSUME NEW p \in Producers, NEW i \in Ids, EnqueueUnknown(p, i)
         PROVE  CounterTypes'
      BY <1>1, <1>2, <1>3, <2>3 DEF CounterTypes, EnqueueUnknown, Fault
    <2> QED BY <1>4, <2>1, <2>2, <2>3 DEF Producing
  <1>5. CASE RequestStop \/ LoopTop \/ Shutdown
    BY <1>1, <1>2, <1>3, <1>5 DEF CounterTypes, RequestStop, LoopTop, Shutdown,
       DueDelivery, DueRecovery
  <1>6. CASE Notification \/ TimerFires \/ TickRetry \/ TickRecovery
    BY <1>1, <1>2, <1>3, <1>6 DEF CounterTypes, Notification, TimerFires, TickRetry,
       TickRecovery, WakeAtRest
  <1>7. CASE Recovering
    BY <1>1, <1>2, <1>3, <1>7 DEF CounterTypes, Recovering, RecoveryKeeps,
       RecoveryRenewed, RecoveryBadPoll, Fault, CancelBatch, Unblock
  <1>8. CASE Batching
    <2>1. CASE \E i \in Ids : NextIsolates(i) \/ NextSends(i)
      BY <1>1, <1>2, <1>3, <2>1 DEF CounterTypes, NextIsolates, NextSends
    <2>2. CASE NextDrained \/ NextFails \/ SendDone \/ Retain
      BY <1>1, <1>2, <1>3, <2>2 DEF CounterTypes, NextDrained, NextFails, SendDone,
         Retain, Fault, DiskError
    <2>3. CASE Settle \/ SettleFails
      BY <1>1, <1>2, <1>3, <2>3 DEF CounterTypes, Settle, SettleFails, Fault, DiskError,
         StopBatch
    <2>4. CASE Tell
      BY <1>1, <1>2, <1>3, <2>4 DEF CounterTypes, Tell
    <2>5. CASE \/ BatchSucceeds("drained") \/ BatchSucceeds("complete")
               \/ BatchRetries
      BY <1>1, <1>2, <1>3, <2>5 DEF CounterTypes, BatchSucceeds, BatchRetries, RetryAfter,
         CountsLocalOnly
    <2>6. CASE BatchFailedLocally \/ BatchUnauthorized
      BY <1>1, <1>2, <1>3, <2>6 DEF CounterTypes, BatchFailedLocally, BatchUnauthorized
    <2> QED BY <1>8, <2>1, <2>2, <2>3, <2>4, <2>5, <2>6 DEF Batching
  <1>9. CASE Serving
    BY <1>1, <1>2, <1>3, <1>9 DEF CounterTypes, Serving, ServerHandles, Rotate,
       AnswerLost, RecoveryAnswered, RecoveryLost, Awaited, Fault
  <1>10. CASE Crash \/ Restart
    BY <1>1, <1>2, <1>3, <1>10 DEF CounterTypes, Crash, Restart, FreshProcess
  <1>11. CASE UNCHANGED vars
    BY <1>1, <1>2, <1>3, <1>11 DEF CounterTypes, vars
  <1> QED BY <1>4, <1>5, <1>6, <1>7, <1>8, <1>9, <1>10, <1>11 DEF Next

\* Types are preserved: the server, the network and the callbacks.
LEMMA RemoteTypesStep ==
  ASSUME IInv, [Next]_vars
  PROVE  RemoteTypes'
  <1>1. BatchTypes /\ RemoteTypes /\ BatchData
    BY DEF IInv, TypeOK
  <1>2. MaxVersion \in Nat
    BY BoundsAssumption
  <1>3. CASE Producing
    BY <1>1, <1>2, <1>3 DEF BatchTypes, RemoteTypes, BatchData, Versions, Callbacks,
       CallbackFor, Producing, Notify, Enqueue, EnqueueUnknown, Fault, Coalesced
  <1>4. CASE RequestStop \/ LoopTop \/ Shutdown
    BY <1>1, <1>2, <1>4 DEF BatchTypes, RemoteTypes, BatchData, Versions, Callbacks,
       CallbackFor, RequestStop, LoopTop, Shutdown, DueDelivery, DueRecovery, Leave,
       NoBatch, NoRecovery, Selecting, Idle
  <1>5. CASE Notification \/ TimerFires \/ TickRetry \/ TickRecovery
    BY <1>1, <1>2, <1>5 DEF BatchTypes, RemoteTypes, BatchData, Versions, Callbacks,
       CallbackFor, Notification, TimerFires, TickRetry, TickRecovery, Selecting, Idle,
       WakeAtRest
  <1>6. CASE Recovering
    BY <1>1, <1>2, <1>6 DEF BatchTypes, RemoteTypes, BatchData, Versions, Callbacks,
       CallbackFor, Recovering, RecoveryKeeps, RecoveryRenewed, RecoveryBadPoll, Leave,
       NoBatch, NoRecovery, Fault, Selecting, Idle, CancelBatch, Unblock
  <1>7. CASE Batching
    <2>1. CASE \E i \in Ids : NextIsolates(i) \/ NextSends(i)
      BY <1>1, <1>2, <2>1 DEF BatchTypes, RemoteTypes, BatchData, Versions, Callbacks,
         CallbackFor, NextIsolates, NextSends, Polling
    <2>2. CASE NextDrained \/ NextFails \/ SendDone \/ Retain
      BY <1>1, <1>2, <2>2 DEF BatchTypes, RemoteTypes, BatchData, Versions, Callbacks,
         CallbackFor, NextDrained, NextFails, SendDone, Retain, Fault, DiskError,
         BatchReady, Polling
    <2>3. CASE Settle \/ SettleFails
      BY <1>1, <1>2, <2>3 DEF BatchTypes, RemoteTypes, BatchData, Versions, Callbacks,
         CallbackFor, Settle, SettleFails, Fault, DiskError, BatchReady, Polling,
         StopBatch
    <2>4. CASE Tell
      BY <1>1, <1>2, <2>4 DEF BatchTypes, RemoteTypes, BatchData, Versions, Callbacks,
         CallbackFor, Tell, Polling
    <2>5. CASE \/ BatchSucceeds("drained") \/ BatchSucceeds("complete")
               \/ BatchRetries
      BY <1>1, <1>2, <2>5 DEF BatchTypes, RemoteTypes, BatchData, Versions, Callbacks,
         CallbackFor, BatchSucceeds, BatchRetries, NoBatch, Polling, Finished, RetryAfter,
         CountsLocalOnly
    <2>6. CASE BatchFailedLocally \/ BatchUnauthorized
      BY <1>1, <1>2, <2>6 DEF BatchTypes, RemoteTypes, BatchData, Versions, Callbacks,
         CallbackFor, BatchFailedLocally, BatchUnauthorized, Leave, NoBatch, NoRecovery,
         Polling, Finished
    <2> QED BY <1>7, <2>1, <2>2, <2>3, <2>4, <2>5, <2>6 DEF Batching
  <1>8. CASE Serving
    BY <1>1, <1>2, <1>8 DEF BatchTypes, RemoteTypes, BatchData, Versions, Callbacks,
       CallbackFor, Serving, ServerHandles, Rotate, AnswerLost, RecoveryAnswered,
       RecoveryLost, Awaited, Fault
  <1>9. CASE Crash \/ Restart
    BY <1>1, <1>2, <1>9 DEF BatchTypes, RemoteTypes, BatchData, Versions, Callbacks,
       CallbackFor, Crash, Restart, NoBatch, NoRecovery, FreshProcess
  <1>10. CASE UNCHANGED vars
    BY <1>1, <1>2, <1>10 DEF BatchTypes, RemoteTypes, BatchData, Versions, Callbacks,
       CallbackFor, vars
  <1> QED BY <1>3, <1>4, <1>5, <1>6, <1>7, <1>8, <1>9, <1>10 DEF Next

\* A batch is started only when nothing forbids it, and cancelled when something
\* it depends on changes.
LEMMA BatchRunsStep ==
  ASSUME IInv, [Next]_vars
  PROVE  BatchRuns'
  <1>1. BatchRuns /\ BatchData
    BY DEF IInv, TypeOK
  <1>2. CASE Producing
    BY <1>1, <1>2 DEF BatchRuns, BatchData, Running, Producing, Notify, Enqueue,
       EnqueueUnknown, Fault, Coalesced
  <1>3. CASE RequestStop \/ LoopTop \/ Shutdown
    BY <1>1, <1>3 DEF BatchRuns, BatchData, Running, RequestStop, LoopTop, Shutdown,
       DueDelivery, DueRecovery, Leave, NoBatch, NoRecovery, Selecting, Idle
  <1>4. CASE Notification \/ TimerFires \/ TickRetry \/ TickRecovery
    BY <1>1, <1>4 DEF BatchRuns, BatchData, Running, Notification, TimerFires, TickRetry,
       TickRecovery, Selecting, Idle, WakeAtRest
  <1>5. CASE Recovering
    BY <1>1, <1>5 DEF BatchRuns, BatchData, Running, Recovering, RecoveryKeeps,
       RecoveryRenewed, RecoveryBadPoll, Leave, NoBatch, NoRecovery, Fault, Selecting,
       Idle, CancelBatch, Unblock
  <1>6. CASE Batching
    <2>1. CASE \E i \in Ids : NextIsolates(i) \/ NextSends(i)
      BY <1>1, <2>1 DEF BatchRuns, BatchData, Running, NextIsolates, NextSends, Polling
    <2>2. CASE NextDrained \/ NextFails \/ SendDone \/ Retain
      BY <1>1, <2>2 DEF BatchRuns, BatchData, Running, NextDrained, NextFails, SendDone,
         Retain, Fault, DiskError, BatchReady, Polling
    <2>3. CASE Settle \/ SettleFails
      BY <1>1, <2>3 DEF BatchRuns, BatchData, Running, Settle, SettleFails, Fault,
         DiskError, BatchReady, Polling, StopBatch
    <2>4. CASE Tell
      BY <1>1, <2>4 DEF BatchRuns, BatchData, Running, Tell, Polling
    <2>5. CASE \/ BatchSucceeds("drained") \/ BatchSucceeds("complete")
               \/ BatchRetries
      BY <1>1, <2>5 DEF BatchRuns, BatchData, Running, BatchSucceeds, BatchRetries,
         NoBatch, Polling, Finished, RetryAfter, CountsLocalOnly
    <2>6. CASE BatchFailedLocally \/ BatchUnauthorized
      BY <1>1, <2>6 DEF BatchRuns, BatchData, Running, BatchFailedLocally,
         BatchUnauthorized, Leave, NoBatch, NoRecovery, Polling, Finished
    <2> QED BY <1>6, <2>1, <2>2, <2>3, <2>4, <2>5, <2>6 DEF Batching
  <1>7. CASE Serving
    BY <1>1, <1>7 DEF BatchRuns, BatchData, Running, Serving, ServerHandles, Rotate,
       AnswerLost, RecoveryAnswered, RecoveryLost, Awaited, Fault
  <1>8. CASE Crash \/ Restart
    BY <1>1, <1>8 DEF BatchRuns, BatchData, Running, Crash, Restart, NoBatch, NoRecovery,
       FreshProcess
  <1>9. CASE UNCHANGED vars
    BY <1>1, <1>9 DEF BatchRuns, BatchData, Running, vars
  <1> QED BY <1>2, <1>3, <1>4, <1>5, <1>6, <1>7, <1>8, <1>9 DEF Next

\* Every await of the batch keeps what it needs.
LEMMA BatchDataStep ==
  ASSUME IInv, [Next]_vars
  PROVE  BatchData'
  <1>1. BatchTypes /\ BatchRuns /\ BatchData
    BY DEF IInv, TypeOK
  <1>2. BatchMax \in Nat \ {0} /\ None \notin Ids
    BY BoundsAssumption, IdsAssumption
  <1>3. CASE Producing
    BY <1>1, <1>2, <1>3 DEF BatchTypes, BatchRuns, BatchData, Running, Outcomes,
       Producing, Notify, Enqueue, EnqueueUnknown, Fault, Coalesced
  <1>4. CASE RequestStop \/ LoopTop \/ Shutdown
    BY <1>1, <1>2, <1>4 DEF BatchTypes, BatchRuns, BatchData, Running, Outcomes,
       RequestStop, LoopTop, Shutdown, DueDelivery, DueRecovery, Leave, NoBatch,
       NoRecovery, Selecting, Idle
  <1>5. CASE Notification \/ TimerFires \/ TickRetry \/ TickRecovery
    BY <1>1, <1>2, <1>5 DEF BatchTypes, BatchRuns, BatchData, Running, Outcomes,
       Notification, TimerFires, TickRetry, TickRecovery, Selecting, Idle, WakeAtRest
  <1>6. CASE Recovering
    BY <1>1, <1>2, <1>6 DEF BatchTypes, BatchRuns, BatchData, Running, Outcomes,
       Recovering, RecoveryKeeps, RecoveryRenewed, RecoveryBadPoll, Leave, NoBatch,
       NoRecovery, Fault, Selecting, Idle, CancelBatch, Unblock
  <1>7. CASE Batching
    <2>1. CASE \E i \in Ids : NextIsolates(i) \/ NextSends(i)
      BY <1>1, <1>2, <2>1 DEF BatchTypes, BatchRuns, BatchData, Running, Outcomes,
         NextIsolates, NextSends, Polling
    <2>2. CASE NextDrained \/ NextFails \/ SendDone \/ Retain
      BY <1>1, <1>2, <2>2 DEF BatchTypes, BatchRuns, BatchData, Running, Outcomes,
         NextDrained, NextFails, SendDone, Retain, Fault, DiskError, BatchReady, Polling
    <2>3. CASE Settle \/ SettleFails
      BY <1>1, <1>2, <2>3 DEF BatchTypes, BatchRuns, BatchData, Running, Outcomes, Settle,
         SettleFails, Fault, DiskError, BatchReady, Polling, StopBatch
    <2>4. CASE Tell
      BY <1>1, <1>2, <2>4 DEF BatchTypes, BatchRuns, BatchData, Running, Outcomes, Tell,
         Polling
    <2>5. CASE \/ BatchSucceeds("drained") \/ BatchSucceeds("complete")
               \/ BatchRetries
      BY <1>1, <1>2, <2>5 DEF BatchTypes, BatchRuns, BatchData, Running, Outcomes,
         BatchSucceeds, BatchRetries, NoBatch, Polling, Finished, RetryAfter,
         CountsLocalOnly
    <2>6. CASE BatchFailedLocally \/ BatchUnauthorized
      BY <1>1, <1>2, <2>6 DEF BatchTypes, BatchRuns, BatchData, Running, Outcomes,
         BatchFailedLocally, BatchUnauthorized, Leave, NoBatch, NoRecovery, Polling,
         Finished
    <2> QED BY <1>7, <2>1, <2>2, <2>3, <2>4, <2>5, <2>6 DEF Batching
  <1>8. CASE Serving
    BY <1>1, <1>2, <1>8 DEF BatchTypes, BatchRuns, BatchData, Running, Outcomes, Serving,
       ServerHandles, Rotate, AnswerLost, RecoveryAnswered, RecoveryLost, Awaited, Fault
  <1>9. CASE Crash \/ Restart
    BY <1>1, <1>2, <1>9 DEF BatchTypes, BatchRuns, BatchData, Running, Outcomes, Crash,
       Restart, NoBatch, NoRecovery, FreshProcess
  <1>10. CASE UNCHANGED vars
    BY <1>1, <1>2, <1>10 DEF BatchTypes, BatchRuns, BatchData, Running, Outcomes, vars
  <1> QED BY <1>3, <1>4, <1>5, <1>6, <1>7, <1>8, <1>9, <1>10 DEF Next


-----------------------------------------------------------------------------
(* Failures, credentials, wake-ups. *)

\* Only a failed queue operation lengthens the streak.
LEMMA StreakStep ==
  ASSUME IInv, [Next]_vars
  PROVE  Streak'
  <1>1. Streak
    BY DEF IInv, TypeOK
  <1>2. /\ streak \in Nat /\ diskErrors \in Nat /\ faults \in Nat
        /\ MaxStreak \in Nat \ {0}
    BY BoundsAssumption DEF IInv, TypeOK, DeadlineTypes, CounterTypes
  <1>3. CASE Producing
    <2>1. ASSUME NEW p \in Producers, Notify(p)
         PROVE  Streak'
      BY <1>1, <1>2, <2>1 DEF Streak, Running, Notify, Coalesced
    <2>2. ASSUME NEW p \in Producers, NEW i \in Ids, Enqueue(p, i)
         PROVE  Streak'
      BY <1>1, <1>2, <2>2 DEF Streak, Running, Enqueue
    <2>3. ASSUME NEW p \in Producers, NEW i \in Ids, EnqueueUnknown(p, i)
         PROVE  Streak'
      BY <1>1, <1>2, <2>3 DEF Streak, Running, EnqueueUnknown, Fault
    <2> QED BY <1>3, <2>1, <2>2, <2>3 DEF Producing
  <1>4. CASE RequestStop \/ LoopTop \/ Shutdown
    BY <1>1, <1>2, <1>4 DEF Streak, Running, RequestStop, LoopTop, Shutdown, DueDelivery,
       DueRecovery, Leave, NoBatch, Selecting
  <1>5. CASE Notification \/ TimerFires \/ TickRetry \/ TickRecovery
    BY <1>1, <1>2, <1>5 DEF Streak, Running, Notification, TimerFires, TickRetry,
       TickRecovery, Selecting, WakeAtRest
  <1>6. CASE Recovering
    BY <1>1, <1>2, <1>6 DEF Streak, Running, Recovering, RecoveryKeeps, RecoveryRenewed,
       RecoveryBadPoll, Leave, NoBatch, Fault, Selecting, CancelBatch, Unblock
  <1>7. CASE Batching
    <2>1. CASE \E i \in Ids : NextIsolates(i) \/ NextSends(i)
      BY <1>1, <1>2, <2>1 DEF Streak, Running, NextIsolates, NextSends, Polling
    <2>2. CASE NextDrained \/ NextFails \/ SendDone \/ Retain
      BY <1>1, <1>2, <2>2 DEF Streak, Running, NextDrained, NextFails, SendDone, Retain,
         Fault, DiskError, BatchReady, Polling
    <2>3. CASE Settle \/ SettleFails
      BY <1>1, <1>2, <2>3 DEF Streak, Running, Settle, SettleFails, Fault, DiskError,
         BatchReady, Polling, StopBatch
    <2>4. CASE Tell
      BY <1>1, <1>2, <2>4 DEF Streak, Running, Tell, Polling
    <2>5. CASE \/ BatchSucceeds("drained") \/ BatchSucceeds("complete")
               \/ BatchRetries
      BY <1>1, <1>2, <2>5 DEF Streak, Running, BatchSucceeds, BatchRetries, NoBatch,
         Polling, Finished, RetryAfter, CountsLocalOnly
    <2>6. CASE BatchFailedLocally \/ BatchUnauthorized
      BY <1>1, <1>2, <2>6 DEF Streak, Running, BatchFailedLocally, BatchUnauthorized,
         Leave, NoBatch, Polling, Finished
    <2> QED BY <1>7, <2>1, <2>2, <2>3, <2>4, <2>5, <2>6 DEF Batching
  <1>8. CASE Serving
    BY <1>1, <1>2, <1>8 DEF Streak, Running, Serving, ServerHandles, Rotate, AnswerLost,
       RecoveryAnswered, RecoveryLost, Awaited, Fault
  <1>9. CASE Crash \/ Restart
    BY <1>1, <1>2, <1>9 DEF Streak, Running, Crash, Restart, NoBatch, FreshProcess
  <1>10. CASE UNCHANGED vars
    BY <1>1, <1>2, <1>10 DEF Streak, Running, vars
  <1> QED BY <1>3, <1>4, <1>5, <1>6, <1>7, <1>8, <1>9, <1>10 DEF Next

\* Only the answer of a server that has retired the installed snapshot blocks
\* delivery, and only until the next snapshot is installed.
LEMMA VersionedStep ==
  ASSUME IInv, [Next]_vars
  PROVE  Versioned'
  <1>1. BatchRuns /\ Versioned
    BY DEF IInv, TypeOK
  <1>2. /\ snap \in Nat /\ rver \in Nat
        /\ srv \in Nat /\ bsnap \in Nat
    BY BoundsAssumption DEF IInv, TypeOK, DeadlineTypes, BatchTypes, RemoteTypes, Versions
  <1>3. CASE Producing
    <2>1. ASSUME NEW p \in Producers, Notify(p)
         PROVE  Versioned'
      BY <1>1, <1>2, <2>1 DEF BatchRuns, Versioned, Running, Notify, Coalesced
    <2>2. ASSUME NEW p \in Producers, NEW i \in Ids, Enqueue(p, i)
         PROVE  Versioned'
      BY <1>1, <1>2, <2>2 DEF BatchRuns, Versioned, Running, Enqueue
    <2>3. ASSUME NEW p \in Producers, NEW i \in Ids, EnqueueUnknown(p, i)
         PROVE  Versioned'
      BY <1>1, <1>2, <2>3 DEF BatchRuns, Versioned, Running, EnqueueUnknown
    <2> QED BY <1>3, <2>1, <2>2, <2>3 DEF Producing
  <1>4. CASE RequestStop \/ LoopTop \/ Shutdown
    BY <1>1, <1>2, <1>4 DEF BatchRuns, Versioned, Running, RequestStop, LoopTop, Shutdown,
       DueDelivery, DueRecovery, Leave, NoBatch, NoRecovery, Selecting, Idle
  <1>5. CASE Notification \/ TimerFires \/ TickRetry \/ TickRecovery
    BY <1>1, <1>2, <1>5 DEF BatchRuns, Versioned, Running, Notification, TimerFires,
       TickRetry, TickRecovery, Selecting, Idle, WakeAtRest
  <1>6. CASE Recovering
    BY <1>1, <1>2, <1>6 DEF BatchRuns, Versioned, Running, Recovering, RecoveryKeeps,
       RecoveryRenewed, RecoveryBadPoll, Leave, NoBatch, NoRecovery, Selecting, Idle,
       CancelBatch, Unblock
  <1>7. CASE Batching
    <2>1. CASE \E i \in Ids : NextIsolates(i) \/ NextSends(i)
      BY <1>1, <1>2, <2>1 DEF BatchRuns, Versioned, Running, NextIsolates, NextSends,
         Polling
    <2>2. CASE NextDrained \/ NextFails \/ SendDone \/ Retain
      BY <1>1, <1>2, <2>2 DEF BatchRuns, Versioned, Running, NextDrained, NextFails,
         SendDone, Retain, BatchReady, Polling
    <2>3. CASE Settle \/ SettleFails
      BY <1>1, <1>2, <2>3 DEF BatchRuns, Versioned, Running, Settle, SettleFails,
         BatchReady, Polling, StopBatch
    <2>4. CASE Tell
      BY <1>1, <1>2, <2>4 DEF BatchRuns, Versioned, Running, Tell, Polling
    <2>5. CASE \/ BatchSucceeds("drained") \/ BatchSucceeds("complete")
               \/ BatchRetries
      BY <1>1, <1>2, <2>5 DEF BatchRuns, Versioned, Running, BatchSucceeds, BatchRetries,
         NoBatch, Polling, Finished, RetryAfter, CountsLocalOnly
    <2>6. CASE BatchFailedLocally \/ BatchUnauthorized
      BY <1>1, <1>2, <2>6 DEF BatchRuns, Versioned, Running, BatchFailedLocally,
         BatchUnauthorized, Leave, NoBatch, NoRecovery, Polling, Finished
    <2> QED BY <1>7, <2>1, <2>2, <2>3, <2>4, <2>5, <2>6 DEF Batching
  <1>8. CASE Serving
    BY <1>1, <1>2, <1>8 DEF BatchRuns, Versioned, Running, Serving, ServerHandles, Rotate,
       AnswerLost, RecoveryAnswered, RecoveryLost, Awaited
  <1>9. CASE Crash \/ Restart
    BY <1>1, <1>2, <1>9 DEF BatchRuns, Versioned, Running, Crash, Restart, NoBatch,
       NoRecovery, FreshProcess
  <1>10. CASE UNCHANGED vars
    BY <1>1, <1>2, <1>10 DEF BatchRuns, Versioned, Running, vars
  <1> QED BY <1>3, <1>4, <1>5, <1>6, <1>7, <1>8, <1>9, <1>10 DEF Next

\* A promise is made with a wake-up to follow; a wake-up taken at rest makes
\* delivery due.
LEMMA AwakeStep ==
  ASSUME IInv, [Next]_vars
  PROVE  Awake'
  <1>1. BatchRuns /\ BatchData /\ Awake
    BY DEF IInv, TypeOK
  <1>2. /\ view \in [Ids -> Q!Places] /\ promised \subseteq published
        /\ published \subseteq Ids
    BY DEF IInv, TypeOK, Q!TypeOK, QP!IInv, QP!Known
  <1>3. prod \in [Producers -> {"idle", "notify"}] /\ chan \in {0, 1}
    BY DEF IInv, TypeOK, LoopTypes
  <1>4. CASE Producing
    <2>1. ASSUME NEW p \in Producers, Notify(p)
         PROVE  Awake'
      BY <1>1, <1>2, <1>3, <2>1 DEF BatchRuns, BatchData, Awake, WorkLeft, Running,
         Notify, Coalesced
    <2>2. ASSUME NEW p \in Producers, NEW i \in Ids, Enqueue(p, i)
         PROVE  Awake'
      BY <1>1, <1>2, <1>3, <2>2 DEF BatchRuns, BatchData, Awake, WorkLeft, Running,
         Enqueue, Q!Synced
    <2>3. ASSUME NEW p \in Producers, NEW i \in Ids, EnqueueUnknown(p, i)
         PROVE  Awake'
      BY <1>1, <1>2, <1>3, <2>3 DEF BatchRuns, BatchData, Awake, WorkLeft, Running,
         EnqueueUnknown, Q!Unsynced
    <2> QED BY <1>4, <2>1, <2>2, <2>3 DEF Producing
  <1>5. CASE RequestStop \/ LoopTop \/ Shutdown
    BY <1>1, <1>2, <1>3, <1>5 DEF BatchRuns, BatchData, Awake, WorkLeft, Running,
       RequestStop, LoopTop, Shutdown, DueDelivery, DueRecovery, Leave, NoBatch,
       NoRecovery, Selecting, Idle
  <1>6. CASE Notification \/ TimerFires \/ TickRetry \/ TickRecovery
    BY <1>1, <1>2, <1>3, <1>6 DEF BatchRuns, BatchData, Awake, WorkLeft, Running,
       Notification, TimerFires, TickRetry, TickRecovery, Selecting, Idle, WakeAtRest
  <1>7. CASE Recovering
    BY <1>1, <1>2, <1>3, <1>7 DEF BatchRuns, BatchData, Awake, WorkLeft, Running,
       Recovering, RecoveryKeeps, RecoveryRenewed, RecoveryBadPoll, Leave, NoBatch,
       NoRecovery, Selecting, Idle, CancelBatch, Unblock
  <1>8. CASE Batching
    <2>1. CASE \E i \in Ids : NextIsolates(i) \/ NextSends(i)
      BY <1>1, <1>2, <1>3, <2>1 DEF BatchRuns, BatchData, Awake, WorkLeft, Running,
         NextIsolates, NextSends, Polling
    <2>2. CASE NextDrained \/ NextFails \/ SendDone \/ Retain
      <3>1. CASE NextDrained
        BY <1>1, <1>2, <1>3, <3>1 DEF BatchRuns, BatchData, Awake, WorkLeft, Running,
           NextDrained, BatchReady, Polling, Pending
      <3>2. CASE NextFails
        BY <1>1, <1>2, <1>3, <3>2 DEF BatchRuns, BatchData, Awake, WorkLeft, Running,
           NextFails, BatchReady, Polling
      <3>3. CASE SendDone
        BY <1>1, <1>2, <1>3, <3>3 DEF BatchRuns, BatchData, Awake, WorkLeft, Running,
           SendDone, Polling
      <3>4. CASE Retain
        BY <1>1, <1>2, <1>3, <3>4 DEF BatchRuns, BatchData, Awake, WorkLeft, Running,
           Retain, BatchReady, Polling
      <3> QED BY <2>2, <3>1, <3>2, <3>3, <3>4
    <2>3. CASE Settle \/ SettleFails
      BY <1>1, <1>2, <1>3, <2>3 DEF BatchRuns, BatchData, Awake, WorkLeft, Running,
         Settle, SettleFails, BatchReady, Polling, StopBatch
    <2>4. CASE Tell
      BY <1>1, <1>2, <1>3, <2>4 DEF BatchRuns, BatchData, Awake, WorkLeft, Running, Tell,
         Polling
    <2>5. CASE \/ BatchSucceeds("drained") \/ BatchSucceeds("complete")
               \/ BatchRetries
      BY <1>1, <1>2, <1>3, <2>5 DEF BatchRuns, BatchData, Awake, WorkLeft, Running,
         BatchSucceeds, BatchRetries, NoBatch, Polling, Finished, RetryAfter,
         CountsLocalOnly
    <2>6. CASE BatchFailedLocally \/ BatchUnauthorized
      BY <1>1, <1>2, <1>3, <2>6 DEF BatchRuns, BatchData, Awake, WorkLeft, Running,
         BatchFailedLocally, BatchUnauthorized, Leave, NoBatch, NoRecovery, Polling,
         Finished
    <2> QED BY <1>8, <2>1, <2>2, <2>3, <2>4, <2>5, <2>6 DEF Batching
  <1>9. CASE Serving
    BY <1>1, <1>2, <1>3, <1>9 DEF BatchRuns, BatchData, Awake, WorkLeft, Running, Serving,
       ServerHandles, Rotate, AnswerLost, RecoveryAnswered, RecoveryLost, Awaited
  <1>10. CASE Crash \/ Restart
    BY <1>1, <1>2, <1>3, <1>10 DEF BatchRuns, BatchData, Awake, WorkLeft, Running, Crash,
       Restart, NoBatch, NoRecovery, FreshProcess
  <1>11. CASE UNCHANGED vars
    BY <1>1, <1>2, <1>3, <1>11 DEF BatchRuns, BatchData, Awake, WorkLeft, Running, vars
  <1> QED BY <1>4, <1>5, <1>6, <1>7, <1>8, <1>9, <1>10, <1>11 DEF Next


-----------------------------------------------------------------------------
(* Records, answers and callbacks. *)

\* The queue as the worker's steps may rely on it.
LEMMA QueueFacts ==
  ASSUME IInv
  PROVE  /\ view \in [Ids -> Q!Places] /\ fate \in [Ids -> SUBSET Q!Places]
         /\ published \subseteq Ids /\ promised \subseteq published
         /\ \A i \in Ids : view[i] \in fate[i]
         /\ \A i \in Ids : view[i] = "in" => i \in published
  BY DEF IInv, TypeOK, Q!TypeOK, QP!IInv, QP!Known, QP!ViewIsAFate

\* A producer disturbs no record that is already there.
LEMMA ProducersAdd ==
  ASSUME IInv, Producing, NEW j \in published
  PROVE  view'[j] = view[j] /\ fate'[j] \subseteq fate[j] /\ j \in published'
  <1>1. view[j] \in fate[j] /\ view \in [Ids -> Q!Places] /\ fate \in [Ids -> SUBSET Q!Places]
        /\ published \subseteq Ids
    BY QueueFacts
  <1>2. ASSUME NEW p \in Producers, NEW i \in Ids, Enqueue(p, i) \/ EnqueueUnknown(p, i)
        PROVE  i # j /\ published' = published \cup {i}
    BY <1>2 DEF Enqueue, EnqueueUnknown, Q!Publish
  <1>3. ASSUME NEW p \in Producers, NEW i \in Ids, Enqueue(p, i) \/ EnqueueUnknown(p, i)
        PROVE  view'[j] = view[j] /\ fate'[j] \subseteq fate[j]
    BY <1>1, <1>2, <1>3 DEF Enqueue, EnqueueUnknown, Q!Synced, Q!Unsynced
  <1> QED BY <1>2, <1>3 DEF Producing, Notify

\* Disposing of the item takes it to the place its answer asks for.
LEMMA SettlePlace ==
  ASSUME IInv, Settle
  PROVE  /\ item \in Ids /\ view[item] = "in" /\ item \in published'
         /\ fate'[item] = IF answer = "mismatch" THEN {"iso"} ELSE {"out"}
         /\ \A i \in Ids \ {item} : fate'[i] \subseteq fate[i]
  <1>1. item \in Ids /\ answer \in {"ok", "refused", "mismatch"} /\ view[item] = "in"
    BY DEF IInv, TypeOK, BatchTypes, BatchData, AnswerMeans, Settle, Polling
  <1>2. PICK v : /\ v = [view EXCEPT ![item] = IF answer = "mismatch" THEN "iso" ELSE "out"]
                 /\ view' = v /\ published' = published
    BY <1>1 DEF Settle, Dispose, Q!Remove, Q!Isolate, Q!Leave, Q!Change, Q!Synced,
       Q!Unsynced
  <1>3. fate' = [i \in Ids |-> {view'[i]}]
    BY DEF Settle, Q!Synced
  <1> QED BY <1>1, <1>2, <1>3, QueueFacts

\* A record that is sent is in the queue and has not been reported before.
LEMMA SentIsFresh ==
  ASSUME IInv, NEW i \in Ids, NextSends(i)
  PROVE  view[i] = "in" /\ told[i] = {}
  <1>1. view[i] = "in"
    BY DEF NextSends, IsHead, Pending
  <1>2. "in" \in fate[i]
    BY <1>1, QueueFacts
  <1> QED BY <1>1, <1>2 DEF IInv, ToldSettled

\* The item keeps its place and its answer its meaning up to the callback.
LEMMA AnswerMeansStep ==
  ASSUME IInv, [Next]_vars
  PROVE  AnswerMeans'
  <1>1. BatchTypes /\ RemoteTypes /\ BatchData /\ AnswerMeans
    BY DEF IInv, TypeOK
  <1>2. \A i \in published : \A p \in {"out", "iso"} :
          fate[i] = {p} => fate'[i] = {p}
    BY QueueIInv DEF IInv
  <1>3. None \notin Ids /\ published \subseteq Ids
    BY IdsAssumption, QueueFacts
  <1>4. item \in Ids /\ view[item] = "in" => item \in published
    BY QueueFacts
  <1>5. CASE Producing
    <2>0. \A j \in published : view'[j] = view[j] /\ j \in published'
      BY <1>5, ProducersAdd
    <2>1. ASSUME NEW p \in Producers, Notify(p)
         PROVE  AnswerMeans'
      BY <1>1, <1>2, <1>3, <1>4, <2>1, <2>0 DEF BatchTypes, RemoteTypes, BatchData,
         AnswerMeans, Notify, Coalesced
    <2>2. ASSUME NEW p \in Producers, NEW i \in Ids, Enqueue(p, i)
         PROVE  AnswerMeans'
      BY <1>1, <1>2, <1>3, <1>4, <2>2, <2>0 DEF BatchTypes, RemoteTypes, BatchData,
         AnswerMeans, Enqueue
    <2>3. ASSUME NEW p \in Producers, NEW i \in Ids, EnqueueUnknown(p, i)
         PROVE  AnswerMeans'
      BY <1>1, <1>2, <1>3, <1>4, <2>3, <2>0 DEF BatchTypes, RemoteTypes, BatchData,
         AnswerMeans, EnqueueUnknown
    <2> QED BY <1>5, <2>1, <2>2, <2>3 DEF Producing
  <1>6. CASE RequestStop \/ LoopTop \/ Shutdown
    BY <1>1, <1>2, <1>3, <1>4, <1>6 DEF BatchTypes, RemoteTypes, BatchData, AnswerMeans,
       RequestStop, LoopTop, Shutdown, DueDelivery, DueRecovery, Leave, NoBatch,
       Selecting, Idle
  <1>7. CASE Notification \/ TimerFires \/ TickRetry \/ TickRecovery
    BY <1>1, <1>2, <1>3, <1>4, <1>7 DEF BatchTypes, RemoteTypes, BatchData, AnswerMeans,
       Notification, TimerFires, TickRetry, TickRecovery, Selecting, Idle, WakeAtRest
  <1>8. CASE Recovering
    BY <1>1, <1>2, <1>3, <1>4, <1>8 DEF BatchTypes, RemoteTypes, BatchData, AnswerMeans,
       Recovering, RecoveryKeeps, RecoveryRenewed, RecoveryBadPoll, Leave, NoBatch,
       Selecting, Idle, CancelBatch, Unblock
  <1>9. CASE Batching
    <2>1. CASE \E i \in Ids : NextIsolates(i) \/ NextSends(i)
      <3>1. ASSUME NEW i \in Ids, NextIsolates(i)
           PROVE  AnswerMeans'
        BY <1>1, <1>2, <1>3, <1>4, <3>1 DEF BatchTypes, RemoteTypes, BatchData,
           AnswerMeans, NextIsolates, Polling
      <3>2. ASSUME NEW i \in Ids, NextSends(i)
           PROVE  AnswerMeans'
        BY <1>1, <1>2, <1>3, <1>4, <3>2, SentIsFresh DEF BatchTypes, RemoteTypes,
           BatchData, AnswerMeans, NextSends, Polling
      <3> QED BY <2>1, <3>1, <3>2
    <2>2. CASE NextDrained \/ NextFails \/ SendDone \/ Retain
      BY <1>1, <1>2, <1>3, <1>4, <2>2 DEF BatchTypes, RemoteTypes, BatchData, AnswerMeans,
         NextDrained, NextFails, SendDone, Retain, BatchReady, Polling
    <2>3. CASE Settle \/ SettleFails
      <3>1. CASE Settle
        BY <1>1, <1>2, <1>3, <1>4, <3>1, SettlePlace DEF BatchTypes, RemoteTypes,
           BatchData, AnswerMeans, Settle, Polling
      <3>2. CASE SettleFails
        BY <1>1, <1>2, <1>3, <1>4, <3>2 DEF BatchTypes, RemoteTypes, BatchData,
           AnswerMeans, SettleFails, BatchReady, Polling, StopBatch
      <3> QED BY <2>3, <3>1, <3>2
    <2>4. CASE Tell
      BY <1>1, <1>2, <1>3, <1>4, <2>4 DEF BatchTypes, RemoteTypes, BatchData, AnswerMeans,
         Tell, Polling
    <2>5. CASE \/ BatchSucceeds("drained") \/ BatchSucceeds("complete")
               \/ BatchRetries
      BY <1>1, <1>2, <1>3, <1>4, <2>5 DEF BatchTypes, RemoteTypes, BatchData, AnswerMeans,
         BatchSucceeds, BatchRetries, NoBatch, Polling, Finished, RetryAfter,
         CountsLocalOnly
    <2>6. CASE BatchFailedLocally \/ BatchUnauthorized
      BY <1>1, <1>2, <1>3, <1>4, <2>6 DEF BatchTypes, RemoteTypes, BatchData, AnswerMeans,
         BatchFailedLocally, BatchUnauthorized, Leave, NoBatch, Polling, Finished
    <2> QED BY <1>9, <2>1, <2>2, <2>3, <2>4, <2>5, <2>6 DEF Batching
  <1>10. CASE Serving
    BY <1>1, <1>2, <1>3, <1>4, <1>10 DEF BatchTypes, RemoteTypes, BatchData, AnswerMeans,
       Serving, ServerHandles, Rotate, AnswerLost, RecoveryAnswered, RecoveryLost, Awaited
  <1>11. CASE Crash \/ Restart
    BY <1>1, <1>2, <1>3, <1>4, <1>11 DEF BatchTypes, RemoteTypes, BatchData, AnswerMeans,
       Crash, Restart, NoBatch, FreshProcess
  <1>12. CASE UNCHANGED vars
    BY <1>1, <1>2, <1>3, <1>4, <1>12 DEF BatchTypes, RemoteTypes, BatchData, AnswerMeans,
       vars
  <1> QED BY <1>5, <1>6, <1>7, <1>8, <1>9, <1>10, <1>11, <1>12 DEF Next

\* Callbacks are made by Tell alone, and the server forgets nothing.
LEMMA OnlyTellTells ==
  ASSUME IInv, [Next]_vars
  PROVE  ~Tell => told' = told /\ accepted \subseteq accepted'
  <1>1. CASE Producing
    BY <1>1 DEF Producing, Notify, Enqueue, EnqueueUnknown, Coalesced
  <1>2. CASE RequestStop \/ LoopTop \/ Shutdown
    BY <1>2 DEF RequestStop, LoopTop, Shutdown, DueDelivery, DueRecovery
  <1>3. CASE Notification \/ TimerFires \/ TickRetry \/ TickRecovery
    BY <1>3 DEF Notification, TimerFires, TickRetry, TickRecovery, WakeAtRest
  <1>4. CASE Recovering
    BY <1>4 DEF Recovering, RecoveryKeeps, RecoveryRenewed, RecoveryBadPoll,
       CancelBatch, Unblock
  <1>5. CASE Batching
    <2>1. CASE \E i \in Ids : NextIsolates(i) \/ NextSends(i)
      BY <2>1 DEF NextIsolates, NextSends
    <2>2. CASE NextDrained \/ NextFails \/ SendDone \/ Retain
      BY <2>2 DEF NextDrained, NextFails, SendDone, Retain, BatchReady
    <2>3. CASE Settle \/ SettleFails
      BY <2>3 DEF Settle, SettleFails, BatchReady, StopBatch
    <2>4. CASE Tell
      BY <2>4
    <2>5. CASE \/ BatchSucceeds("drained") \/ BatchSucceeds("complete")
               \/ BatchRetries
      BY <2>5 DEF BatchSucceeds, BatchRetries, RetryAfter, CountsLocalOnly
    <2>6. CASE BatchFailedLocally \/ BatchUnauthorized
      BY <2>6 DEF BatchFailedLocally, BatchUnauthorized
    <2> QED BY <1>5, <2>1, <2>2, <2>3, <2>4, <2>5, <2>6 DEF Batching
  <1>6. CASE Serving
    BY <1>6 DEF Serving, ServerHandles, Rotate, AnswerLost, RecoveryAnswered,
       RecoveryLost, Awaited
  <1>7. CASE Crash \/ Restart
    BY <1>7 DEF Crash, Restart
  <1>8. CASE UNCHANGED vars
    BY <1>8 DEF vars
  <1> QED BY <1>1, <1>2, <1>3, <1>4, <1>5, <1>6, <1>7, <1>8 DEF Next

\* A callback is made once its record is settled, and nothing unsettles it.
LEMMA ToldSettledStep ==
  ASSUME IInv, [Next]_vars
  PROVE  ToldSettled'
  <1>1. /\ ToldSettled /\ AnswerMeans /\ BatchData
        /\ told \in [Ids -> SUBSET Callbacks] /\ item \in Ids \cup {None}
    BY DEF IInv, TypeOK, BatchTypes, RemoteTypes
  <1>2. \A i \in published : \A p \in {"out", "iso"} : fate[i] = {p} => fate'[i] = {p}
    BY QueueIInv DEF IInv
  <1>3. published \subseteq published'
    BY QueueStep DEF IInv, Q!Next, Q!Publish, Q!Remove, Q!Isolate, Q!Leave, Q!Flush,
       Q!Confirm, Q!PowerFail
  <1>4. CASE told' = told /\ accepted \subseteq accepted'
    BY <1>1, <1>2, <1>3, <1>4 DEF ToldSettled
  <1>5. CASE Tell
    <2>1. /\ item \in Ids /\ item \in published /\ told[item] = {}
          /\ answer \in {"ok", "refused", "mismatch"}
          /\ fate[item] = IF answer = "mismatch" THEN {"iso"} ELSE {"out"}
          /\ answer = "ok" => item \in accepted
          /\ answer = "refused" => Kind[item] = "refused"
      BY <1>1, <1>5 DEF Tell, Polling, AnswerMeans, BatchData
    <2>2. told' = [told EXCEPT ![item] = {CallbackFor[answer]}] /\ accepted' = accepted
      BY <1>1, <1>5, <2>1 DEF Tell
    <2>3. /\ answer = "ok" => CallbackFor[answer] = "acknowledged"
          /\ answer = "refused" => CallbackFor[answer] = "discarded"
          /\ answer = "mismatch" => CallbackFor[answer] = "quarantined"
      BY DEF CallbackFor
    <2>4. fate'[item] = fate[item]
      BY <1>2, <2>1
    <2> QED BY <1>1, <1>2, <1>3, <2>1, <2>2, <2>3, <2>4 DEF ToldSettled
  <1> QED BY <1>4, <1>5, OnlyTellTells

\* The fate of a promised record widens only by what became of it.
LEMMA FateWidens ==
  ASSUME IInv, [Next]_vars, NEW j \in promised
  PROVE  \/ fate'[j] \subseteq fate[j]
         \/ Kind[j] = "rotten" /\ fate'[j] \subseteq fate[j] \cup {"iso"}
         \/ Kind[j] = "mismatch" /\ fate'[j] \subseteq fate[j] \cup {"iso"}
         \/ (j \in accepted \/ Kind[j] = "refused") /\ fate'[j] \subseteq fate[j] \cup {"out"}
  <1>1. /\ view \in [Ids -> Q!Places] /\ fate \in [Ids -> SUBSET Q!Places]
        /\ published \subseteq Ids /\ promised \subseteq published /\ j \in Ids
        /\ \A i \in Ids : view[i] \in fate[i]
    BY QueueFacts
  <1>2. CASE Producing
    BY <1>1, <1>2, ProducersAdd
  <1>3. CASE \E i \in Ids : NextIsolates(i)
    <2>1. PICK i \in Ids : /\ Kind[i] = "rotten"
                           /\ view' = [view EXCEPT ![i] = "iso"]
                           /\ fate' = [k \in Ids |-> {view'[k]}]
      BY <1>3 DEF NextIsolates, Q!Synced
    <2> QED BY <1>1, <2>1
  <1>4. CASE NextFails
    <2>1. CASE UNCHANGED queue
      BY <2>1
    <2>2. ASSUME NEW i \in Ids, Kind[i] = "rotten",
                 Q!Unsynced([view EXCEPT ![i] = "iso"])
          PROVE  \/ Kind[j] = "rotten" /\ fate'[j] \subseteq (fate[j] \cup {"iso"})
                 \/ fate'[j] \subseteq fate[j]
      BY <1>1, <2>2 DEF Q!Unsynced
    <2> QED BY <1>4, <2>1, <2>2 DEF NextFails
  <1>5. CASE Settle \/ SettleFails
    <2>1. /\ item \in Ids /\ answer \in {"ok", "refused", "mismatch"}
          /\ answer = "ok" => item \in accepted
          /\ answer = "refused" => Kind[item] = "refused"
          /\ answer = "mismatch" => Kind[item] = "mismatch"
      BY <1>5 DEF IInv, TypeOK, BatchTypes, BatchData, AnswerMeans, Settle, SettleFails,
         Polling
    <2>2. \/ UNCHANGED queue
          \/ answer = "mismatch" /\ Q!Change([view EXCEPT ![item] = "iso"])
          \/ answer # "mismatch" /\ Q!Change([view EXCEPT ![item] = "out"])
      BY <1>5 DEF Settle, SettleFails, StopBatch, Dispose, Q!Remove, Q!Isolate, Q!Leave
    <2> QED BY <1>1, <2>1, <2>2 DEF Q!Change, Q!Synced, Q!Unsynced
  <1>6. CASE Crash
    BY <1>1, <1>6 DEF Crash, Q!PowerFail
  <1>7. CASE UNCHANGED queue
    BY <1>7
  <1>8. CASE Batching
    <2>1. CASE \E i \in Ids : NextSends(i)
      BY <1>7, <2>1 DEF NextSends
    <2>2. CASE \/ NextDrained \/ SendDone \/ Retain \/ Tell \/ BatchSucceeds("drained")
               \/ BatchSucceeds("complete") \/ BatchFailedLocally \/ BatchUnauthorized \/ BatchRetries
      BY <1>7, <2>2 DEF NextDrained, SendDone, Retain, Tell, BatchSucceeds,
         BatchFailedLocally, BatchUnauthorized, BatchRetries
    <2> QED BY <1>3, <1>4, <1>5, <1>8, <2>1, <2>2 DEF Batching
  <1>9. CASE Recovering \/ Serving
    BY <1>7, <1>9 DEF Recovering, RecoveryKeeps, RecoveryRenewed,
       RecoveryBadPoll, Serving, ServerHandles, Rotate, AnswerLost, RecoveryAnswered,
       RecoveryLost
  <1>10. CASE \/ RequestStop \/ LoopTop \/ Shutdown \/ Notification \/ TimerFires
              \/ TickRetry \/ TickRecovery \/ Restart \/ UNCHANGED vars
    BY <1>7, <1>10 DEF RequestStop, LoopTop, Shutdown, Notification, TimerFires,
       TickRetry, TickRecovery, Restart, vars
  <1> QED BY <1>2, <1>6, <1>8, <1>9, <1>10 DEF Next

\* Only a record whose flush has succeeded is promised.
LEMMA NewPromises ==
  ASSUME IInv, [Next]_vars, NEW j \in promised' \ promised
  PROVE  fate'[j] = {"in"}
  <1>1. promised \subseteq published
    BY QueueFacts
  <1>2. CASE Q!Next
    BY <1>1, <1>2 DEF Q!Next, Q!Publish, Q!Remove, Q!Isolate, Q!Leave, Q!Flush,
       Q!Confirm, Q!PowerFail, Q!Promise
  <1> QED BY <1>2, QueueStep DEF IInv

\* Every record that may be missing was stored or refused.
LEMMA NoSilentLossStep ==
  ASSUME IInv, [Next]_vars
  PROVE  NoSilentLoss'
  <1>1. accepted \subseteq accepted'
    BY OnlyTellTells DEF Tell
  <1>2. ASSUME NEW j \in promised
        PROVE  /\ "out" \in fate'[j] => j \in accepted' \/ Kind[j] = "refused"
               /\ "iso" \in fate'[j] => Kind[j] \in {"mismatch", "rotten"}
    <2>1. /\ "out" \in fate[j] => j \in accepted \/ Kind[j] = "refused"
          /\ "iso" \in fate[j] => Kind[j] \in {"mismatch", "rotten"}
      BY DEF IInv, NoSilentLoss
    <2> QED BY <1>1, <2>1, FateWidens
  <1>3. ASSUME NEW j \in promised' \ promised
        PROVE  "out" \notin fate'[j] /\ "iso" \notin fate'[j]
    BY NewPromises
  <1> QED BY <1>2, <1>3 DEF NoSilentLoss

-----------------------------------------------------------------------------
(* The theorems. *)

LEMMA InitIInv == Init => IInv
  <1> SUFFICES ASSUME Init PROVE IInv
    OBVIOUS
  <1> USE DEF Init
  <1>1. QP!IInv
    BY InitQueue, SameQueue, QP!InitIInv
  <1>2. Q!TypeOK /\ LoopTypes
    BY DEF Q!TypeOK, Q!Places, LoopTypes
  <1>3. DeadlineTypes /\ BatchTypes /\ CounterTypes
    BY BoundsAssumption DEF DeadlineTypes, BatchTypes, CounterTypes, Versions, Answers
  <1>4. RemoteTypes
    BY BoundsAssumption DEF RemoteTypes, Versions
  <1>5. BatchRuns /\ BatchData /\ AnswerMeans /\ ToldSettled /\ NoSilentLoss
    BY DEF BatchRuns, BatchData, AnswerMeans, ToldSettled, NoSilentLoss
  <1>6. Versioned /\ Awake /\ Streak
    BY BoundsAssumption DEF Versioned, Awake, Streak, Running
  <1> QED BY <1>1, <1>2, <1>3, <1>4, <1>5, <1>6 DEF IInv, TypeOK

LEMMA StepIInv == IInv /\ [Next]_vars => IInv'
  <1> SUFFICES ASSUME IInv, [Next]_vars PROVE IInv'
    OBVIOUS
  <1>1. QP!IInv'
    BY QueueIInv DEF IInv
  <1>2. Q!TypeOK'
    BY <1>1 DEF QP!IInv, QP!TypeOK, Q!TypeOK, QP!Places, Q!Places
  <1>3. TypeOK'
    BY <1>2, LoopTypesStep, DeadlineTypesStep, BatchTypesStep, CounterTypesStep,
       RemoteTypesStep DEF TypeOK
  <1> QED BY <1>1, <1>3, BatchRunsStep, BatchDataStep, AnswerMeansStep, ToldSettledStep,
             NoSilentLossStep, VersionedStep, AwakeStep, StreakStep DEF IInv

THEOREM Inductive == Spec => []IInv
  BY InitIInv, StepIInv, PTL DEF Spec

\* Type correctness of the worker and of everything around it.
THEOREM TypeCorrect == Spec => []TypeOK
  <1>1. IInv => TypeOK
    BY DEF IInv
  <1> QED BY <1>1, Inductive, PTL

\* The worker, its producers and its crashes implement a durable queue.
THEOREM ImplementsQueue == Spec => QueueSpec
  <1>1. IInv /\ [Next]_vars => [Q!Next]_(Q!qvars)
    BY QueueStep DEF IInv, Q!qvars
  <1> QED BY <1>1, InitQueue, Inductive, PTL DEF Spec, QueueSpec, Q!Spec

\* A worker at rest leaves no promised record behind.
THEOREM LosesNoWakeup == Spec => []NoLostWakeup
  <1>1. IInv => NoLostWakeup
    BY DEF IInv, TypeOK, LoopTypes, Awake, NoLostWakeup, WorkLeft
  <1> QED BY <1>1, Inductive, PTL

\* Delivery is blocked only on a snapshot the server has retired.
THEOREM BlocksOnlyWhenStale == Spec => []BlockedOnlyWhenStale
  <1>1. IInv => BlockedOnlyWhenStale
    BY DEF IInv, BatchRuns, Versioned, BlockedOnlyWhenStale
  <1> QED BY <1>1, Inductive, PTL

\* No promised record disappears unless it was stored or refused.
THEOREM LosesNoRecord == Spec => []NoSilentLoss
  <1>1. IInv => NoSilentLoss
    BY DEF IInv
  <1> QED BY <1>1, Inductive, PTL

\* What a callback reports is final, and reported once.
THEOREM CallbacksAreFinal == Spec => []CallbackIsFinal
  <1>1. ASSUME IInv PROVE CallbackIsFinal
    <2>1. ToldSettled /\ AnswerMeans /\ BatchData
      BY <1>1 DEF IInv
    <2>2. None \notin Ids
      BY IdsAssumption
    <2>3. ASSUME NEW i \in Ids, i = item PROVE told[i] = {}
      BY <2>1, <2>2, <2>3 DEF AnswerMeans, BatchData
    <2> QED BY <2>1, <2>3 DEF CallbackIsFinal, ToldSettled, AnswerMeans
  <1> QED BY <1>1, Inductive, PTL

\* Only failures of the local queue, that many in a row, make the worker give up.
THEOREM StopsForItsDisk == Spec => []StopsOnlyForLocalFailures
  <1>1. IInv => StopsOnlyForLocalFailures
    BY DEF IInv, Streak, StopsOnlyForLocalFailures
  <1> QED BY <1>1, Inductive, PTL

\* What one step may do to a backoff and to an authorization block.
WakeStep ==
  Running /\ Running' /\ wpc # wpc' =>
    /\ blocked /\ ~blocked' => snap' > snap
    /\ retry = "later" /\ retry' # "later" => snap' > snap

\* No step but the installation of a newer snapshot shortens either.
LEMMA WakesBypassNothing ==
  ASSUME IInv, [Next]_vars
  PROVE  WakeStep
  <1>1. BatchRuns
    BY DEF IInv, TypeOK
  <1>2. snap \in Nat /\ rver \in Nat
    BY BoundsAssumption DEF IInv, TypeOK, DeadlineTypes, Versions
  <1>3. CASE Producing
    BY <1>1, <1>2, <1>3 DEF WakeStep, BatchRuns, Running, Producing, Notify, Enqueue,
       EnqueueUnknown, Coalesced
  <1>4. CASE RequestStop \/ LoopTop \/ Shutdown
    BY <1>1, <1>2, <1>4 DEF WakeStep, BatchRuns, Running, RequestStop, LoopTop, Shutdown,
       DueDelivery, DueRecovery, Leave, Selecting
  <1>5. CASE Notification \/ TimerFires \/ TickRetry \/ TickRecovery
    BY <1>1, <1>2, <1>5 DEF WakeStep, BatchRuns, Running, Notification, TimerFires,
       TickRetry, TickRecovery, Selecting, WakeAtRest
  <1>6. CASE Recovering
    BY <1>1, <1>2, <1>6 DEF WakeStep, BatchRuns, Running, Recovering, RecoveryKeeps,
       RecoveryRenewed, RecoveryBadPoll, Leave, Selecting, CancelBatch, Unblock
  <1>7. CASE Batching
    <2>1. CASE \E i \in Ids : NextIsolates(i) \/ NextSends(i)
      BY <1>1, <1>2, <2>1 DEF WakeStep, BatchRuns, Running, NextIsolates, NextSends,
         Polling
    <2>2. CASE NextDrained \/ NextFails \/ SendDone \/ Retain
      BY <1>1, <1>2, <2>2 DEF WakeStep, BatchRuns, Running, NextDrained, NextFails,
         SendDone, Retain, Polling
    <2>3. CASE Settle \/ SettleFails
      BY <1>1, <1>2, <2>3 DEF WakeStep, BatchRuns, Running, Settle, SettleFails, Polling,
         StopBatch
    <2>4. CASE Tell
      BY <1>1, <1>2, <2>4 DEF WakeStep, BatchRuns, Running, Tell, Polling
    <2>5. CASE \/ BatchSucceeds("drained") \/ BatchSucceeds("complete")
               \/ BatchRetries
      BY <1>1, <1>2, <2>5 DEF WakeStep, BatchRuns, Running, BatchSucceeds, BatchRetries,
         Polling, Finished, RetryAfter, CountsLocalOnly
    <2>6. CASE BatchFailedLocally \/ BatchUnauthorized
      BY <1>1, <1>2, <2>6 DEF WakeStep, BatchRuns, Running, BatchFailedLocally,
         BatchUnauthorized, Leave, Polling, Finished
    <2> QED BY <1>7, <2>1, <2>2, <2>3, <2>4, <2>5, <2>6 DEF Batching
  <1>8. CASE Serving
    BY <1>1, <1>2, <1>8 DEF WakeStep, BatchRuns, Running, Serving, ServerHandles, Rotate,
       AnswerLost, RecoveryAnswered, RecoveryLost, Awaited
  <1>9. CASE Crash \/ Restart
    BY <1>1, <1>2, <1>9 DEF WakeStep, BatchRuns, Running, Crash, Restart, FreshProcess
  <1>10. CASE UNCHANGED vars
    BY <1>1, <1>2, <1>10 DEF WakeStep, BatchRuns, Running, vars
  <1> QED BY <1>3, <1>4, <1>5, <1>6, <1>7, <1>8, <1>9, <1>10 DEF Next

\* Neither a wake-up nor a recovery that brings nothing new bypasses an
\* authorization block or a backoff.
THEOREM WakesWait == Spec => WakeNeverBypasses
  <1>1. IInv /\ [Next]_vars =>
          [Running /\ Running' /\ wpc # wpc' =>
             /\ blocked /\ ~blocked' => snap' > snap
             /\ retry = "later" /\ retry' # "later" => snap' > snap]_vars
    BY WakesBypassNothing DEF WakeStep
  <1> QED BY <1>1, Inductive, PTL DEF Spec, WakeNeverBypasses

\* What was promised is kept, by the queue inside the whole system.
THEOREM KeepsPromises == Spec => []Q!PromiseKept
  <1>1. IInv => Q!PromiseKept
    BY DEF IInv, QP!IInv, QP!PromiseKept, Q!PromiseKept
  <1> QED BY <1>1, Inductive, PTL


====
