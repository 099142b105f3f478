------------------------ MODULE ServiceControl_proofs -----------------------
(* Proofs about ServiceControl, for any number of interferences, and about   *)
(* LocalStatus, for any number of readers, publishers and observations.      *)
EXTENDS ServiceControl, LocalStatus, TLAPS

\* Which steps belong to which platform, and what brings change there.
Places ==
  /\ pc \in {"stopped", "command", "now"} => platform = "windows"
  /\ pc \in {"lift", "begin", "restore", "bootout", "unloaded"} => platform = "macos"
  /\ pc \in {"lift", "restore"} => Restores
  /\ pc \in {"lift", "begin", "restore"} => ShouldStart
  /\ pc \in {"bootout", "unloaded"} => ShouldStop

Ending == {"after", "wait", "final"}

\* What has been seen of the service, and since when.
Noticed ==
  /\ run \in seen
  /\ pc \in {"policy", "choose"} /\ platform = "windows" /\ before.state # "unknown" =>
       before.state \in seen
  /\ pc \in {"policy", "choose"} /\ ~before.loaded => misread \/ "absent" \in seen
  /\ pc \in Ending /\ platform = "macos" /\ ShouldStop => misread \/ "absent" \in seen
  /\ pc = "final" /\ ShouldStart => "running" \in seen
  /\ pc = "final" /\ ShouldStop /\ platform # "macos" => "stopped" \in seen
  /\ action = "restart" /\ (pc \in Ending \/ (pc = "restore" /\ held = "ok")) => fresh

\* The startup policy on its way there, or there and back.
Startup ==
  ~touched =>
    /\ pc \in {"idle", "status", "policy", "choose"} => startup = original
    /\ pc \notin {"idle", "status", "policy", "returned"} => before.startup = original
    /\ ~PolicyChange /\ pc \notin {"begin", "restore", "returned"} => startup = original
    /\ ~PolicyChange /\ pc = "begin" => Restores \/ startup = original
    /\ PolicyChange /\ pc \in {"now", "begin", "bootout", "unloaded"} \cup Ending => startup = Wanted

IInv == TypeOK /\ Places /\ Noticed /\ Startup /\ OkMeansDone /\ PolicyKept


-----------------------------------------------------------------------------
LEMMA InitHolds == Init => IInv
<1> SUFFICES ASSUME Init PROVE IInv
  OBVIOUS
<1>1. TypeOK
  <2>1. ServiceTypes
    BY DEF Init, ServiceTypes, States
  <2>2. 0 \in 0..MaxOthers
    BY ServiceControlAssumption DEF ServiceControlAssumption
  <2> QED BY <2>1, <2>2 DEF Init, TypeOK, Outcomes
<1>2. Places /\ Noticed /\ Startup /\ OkMeansDone /\ PolicyKept
  BY DEF Init, Places, Noticed, Startup, OkMeansDone, PolicyKept, Ending
<1> QED BY <1>1, <1>2 DEF IInv

LEMMA Effects ==
  ASSUME TypeOK, UNCHANGED platform, NEW p \in {"automatic", "disabled"},
         Begin \/ End \/ Again \/ SetsNow(p) \/ Sets(p) \/ UNCHANGED service
  PROVE  ServiceTypes'
<1> USE DEF TypeOK, ServiceTypes, States, Starts, Stops, Stays
<1>1. CASE Begin
  BY <1>1 DEF Begin
<1>2. CASE End
  BY <1>2 DEF End
<1>3. CASE Again
  BY <1>3 DEF Again
<1>4. CASE SetsNow(p)
  BY <1>4 DEF SetsNow
<1>5. CASE Sets(p) \/ UNCHANGED service
  BY <1>5 DEF Sets, service
<1> QED BY <1>1, <1>2, <1>3, <1>4, <1>5

LEMMA NextTypes == TypeOK /\ [Next]_vars => TypeOK'
<1> SUFFICES ASSUME TypeOK, [Next]_vars PROVE TypeOK'
  OBVIOUS
<1> USE DEF TypeOK, Actions, Outcomes, Goto, Return
<1>1. CASE UNCHANGED vars
  BY <1>1 DEF vars, ServiceTypes
<1>2. CASE Call \/ Status \/ Misread \/ Policy \/ Refuse
  <2>1. CASE Call
    <3>1. ServiceTypes' /\ original' \in {"automatic", "disabled"}
      BY <2>1 DEF Call, ServiceTypes, States
    <3>2. UNCHANGED <<platform, action, now, before, held, late, misread, others, result>>
          /\ pc' = "status" /\ touched' \in BOOLEAN
      BY <2>1 DEF Call
    <3> QED BY <3>1, <3>2
  <2>2. CASE Status
    <3>1. Reported \in {"running", "stopped", "unknown"}
      BY DEF Reported
    <3>2. ServiceTypes'
      BY <2>2 DEF Status, ServiceTypes, service, call
    <3>3. before' \in [state : {"running", "stopped", "unknown"}, loaded : BOOLEAN,
                       startup : {"automatic", "disabled"}]
      BY <2>2, <3>1 DEF Status
    <3> QED BY <2>2, <3>2, <3>3 DEF Status, call
  <2>3. CASE Misread
    <3>1. before' \in [state : {"running", "stopped", "unknown"}, loaded : BOOLEAN,
                       startup : {"automatic", "disabled"}]
      BY <2>3 DEF Misread
    <3>2. ServiceTypes'
      BY <2>3 DEF Misread, ServiceTypes, service
    <3> QED BY <2>3, <3>1, <3>2 DEF Misread
  <2>4. CASE Policy
    BY <2>4 DEF Policy, ServiceTypes, service, call
  <2>5. CASE Refuse
    BY <2>5 DEF Refuse, ServiceTypes, service, call
  <2> QED BY <1>2, <2>1, <2>2, <2>3, <2>4, <2>5
<1>3. CASE Systemctl
  <2>1. ServiceTypes'
    BY <1>3, Effects DEF Systemctl, Command, Wanted, call
  <2> QED BY <1>3, <2>1 DEF Systemctl, Command, call
<1>4. CASE AsItWas \/ StopFirst \/ Directly
  <2>1. ServiceTypes'
    BY <1>4, Effects DEF AsItWas, StopFirst, Directly, Command, call
  <2> QED BY <1>4, <2>1 DEF AsItWas, StopFirst, Directly, Command, call
<1>5. CASE ScCommand \/ ScNow
  <2>1. ServiceTypes'
    BY <1>5, Effects DEF ScCommand, ScNow, Command, Wanted, call
  <2> QED BY <1>5, <2>1 DEF ScCommand, ScNow, Command, call
<1>6. CASE ChangePolicy \/ KeepPolicy \/ Lift
  <2>1. ServiceTypes'
    BY <1>6, Effects DEF ChangePolicy, KeepPolicy, Lift, Command, Wanted, call
  <2> QED BY <1>6, <2>1 DEF ChangePolicy, KeepPolicy, Lift, Command, call, Path
<1>7. CASE BeginOnce
  <2>1. ServiceTypes'
    BY <1>7, Effects DEF BeginOnce, Kickstart, Bootstrap, call
  <2> QED BY <1>7, <2>1 DEF BeginOnce, call
<1>8. CASE Restore \/ Bootout
  <2>1. ServiceTypes'
    BY <1>8, Effects DEF Restore, Bootout, Command, call
  <2> QED BY <1>8, <2>1 DEF Restore, Bootout, Command, call, ThenUnloaded
<1>9. CASE WaitStopped \/ WaitUnloaded \/ After \/ Wait \/ Final \/ TimePasses
  <2>1. ServiceTypes'
    BY <1>9 DEF WaitStopped, WaitUnloaded, After, Wait, Final, TimePasses, service, call,
                ServiceTypes
  <2>2. CASE WaitStopped \/ Wait
    BY <2>1, <2>2 DEF WaitStopped, Wait, Round, call
  <2>3. CASE WaitUnloaded
    BY <2>1, <2>3 DEF WaitUnloaded, call
  <2>4. CASE After \/ Final \/ TimePasses
    BY <2>1, <2>4 DEF After, Final, TimePasses, call
  <2> QED BY <1>9, <2>2, <2>3, <2>4
<1>10. CASE Settles \/ Ends \/ OtherStarts \/ OtherStops \/ OtherPolicy
  <2>1. ServiceTypes'
    BY <1>10 DEF Settles, Ends, OtherStarts, OtherStops, OtherPolicy, Becomes, ServiceTypes, States
  <2>2. others' \in 0..MaxOthers
    BY <1>10, ServiceControlAssumption
       DEF ServiceControlAssumption, Settles, Ends, OtherStarts, OtherStops, OtherPolicy
  <2>3. UNCHANGED <<platform, pc, action, now, before, held, late, result, original,
                  misread>>
        /\ touched' \in BOOLEAN
    BY <1>10 DEF Settles, Ends, OtherStarts, OtherStops, OtherPolicy, Becomes
  <2> QED BY <2>1, <2>2, <2>3
<1> QED
  BY <1>1, <1>2, <1>3, <1>4, <1>5, <1>6, <1>7, <1>8, <1>9, <1>10 DEF Next, Step

\* The steps of change keep everything that is known about it.
LEMMA NextKeeps ==
  IInv /\ [Next]_vars => Places' /\ Noticed' /\ Startup' /\ OkMeansDone' /\ PolicyKept'
<1> SUFFICES ASSUME IInv, [Next]_vars
             PROVE  Places' /\ Noticed' /\ Startup' /\ OkMeansDone' /\ PolicyKept'
  OBVIOUS
<1> USE DEF IInv, TypeOK, ServiceTypes, Places, Noticed, Startup, OkMeansDone, PolicyKept, Ending, service, call,
            Goto, Return, PolicyChange, ShouldStart, ShouldStop, Wanted, Restores
<1>1. CASE UNCHANGED vars
  BY <1>1 DEF vars
<1>2. CASE Call
  BY <1>2 DEF Call
<1>3. CASE Status \/ Misread
  BY <1>3 DEF Status, Misread, Reported
<1>4. CASE Policy \/ Refuse
  BY <1>4 DEF Policy, Refuse
<1>5. CASE Systemctl
  BY <1>5 DEF Systemctl, Command, Begin, End, Again, SetsNow, Sets, Starts, Stops, Stays
<1>6. CASE AsItWas \/ StopFirst \/ Directly
  BY <1>6 DEF AsItWas, StopFirst, Directly, Nothing, Command, End, Stops
<1>7. CASE ScCommand
  BY <1>7 DEF ScCommand, Command, Begin, End, Sets, Starts, Stops
<1>8. CASE ScNow
  BY <1>8 DEF ScNow, Command, Begin, End, Starts, Stops
<1>9. CASE ChangePolicy \/ KeepPolicy
  BY <1>9 DEF ChangePolicy, KeepPolicy, Command, Sets, Path
<1>10. CASE Lift
  BY <1>10 DEF Lift, Command, Sets
<1>11. CASE BeginOnce
  BY <1>11 DEF BeginOnce, Kickstart, Bootstrap, Again, Begin, Starts, Stays, RestoresAfter, Outcomes
<1>12. CASE Restore
  BY <1>12 DEF Restore, Sets, Outcomes
<1>13. CASE Bootout
  BY <1>13 DEF Bootout, Command, End, Stops, ThenUnloaded
<1>14. CASE WaitStopped \/ WaitUnloaded
  BY <1>14 DEF WaitStopped, WaitUnloaded, Round
<1>15. CASE After \/ Final
  BY <1>15 DEF After, Final
<1>16. CASE Wait
  BY <1>16 DEF Wait, Round, Reported, Expected
<1>17. CASE TimePasses
  BY <1>17 DEF TimePasses
<1>18. CASE Settles \/ Ends \/ OtherStarts \/ OtherStops
  BY <1>18 DEF Settles, Ends, OtherStarts, OtherStops, Becomes
<1>19. CASE OtherPolicy
  BY <1>19 DEF OtherPolicy
<1> QED
  BY <1>1, <1>2, <1>3, <1>4, <1>5, <1>6, <1>7, <1>8, <1>9, <1>10, <1>11, <1>12, <1>13, <1>14,
     <1>15, <1>16, <1>17, <1>18, <1>19 DEF Next, Step

LEMMA Inductive == Spec => []IInv
<1>1. IInv /\ [Next]_vars => IInv'
  BY NextTypes, NextKeeps DEF IInv
<1> QED BY <1>1, InitHolds, PTL DEF Spec

-----------------------------------------------------------------------------
\* Every variable stays in its type (all of Service::change).
THEOREM TypeCorrect == Spec => []TypeOK
BY Inductive, PTL DEF IInv

\* However often others interfere, an Ok of change was true of the service and of
\* its startup policy (wait, wait_macos_unloaded).
THEOREM OkIsTrue == Spec => []OkMeansDone
BY Inductive, PTL DEF IInv

\* However the one-off start goes, the startup policy is the one it was, unless
\* the result says otherwise (the restoring disable of change).
THEOREM PolicyIsKept == Spec => []PolicyKept
BY Inductive, PTL DEF IInv

-----------------------------------------------------------------------------
(* The local status endpoint beside it: what LocalStatus promises, for any   *)
(* readers and publishers, observations and mishaps.                         *)

Stamps == [epoch : Nat, sequence : Nat]
Steps == {"none", "poll", "request", "identify", "lock", "write", "ack", "close", "leave", "ended"}
Reads ==
  [pc : {"idle", "stat", "connect", "send", "receive"}, to : Publishers \cup {None}, sent : BOOLEAN,
   answer : Stamps \cup {None}, closed : BOOLEAN, since : Stamps]

ServerTypes ==
  /\ system \in Platforms
  /\ main \in {"out", "chmod", "fill", "in", "join"}
  /\ current \in 0..MaxPublish
  /\ thread \in [Publishers -> Steps]
  /\ client \in [Publishers -> Readers \cup {None}]
  /\ endpoint \in Publishers \cup {None}
  /\ snapshot \in Stamps \cup {None}
  /\ truth \in Stamps

StatusTypes == ServerTypes /\ reads \in [Readers -> Reads]

\* Only the thread of the last publisher runs, and only while that is owned.
OneThread ==
  /\ \A k \in Publishers : k > current => thread[k] = "none"
  /\ \A k \in Publishers : Alive(k) => k = current /\ main \in {"in", "join"}
  /\ main # "out" => current \in Publishers
  /\ main \in {"chmod", "fill"} => thread[current] = "none"
  /\ main \in {"in", "join"} => thread[current] # "none"

\* The name on its way to the publisher.
Named ==
  /\ main \in {"chmod", "fill"} => endpoint = current
  /\ main = "fill" => private

\* The snapshot is the truth while there is one, and no epoch comes twice.
Published ==
  /\ truth.epoch <= current
  /\ main \in {"chmod", "fill"} => truth.epoch < current
  /\ snapshot # None => snapshot = truth
  /\ observer = "waiting" => snapshot # None
  /\ \A k \in Publishers : Alive(k) => snapshot # None

\* Nothing is older than the beginning of its read or newer than the truth.
TrueFor(read, present) ==
  /\ ~Before(present, read.since)
  /\ read.answer \notin {None, Blank} => ~Before(read.answer, read.since) /\ ~Before(present, read.answer)

Answered == \A r \in Readers : TrueFor(reads[r], truth)

StatusInv == StatusTypes /\ OneThread /\ Named /\ EndpointStays /\ Published /\ Answered

LEMMA StatusInitHolds == StatusInit => StatusInv
<1> SUFFICES ASSUME StatusInit PROVE StatusInv
  OBVIOUS
<1> USE LocalStatusAssumption DEF StatusInit
<1>1. StatusTypes
  BY DEF StatusTypes, ServerTypes, NoCall, Blank, Stamps, Steps, Reads, Publishers
<1>2. OneThread /\ Named /\ EndpointStays
  BY DEF OneThread, Named, EndpointStays, Alive
<1>3. Published
  BY DEF Published, Alive, Blank
<1>4. Answered
  BY DEF Answered, TrueFor, Before, NoCall, Blank
<1> QED BY <1>1, <1>2, <1>3, <1>4 DEF StatusInv

\* A later truth is still not older than what has been read.
LEMMA TruthGoesOn ==
  ASSUME NEW read \in Reads, NEW present \in Stamps, NEW later \in Stamps,
         ~Before(later, present), TrueFor(read, present)
  PROVE  TrueFor(read, later)
BY DEF TrueFor, Before, Stamps, Reads

\* What a read forgets, or moves on with, is as true as before.
LEMMA StillTrue ==
  ASSUME NEW old \in Reads, NEW new \in Reads, NEW present \in Stamps, TrueFor(old, present),
         new.since = old.since, new.answer \in {old.answer, None, Blank}
  PROVE  TrueFor(new, present)
BY DEF TrueFor, Before, Stamps, Reads, Blank

LEMMA NoCallIsTrue ==
  ASSUME NEW present \in Stamps
  PROVE  NoCall \in Reads /\ TrueFor(NoCall, present)
BY DEF NoCall, Blank, Reads, Stamps, TrueFor, Before

LEMMA ServerTypesKept == ServerTypes /\ Published /\ [StatusNext]_statusVars => ServerTypes'
<1> SUFFICES ASSUME ServerTypes, Published, [StatusNext]_statusVars PROVE ServerTypes'
  OBVIOUS
<1> USE DEF ServerTypes, server, threads, name, state, Gone
<1>1. CASE UNCHANGED statusVars
  BY <1>1 DEF statusVars
<1>2. CASE Bind
  BY <1>2, LocalStatusAssumption DEF Bind, Publishers
<1>3. CASE Chmod
  BY <1>3 DEF Chmod
<1>4. CASE Fill
  <2>1. snapshot' \in Stamps /\ truth' \in Stamps
    BY <1>4, LocalStatusAssumption DEF Fill, Filled, Stamps
  <2>2. thread' \in [Publishers -> Steps]
    BY <1>4 DEF Fill, Steps
  <2> QED BY <1>4, <2>1, <2>2 DEF Fill
<1>5. CASE PublishFails
  BY <1>5 DEF PublishFails
<1>6. CASE Observe \/ Drop \/ Join
  BY <1>6 DEF Observe, Drop, Join
<1>7. CASE Observed
  <2>1. snapshot = truth
    BY <1>7 DEF Observed, Published
  <2>2. truth' \in Stamps
    BY <1>7 DEF Observed, Stamps
  <2>3. snapshot' \in Stamps
    BY <1>7, <2>1, <2>2 DEF Observed
  <2> QED BY <1>7, <2>2, <2>3 DEF Observed
<1>8. CASE Kill
  BY <1>8 DEF Kill, Steps
<1>9. ASSUME NEW k \in Publishers, Thread(k) \/ AcceptFails(k) PROVE ServerTypes'
  <2> USE DEF Advance, At, GoOn, Steps
  <2>1. CASE Accept(k) \/ AcceptFails(k)
    BY <2>1 DEF Accept, AcceptFails, Waits
  <2>2. CASE Connected(k) \/ Listen(k)
    BY <2>2 DEF Connected, Listen, Waits
  <2>3. CASE Identify(k) \/ RequestFails(k) \/ Lock(k) \/ Ack(k) \/ Stop(k)
    BY <2>3 DEF Identify, RequestFails, Lock, Ack, Stop
  <2>4. CASE Request(k)
    BY <2>4 DEF Request, Peer, Waits
  <2>5. CASE Write(k)
    BY <2>5 DEF Write
  <2>6. CASE Close(k)
    BY <2>6 DEF Close
  <2>7. CASE Leave(k)
    BY <2>7 DEF Leave
  <2> QED BY <1>9, <2>1, <2>2, <2>3, <2>4, <2>5, <2>6, <2>7 DEF Thread
<1>10. ASSUME NEW r \in Readers, BeginRead(r) \/ Read(r) \/ Vanish(r) PROVE ServerTypes'
  BY <1>10 DEF BeginRead, Read, Stat, Connect, Send, Receive, Vanish, HangsUp
<1> QED BY <1>1, <1>2, <1>3, <1>4, <1>5, <1>6, <1>7, <1>8, <1>9, <1>10 DEF StatusNext

\* What a step may do to a read: let it begin or end, or leave it what it has, of
\* the answer none, a part or the snapshot of this moment.
Changed(old, new) ==
  new \in [pc : {"idle", "stat", "connect", "send", "receive"}, to : Publishers \cup {None}, sent : BOOLEAN,
           answer : {old.answer, None, Blank} \cup ({snapshot} \cap {truth}), closed : BOOLEAN,
           since : {old.since}]

ReadStep(old, new) ==
  \/ new = NoCall
  \/ \E at \in {"connect", "stat"} : new = [NoCall EXCEPT !.pc = at, !.since = truth]
  \/ Changed(old, new)

LEMMA ReadsAreRecords ==
  ASSUME NEW read \in Reads
  PROVE  /\ Changed(read, read)
         /\ \A at \in {"idle", "stat", "connect", "send", "receive"} : Changed(read, [read EXCEPT !.pc = at])
         /\ \A to \in Publishers : Changed(read, [read EXCEPT !.pc = "send", !.to = to])
         /\ Changed(read, [read EXCEPT !.pc = "receive", !.sent = TRUE])
         /\ Changed(read, [read EXCEPT !.closed = TRUE, !.to = None])
         /\ \A answer \in {None, read.answer} : Changed(read, [read EXCEPT !.closed = TRUE, !.to = None, !.answer = answer])
         /\ Changed(read, [read EXCEPT !.answer = Blank])
         /\ snapshot = truth => Changed(read, [read EXCEPT !.answer = snapshot])
<1> USE DEF Changed, Reads
<1>1. Changed(read, read)
  OBVIOUS
<1>2. \A at \in {"idle", "stat", "connect", "send", "receive"} : Changed(read, [read EXCEPT !.pc = at])
  OBVIOUS
<1>3. \A to \in Publishers : Changed(read, [read EXCEPT !.pc = "send", !.to = to])
  OBVIOUS
<1>4. Changed(read, [read EXCEPT !.pc = "receive", !.sent = TRUE])
  OBVIOUS
<1>5. Changed(read, [read EXCEPT !.closed = TRUE, !.to = None])
  OBVIOUS
<1>6. \A answer \in {None, read.answer} : Changed(read, [read EXCEPT !.closed = TRUE, !.to = None, !.answer = answer])
  OBVIOUS
<1>7. Changed(read, [read EXCEPT !.answer = Blank])
  OBVIOUS
<1>8. snapshot = truth => Changed(read, [read EXCEPT !.answer = snapshot])
  OBVIOUS
<1> QED BY <1>1, <1>2, <1>3, <1>4, <1>5, <1>6, <1>7, <1>8

LEMMA ReadSteps ==
  ASSUME StatusTypes, Published, [StatusNext]_statusVars, NEW q \in Readers
  PROVE  ReadStep(reads[q], reads'[q])
<1>a. reads[q] \in Reads /\ DOMAIN reads = Readers
  BY DEF StatusTypes
<1>b. Changed(reads[q], reads[q])
  BY <1>a, ReadsAreRecords
<1> USE DEF ReadStep
<1>1. CASE UNCHANGED reads
  BY <1>1, <1>b
<1>2. CASE Bind \/ Chmod \/ Fill \/ Observe \/ Observed \/ Drop \/ Join
  BY <1>1, <1>2 DEF Bind, Chmod, Fill, Observe, Observed, Drop, Join
<1>3. CASE PublishFails \/ Kill
  <2>1. \/ reads'[q] = reads[q]
        \/ reads'[q] = [reads[q] EXCEPT !.closed = TRUE, !.to = None]
    BY <1>3 DEF PublishFails, Kill
  <2> QED BY <1>a, <1>b, <2>1, ReadsAreRecords
<1>4. ASSUME NEW k \in Publishers, Thread(k) \/ AcceptFails(k) PROVE ReadStep(reads[q], reads'[q])
  <2>1. CASE Write(k)
    <3>1. Alive(k)
      BY <2>1 DEF Write, Advance, At, Alive
    <3>2. snapshot = truth
      BY <3>1 DEF Published
    <3>3. \/ reads'[q] = reads[q]
          \/ reads'[q] = [reads[q] EXCEPT !.answer = Blank]
          \/ reads'[q] = [reads[q] EXCEPT !.answer = snapshot]
      BY <2>1 DEF Write, Answers
    <3> QED BY <1>a, <1>b, <3>2, <3>3, ReadsAreRecords
  <2>2. CASE Close(k)
    <3>1. \/ reads'[q] = reads[q]
          \/ reads'[q] = [reads[q] EXCEPT !.closed = TRUE, !.to = None, !.answer = None]
          \/ reads'[q] = [reads[q] EXCEPT !.closed = TRUE, !.to = None, !.answer = reads[q].answer]
      BY <2>2 DEF Close
    <3> QED BY <1>a, <1>b, <3>1, ReadsAreRecords
  <2>3. CASE Leave(k)
    <3>1. \/ reads'[q] = reads[q]
          \/ reads'[q] = [reads[q] EXCEPT !.closed = TRUE, !.to = None]
      BY <2>3 DEF Leave
    <3> QED BY <1>a, <1>b, <3>1, ReadsAreRecords
  <2>4. CASE ~Write(k) /\ ~Close(k) /\ ~Leave(k)
    BY <1>1, <1>4, <2>4 DEF Thread, Accept, AcceptFails, Connected, Listen, Identify, Request, RequestFails, Lock, Ack, Stop
  <2> QED BY <2>1, <2>2, <2>3, <2>4
<1>5. ASSUME NEW r \in Readers, BeginRead(r) \/ Read(r) \/ Vanish(r) PROVE ReadStep(reads[q], reads'[q])
  <2> USE DEF Returns, Goes, HangsUp
  <2>1. CASE BeginRead(r)
    <3>1. \/ reads'[q] = reads[q]
          \/ \E at \in {"connect", "stat"} : reads'[q] = [NoCall EXCEPT !.pc = at, !.since = truth]
      BY <1>a, <2>1 DEF BeginRead
    <3> QED BY <1>b, <3>1
  <2>2. CASE Stat(r) \/ Receive(r) \/ Vanish(r)
    <3>1. \/ reads'[q] = reads[q] \/ reads'[q] = NoCall
          \/ reads'[q] = [reads[q] EXCEPT !.pc = "connect"]
      BY <1>a, <2>2 DEF Stat, Receive, Vanish
    <3> QED BY <1>a, <1>b, <3>1, ReadsAreRecords
  <2>3. CASE Connect(r)
    <3>1. \/ reads'[q] = reads[q] \/ reads'[q] = NoCall
          \/ endpoint # None /\ reads'[q] = [reads[q] EXCEPT !.pc = "send", !.to = endpoint]
      BY <1>a, <2>3 DEF Connect, Listens
    <3>2. endpoint # None => endpoint \in Publishers
      BY DEF StatusTypes, ServerTypes
    <3>3. endpoint # None => Changed(reads[q], [reads[q] EXCEPT !.pc = "send", !.to = endpoint])
      BY <1>a, <3>2, ReadsAreRecords
    <3> QED BY <1>b, <3>1, <3>3
  <2>4. CASE Send(r)
    <3>1. \/ reads'[q] = reads[q] \/ reads'[q] = NoCall
          \/ reads'[q] = [reads[q] EXCEPT !.pc = "receive", !.sent = TRUE]
      BY <1>a, <2>4 DEF Send
    <3> QED BY <1>a, <1>b, <3>1, ReadsAreRecords
  <2> QED BY <1>5, <2>1, <2>2, <2>3, <2>4 DEF Read
<1> QED BY <1>1, <1>2, <1>3, <1>4, <1>5 DEF StatusNext, statusVars

LEMMA ReadStepIsTyped ==
  ASSUME NEW old \in Reads, NEW new, ReadStep(old, new), ServerTypes
  PROVE  new \in Reads
<1>1. CASE Changed(old, new)
  BY <1>1 DEF Changed, Reads, ServerTypes, Stamps, Blank
<1>2. CASE new = NoCall
  BY <1>2 DEF Reads, Stamps, Blank, NoCall
<1>3. CASE \E at \in {"connect", "stat"} : new = [NoCall EXCEPT !.pc = at, !.since = truth]
  BY <1>3 DEF Reads, ServerTypes, NoCall
<1> QED BY <1>1, <1>2, <1>3 DEF ReadStep

LEMMA StatusTypesKept == StatusTypes /\ Published /\ [StatusNext]_statusVars => StatusTypes'
<1> SUFFICES ASSUME StatusTypes, Published, [StatusNext]_statusVars PROVE StatusTypes'
  OBVIOUS
<1>1. ServerTypes'
  BY ServerTypesKept DEF StatusTypes
<1>2. reads' = [r \in Readers |-> reads'[r]]
  <2>1. reads = [r \in Readers |-> reads[r]]
    BY DEF StatusTypes
  <2>2. ASSUME NEW r \in Readers, BeginRead(r) \/ Read(r) \/ Vanish(r) PROVE reads' = [q \in Readers |-> reads'[q]]
    BY <2>1, <2>2 DEF BeginRead, Read, Stat, Connect, Send, Receive, Vanish, HangsUp, Returns, Goes
  <2>3. ASSUME NEW k \in Publishers, Thread(k) \/ AcceptFails(k) PROVE reads' = [q \in Readers |-> reads'[q]]
    BY <2>1, <2>3 DEF Thread, Accept, AcceptFails, Connected, Listen, Identify, Request, RequestFails, Lock, Write,
       Answers, Ack, Close, Stop, Leave
  <2>4. CASE Bind \/ Chmod \/ Fill \/ PublishFails \/ Observe \/ Observed \/ Drop \/ Join \/ Kill \/ UNCHANGED statusVars
    BY <2>1, <2>4 DEF Bind, Chmod, Fill, PublishFails, Observe, Observed, Drop, Join, Kill, statusVars
  <2> QED BY <2>2, <2>3, <2>4 DEF StatusNext
<1>3. ASSUME NEW r \in Readers PROVE reads'[r] \in Reads
  BY ReadSteps, ReadStepIsTyped DEF StatusTypes
<1> QED BY <1>1, <1>2, <1>3 DEF StatusTypes

LEMMA EndpointKept ==
  ServerTypes /\ OneThread /\ Named /\ EndpointStays /\ [StatusNext]_statusVars =>
    OneThread' /\ Named' /\ EndpointStays'
<1> SUFFICES ASSUME ServerTypes, OneThread, Named, EndpointStays, [StatusNext]_statusVars
             PROVE  OneThread' /\ Named' /\ EndpointStays'
  OBVIOUS
<1> USE LocalStatusAssumption DEF ServerTypes, Steps, Publishers, OneThread, Named, EndpointStays, Alive, Gone, server, threads, name,
        Advance, At, GoOn
<1>1. CASE UNCHANGED statusVars
  BY <1>1 DEF statusVars
<1>2. CASE Bind
  BY <1>2 DEF Bind
<1>3. CASE Chmod \/ Fill
  BY <1>3 DEF Chmod, Fill
<1>4. CASE PublishFails \/ Observe \/ Observed
  BY <1>4 DEF PublishFails, Observe, Observed
<1>5. CASE Drop \/ Join
  BY <1>5 DEF Drop, Join, Joined
<1>6. CASE Kill
  BY <1>6 DEF Kill
<1>7. ASSUME NEW k \in Publishers, Thread(k) \/ AcceptFails(k) PROVE OneThread' /\ Named' /\ EndpointStays'
  <2>1. CASE Accept(k) \/ AcceptFails(k) \/ Connected(k) \/ Listen(k) \/ Identify(k)
    <3>1. CASE Accept(k)
      BY <3>1 DEF Accept
    <3>2. CASE AcceptFails(k)
      BY <3>2 DEF AcceptFails
    <3>3. CASE Connected(k) \/ Listen(k)
      BY <3>3 DEF Connected, Listen
    <3>4. CASE Identify(k)
      BY <3>4 DEF Identify
    <3> QED BY <2>1, <3>1, <3>2, <3>3, <3>4
  <2>2. CASE Request(k) \/ RequestFails(k) \/ Lock(k) \/ Write(k) \/ Ack(k) \/ Stop(k)
    BY <2>2 DEF Request, RequestFails, Lock, Write, Ack, Stop
  <2>3. CASE Close(k)
    BY <2>3 DEF Close
  <2>4. CASE Leave(k)
    BY <2>4 DEF Leave
  <2> QED BY <1>7, <2>1, <2>2, <2>3, <2>4 DEF Thread
<1>8. ASSUME NEW r \in Readers, BeginRead(r) \/ Read(r) \/ Vanish(r) PROVE OneThread' /\ Named' /\ EndpointStays'
  BY <1>8 DEF BeginRead, Read, Stat, Connect, Send, Receive, HangsUp, Vanish
<1> QED BY <1>1, <1>2, <1>3, <1>4, <1>5, <1>6, <1>7, <1>8 DEF StatusNext

LEMMA PublishedKept ==
  ServerTypes /\ OneThread /\ Published /\ [StatusNext]_statusVars => Published' /\ ~Before(truth', truth)
<1> SUFFICES ASSUME ServerTypes, OneThread, Published, [StatusNext]_statusVars
             PROVE  Published' /\ ~Before(truth', truth)
  OBVIOUS
<1>a. ~Before(truth, truth)
  BY DEF ServerTypes, Stamps, Before
<1>b. truth.epoch \in Nat /\ current \in Int
  BY LocalStatusAssumption DEF ServerTypes, Stamps
<1> USE <1>a DEF Published, Alive, server, threads, state, Advance, At, GoOn
<1>1. CASE UNCHANGED statusVars
  BY <1>1 DEF statusVars
<1>2. CASE Bind \/ Chmod
  BY <1>b, <1>2 DEF Bind, Chmod
<1>3. CASE Fill
  <2>1. Filled \in Stamps /\ Filled # None
    BY LocalStatusAssumption DEF Filled, Stamps, ServerTypes
  <2>2. truth' = Filled /\ snapshot' = Filled /\ Filled.epoch = current
    BY <1>3 DEF Fill, Filled
  <2>3. ~Before(truth', truth)
    BY <1>b, <1>3, <2>2 DEF Fill, Before
  <2> QED BY <1>b, <1>3, <2>1, <2>2, <2>3 DEF Fill
<1>4. CASE PublishFails \/ Drop \/ Join
  BY <1>b, <1>4 DEF PublishFails, Drop, Join
<1>5. CASE Observe \/ Observed
  <2>1. Observed => snapshot = truth /\ truth' = [truth EXCEPT !.sequence = @ + 1]
    BY DEF Observed
  <2>2. Observed => truth'.epoch = truth.epoch /\ ~Before(truth', truth)
    BY <2>1 DEF ServerTypes, Stamps, Before
  <2>3. Observed => snapshot' = truth'
    BY <2>1 DEF Observed
  <2>4. Observed => snapshot' # None
    BY <2>2, <2>3, LocalStatusAssumption DEF Observed, ServerTypes, Stamps
  <2>5. CASE Observed
    BY <2>2, <2>3, <2>4, <2>5 DEF Observed
  <2>6. CASE Observe
    BY <2>6 DEF Observe
  <2> QED BY <1>5, <2>5, <2>6
<1>6. CASE Kill
  BY <1>b, <1>6 DEF Kill, ServerTypes
<1>7. ASSUME NEW k \in Publishers, Thread(k) \/ AcceptFails(k) PROVE Published' /\ ~Before(truth', truth)
  <2>1. CASE Accept(k) \/ AcceptFails(k) \/ Connected(k) \/ Listen(k) \/ Identify(k)
    BY <2>1 DEF Accept, AcceptFails, Connected, Listen, Identify, ServerTypes
  <2>2. CASE Request(k) \/ RequestFails(k) \/ Lock(k) \/ Write(k) \/ Ack(k) \/ Stop(k)
    BY <2>2 DEF Request, RequestFails, Lock, Write, Ack, Stop, ServerTypes
  <2>3. CASE Close(k)
    BY <2>3 DEF Close, ServerTypes
  <2>4. CASE Leave(k)
    BY <2>4 DEF Leave, ServerTypes
  <2> QED BY <1>7, <2>1, <2>2, <2>3, <2>4 DEF Thread
<1>8. ASSUME NEW r \in Readers, BeginRead(r) \/ Read(r) \/ Vanish(r) PROVE Published' /\ ~Before(truth', truth)
  BY <1>8 DEF BeginRead, Read, Stat, Connect, Send, Receive, HangsUp, Vanish
<1> QED BY <1>1, <1>2, <1>3, <1>4, <1>5, <1>6, <1>7, <1>8 DEF StatusNext

LEMMA AnsweredKept ==
  ASSUME StatusTypes, StatusTypes', Published, Answered, [StatusNext]_statusVars, ~Before(truth', truth)
  PROVE  Answered'
<1> SUFFICES ASSUME NEW r \in Readers PROVE TrueFor(reads'[r], truth')
  BY DEF Answered, TrueFor, Before
<1>1. reads[r] \in Reads /\ reads'[r] \in Reads /\ truth \in Stamps /\ truth' \in Stamps
  BY DEF StatusTypes, ServerTypes
<1>2. TrueFor(reads[r], truth)
  BY DEF Answered
<1>3. TrueFor(reads'[r], truth)
  <2>1. ReadStep(reads[r], reads'[r])
    BY ReadSteps
  <2>2. CASE Changed(reads[r], reads'[r])
    <3>1. /\ reads'[r].answer \in {reads[r].answer, None, Blank} \cup ({snapshot} \cap {truth})
          /\ reads'[r].since = reads[r].since
      BY <2>2 DEF Changed
    <3>2. CASE reads'[r].answer = truth
      BY <1>1, <1>2, <3>1, <3>2 DEF TrueFor, Before, Stamps
    <3> QED BY <1>1, <1>2, <3>1, <3>2, StillTrue
  <2>3. CASE reads'[r] = NoCall
    BY <1>1, <2>3, NoCallIsTrue
  <2>4. CASE \E at \in {"connect", "stat"} : reads'[r] = [NoCall EXCEPT !.pc = at, !.since = truth]
    <3>1. reads'[r].since = truth /\ reads'[r].answer = None
      BY <2>4 DEF NoCall
    <3> QED BY <1>1, <3>1 DEF TrueFor, Before, Stamps
  <2> QED BY <2>1, <2>2, <2>3, <2>4 DEF ReadStep
<1> QED BY <1>1, <1>3, TruthGoesOn

\* Only the thread of the publisher that is owned runs, the snapshot is the truth
\* while there is one, and what a read has was true since it began (LocalStatus).
THEOREM StatusInductive == StatusSpec => []StatusInv
<1>1. StatusInv /\ [StatusNext]_statusVars => StatusInv'
  BY StatusTypesKept, EndpointKept, PublishedKept, AnsweredKept DEF StatusInv, StatusTypes
<1> QED BY <1>1, StatusInitHolds, PTL DEF StatusSpec

\* For any number of readers, publishers, observations and mishaps, what read
\* returns was true while it ran and belongs to the binding asked for.
THEOREM StatusAnswersAreTrue == StatusSpec => []AnswersAreTrue
<1>1. StatusInv => AnswersAreTrue
  BY DEF StatusInv, Answered, TrueFor, AnswersAreTrue, Whole
<1> QED BY <1>1, StatusInductive, PTL

\* No thread of an earlier publisher takes the endpoint of a later one away (Drop).
THEOREM StatusEndpointStays == StatusSpec => []EndpointStays
<1>1. StatusInv => EndpointStays
  BY DEF StatusInv
<1> QED BY <1>1, StatusInductive, PTL
=============================================================================
