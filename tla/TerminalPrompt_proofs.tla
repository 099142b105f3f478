----------------------- MODULE TerminalPrompt_proofs ------------------------
(* Proofs about TerminalPrompt, for any number of threads and prompts, and   *)
(* about ProcessCapture, for every limit.                                    *)
EXTENDS TerminalPrompt, ProcessCapture, TLAPS

\* TerminalSignalGuard::previous and the dispositions with n handlers installed.
Held(n) == [i \in 1..n |-> <<Order[i], "own">>]
Rank(s) == CASE s = "INT" -> 1 [] s = "TERM" -> 2 [] OTHER -> 3
Acts(n) == [s \in Signals |-> IF Rank(s) <= n THEN "caught" ELSE "own"]

Guards(t, n) == previous[t] = Held(n) /\ action = Acts(n)
Full == IF windows THEN 0 ELSE 3

Loop == {"label", "units", "unmode"} \cup Waiting

\* Where the prompt that is going on has come to with the terminal.
Position(t) ==
  /\ pc[t] \in {"open", "unlock"} => Guards(t, 0) /\ mode = "own"
  /\ pc[t] = "install" => /\ ~windows /\ original[t] = "own" /\ mode = "own"
                          /\ \E n \in 0..2 : Guards(t, n)
  /\ pc[t] = "protect" => original[t] = "own" /\ mode = "own" /\ Guards(t, Full)
  /\ pc[t] \in Loop => original[t] = "own" /\ Guards(t, Full)
  /\ pc[t] = "restore" => ~windows /\ mode = "own" /\ \E n \in 0..3 : Guards(t, n)

Types ==
  /\ windows \in BOOLEAN
  /\ holder \in Threads \cup {None}
  /\ pc \in [Threads -> {"idle", "called"} \cup Asking]
  /\ original \in [Threads -> {"own", "protected"}]
  /\ DOMAIN previous = Threads

\* The prompts take turns; the others have nothing installed.
Turns ==
  /\ \A t \in Threads : pc[t] \in Asking <=> holder = t
  /\ \A t \in Threads : t # holder => previous[t] = Held(0)

IInv ==
  /\ Types /\ Turns
  /\ holder # None => Position(holder)
  /\ holder = None => mode = "own" /\ action = Acts(0)
  /\ dead => mode = "own"

-----------------------------------------------------------------------------
\* Handlers go on and off a stack.

LEMMA HeldEmpty == Held(0) = <<>>
BY DEF Held

LEMMA HeldLast ==
  ASSUME NEW n \in 1..3
  PROVE  /\ Held(n) # <<>> /\ Len(Held(n)) = n
         /\ Last(Held(n)) = <<Order[n], "own">> /\ Front(Held(n)) = Held(n - 1)
<1>1. Held(n) \in Seq(Signals \X {"own"}) /\ Len(Held(n)) = n
  BY DEF Held, Order, Signals
<1>2. Held(n)[n] = <<Order[n], "own">>
  BY DEF Held
<1>3. SubSeq(Held(n), 1, n - 1) = Held(n - 1)
  BY <1>1 DEF Held
<1> QED BY <1>1, <1>2, <1>3 DEF Last, Front

LEMMA HeldNext ==
  ASSUME NEW n \in 0..2
  PROVE  Len(Held(n)) = n /\ Append(Held(n), <<Order[n + 1], "own">>) = Held(n + 1)
<1>1. Held(n) \in Seq(Signals \X {"own"}) /\ Len(Held(n)) = n
  BY DEF Held, Order, Signals
<1> QED BY <1>1 DEF Held

LEMMA ActsNext ==
  ASSUME NEW n \in 0..2
  PROVE  /\ Order[n + 1] \in Signals /\ Acts(n)[Order[n + 1]] = "own"
         /\ [Acts(n) EXCEPT ![Order[n + 1]] = "caught"] = Acts(n + 1)
         /\ [Acts(n + 1) EXCEPT ![Order[n + 1]] = "own"] = Acts(n)
<1> DEFINE o == Order[n + 1]
<1>1. o \in Signals /\ Rank(o) = n + 1
  BY n = 0 \/ n = 1 \/ n = 2 DEF Order, Signals, Rank
<1>2. \A s \in Signals : Rank(s) \in 1..3 /\ (Rank(s) = n + 1 => s = o)
  BY n = 0 \/ n = 1 \/ n = 2 DEF Order, Signals, Rank
<1> HIDE DEF o
<1>3. \A s \in Signals : s # o => (Rank(s) <= n <=> Rank(s) <= n + 1)
  BY <1>2
<1>4. Rank(o) <= n + 1 /\ ~(Rank(o) <= n)
  BY <1>1
<1>5. Acts(n)[o] = "own" /\ [Acts(n) EXCEPT ![o] = "caught"] = Acts(n + 1)
  BY <1>1, <1>3, <1>4, Zenon DEF Acts
<1>6. [Acts(n + 1) EXCEPT ![o] = "own"] = Acts(n)
  BY <1>1, <1>3, <1>4, Zenon DEF Acts
<1> QED BY <1>1, <1>5, <1>6 DEF o

-----------------------------------------------------------------------------
\* The invariant is inductive.

LEMMA InstallKeeps ==
  ASSUME IInv, NEW t \in Threads, Install(t)
  PROVE  IInv'
<1>0. holder = t /\ Position(t) /\ pc[t] = "install"
  BY TerminalPromptAssumption DEF IInv, Types, Turns, Install, At, Asking
<1>1. PICK n \in 0..2 : Guards(t, n)
  BY <1>0 DEF Position
<1>2. Len(previous[t]) = n /\ action[Order[n + 1]] = "own"
  BY <1>1, HeldNext, ActsNext DEF Guards
<1>3. previous'[t] = Held(n + 1) /\ action' = Acts(n + 1)
  BY <1>1, <1>2, HeldNext, ActsNext DEF Guards, Install, IInv, Types
<1>4. \A u \in Threads \ {t} : previous'[u] = previous[u] /\ pc'[u] = pc[u]
  BY DEF Install, Goto, IInv, Types
<1>5. pc'[t] = IF n = 2 THEN "protect" ELSE "install"
  BY <1>2 DEF Install, Goto, IInv, Types
<1>6. ~windows' /\ original'[t] = "own" /\ mode' = "own" /\ holder' = t /\ dead' = dead
  BY <1>0 DEF Position, Install, still
<1>7. n + 1 \in 0..3 /\ (n # 2 => n + 1 \in 0..2) /\ (n = 2 => n + 1 = 3)
  OBVIOUS
<1>8. Guards(t, n + 1)'
  BY <1>3 DEF Guards
<1>9. Position(t)'
  <2>1. CASE n = 2
    BY <2>1, <1>5, <1>6, <1>7, <1>8 DEF Position, Full, Loop, Waiting
  <2>2. CASE n # 2
    BY <2>2, <1>5, <1>6, <1>7, <1>8 DEF Position, Full, Loop, Waiting
  <2> QED BY <2>1, <2>2
<1>10. Types'
  BY <1>5, <1>6 DEF IInv, Types, Install, Goto, still, Asking
<1>11. Turns'
  BY <1>0, <1>4, <1>5, <1>6 DEF IInv, Turns, Asking
<1> QED BY <1>6, <1>9, <1>10, <1>11, TerminalPromptAssumption DEF IInv

LEMMA RestoreKeeps ==
  ASSUME IInv, NEW t \in Threads, Restore(t)
  PROVE  IInv'
<1>0. holder = t /\ Position(t) /\ pc[t] = "restore"
  BY TerminalPromptAssumption DEF IInv, Types, Turns, Restore, At, Asking
<1>1. PICK n \in 0..3 : Guards(t, n)
  BY <1>0 DEF Position
<1>2. ~windows' /\ mode' = "own" /\ holder' = t /\ dead' = dead
  BY <1>0 DEF Position, Restore, still
<1>3. CASE n = 0
  BY <1>0, <1>1, <1>2, <1>3, HeldEmpty, TerminalPromptAssumption
     DEF IInv, Types, Turns, Position, Guards, Loop, Waiting, Asking, Restore, At, Goto, still
<1>4. CASE n # 0
  <2>0. n \in 1..3 /\ n - 1 \in 0..2 /\ n - 1 \in 0..3 /\ (n - 1) + 1 = n
    BY <1>4
  <2>1. previous[t] # <<>> /\ Last(previous[t]) = <<Order[n], "own">>
        /\ Front(previous[t]) = Held(n - 1)
    BY <1>1, <2>0, HeldLast DEF Guards
  <2>2. [Acts(n) EXCEPT ![Order[n]] = "own"] = Acts(n - 1)
    BY <2>0, ActsNext
  <2>3. action' = [action EXCEPT ![Order[n]] = "own"] /\ UNCHANGED pc
        /\ previous' = [previous EXCEPT ![t] = Held(n - 1)]
    BY <2>1 DEF Restore
  <2>4. action' = Acts(n - 1) /\ previous'[t] = Held(n - 1)
    BY <1>1, <2>2, <2>3 DEF Guards, IInv, Types
  <2>5. \A u \in Threads \ {t} : previous'[u] = previous[u]
    BY <2>3 DEF IInv, Types
  <2>6. Guards(t, n - 1)'
    BY <2>4 DEF Guards
  <2>7. Position(t)'
    BY <1>0, <1>2, <2>0, <2>3, <2>6 DEF Position, Loop, Waiting
  <2>8. Types' /\ Turns'
    BY <1>0, <1>2, <2>3, <2>5 DEF IInv, Types, Turns, Restore, still
  <2> QED BY <1>2, <2>7, <2>8, TerminalPromptAssumption DEF IInv
<1> QED BY <1>3, <1>4

\* A signal that takes its own action finds no prompt between Protect and Unmode.
LEMMA SignalKeeps ==
  ASSUME IInv, SignalArrives
  PROVE  IInv'
<1>1. holder \in Threads => pc[holder] \in Asking
  BY DEF IInv, Types, Turns
<1>2. dead' => mode' = "own"
  <2>1. CASE UNCHANGED dead
    BY <2>1 DEF SignalArrives, IInv, guards
  <2>2. CASE \E s \in Signals : action[s] # "caught"
    <3> SUFFICES ASSUME mode # "own" PROVE FALSE
      BY DEF SignalArrives, guards
    <3>1. holder \in Threads /\ pc[holder] \in Loop
      BY <1>1 DEF IInv, Types, Position, Asking, Loop, Waiting
    <3>2. action = Acts(3)
      BY <3>1, TerminalPromptAssumption DEF IInv, Position, Guards, Full, SignalArrives
    <3> QED BY <2>2, <3>2 DEF Acts, Rank, Signals
  <2> QED BY <2>1, <2>2 DEF SignalArrives
<1>3. CASE UNCHANGED pc
  BY <1>2, <1>3 DEF IInv, Types, Turns, Position, Guards, Full, SignalArrives, guards
<1>4. CASE \E t \in Threads : At(t, "poll") /\ Goto(t, "check")
  BY <1>2, <1>4
     DEF IInv, Types, Turns, Position, Guards, Full, Loop, Waiting, Asking, At, Goto,
         SignalArrives, guards
<1> QED BY <1>3, <1>4 DEF SignalArrives

LEMMA StepKeeps ==
  ASSUME IInv, NEW t \in Threads, Step(t)
  PROVE  IInv'
<1> USE HeldEmpty, TerminalPromptAssumption
    DEF IInv, Types, Turns, Position, Guards, Full, Loop, Waiting, Asking, At, Goto, Answer,
        still
<1>1. CASE Lock(t)
  BY <1>1 DEF Lock, guards
<1>2. CASE OpenTty(t)
  BY <1>2 DEF OpenTty, Opened
<1>3. CASE OpenConsole(t)
  BY <1>3 DEF OpenConsole, Opened
<1>4. CASE Install(t)
  BY <1>4, InstallKeeps
<1>5. CASE Protect(t)
  BY <1>5 DEF Protect
<1>6. CASE Label(t)
  BY <1>6 DEF Label, guards
<1>7. CASE Check(t)
  BY <1>7 DEF Check, Stop, guards
<1>8. CASE Deadline(t)
  BY <1>8 DEF Deadline, Stop, guards
<1>9. CASE PollTimesOut(t)
  BY <1>9 DEF PollTimesOut, guards
<1>10. CASE WaitTimesOut(t)
  BY <1>10 DEF WaitTimesOut, Stop, guards
<1>11. CASE Read(t)
  BY <1>11 DEF Read, Stop, guards
<1>12. CASE Look(t)
  BY <1>12 DEF Look, Stop, Continue, guards
<1>13. CASE Unmode(t)
  BY <1>13 DEF Unmode
<1>14. CASE Restore(t)
  BY <1>14, RestoreKeeps
<1>15. CASE Unlock(t)
  BY <1>15 DEF Unlock, guards
<1> QED
  BY <1>1, <1>2, <1>3, <1>4, <1>5, <1>6, <1>7, <1>8, <1>9, <1>10, <1>11, <1>12, <1>13, <1>14, <1>15 DEF Step

LEMMA SurpriseKeeps ==
  ASSUME IInv, NEW t \in Threads, Call(t) \/ Fail(t) \/ Ready(t) \/ DeadlinePasses(t)
  PROVE  IInv'
<1> USE HeldEmpty, TerminalPromptAssumption
    DEF IInv, Types, Turns, Position, Guards, Full, Loop, Waiting, Asking, At, Goto, Answer,
        still, guards
<1>1. CASE Call(t)
  BY <1>1 DEF Call
<1>2. CASE Fail(t)
  BY <1>2 DEF Fail, WayOut
<1>3. CASE Ready(t)
  BY <1>3 DEF Ready
<1>4. CASE DeadlinePasses(t)
  BY <1>4 DEF DeadlinePasses
<1> QED BY <1>1, <1>2, <1>3, <1>4

LEMMA InitHolds == Init => IInv
<1>1. Acts(0) = [s \in Signals |-> "own"]
  BY DEF Acts, Rank
<1> QED
  BY <1>1, HeldEmpty, TerminalPromptAssumption
     DEF Init, IInv, Types, Turns, Asking, Waiting

LEMMA NextKeeps == IInv /\ [Next]_vars => IInv'
<1> SUFFICES ASSUME IInv, [Next]_vars PROVE IInv'
  OBVIOUS
<1>1. CASE UNCHANGED vars
  BY <1>1 DEF vars, IInv, Types, Turns, Position, Guards, Full
<1>2. ASSUME NEW t \in Threads, Step(t) PROVE IInv'
  BY <1>2, StepKeeps
<1>3. ASSUME NEW t \in Threads, Call(t) \/ Fail(t) \/ Ready(t) \/ DeadlinePasses(t)
      PROVE  IInv'
  BY <1>3, SurpriseKeeps
<1>4. CASE SignalArrives
  BY <1>4, SignalKeeps
<1> QED BY <1>1, <1>2, <1>3, <1>4 DEF Next

\* However many threads prompt, whatever fails and whenever signals come: the
\* terminal has its own mode when a signal ends the process and when no prompt is
\* going on, and then every signal has its own disposition (the order in which
\* unix_terminal_input makes and drops its two guards).
THEOREM TerminalIsRestored == Spec => []TerminalRestored
<1>1. IInv => TerminalRestored
  BY DEF IInv, TerminalRestored, Acts, Rank, Signals
<1> QED BY <1>1, InitHolds, NextKeeps, PTL DEF Spec

-----------------------------------------------------------------------------
(* Bounded process capture (ProcessCapture), for every limit and every size  *)
(* of a pipe.                                                                *)

\* Nothing is lost between a writer and the reader.
BytesCounted ==
  \A s \in Streams :
    /\ bytes[s] <= written[s]
    /\ phase \in {"idle", "capture"} => bytes[s] + pipe[s] = written[s]
    /\ s \in done => bytes[s] = written[s] /\ bytes[s] <= Maximum /\ holders[s] = {}

\* What became of the child wherever the call is.
ChildFollowed ==
  /\ phase = "idle" => child = "none" /\ done = {} /\ ~killed /\ outcome = "none"
  /\ phase = "capture" => /\ child # "none" /\ ~killed /\ outcome = "none"
                          /\ child = "reaped" => "wait" \in done
  /\ "wait" \in done => child = "reaped"
  /\ phase = "kill" => child \in {"running", "ended"}
  /\ phase = "reap" => killed \/ child = "reaped"
  /\ phase \in {"stop", "kill", "reap"} => child # "none" /\ outcome \in Errors \ {"cleanup"}

CallAnswered ==
  /\ outcome = "ok" => phase = "returned" /\ done = Futures /\ ~killed
  /\ outcome = "limit" => \E s \in Streams : bytes[s] > Maximum

CaptureInv == CaptureTypes /\ BytesCounted /\ ChildFollowed /\ CallAnswered /\ NoChildLeft

-----------------------------------------------------------------------------
LEMMA CaptureInitHolds == CaptureInit => CaptureInv
<1> SUFFICES ASSUME CaptureInit PROVE CaptureInv
  OBVIOUS
<1>1. CaptureTypes
  <2>1. 0 \in 0..MaxWritten /\ 0 \in 0..Capacity /\ 0 \in 0..(Maximum + 1)
    BY ProcessCaptureAssumption
  <2> QED BY <2>1 DEF CaptureInit, CaptureTypes
<1>2. BytesCounted
  BY DEF CaptureInit, BytesCounted
<1>3. ChildFollowed /\ CallAnswered /\ NoChildLeft
  BY DEF CaptureInit, ChildFollowed, CallAnswered, NoChildLeft
<1> QED BY <1>1, <1>2, <1>3 DEF CaptureInv

LEMMA CaptureTypesKept == CaptureTypes /\ [CaptureNext]_captureVars => CaptureTypes'
<1> SUFFICES ASSUME CaptureTypes, [CaptureNext]_captureVars PROVE CaptureTypes'
  OBVIOUS
<1> USE ProcessCaptureAssumption DEF CaptureTypes, pipes, Errors
<1>1. CASE UNCHANGED captureVars
  BY <1>1 DEF captureVars
<1>2. CASE Refuse \/ Spawn
  BY <1>2 DEF Refuse, Spawn, Writers
<1>3. CASE WaitEnds \/ WaitFails \/ TimesOut
  BY <1>3 DEF WaitEnds, WaitFails, TimesOut, Joins, Aborts, Futures
<1>4. CASE TryWait \/ Kill \/ Reap
  BY <1>4 DEF TryWait, Kill, Reap
<1>5. CASE CleanupFails \/ Cancel
  BY <1>5 DEF CleanupFails, Cancel, Drops
<1>6. CASE Fork \/ Exits
  BY <1>6 DEF Fork, Exits, Writers
<1>7. CASE OrphanReaped \/ TimePasses
  BY <1>7 DEF OrphanReaped, TimePasses
<1>8. ASSUME NEW s \in Streams, ReadMore(s) PROVE CaptureTypes'
  <2>1. PICK n \in 1..pipe[s] : /\ bytes[s] + n <= Take
                                /\ bytes' = [bytes EXCEPT ![s] = @ + n]
                                /\ pipe' = [pipe EXCEPT ![s] = @ - n]
    BY <1>8 DEF ReadMore
  <2>2. bytes[s] + n \in 0..(Maximum + 1) /\ pipe[s] - n \in 0..Capacity
    BY <2>1 DEF Take
  <2> QED BY <1>8, <2>1, <2>2 DEF ReadMore
<1>9. ASSUME NEW s \in Streams, ReadEnds(s) \/ ReadFails(s) PROVE CaptureTypes'
  BY <1>9 DEF ReadEnds, ReadFails, Joins, Aborts, Futures
<1>10. ASSUME NEW s \in Streams, NEW w \in Writers, Write(w, s) \/ Close(w, s)
       PROVE  CaptureTypes'
  <2>1. CASE Write(w, s)
    <3>1. written[s] + 1 \in 0..MaxWritten /\ pipe[s] + 1 \in 0..Capacity
      BY <2>1 DEF Write
    <3> QED BY <2>1, <3>1 DEF Write
  <2>2. CASE Close(w, s)
    BY <2>2 DEF Close
  <2> QED BY <1>10, <2>1, <2>2
<1> QED
  BY <1>1, <1>2, <1>3, <1>4, <1>5, <1>6, <1>7, <1>8, <1>9, <1>10 DEF CaptureNext, Progress

LEMMA BytesCountedKept == CaptureInv /\ [CaptureNext]_captureVars => BytesCounted'
<1> SUFFICES ASSUME CaptureInv, [CaptureNext]_captureVars PROVE BytesCounted'
  OBVIOUS
<1> USE ProcessCaptureAssumption DEF CaptureInv, CaptureTypes, BytesCounted, pipes
<1>1. CASE UNCHANGED captureVars
  BY <1>1 DEF captureVars
<1>2. CASE Refuse \/ Spawn
  BY <1>2 DEF Refuse, Spawn, ChildFollowed
<1>3. CASE WaitEnds \/ WaitFails \/ TimesOut
  BY <1>3 DEF WaitEnds, WaitFails, TimesOut, Joins, Aborts, Streams
<1>4. CASE TryWait \/ Kill \/ Reap
  BY <1>4 DEF TryWait, Kill, Reap
<1>5. CASE CleanupFails \/ Cancel
  BY <1>5 DEF CleanupFails, Cancel
<1>6. CASE Fork \/ Exits
  BY <1>6 DEF Fork, Exits
<1>7. CASE OrphanReaped \/ TimePasses
  BY <1>7 DEF OrphanReaped, TimePasses
<1>8. ASSUME NEW s \in Streams, ReadMore(s) PROVE BytesCounted'
  BY <1>8 DEF ReadMore, Take
<1>9. ASSUME NEW s \in Streams, ReadEnds(s) \/ ReadFails(s) PROVE BytesCounted'
  BY <1>9 DEF ReadEnds, ReadFails, Joins, Aborts, Take
<1>10. ASSUME NEW s \in Streams, NEW w \in Writers, Write(w, s) \/ Close(w, s) PROVE BytesCounted'
  BY <1>10 DEF Write, Close
<1> QED
  BY <1>1, <1>2, <1>3, <1>4, <1>5, <1>6, <1>7, <1>8, <1>9, <1>10 DEF CaptureNext, Progress

LEMMA ChildFollowedKept == CaptureInv /\ [CaptureNext]_captureVars => ChildFollowed' /\ CallAnswered' /\ NoChildLeft'
<1> SUFFICES ASSUME CaptureInv, [CaptureNext]_captureVars PROVE ChildFollowed' /\ CallAnswered' /\ NoChildLeft'
  OBVIOUS
<1> USE DEF CaptureInv, CaptureTypes, ChildFollowed, CallAnswered, NoChildLeft, pipes, Errors
<1>1. CASE UNCHANGED captureVars
  BY <1>1 DEF captureVars
<1>2. CASE Refuse \/ Spawn
  BY <1>2 DEF Refuse, Spawn
<1>3. CASE WaitEnds
  BY <1>3 DEF WaitEnds, Joins, Exited, Futures, Streams
<1>4. CASE WaitFails \/ TimesOut
  BY <1>4 DEF WaitFails, TimesOut, Aborts
<1>5. CASE TryWait \/ Kill \/ Reap
  BY <1>5 DEF TryWait, Kill, Reap, Exited
<1>6. CASE CleanupFails \/ Cancel
  BY <1>6 DEF CleanupFails, Cancel, Drops
<1>7. CASE Fork \/ Exits
  BY <1>7 DEF Fork, Exits
<1>8. CASE OrphanReaped \/ TimePasses
  BY <1>8 DEF OrphanReaped, TimePasses
<1>9. ASSUME NEW s \in Streams, ReadMore(s) PROVE ChildFollowed' /\ CallAnswered' /\ NoChildLeft'
  BY <1>9 DEF ReadMore
<1>10. ASSUME NEW s \in Streams, ReadEnds(s) \/ ReadFails(s)
       PROVE  ChildFollowed' /\ CallAnswered' /\ NoChildLeft'
  BY <1>10 DEF ReadEnds, ReadFails, Joins, Aborts, Futures, Streams
<1>11. ASSUME NEW s \in Streams, NEW w \in Writers, Write(w, s) \/ Close(w, s)
       PROVE  ChildFollowed' /\ CallAnswered' /\ NoChildLeft'
  BY <1>11 DEF Write, Close
<1> QED
  BY <1>1, <1>2, <1>3, <1>4, <1>5, <1>6, <1>7, <1>8, <1>9, <1>10, <1>11 DEF CaptureNext, Progress

LEMMA CaptureInductive == CaptureSpec => []CaptureInv
<1>1. CaptureInv /\ [CaptureNext]_captureVars => CaptureInv'
  BY CaptureTypesKept, BytesCountedKept, ChildFollowedKept DEF CaptureInv
<1> QED BY <1>1, CaptureInitHolds, PTL DEF CaptureSpec

-----------------------------------------------------------------------------
\* Every variable stays in its type (all of capture_bounded).
THEOREM CaptureTypeCorrect == CaptureSpec => []CaptureTypes
BY CaptureInductive, PTL DEF CaptureInv

\* What is returned is all that was written, with the status of a child that was
\* not killed, and a refusal means that more was written (read_pipe).
THEOREM OutputsAreComplete == CaptureSpec => []OutputIsComplete
<1>1. CaptureInv => OutputIsComplete
  BY ProcessCaptureAssumption
     DEF CaptureInv, CaptureTypes, BytesCounted, ChildFollowed, CallAnswered, OutputIsComplete, Futures, Streams
<1> QED BY <1>1, CaptureInductive, PTL

\* No call that returns leaves its child behind without saying so
\* (stop_and_reap, kill_on_drop).
THEOREM NoneLeft == CaptureSpec => []NoChildLeft
BY CaptureInductive, PTL DEF CaptureInv

\* SIGKILL goes to no process that has been waited for (try_wait, kill_on_drop).
THEOREM KillsNoOther == CaptureSpec => KillsOnlyItsChild
<1>1. CaptureInv /\ [CaptureNext]_captureVars => [killed' # killed => child \in {"running", "ended"}]_captureVars
  BY DEF CaptureInv, CaptureTypes, ChildFollowed, CaptureNext, Progress, Refuse, Spawn, WaitEnds, TimesOut, TryWait, Kill,
         Reap, ReadMore, ReadEnds, WaitFails, CleanupFails, Cancel, Drops, Fork, Exits, OrphanReaped,
         TimePasses, ReadFails, Write, Close, captureVars
<1> QED BY <1>1, CaptureInductive, PTL DEF CaptureSpec, KillsOnlyItsChild

\* No child is left and no other process is killed, however the call ends.
THEOREM EndsOnce == CaptureSpec => ChildEndsOnce
BY NoneLeft, KillsNoOther, PTL DEF ChildEndsOnce
=============================================================================
