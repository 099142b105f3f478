--------------------------- MODULE ProcessCapture ---------------------------
(***************************************************************************)
(* capture_bounded of src/src/runtime/process.rs: one child process, its   *)
(* two output pipes, a descendant that may inherit them, the three futures *)
(* that are joined under a deadline, and the stop and reap of every other  *)
(* way out.  Bytes are counted.                                            *)
(***************************************************************************)
EXTENDS Integers, FiniteSets

CONSTANTS
  Maximum,    \* limits.stdout_bytes, limits.stderr_bytes
  Capacity,   \* what the operating system buffers in a pipe
  MaxWritten  \* bound: bytes ever written to a pipe

ASSUME ProcessCaptureAssumption == {Maximum, Capacity, MaxWritten} \subseteq Nat \ {0}

VARIABLES
  blocked,  \* SIGCHLD is blocked in this process
  phase,       \* where the call is
  elapsed,  \* limits.timeout has elapsed
  outcome,  \* what it returns
  done,     \* the futures of try_join! that are ready
  child,    \* "none", "running", "ended" or "reaped"
  killed,   \* it has been sent SIGKILL
  holders,  \* who has the writing end of each pipe
  written,  \* bytes ever written to each pipe
  pipe,     \* bytes in it
  bytes     \* bytes read from it

captureVars == <<blocked, phase, elapsed, outcome, done, child, killed, holders, written, pipe, bytes>>
pipes == <<holders, written, pipe, bytes>>

Streams  == {"stdout", "stderr"}
Futures  == {"wait"} \cup Streams
Writers  == {"child", "heir"}
Errors   == {"invalid", "spawn", "read", "wait", "timeout", "limit", "cleanup"}

\* Faulty variant: not the one byte more.
TakeMaximum == Maximum

\* read_pipe's take.
Take == Maximum + 1

CaptureTypes ==
  /\ blocked \in BOOLEAN /\ elapsed \in BOOLEAN /\ killed \in BOOLEAN
  /\ phase \in {"idle", "capture", "stop", "kill", "reap", "returned", "cancelled"}
  /\ outcome \in {"none", "ok"} \cup Errors
  /\ done \subseteq Futures
  /\ child \in {"none", "running", "ended", "reaped"}
  /\ holders \in [Streams -> SUBSET Writers]
  /\ written \in [Streams -> 0..MaxWritten]
  /\ pipe \in [Streams -> 0..Capacity]
  /\ bytes \in [Streams -> 0..(Maximum + 1)]

CaptureInit ==
  /\ blocked \in BOOLEAN
  /\ phase = "idle" /\ outcome = "none" /\ child = "none"
  /\ elapsed = FALSE /\ killed = FALSE
  /\ done = {}
  /\ holders = [s \in Streams |-> {}]
  /\ written = [s \in Streams |-> 0]
  /\ pipe = [s \in Streams |-> 0]
  /\ bytes = [s \in Streams |-> 0]

-----------------------------------------------------------------------------
\* The call.

\* Limits out of range, or no process.
Refuse ==
  /\ phase = "idle"
  /\ phase' = "returned" /\ outcome' \in {"invalid", "spawn"}
  /\ UNCHANGED <<blocked, elapsed, done, child, killed, pipes>>

Spawn ==
  /\ phase = "idle"
  /\ phase' = "capture"
  /\ child' = "running"
  /\ holders' = [s \in Streams |-> {"child"}]
  /\ UNCHANGED <<blocked, elapsed, outcome, done, killed, written, pipe, bytes>>

\* The capture ends with an error; its ends of the pipes are dropped.
Aborts(error) == outcome' = error /\ phase' = "stop"

\* One more future of try_join! is ready; with the last one the call returns.
Joins(future) ==
  /\ done' = done \cup {future}
  /\ IF done' = Futures THEN phase' = "returned" /\ outcome' = "ok" ELSE UNCHANGED <<phase, outcome>>

\* Faulty variant: only SIGCHLD wakes the wait.
NeverRepolls == FALSE

\* wait_for_exit polls every 25 ms.
Repolls == TRUE

Exited == child \in {"ended", "reaped"} /\ (child = "ended" => Repolls \/ ~blocked)

WaitEnds ==
  /\ phase = "capture" /\ "wait" \notin done /\ Exited
  /\ child' = "reaped"
  /\ Joins("wait")
  /\ UNCHANGED <<blocked, elapsed, killed, pipes>>

WaitFails ==
  /\ phase = "capture" /\ "wait" \notin done
  /\ Aborts("wait")
  /\ UNCHANGED <<blocked, elapsed, done, child, killed, pipes>>

ReadMore(s) ==
  /\ phase = "capture" /\ s \notin done
  /\ \E n \in 1..pipe[s] :
       /\ bytes[s] + n <= Take
       /\ bytes' = [bytes EXCEPT ![s] = @ + n]
       /\ pipe' = [pipe EXCEPT ![s] = @ - n]
  /\ UNCHANGED <<blocked, phase, elapsed, outcome, done, child, killed, holders, written>>

\* At the end of the pipe, or of what take lets through.
ReadEnds(s) ==
  /\ phase = "capture" /\ s \notin done
  /\ bytes[s] # Take => pipe[s] = 0 /\ holders[s] = {}
  /\ IF bytes[s] > Maximum THEN Aborts("limit") /\ UNCHANGED done ELSE Joins(s)
  /\ UNCHANGED <<blocked, elapsed, child, killed, pipes>>

ReadFails(s) ==
  /\ phase = "capture" /\ s \notin done
  /\ Aborts("read")
  /\ UNCHANGED <<blocked, elapsed, done, child, killed, pipes>>

TimesOut ==
  /\ phase = "capture" /\ elapsed
  /\ Aborts("timeout")
  /\ UNCHANGED <<blocked, elapsed, done, child, killed, pipes>>

-----------------------------------------------------------------------------
\* stop_and_reap, and the Child that is dropped.

\* Faulty variant: start_kill without try_wait.
KillsAnyway ==
  /\ phase = "stop"
  /\ phase' = "kill"
  /\ UNCHANGED <<blocked, elapsed, outcome, done, child, killed, pipes>>

TryWait ==
  /\ phase = "stop"
  /\ phase' = IF child = "running" THEN "kill" ELSE "reap"
  /\ child' = IF child = "ended" THEN "reaped" ELSE child
  /\ UNCHANGED <<blocked, elapsed, outcome, done, killed, pipes>>

\* The child may have ended since; it is still there to be waited for.
Kill ==
  /\ phase = "kill"
  /\ killed' = TRUE
  /\ phase' = "reap"
  /\ UNCHANGED <<blocked, elapsed, outcome, done, child, pipes>>

Reap ==
  /\ phase = "reap" /\ Exited
  /\ child' = "reaped"
  /\ phase' = "returned"
  /\ UNCHANGED <<blocked, elapsed, outcome, done, killed, pipes>>

\* kill_on_drop.
Drops == killed' = (killed \/ child \in {"running", "ended"})

CleanupFails ==
  /\ phase \in {"stop", "kill", "reap"}
  /\ phase' = "returned" /\ outcome' = "cleanup"
  /\ Drops
  /\ UNCHANGED <<blocked, elapsed, done, child, pipes>>

\* The caller drops the future where it awaits.
Cancel ==
  /\ phase \in {"capture", "reap"}
  /\ phase' = "cancelled"
  /\ Drops
  /\ UNCHANGED <<blocked, elapsed, outcome, done, child, pipes>>

-----------------------------------------------------------------------------
\* The child, and the descendant that it leaves behind.

Write(w, s) ==
  /\ w \in holders[s]
  /\ phase = "capture" /\ pipe[s] < Capacity
  /\ written[s] < MaxWritten
  /\ written' = [written EXCEPT ![s] = @ + 1]
  /\ pipe' = [pipe EXCEPT ![s] = @ + 1]
  /\ UNCHANGED <<blocked, phase, elapsed, outcome, done, child, killed, holders, bytes>>

Close(w, s) ==
  /\ w \in holders[s]
  /\ holders' = [holders EXCEPT ![s] = @ \ {w}]
  /\ UNCHANGED <<blocked, phase, elapsed, outcome, done, child, killed, written, pipe, bytes>>

Fork ==
  /\ child = "running"
  /\ holders' = [s \in Streams |->
                   IF "child" \in holders[s] THEN Writers ELSE holders[s]]
  /\ UNCHANGED <<blocked, phase, elapsed, outcome, done, child, killed, written, pipe, bytes>>

Exits ==
  /\ child = "running"
  /\ child' = "ended"
  /\ holders' = [s \in Streams |-> holders[s] \ {"child"}]
  /\ UNCHANGED <<blocked, phase, elapsed, outcome, done, killed, written, pipe, bytes>>

Dies == killed /\ Exits

\* tokio waits for a child that was dropped.
OrphanReaped ==
  /\ child = "ended" /\ phase \in {"returned", "cancelled"}
  /\ child' = "reaped"
  /\ UNCHANGED <<blocked, phase, elapsed, outcome, done, killed, pipes>>

TimePasses ==
  /\ phase = "capture" /\ ~elapsed
  /\ elapsed' = TRUE
  /\ UNCHANGED <<blocked, phase, outcome, done, child, killed, pipes>>

-----------------------------------------------------------------------------
Progress ==
  \/ WaitEnds \/ TimesOut \/ TryWait \/ Kill \/ Reap
  \/ \E s \in Streams : ReadMore(s) \/ ReadEnds(s)

CaptureNext ==
  \/ Refuse \/ Spawn \/ Progress
  \/ WaitFails \/ CleanupFails \/ Cancel
  \/ Fork \/ Exits \/ OrphanReaped \/ TimePasses
  \/ \E s \in Streams : ReadFails(s) \/ \E w \in Writers : Write(w, s) \/ Close(w, s)

CaptureSpec == CaptureInit /\ [][CaptureNext]_captureVars

\* The runtime polls the task, time passes, and SIGKILL ends a process.  Nothing
\* is assumed of the child that is not killed, or of its descendant.
FairCapture == CaptureSpec /\ WF_captureVars(Progress) /\ WF_captureVars(TimePasses) /\ WF_captureVars(Dies)

-----------------------------------------------------------------------------
\* Properties.

\* An output that is returned is everything that the child and its descendants
\* wrote, up to the last byte the limit allows, with the status of a child that
\* ended by itself; and it is refused only if more was written (read_pipe and
\* try_join!).
OutputIsComplete ==
  /\ outcome = "ok" =>
       /\ ~killed /\ child = "reaped"
       /\ \A s \in Streams :
            bytes[s] = written[s] /\ written[s] <= Maximum /\ holders[s] = {}
  /\ outcome = "limit" => \E s \in Streams : written[s] > Maximum

\* A call that returns leaves no child, neither running nor to be waited for,
\* unless it says that the cleanup failed; one that is cancelled or could not
\* clean up has asked for the child's end (the comment of capture_bounded).
NoChildLeft ==
  \/ phase \notin {"returned", "cancelled"}
  \/ child \in {"none", "reaped"}
  \/ killed /\ (phase = "cancelled" \/ outcome = "cleanup")

\* SIGKILL goes to the child only while it has not been waited for: after that
\* its number may be another process's (try_wait before start_kill, and
\* kill_on_drop).
KillsOnlyItsChild == [][killed' # killed => child \in {"running", "ended"}]_captureVars

\* The child is waited for once, and killed only before that.
ChildEndsOnce == []NoChildLeft /\ KillsOnlyItsChild

\* A call ends, whatever the child does, whoever keeps the pipes and even if no
\* SIGCHLD ever comes (the deadline, and the polling of wait_for_exit).
CaptureEnds == phase = "capture" ~> phase \in {"returned", "cancelled"}
=============================================================================
