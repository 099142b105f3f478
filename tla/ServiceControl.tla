--------------------------- MODULE ServiceControl ---------------------------
(***************************************************************************)
(* Service::change of src/src/cli/service.rs: the commands that it gives   *)
(* to systemctl, sc.exe or launchctl, the waiting for their effect and the *)
(* startup policy that a one-off start on macOS lifts and restores.  Each  *)
(* command is one capture (see ProcessCapture): it succeeds, is refused,   *)
(* or fails in a way that tells nothing of its effect.                     *)
(*                                                                         *)
(* The service and its manager go on by themselves, and other              *)
(* administrators give commands of their own.                              *)
(***************************************************************************)
EXTENDS Integers

CONSTANTS MaxOthers  \* bound: commands of others and ends of the service by itself

ASSUME ServiceControlAssumption == MaxOthers \in Nat

VARIABLES
  platform,
  run,      \* the service: "absent" (macOS: no definition is loaded), "stopped",
            \* "starting", "running", "stopping"
  startup,  \* "automatic", or "disabled" (Windows: manual)
  pc,       \* where change is
  action,   \* what it was asked for
  now,      \* --now
  before,   \* what verified_status told: state (as reported), loaded, startup
  held,     \* how the one-off start went while the policy is restored
  late,     \* the deadline of the wait has passed
  result,
  \* History: the states of the service since change gave its last command (or
  \* began), whether its process was started since change began, the policy of that
  \* time, and whether somebody else changed it.
  seen, fresh, original, touched,
  misread,   \* launchctl print failed for a reason of its own
  others     \* so far, see MaxOthers

vars == <<platform, run, startup, pc, action, now, before, held, late, result, seen, fresh,
          original, touched, misread, others>>
service == <<run, startup, seen, fresh>>
call    == <<platform, action, now, original, touched, misread, others>>

Actions == {"start", "stop", "restart", "enable", "disable"}
States  == {"absent", "stopped", "starting", "running", "stopping"}
Outcomes == {"ok", "denied", "failed"}

PolicyChange == action \in {"enable", "disable"}
ShouldStart  == action \in {"start", "restart"} \/ (action = "enable" /\ now)
ShouldStop   == action = "stop" \/ (action = "disable" /\ now)
Wanted       == IF action = "enable" THEN "automatic" ELSE "disabled"

\* The state in the status; launchctl's knows only "running" and the rest.
Reported ==
  IF run \in {"running", "stopped"} THEN run
  ELSE IF platform = "macos" THEN "stopped" ELSE "unknown"

Expected == IF action \in {"stop", "disable"} THEN "stopped" ELSE "running"

ServiceTypes ==
  /\ run \in States /\ (platform # "macos" => run # "absent")
  /\ startup \in {"automatic", "disabled"}
  /\ seen \subseteq States /\ fresh \in BOOLEAN

TypeOK ==
  /\ ServiceTypes
  /\ platform \in {"linux", "windows", "macos"}
  /\ pc \in {"idle", "status", "policy", "choose", "stopped", "command", "now", "lift", "begin",
             "restore", "bootout", "unloaded", "after", "wait", "final", "returned"}
  /\ action \in Actions /\ now \in BOOLEAN
  /\ before \in [state : {"running", "stopped", "unknown"}, loaded : BOOLEAN,
                 startup : {"automatic", "disabled"}]
  /\ held \in Outcomes
  /\ {late, touched, misread} \subseteq BOOLEAN /\ original \in {"automatic", "disabled"}
  /\ result \in {"none", "ok", "denied", "failed", "unlifted", "unrestored", "unconfirmed"}
  /\ others \in 0..MaxOthers

Init ==
  /\ platform \in {"linux", "windows", "macos"}
  /\ run \in States \ (IF platform = "macos" THEN {} ELSE {"absent"})
  /\ startup \in {"automatic", "disabled"}
  /\ pc = "idle" /\ result = "none" /\ held = "ok"
  /\ action \in Actions /\ now \in BOOLEAN
  /\ before = [state |-> "unknown", loaded |-> FALSE, startup |-> "automatic"]
  /\ late = FALSE /\ fresh = FALSE /\ touched = FALSE /\ misread = FALSE
  /\ seen = {run} /\ original = startup
  /\ others = 0

-----------------------------------------------------------------------------
\* What the managers do.

Starts(s) == run' = s /\ seen' = {s} /\ fresh' = TRUE /\ UNCHANGED startup
Stops(s)  == run' = s /\ seen' = {s} /\ UNCHANGED <<startup, fresh>>
Stays     == seen' = {run} /\ UNCHANGED <<run, startup, fresh>>
Sets(p)   == startup' = p /\ UNCHANGED <<run, seen, fresh>>

\* Starting a running service does nothing on Linux and macOS; Windows refuses.
\* systemctl returns when the job is done, the others at once.
Begin ==
  \/ platform = "linux" /\ run # "running" /\ Starts("running")
  \/ platform = "windows" /\ run = "stopped" /\ Starts("starting")
  \/ platform = "macos" /\ run \in {"absent", "stopped"} /\ Starts("starting")
  \/ platform = "linux" /\ run = "running" /\ Stays
  \/ platform = "macos" /\ run \in {"starting", "running"} /\ Stays

End ==
  \/ platform = "linux" /\ Stops("stopped")
  \/ platform = "windows" /\ run = "running" /\ Stops("stopping")
  \/ platform = "macos" /\ run = "stopped" /\ Stops("absent")
  \/ platform = "macos" /\ run \in {"starting", "running", "stopping"} /\ Stops("stopping")

Again == run # "stopping" /\ Starts(IF platform = "linux" THEN "running" ELSE "starting")

\* systemctl enable --now and disable --now.
SetsNow(p) ==
  /\ startup' = p
  /\ run' = IF p = "automatic" THEN "running" ELSE "stopped"
  /\ seen' = {run'}
  /\ fresh' = (fresh \/ (p = "automatic" /\ run # "running"))

-----------------------------------------------------------------------------
\* One command and its capture.

Goto(step) == pc' = step /\ UNCHANGED result
Return(r)  == pc' = "returned" /\ result' = r

Command(Effect, next, failure) ==
  \/ Effect /\ Goto(next)
  \/ UNCHANGED service /\ Return("denied")
  \/ (Effect \/ UNCHANGED service) /\ Return(failure)

-----------------------------------------------------------------------------
\* verified_status: the state, then the policy.

Call ==
  /\ pc = "idle"
  /\ Goto("status")
  /\ seen' = {run} /\ fresh' = FALSE /\ original' = startup /\ touched' = FALSE
  /\ UNCHANGED <<platform, run, startup, action, now, before, held, late,
                 misread, others>>

Status ==
  /\ pc = "status"
  /\ before' = [before EXCEPT !.state = Reported, !.loaded = run # "absent"]
  /\ Goto("policy")
  /\ UNCHANGED <<service, call, held, late>>

\* Whatever launchctl's reason, the service is taken for one that is not loaded.
Misread ==
  /\ pc = "status" /\ platform = "macos"
  /\ before' = [before EXCEPT !.state = "stopped", !.loaded = FALSE]
  /\ misread' = TRUE
  /\ Goto("policy")
  /\ UNCHANGED <<service, platform, action, now, original, touched, others, held, late>>

Policy ==
  /\ pc = "policy"
  /\ before' = [before EXCEPT !.startup = startup]
  /\ Goto("choose")
  /\ UNCHANGED <<service, call, held, late>>

\* A command that fails, or a service that is not the expected one.
Refuse ==
  /\ pc \in {"status", "policy", "stopped", "wait", "final"}
  /\ Return("failed")
  /\ UNCHANGED <<service, call, before, held, late>>

-----------------------------------------------------------------------------
\* change on Linux: one systemctl.

Systemctl ==
  /\ pc = "choose" /\ platform = "linux"
  /\ \/ PolicyChange /\ now /\ Command(SetsNow(Wanted), "after", "failed")
     \/ PolicyChange /\ ~now /\ Command(Sets(Wanted), "after", "failed")
     \/ action = "start" /\ Command(Begin, "after", "failed")
     \/ action = "stop" /\ Command(End, "after", "failed")
     \/ action = "restart" /\ Command(Again, "after", "failed")
  /\ UNCHANGED <<call, before, held, late>>

-----------------------------------------------------------------------------
\* change on Windows.

Nothing == \/ action = "start" /\ before.state = "running"
           \/ action = "stop" /\ before.state = "stopped"

AsItWas ==
  /\ pc = "choose" /\ platform = "windows" /\ Nothing
  /\ Return("ok")
  /\ UNCHANGED <<service, call, before, held, late>>

StopFirst ==
  /\ pc = "choose" /\ platform = "windows"
  /\ action = "restart" /\ before.state # "stopped"
  /\ Command(End, "stopped", "failed")
  /\ late' = FALSE
  /\ UNCHANGED <<call, before, held>>

Directly ==
  /\ pc = "choose" /\ platform = "windows" /\ ~Nothing
  /\ ~(action = "restart" /\ before.state # "stopped")
  /\ Goto("command")
  /\ UNCHANGED <<service, call, before, held, late>>

\* enable and disable with --now have a second command, unless it is so already.
SecondCommand ==
  now /\ PolicyChange /\ before.state # (IF action = "enable" THEN "running" ELSE "stopped")

ScCommand ==
  /\ pc = "command"
  /\ \/ PolicyChange /\ Command(Sets(Wanted), IF SecondCommand THEN "now" ELSE "after", "failed")
     \/ action \in {"start", "restart"} /\ Command(Begin, "after", "failed")
     \/ action = "stop" /\ Command(End, "after", "failed")
  /\ UNCHANGED <<call, before, held, late>>

ScNow ==
  /\ pc = "now"
  /\ \/ action = "enable" /\ Command(Begin, "after", "failed")
     \/ action = "disable" /\ Command(End, "after", "failed")
  /\ UNCHANGED <<call, before, held, late>>

-----------------------------------------------------------------------------
\* change on macOS.

Restores == before.startup = "disabled" /\ ~PolicyChange

\* After a policy change, or without one.
Path ==
  IF ShouldStart THEN IF Restores THEN "lift" ELSE "begin"
  ELSE IF ShouldStop /\ before.loaded THEN "bootout" ELSE "after"

ChangePolicy ==
  /\ pc = "choose" /\ platform = "macos" /\ PolicyChange
  /\ Command(Sets(Wanted), Path, "failed")
  /\ UNCHANGED <<call, before, held, late>>

KeepPolicy ==
  /\ pc = "choose" /\ platform = "macos" /\ ~PolicyChange
  /\ IF ShouldStop /\ ~before.loaded THEN Return("ok") ELSE Goto(Path)
  /\ UNCHANGED <<service, call, before, held, late>>

Lift ==
  /\ pc = "lift"
  /\ Command(Sets("automatic"), "begin", "unlifted")
  /\ UNCHANGED <<call, before, held, late>>

\* kickstart needs a definition that is loaded, bootstrap one that is not.
Kickstart ==
  /\ before.loaded /\ run # "absent"
  /\ IF action = "restart" THEN Again ELSE Begin
Bootstrap == ~before.loaded /\ run = "absent" /\ startup = "automatic" /\ Begin

\* Faulty variant: the result of the start is looked at before the policy.
LooksFirst(outcome) == Restores /\ outcome = "ok"

\* The policy is restored however the start went.
RestoresAfter(outcome) == Restores

BeginOnce ==
  /\ pc = "begin"
  /\ held' \in Outcomes
  /\ \/ held' \in {"ok", "failed"} /\ (Kickstart \/ Bootstrap)
     \/ held' \in {"denied", "failed"} /\ UNCHANGED service
  /\ IF RestoresAfter(held') THEN Goto("restore")
     ELSE IF held' = "ok" THEN Goto("after") ELSE Return(held')
  /\ UNCHANGED <<call, before, late>>

Restore ==
  /\ pc = "restore"
  /\ \/ Sets("disabled") /\ IF held = "ok" THEN Goto("after") ELSE Return(held)
     \/ (Sets("disabled") \/ UNCHANGED service) /\ Return("unrestored")
  /\ UNCHANGED <<call, before, held, late>>

\* Faulty variant: a bootout that succeeded is enough.
AfterBootout == "after"

ThenUnloaded == "unloaded"

Bootout ==
  /\ pc = "bootout"
  /\ Command(End, ThenUnloaded, "failed")
  /\ late' = FALSE
  /\ UNCHANGED <<call, before, held>>

-----------------------------------------------------------------------------
\* Waiting.

\* Faulty variant: every round has the whole time again.
NeverOver == FALSE
Over == late

\* One round of wait: a status that is the expected one or, the service's or the
\* query's fault, is not; then the deadline.
Round(wanted, next) ==
  \/ wanted /\ Goto(next)
  \/ /\ wanted => platform # "linux"
     /\ IF Over THEN Return("unconfirmed") ELSE UNCHANGED <<pc, result>>

\* wait("stopped") before the start of a restart.
WaitStopped ==
  /\ pc = "stopped"
  /\ Round(Reported = "stopped", "command")
  /\ UNCHANGED <<service, call, before, held, late>>

\* wait_macos_unloaded: the deadline, then launchctl print.
WaitUnloaded ==
  /\ pc = "unloaded"
  /\ \/ Over /\ Return("unconfirmed")
     \/ ~Over /\ run = "absent" /\ Goto("after")
     \/ ~Over /\ run # "absent" /\ UNCHANGED <<pc, result>>
     \/ ~Over /\ Return("failed")
  /\ UNCHANGED <<service, call, before, held, late>>

After ==
  /\ pc = "after"
  /\ Goto(IF action \in {"start", "restart", "stop"} \/ now THEN "wait" ELSE "final")
  /\ late' = FALSE
  /\ UNCHANGED <<service, call, before, held>>

Wait ==
  /\ pc = "wait"
  /\ Round(Expected \in {Reported} \cup (IF platform = "macos" THEN {"stopped"} ELSE {}), "final")
  /\ UNCHANGED <<service, call, before, held, late>>

Final ==
  /\ pc = "final"
  /\ Return("ok")
  /\ UNCHANGED <<service, call, before, held, late>>

TimePasses ==
  /\ pc \in {"stopped", "unloaded", "wait"} /\ ~late
  /\ late' = TRUE
  /\ UNCHANGED <<service, call, pc, before, held, result>>

-----------------------------------------------------------------------------
\* The service, and other administrators.

Becomes(s) ==
  /\ run' = s /\ seen' = seen \cup {s}
  /\ UNCHANGED <<platform, startup, pc, action, now, before, held, late, result, original,
                 touched, misread>>

Settles ==
  /\ \/ run = "starting" /\ Becomes("running")
     \/ run = "stopping" /\ Becomes(IF platform = "macos" THEN "absent" ELSE "stopped")
  /\ UNCHANGED <<fresh, others>>

Ends ==
  /\ others < MaxOthers /\ run \in {"starting", "running"} /\ Becomes("stopped")
  /\ others' = others + 1
  /\ UNCHANGED fresh

OtherStarts ==
  /\ others < MaxOthers /\ run \in {"absent", "stopped"} /\ Becomes("starting")
  /\ fresh' = TRUE
  /\ others' = others + 1

OtherStops ==
  /\ others < MaxOthers /\ run \in {"starting", "running"} /\ Becomes("stopping")
  /\ others' = others + 1
  /\ UNCHANGED fresh

OtherPolicy ==
  /\ others < MaxOthers
  /\ \E p \in {"automatic", "disabled"} : startup' = p
  /\ touched' = TRUE
  /\ others' = others + 1
  /\ UNCHANGED <<platform, run, pc, action, now, before, held, late, result, seen, fresh, original,
                 misread>>

-----------------------------------------------------------------------------
Step ==
  \/ Status \/ Policy
  \/ Systemctl
  \/ AsItWas \/ StopFirst \/ WaitStopped \/ Directly \/ ScCommand \/ ScNow
  \/ ChangePolicy \/ KeepPolicy \/ Lift \/ BeginOnce \/ Restore \/ Bootout \/ WaitUnloaded
  \/ After \/ Wait \/ Final

Next ==
  \/ Call \/ Step \/ Misread \/ Refuse \/ TimePasses
  \/ Settles \/ Ends \/ OtherStarts \/ OtherStops \/ OtherPolicy

Spec == Init /\ [][Next]_vars

\* Every capture ends and time passes.
FairSpec == Spec /\ WF_vars(Step) /\ WF_vars(TimePasses)

-----------------------------------------------------------------------------
\* Properties.

\* Ok means that it was so: after the command of change, or while it ran if it
\* had none to give, the service was running or stopped as asked, on macOS with
\* its definition removed if launchctl could tell that there is one; a restart has
\* started another process; and the policy is the one asked for unless somebody
\* else changed it (wait, wait_macos_unloaded).
OkMeansDone ==
  pc = "returned" /\ result = "ok" =>
    /\ ShouldStart => "running" \in seen
    /\ ShouldStop => misread \/ (IF platform = "macos" THEN "absent" ELSE "stopped") \in seen
    /\ action = "restart" => fresh
    /\ PolicyChange /\ ~touched => startup = Wanted

\* What docs/bounded-process.md says: a stop or disable --now that returns Ok has
\* confirmed that launchd removed the definition.
StopConfirmsRemoval ==
  pc = "returned" /\ result = "ok" /\ platform = "macos" /\ ShouldStop => "absent" \in seen

\* start, stop and restart return with the startup policy they found, unless
\* somebody else changed it, or the command that lifts it or the one that restores
\* it did not report success ("restore startup policy after the explicit one-off
\* start, including when bootstrap fails").
PolicyKept ==
  pc = "returned" /\ ~PolicyChange /\ ~touched /\ result \notin {"unlifted", "unrestored"} =>
    startup = original

\* A change ends, whatever the service does (the deadlines of wait and of
\* wait_macos_unloaded).
ChangeEnds == pc = "status" ~> pc = "returned"
=============================================================================
