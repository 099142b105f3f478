------------------------------- MODULE MCLogs -------------------------------
(***************************************************************************)
(* One run for the two followers, side by side: either the program's own   *)
(* rotating log is written and followed (LogFollow), or a log that the     *)
(* service manager keeps (LogSource).  They share no state.                *)
(***************************************************************************)
EXTENDS LogFollow, LogSource

NoSource == /\ platform = "linux" /\ NoRun
            /\ written = [units |-> 0, lines |-> 0, turns |-> 0]
NoRotating == /\ ~windows /\ pc = "closed" /\ outcome = "following" /\ slot = None
              /\ last = 0 /\ faults + crashes = 0

Opening == FollowInit /\ SourceInit /\ (platform # "linux" => ~windows)
Either == \/ FollowNext /\ NoSource /\ UNCHANGED source
          \/ SourceNext /\ NoRotating /\ UNCHANGED following

LogsSpec == Opening /\ [][Either]_<<following, source>>

\* Whoever follows a log sees it in order, and learns of what is not there any more.
NothingIsPassedOver == FollowsTheLog /\ FollowsTheService
=============================================================================
