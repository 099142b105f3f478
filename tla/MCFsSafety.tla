---------------------------- MODULE MCFsSafety ----------------------------
(***************************************************************************)
(* One run for the two machines of src/src/fs_safety, side by side: either *)
(* a document is published (FilePublication), or the directories of a      *)
(* Windows program are made and verified (WindowsAccess).  They share no   *)
(* state: where FilePublication says that a file is "private" on Windows,  *)
(* WindowsAccess says what that means.                                     *)
(***************************************************************************)
EXTENDS FilePublication, WindowsAccess

\* An administrator installs, the service runs as the built-in account; another
\* service of the account and a guest may touch what the lists let them.
TheTokens ==
  LET Process(user, groups, services, owner) ==
        [user |-> user, groups |-> groups, services |-> services, owner |-> owner]
  IN [installer |-> Process("operator", {Administrators}, {}, Administrators),
      daemon    |-> Process("account", {}, {"service"}, "account"),
      sibling   |-> Process("account", {}, {"another service"}, "account"),
      guest     |-> Process("guest", {}, {}, "guest")]

Untouched == object = [l \in Levels |-> IF l = 1 THEN Ambient ELSE Nothing] /\ deeds = 0
             /\ use = "process" /\ \A p \in Programs : call[p] = Idle
Unpublished == Windows /\ Len(dirs) = 1 /\ updates = 0 /\ mishaps = 0 /\ \A p \in Procs : pc[p] = "idle"

\* Making a child directory is the same on every Unix.  Private documents on Linux
\* differ only in how a missing one is published, in one step instead of three:
\* what fails around it is looked at where there are three.
Start == /\ Init /\ (Child => platform = "linux")
         /\ AccessInit /\ (use # "process" => Windows)
Calm == platform = "linux" /\ kind = "private" => mishaps' = 0
Either == \/ Next /\ Calm /\ Untouched /\ UNCHANGED accessVars
          \/ AccessNext /\ Unpublished /\ UNCHANGED vars

SideBySide ==
  /\ Start
  /\ [][Either]_<<vars, accessVars>>
  /\ \A p \in Procs : WF_vars(Step(p))
=============================================================================
