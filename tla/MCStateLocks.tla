---------------------------- MODULE MCStateLocks ----------------------------
(***************************************************************************)
(* One run for the two halves of src/src/state_file, side by side: either  *)
(* locks are taken (StateLocks), or the directory and its files are opened *)
(* and created (StateFiles).  They share no state: what StateFiles returns *)
(* is what StateLocks opens and verifies in one step.  Callers are alike,  *)
(* and so are descriptions.                                                *)
(***************************************************************************)
EXTENDS StateLocks, StateFiles, TLC

CONSTANTS c1, c2, d1, d2, d3, d4

Symmetry == Permutations(Callers) \cup Permutations(Descs)

Unlocked == /\ named = [f \in LockFiles |-> 0] /\ file = [d \in Descs |-> "maintenance"]
            /\ \A d \in Descs : refs[d] = {} /\ inode[d] = 0
            /\ \A c \in Callers : pc[c] = "idle"
            /\ ~pending /\ crashes = 0
Unopened == /\ \A p \in Programs : task[p] = Resting
            /\ files = <<>> /\ Len(directories) = 1 /\ directories[1].owner = "service"
            /\ ~inherits /\ exchanges + changes = 0

Start == Init /\ StateInit
Either == \/ Next /\ Unopened /\ UNCHANGED stateVars
          \/ StateNext /\ Unlocked /\ UNCHANGED vars

SideBySide == Start /\ [][Either]_<<vars, stateVars>>
=============================================================================
