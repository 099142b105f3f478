---------------------------- MODULE MCMobileFfi -----------------------------
(***************************************************************************)
(* One run for the native boundary and, side by side, its JNI half: they   *)
(* share no state, and a panic in MobileJni is what MobileFfi catches.     *)
(* Threads and result storages are interchangeable.                        *)
(***************************************************************************)
EXTENDS MobileFfi, MobileJni, TLC

CONSTANTS t1, t2, o1, o2

Symmetry == Permutations({t1, t2}) \cup Permutations({o1, o2})

OutsideJava == calls = <<>> /\ returned = Nothing
OutsideC == inserted = 0 /\ allocated = {} /\ ~poisoned /\ \A t \in Threads : doing[t] = "host"

Start == Init /\ JniInit
Either == \/ Next /\ OutsideJava /\ UNCHANGED jniVars
          \/ JniNext /\ OutsideC /\ UNCHANGED vars

SideBySide == Start /\ [][Either]_<<vars, jniVars>>
=============================================================================
