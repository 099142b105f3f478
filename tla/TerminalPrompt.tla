--------------------------- MODULE TerminalPrompt ---------------------------
(***************************************************************************)
(* prompt_text and prompt_secret of src/src/cli/terminal.rs, on Unix and   *)
(* on Windows: threads that ask in turn, the terminal's mode and the three *)
(* signals' dispositions that a prompt changes and has to give back, the   *)
(* loop that waits for input, and the line it edits.                       *)
(*                                                                         *)
(* Input comes in units: bytes on Unix, UTF-16 units on Windows.           *)
(***************************************************************************)
EXTENDS Integers, Sequences, SequencesExt, FiniteSetsExt

CONSTANTS
  Threads,     \* callers in the process
  MaxBytes,    \* max_bytes of every prompt
  ChunkUnits,  \* units one read returns at most
  MaxPrompts,  \* bound: prompts ever made
  None         \* nobody, and no line

ASSUME TerminalPromptAssumption ==
  /\ {MaxBytes, ChunkUnits} \subseteq Nat \ {0}
  /\ MaxPrompts \in Nat
  /\ None \notin Threads

VARIABLES
  windows,   \* which of the two implementations
  dead,      \* a signal took its own action and ended the process
  holder,    \* INTERACTIVE_PROMPT
  mode,      \* the terminal's mode: its "own" or "protected"
  action,    \* each signal's disposition: its "own" or "caught"
  signal,    \* TERMINAL_SIGNAL # 0
  pc,        \* where each thread is
  original,  \* UnixTerminalMode::original, WindowsConsoleMode::original
  previous,  \* TerminalSignalGuard::previous
  late,      \* the deadline has passed
  line,      \* of the prompt that is going on: the units (text), on Windows
             \* utf8_bytes (count), the units read and not yet looked at (chunk),
             \* the characters typed, None once they make no text (edited)
  result,    \* what each prompt will return
  prompts    \* prompts so far

vars == <<windows, dead, holder, mode, action, signal, pc, original, previous, late,
          line, result, prompts>>
guards == <<mode, action, original, previous>>
still  == <<windows, dead, holder, late, prompts>>

Signals == {"INT", "TERM", "HUP"}
Order   == <<"INT", "TERM", "HUP">>
Waiting == {"check", "deadline", "poll", "read"}
Asking  == {"open", "install", "protect", "label", "units", "unmode", "restore", "unlock"}
             \cup Waiting
Results == {"none", "ok", "cancelled", "timeout", "too_large", "invalid", "unavailable"}

\* A narrow character has one byte, a broad one (Windows) three in one unit, and
\* a wide one a leading unit and one or two trailing ones.
Trails == IF windows THEN 1 ELSE 2
TextUnits == {"narrow", "lead", "trail"} \cup (IF windows THEN {"broad"} ELSE {})
Bytes(u) ==
  CASE u = "narrow" -> 1
    [] u = "broad" -> 3
    [] u = "lead" -> IF windows THEN 0 ELSE 1
    [] u = "trail" -> IF windows THEN 4 ELSE 1
BytesOf(s) == FoldLeft(LAMBDA sum, u : sum + Bytes(u), 0, s)

Saved == Seq(Signals \X {"own", "caught"})

TypeOK ==
  /\ windows \in BOOLEAN /\ dead \in BOOLEAN /\ signal \in BOOLEAN
  /\ holder \in Threads \cup {None}
  /\ mode \in {"own", "protected"}
  /\ action \in [Signals -> {"own", "caught"}]
  /\ pc \in [Threads -> {"idle", "called"} \cup Asking]
  /\ original \in [Threads -> {"own", "protected"}]
  /\ late \in [Threads -> BOOLEAN]
  /\ result \in [Threads -> Results]
  /\ prompts \in 0..MaxPrompts
  /\ line.text \in Seq(TextUnits) /\ BytesOf(line.text) <= MaxBytes + 4
  /\ line.count \in 0..(MaxBytes + 4) /\ line.chunk \in 0..ChunkUnits
  /\ line.edited # None => line.edited \in Seq(Seq(TextUnits))
  /\ \A t \in Threads :
       /\ previous[t] \in Saved /\ Len(previous[t]) <= 3
       /\ pc[t] \in Asking <=> holder = t

Blank == [text |-> <<>>, count |-> 0, chunk |-> 0, edited |-> <<>>]

Init ==
  /\ windows \in BOOLEAN
  /\ dead = FALSE /\ holder = None /\ mode = "own" /\ signal = FALSE /\ prompts = 0
  /\ action = [s \in Signals |-> "own"]
  /\ pc = [t \in Threads |-> "idle"]
  /\ original = [t \in Threads |-> "own"]
  /\ previous = [t \in Threads |-> <<>>]
  /\ late = [t \in Threads |-> FALSE]
  /\ line = Blank
  /\ result = [t \in Threads |-> "none"]

At(t, step) == ~dead /\ pc[t] = step
Goto(t, step) == pc' = [pc EXCEPT ![t] = step]
Answer(t, r) == result' = [result EXCEPT ![t] = r]
Stop(t, r) == Answer(t, r) /\ Goto(t, "unmode")

-----------------------------------------------------------------------------
\* read_terminal.

\* A limit of no bytes is refused at once.
Call(t) ==
  /\ At(t, "idle") /\ prompts < MaxPrompts
  /\ prompts' = prompts + 1
  /\ late' = [late EXCEPT ![t] = FALSE]
  /\ \/ Goto(t, "called") /\ Answer(t, "none")
     \/ UNCHANGED pc /\ Answer(t, "too_large")
  /\ UNCHANGED <<windows, dead, holder, signal, guards, line>>

Lock(t) ==
  /\ At(t, "called") /\ holder = None
  /\ holder' = t
  /\ Goto(t, "open")
  /\ UNCHANGED <<windows, dead, signal, guards, late, line, result, prompts>>

Unlock(t) ==
  /\ At(t, "unlock")
  /\ holder' = None
  /\ Goto(t, "idle")
  /\ UNCHANGED <<windows, dead, signal, guards, late, line, result, prompts>>

-----------------------------------------------------------------------------
\* Taking the terminal over, and giving it back.

\* Open the terminal and ask for its mode.
Opened(t) ==
  /\ At(t, "open")
  /\ original' = [original EXCEPT ![t] = mode]
  /\ UNCHANGED <<still, mode, action, signal, previous, line, result>>

OpenTty(t)     == ~windows /\ Opened(t) /\ Goto(t, "install")
OpenConsole(t) == windows /\ Opened(t) /\ Goto(t, "protect")

\* TerminalSignalGuard::install: one sigaction after the other.
Install(t) ==
  /\ At(t, "install")
  /\ LET s == Order[Len(previous[t]) + 1] IN
       /\ previous' = [previous EXCEPT ![t] = Append(@, <<s, action[s]>>)]
       /\ action' = [action EXCEPT ![s] = "caught"]
  /\ signal' = (signal /\ previous[t] # <<>>)
  /\ Goto(t, IF Len(previous[t]) = 2 THEN "protect" ELSE "install")
  /\ UNCHANGED <<still, mode, original, line, result>>

\* tcsetattr or SetConsoleMode.
Protect(t) ==
  /\ At(t, "protect")
  /\ mode' = "protected"
  /\ Goto(t, "label")
  /\ UNCHANGED <<still, action, signal, original, previous, line, result>>

Label(t) ==
  /\ At(t, "label")
  /\ Goto(t, "check")
  /\ UNCHANGED <<still, signal, guards, line, result>>

\* Faulty variant: the mode's guard is made once the label is written.
LateGuard(step) ==
  CASE step = "open" -> "unlock"
    [] step \in {"install", "protect", "label"} -> IF windows THEN "unlock" ELSE "restore"
    [] OTHER -> "unmode"

\* What the guards that exist already do on the way out.
WayOut(step) ==
  CASE step = "open" -> "unlock"
    [] step \in {"install", "protect"} -> IF windows THEN "unlock" ELSE "restore"
    [] OTHER -> "unmode"

\* A call that fails.
Fail(t) ==
  /\ ~dead /\ pc[t] \in {"open", "install", "protect", "label", "poll", "read"}
  /\ Answer(t, "unavailable")
  /\ Goto(t, WayOut(pc[t]))
  /\ UNCHANGED <<still, signal, guards, line>>

\* The line has gone into the result or is dropped.
Unmode(t) ==
  /\ At(t, "unmode")
  /\ mode' = original[t]
  /\ Goto(t, IF windows THEN "unlock" ELSE "restore")
  /\ line' = Blank
  /\ UNCHANGED <<still, action, signal, original, previous, result>>

\* TerminalSignalGuard::drop.
Restore(t) ==
  /\ At(t, "restore")
  /\ IF previous[t] = <<>>
       THEN signal' = FALSE /\ Goto(t, "unlock") /\ UNCHANGED <<action, previous>>
       ELSE /\ action' = [action EXCEPT ![Last(previous[t])[1]] = Last(previous[t])[2]]
            /\ previous' = [previous EXCEPT ![t] = Front(@)]
            /\ UNCHANGED <<signal, pc>>
  /\ UNCHANGED <<still, mode, original, line, result>>

-----------------------------------------------------------------------------
\* The input loop.

Check(t) ==
  /\ At(t, "check")
  /\ IF signal /\ ~windows
       THEN Stop(t, "cancelled")
       ELSE Goto(t, "deadline") /\ UNCHANGED result
  /\ UNCHANGED <<still, signal, guards, line>>

\* Faulty variant: time is granted again for every wait.
Granted(t) == FALSE
Expired(t) == late[t]

Deadline(t) ==
  /\ At(t, "deadline")
  /\ IF Expired(t) THEN Stop(t, "timeout") ELSE Goto(t, "poll") /\ UNCHANGED result
  /\ UNCHANGED <<still, signal, guards, line>>

\* poll or WaitForSingleObject: there is input.
Ready(t) ==
  /\ At(t, "poll")
  /\ Goto(t, "read")
  /\ UNCHANGED <<still, signal, guards, line, result>>

\* There was none before the deadline.
PollTimesOut(t) ==
  /\ ~windows /\ At(t, "poll") /\ late[t]
  /\ Goto(t, "check")
  /\ UNCHANGED <<still, signal, guards, line, result>>

WaitTimesOut(t) ==
  /\ windows /\ At(t, "poll") /\ late[t]
  /\ Stop(t, "timeout")
  /\ UNCHANGED <<still, signal, guards, line>>

\* Some units; nothing after all, or an event that is no key pressed; or the
\* terminal is gone, or the read was aborted.
Read(t) ==
  /\ At(t, "read")
  /\ \/ \E n \in 1..ChunkUnits : line' = [line EXCEPT !.chunk = n]
        /\ Goto(t, "units") /\ UNCHANGED result
     \/ Goto(t, "check") /\ UNCHANGED <<line, result>>
     \/ Stop(t, "cancelled") /\ UNCHANGED line
  /\ UNCHANGED <<still, signal, guards>>

-----------------------------------------------------------------------------
\* The line.

\* What String::from_utf8 and from_utf16 accept.
Whole(s) ==
  \A n \in DOMAIN s :
    /\ s[n] = "lead" => n + Trails <= Len(s) /\ \A k \in 1..Trails : s[n + k] = "trail"
    /\ s[n] = "trail" => \E k \in 1..Trails : n > k /\ s[n - k] = "lead"

\* What an editor that knows characters makes of a key.
Complete(char) == Len(char) = IF char[1] = "lead" THEN 1 + Trails ELSE 1

Edit(chars, key) ==
  IF chars = None THEN None
  ELSE LET done == chars = <<>> \/ Complete(Last(chars)) IN
       CASE done = (key = "trail") -> None
         [] key = "trail" -> Append(Front(chars), Append(Last(chars), key))
         [] key = "erase" -> IF chars = <<>> THEN chars ELSE Front(chars)
         [] OTHER -> Append(chars, <<key>>)

\* Faulty variant: one unit at a time.
DropLast(s) == Front(s)

\* A byte that continues a character goes with all before it and one more.
DropBytes(s) ==
  IF Last(s) # "trail" THEN Front(s)
  ELSE SubSeq(s, 1, Max({0} \cup {n - 1 : n \in {m \in DOMAIN s : s[m] # "trail"}}))

\* A surrogate goes with the one before it.
Paired(s) == Last(s) = "trail" /\ Len(s) > 1 /\ s[Len(s) - 1] = "lead"
DropUnits(s) == IF Paired(s) THEN Front(Front(s)) ELSE Front(s)

\* What char::len_utf8 says of a character; a surrogate alone is none.
Weight(s) == IF Last(s) = "trail" /\ ~Paired(s) THEN 0 ELSE Bytes(Last(s))

Erase ==
  LET s == line.text IN
  line' = [line EXCEPT
    !.chunk = @ - 1,
    !.text = CASE s = <<>> -> s [] s # <<>> /\ windows -> DropUnits(s) [] OTHER -> DropBytes(s),
    !.count = IF s # <<>> /\ windows THEN Max({0, @ - Weight(s)}) ELSE @,
    !.edited = Edit(@, "erase")]

\* Windows refuses a unit that makes no character with the one before it.
Misplaced(u) ==
  windows /\ (u = "trail") # (line.text # <<>> /\ Last(line.text) = "lead")

Put(u) ==
  line' = [line EXCEPT
    !.chunk = @ - 1,
    !.text = Append(@, u),
    !.count = IF windows THEN @ + Bytes(u) ELSE @,
    !.edited = Edit(@, u)]

Fits(u) == IF windows THEN line.count + Bytes(u) <= MaxBytes ELSE Len(line.text) + 1 <= MaxBytes

Continue(t) ==
  /\ Goto(t, IF line.chunk = 1 THEN "check" ELSE "units")
  /\ UNCHANGED result

\* One unit: a return, Control-C (an ordinary character in the protected mode),
\* another control character, an erasure, or text.
Look(t) ==
  /\ At(t, "units")
  /\ \/ Stop(t, IF Whole(line.text) THEN "ok" ELSE "invalid") /\ UNCHANGED line
     \/ Stop(t, "cancelled") /\ UNCHANGED line
     \/ Continue(t) /\ line' = [line EXCEPT !.chunk = @ - 1]
     \/ Continue(t) /\ Erase
     \/ \E u \in TextUnits :
          IF Misplaced(u)
            THEN Stop(t, "invalid") /\ UNCHANGED line
            ELSE Put(u) /\ IF Fits(u) THEN Continue(t) ELSE Stop(t, "too_large")
  /\ UNCHANGED <<still, signal, guards>>

-----------------------------------------------------------------------------
\* The world.

DeadlinePasses(t) ==
  /\ ~dead /\ pc[t] # "idle" /\ ~late[t]
  /\ late' = [late EXCEPT ![t] = TRUE]
  /\ UNCHANGED <<windows, dead, holder, signal, guards, pc, line, result, prompts>>

\* The handler runs in any thread, not always in the one that polls.
SignalArrives ==
  /\ ~dead /\ ~windows
  /\ \E s \in Signals :
       IF action[s] = "caught"
         THEN /\ signal' = TRUE
              /\ UNCHANGED pc \/ \E t \in Threads : At(t, "poll") /\ Goto(t, "check")
              /\ UNCHANGED dead
         ELSE dead' = TRUE /\ UNCHANGED <<signal, pc>>
  /\ UNCHANGED <<windows, holder, guards, late, line, result, prompts>>

-----------------------------------------------------------------------------
Step(t) ==
  \/ Lock(t) \/ OpenTty(t) \/ OpenConsole(t) \/ Install(t) \/ Protect(t) \/ Label(t)
  \/ Check(t) \/ Deadline(t) \/ PollTimesOut(t) \/ WaitTimesOut(t) \/ Read(t) \/ Look(t)
  \/ Unmode(t) \/ Restore(t) \/ Unlock(t)

Next ==
  \/ \E t \in Threads : Step(t) \/ Call(t) \/ Fail(t) \/ Ready(t) \/ DeadlinePasses(t)
  \/ SignalArrives

Spec == Init /\ [][Next]_vars

\* A thread that can go on does, and time passes; nobody has to type.
FairSpec ==
  /\ Spec
  /\ \A t \in Threads : WF_vars(Step(t)) /\ WF_vars(DeadlinePasses(t))

-----------------------------------------------------------------------------
\* Properties.

\* No signal ends the process while the terminal has the prompt's mode, and once
\* no prompt is going on the mode and all dispositions are what they were, on
\* every way out and with threads that ask at the same time (the order in which
\* the two guards are made and dropped, under INTERACTIVE_PROMPT).
TerminalRestored ==
  /\ dead => mode = "own"
  /\ holder = None => mode = "own" /\ \A s \in Signals : action[s] = "own"

\* An answer is the line as the user edited it, every erasure taking one whole
\* character, and it has no more than the allowed bytes; on Windows the running
\* count is the length of the line in UTF-8 (unix_terminal_input and
\* windows_terminal_input).
LineAsTyped ==
  /\ line.edited # None => line.text = FlattenSeq(line.edited)
  /\ windows => line.count = BytesOf(line.text)
  /\ \A t \in Threads : At(t, "unmode") /\ result[t] = "ok" =>
       Whole(line.text) /\ BytesOf(line.text) <= MaxBytes

\* Every prompt comes to an end once its deadline has passed, whatever is typed
\* and even if a signal comes between the check and the poll, and also the ones
\* that waited for another prompt to end (the absolute deadline).
EveryPromptEnds ==
  \A t \in Threads : pc[t] = "called" ~> (pc[t] = "idle" \/ dead)
=============================================================================
