----------------------------- MODULE LogFollow -----------------------------
(***************************************************************************)
(* logs --follow (query_rotating_logs and follow_log_source of             *)
(* src/src/cli/mod.rs) beside the sink of LogRotation.  Once a second the  *)
(* reader reads the files one after the other, the oldest first and        *)
(* without a lock, shows what comes after its cursor, and moves the cursor *)
(* to the last line shown.                                                 *)
(***************************************************************************)
EXTENDS LogRotation

CONSTANTS
  TailLines,    \* --tail: lines shown at once
  SuffixBytes,  \* how much of each file is looked at, in halves of a line
  Wanted        \* the lines that match the filter

ASSUME LogFollowAssumption ==
  TailLines \in Nat \ {0} /\ SuffixBytes \in Nat \ {0} /\ Wanted \subseteq Lines

VARIABLES
  slot,     \* the file to be read next, or between two queries None
  entries,  \* what the query has read so far
  cursor,   \* --log-cursor: the last line shown
  moved,    \* history: a name has changed since the query began
  cut,      \* history: the query left out the beginning of a later file
  outcome   \* how the command ended

reader == <<slot, entries, cursor, moved, cut, outcome>>
following == <<logVars, reader>>

\* All files have been read.
Answering == -1

FollowInit ==
  /\ LogInit
  /\ slot = None /\ entries = <<>> /\ cursor = None
  /\ moved = FALSE /\ cut = FALSE /\ outcome = "following"

-----------------------------------------------------------------------------
\* Reading one file.

From(f, n) == SubSeq(f, n, Len(f))

\* Where a line begins: what follows a torn line is part of it.
Begins(f) == {n \in 1..Len(f) + 1 : n > 1 => f[n - 1] # Torn}

\* read_tail_lines: from the first line that the suffix does not cut.
Starts(f) == {n \in Begins(f) : Size(From(f, n)) <= SuffixBytes}
Start(f) == CHOOSE n \in Starts(f) : \A m \in Starts(f) : n <= m

\* query and parse_record: one line that is no record refuses the file.
Readable(f) == Starts(f) # {} /\ Torn \notin {From(f, Start(f))[n] : n \in DOMAIN From(f, Start(f))}
Decoded(f) == SelectSeq(From(f, Start(f)), LAMBDA line : line \in Wanted)

Ends(how) == outcome' = how /\ slot' = None /\ entries' = <<>> /\ moved' = FALSE /\ cut' = FALSE

Shown(sequence) == {sequence[n] : n \in DOMAIN sequence}

OldestFirst == slot

Window(sequence) == From(sequence, IF Len(sequence) > TailLines + 1 THEN Len(sequence) - TailLines ELSE 1)

Poll ==
  /\ outcome = "following" /\ slot = None
  /\ slot' = Archives
  /\ UNCHANGED <<logVars, entries, cursor, moved, cut, outcome>>

\* Whoever reads the active file while a line is written may see half of it.
ReadPart ==
  /\ slot \in Numbers
  /\ LET file == names[OldestFirst]
         text == IF file = None THEN <<>> ELSE data[file] IN
     \/ /\ Readable(text)
        /\ entries' = Window(entries \o Decoded(text))
        /\ cut' = (cut \/ (cursor \in Shown(entries) /\ Start(text) > 1))
        /\ slot' = slot - 1
        /\ UNCHANGED <<moved, outcome>>
     \/ /\ ~Readable(text) \/ (pc = "append" /\ file = fd)
        /\ Ends("log_integrity_or_budget_failed")
  /\ UNCHANGED <<logVars, cursor>>

-----------------------------------------------------------------------------
\* The answer.

\* Faulty variant: the cursor is shown again.
AgainFrom(sequence) ==
  From(sequence, CHOOSE n \in 1..Len(sequence) :
    IF cursor \in Shown(sequence) THEN sequence[n] = cursor ELSE n = 1)

\* The entries after the cursor.
After(sequence) ==
  From(sequence, CHOOSE n \in 1..Len(sequence) + 1 :
    IF cursor \in Shown(sequence) THEN n > 1 /\ sequence[n - 1] = cursor ELSE n = 1)

Answer ==
  IF cursor = None
  THEN From(entries, IF Len(entries) > TailLines THEN Len(entries) - TailLines + 1 ELSE 1)
  ELSE After(entries)

\* Faulty variant: a cursor that is gone is passed over.
Overlooked == FALSE

\* log_follow_gap.
Gap == cursor # None /\ cursor \notin Shown(entries)

Show ==
  /\ slot = Answering
  /\ IF Gap
     THEN Ends("log_follow_gap") /\ UNCHANGED cursor
     ELSE /\ cursor' = IF Answer = <<>> THEN cursor ELSE Answer[Len(Answer)]
          /\ slot' = None /\ entries' = <<>> /\ moved' = FALSE /\ cut' = FALSE
          /\ UNCHANGED outcome
  /\ UNCHANGED logVars

\* No file at all is an error; else the deadline or an interrupt.
Stop ==
  /\ outcome = "following" /\ slot \in {None, Answering}
  /\ slot = Answering => Present(names) = {}
  /\ Ends("stopped")
  /\ UNCHANGED <<logVars, cursor>>

\* The sink does not know of the reader.
Sink ==
  /\ Step
  /\ moved' = (slot # None /\ (moved \/ names' # names))
  /\ UNCHANGED <<slot, entries, cursor, cut, outcome>>

\* A power failure ends the reader, too; somebody may start another one.
Reboot ==
  /\ PowerFail
  /\ Ends("following")
  /\ cursor' = None

FollowNext == Sink \/ Reboot \/ Poll \/ ReadPart \/ Show \/ Stop

FollowSpec == FollowInit /\ [][FollowNext]_following

-----------------------------------------------------------------------------
\* Properties.

\* Lines are shown in the order in which they were written and none twice,
\* whatever rotates, fails or crashes while the files are read.
InOrder ==
  \A n \in DOMAIN Answer :
    Answer[n] > IF n > 1 THEN Answer[n - 1] ELSE IF cursor = None THEN 0 ELSE cursor

\* One between the cursor and the last line shown is missing only when no file has
\* it any more after a failure, when the names moved while the query ran, or when a
\* later file was longer than the part of it that is read.
Complete ==
  cursor # None /\ Answer # <<>> /\ ~moved /\ ~cut =>
    \A line \in Wanted :
      cursor < line /\ line < Answer[Len(Answer)] /\ line \notin Shown(Answer) =>
        faults + crashes > 0 /\ line \notin OnDisk

\* A query that does not end the follow (log_follow_gap) shows the log in order,
\* no line twice and none passed over in silence.
FollowsTheLog == [][slot = Answering /\ ~Gap => InOrder /\ Complete]_following
=============================================================================
