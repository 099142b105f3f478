------------------------------ MODULE LogSource ------------------------------
(***************************************************************************)
(* logs --follow of a service whose log others keep: Service::logs of      *)
(* src/src/cli/service.rs, asked once a second by follow_log_source of     *)
(* src/src/cli/mod.rs.  The journal of Linux, the event log of Windows and *)
(* the file that launchd writes on macOS differ in how a cursor continues. *)
(* A log is a sequence of units: the number of a line stands for its end;  *)
(* what comes before it, or another service's event, is Other.             *)
(***************************************************************************)
EXTENDS Naturals, Sequences, FiniteSets

CONSTANTS
  LastLines,   \* --tail: lines shown at once
  Reach,       \* how much is looked at: a MiB of the file, the newest 1000 events
  MaxUnits,    \* bounds: what is written, and how often the file is turned over
  MaxTurns,
  NoCursor

ASSUME LogSourceAssumption ==
  LastLines \in Nat \ {0} /\ Reach \in Nat \ {0} /\ MaxUnits \in Nat /\ MaxTurns \in Nat

VARIABLES
  platform,
  logs,       \* the content of each file, by its inode
  path,       \* the inode that the log's name leads to
  written,    \* how much was written so far: units, lines, and turns of the file
  phase,      \* what the command does
  held,       \* the inode it looked up, then the one it opened
  length,     \* the size of the file when it was opened
  option,     \* --log-cursor
  answer,     \* the entries to be shown
  shown,      \* history: the last line shown
  turned,     \* history: the inode of the cursor or of the open file got a new content
  excused     \* history: the next entry may leave lines out

command == <<phase, held, length, option, answer, shown, excused>>
source == <<platform, logs, path, written, turned, command>>

Inodes == 1..2
Other == 0

NoRun ==
  /\ phase = "ended" /\ held = NoCursor /\ length = 0 /\ option = NoCursor
  /\ answer = <<>> /\ shown = NoCursor /\ excused = FALSE

SourceInit ==
  /\ platform \in {"linux", "windows", "macos"}
  /\ logs = [i \in Inodes |-> <<>>] /\ path = 1
  /\ written = [units |-> 0, lines |-> 0, turns |-> 0]
  /\ turned = FALSE /\ NoRun

-----------------------------------------------------------------------------
\* Choosing the entries.

LastOf(s, n) == SubSeq(s, IF Len(s) > n THEN Len(s) - n + 1 ELSE 1, Len(s))
FirstOf(s, n) == SubSeq(s, 1, IF Len(s) < n THEN Len(s) ELSE n)

Followed == logs[IF held = NoCursor THEN path ELSE held]

IsLine(unit) == unit # Other
LinesOf(s) == SelectSeq(s, IsLine)
Newer(s, line) == SelectSeq(s, LAMBDA other : line = NoCursor \/ other > line)

\* Entries whose cursor is their own.
Precise(s) == [n \in DOMAIN s |-> [line |-> s[n], cursor |-> s[n]]]

\* journalctl: the first ones after the cursor, without one the last.
Journal ==
  LET journal == LinesOf(logs[path]) IN
    Precise(IF option = NoCursor THEN LastOf(journal, LastLines)
            ELSE FirstOf(Newer(journal, option), LastLines))

\* Get-WinEvent: the newest events, of those the service's, of those the newest, and
\* what is newer than the cursor in the order in which it happened.
Events == Precise(Newer(LastOf(LinesOf(LastOf(logs[path], Reach)), LastLines), option))

\* Faulty variant: an offset counts in whatever file is there.
InAnyFile == option # NoCursor /\ option.offset <= length

\* The cursor is about this file, which is not shorter by now.
Resumes == option # NoCursor /\ option.inode = held /\ option.offset <= length

\* From there or from the last MiB on, at most a MiB, up to the last complete line.
StartAt == IF Resumes THEN option.offset ELSE IF length > Reach THEN length - Reach ELSE 0
Bytes == FirstOf(SubSeq(logs[held], StartAt + 1, Len(logs[held])), Reach)
EndAt == LET ends == {n \in DOMAIN Bytes : IsLine(Bytes[n])} IN
           IF ends = {} THEN 0 ELSE CHOOSE n \in ends : \A m \in ends : m <= n

\* The first line may be cut; the last of the others are shown, and all of them have
\* the end as their cursor.
Whole(s) == IF StartAt > 0 /\ ~Resumes /\ s # <<>> THEN Tail(s) ELSE s
File ==
  LET s == LastOf(Whole(LinesOf(Bytes)), LastLines) IN
    [n \in DOMAIN s |-> [line |-> s[n], cursor |-> [inode |-> held, offset |-> StartAt + EndAt]]]

-----------------------------------------------------------------------------
\* The command.

Continues(p) == phase' = p /\ UNCHANGED <<held, length, option, answer, shown, excused>>

\* follow_log_source begins without a cursor; a query begins.
StartFollowing == phase = "ended" /\ Continues("asking") /\ UNCHANGED <<platform, logs, path, written, turned>>

\* More lines have come than are shown, or more events than are looked at: only the
\* journal hands the older ones out.
Waiting(log) == Newer(LinesOf(log), shown)
Behind ==
  \/ platform # "linux" /\ Len(Waiting(logs[path])) > LastLines
  \/ platform = "windows" /\ Waiting(LastOf(logs[path], Reach)) # Waiting(logs[path])
  \/ platform = "macos" /\ ~Resumes /\ length > Reach

Answers(entries) ==
  /\ phase' = "showing" /\ answer' = entries
  /\ excused' = (excused \/ turned \/ Behind) /\ turned' = FALSE
  /\ UNCHANGED <<platform, logs, path, written, held, length, option, shown>>

AskManager ==
  /\ phase = "asking" /\ platform # "macos"
  /\ Answers(IF platform = "linux" THEN Journal ELSE Events)

\* symlink_metadata.
LookUp ==
  /\ phase = "asking" /\ platform = "macos"
  /\ phase' = "opening" /\ held' = path
  /\ UNCHANGED <<platform, logs, path, written, turned, length, option, answer, shown, excused>>

\* open and its metadata; log_changed_during_open ends the command.
OpenLog ==
  /\ phase = "opening" /\ held = path
  /\ phase' = "reading" /\ length' = Len(logs[path])
  /\ UNCHANGED <<platform, logs, path, written, turned, held, option, answer, shown, excused>>

ReadLog == phase = "reading" /\ Answers(File)

\* The cursor is kept before the entry is shown.
ShowEntry ==
  /\ phase = "showing" /\ answer # <<>>
  /\ option' = Head(answer).cursor /\ shown' = Head(answer).line /\ answer' = Tail(answer)
  /\ excused' = FALSE
  /\ UNCHANGED <<platform, logs, path, written, turned, phase, held, length>>

\* A second later.
AskAgain ==
  /\ phase = "showing" /\ answer = <<>>
  /\ phase' = "asking" /\ held' = NoCursor /\ length' = 0
  /\ UNCHANGED <<platform, logs, path, written, turned, option, answer, shown, excused>>

\* A query fails, an entry cannot be shown, the deadline, an interrupt.
StopFollowing ==
  /\ phase # "ended"
  /\ phase' = "ended" /\ held' = NoCursor /\ length' = 0 /\ option' = NoCursor
  /\ answer' = <<>> /\ shown' = NoCursor /\ excused' = FALSE /\ turned' = FALSE
  /\ UNCHANGED <<platform, logs, path, written>>

-----------------------------------------------------------------------------
\* Others.

\* The service writes a part of a line or the rest of it, another one its event.
Grow(unit) ==
  /\ written.units < MaxUnits
  /\ logs' = [logs EXCEPT ![path] = Append(@, unit)]
  /\ written' = [written EXCEPT !.units = @ + 1, !.lines = IF IsLine(unit) THEN @ + 1 ELSE @]
  /\ UNCHANGED <<platform, path, turned, command>>

\* The file is emptied, or renamed and replaced; the old inode may come again.
TurnOver(inode) ==
  /\ platform = "macos" /\ written.turns < MaxTurns
  /\ logs' = [logs EXCEPT ![inode] = <<>>] /\ path' = inode
  /\ written' = [written EXCEPT !.turns = @ + 1]
  /\ turned' = (turned \/ inode = held \/ (option # NoCursor /\ inode = option.inode))
  /\ UNCHANGED <<platform, command>>

SourceNext ==
  \/ StartFollowing \/ AskManager \/ LookUp \/ OpenLog \/ ReadLog
  \/ ShowEntry \/ AskAgain \/ StopFollowing
  \/ Grow(Other) \/ Grow(written.lines + 1)
  \/ \E inode \in Inodes : TurnOver(inode)

SourceSpec == SourceInit /\ [][SourceNext]_source

-----------------------------------------------------------------------------
\* Properties.

\* Lines of a service's log are shown once and in order, and none that is still there
\* is passed over, except before the first entry of an answer when the file was emptied
\* or its inode came again, or when more has come in between than is shown or read.
FollowsTheService ==
  [][shown # NoCursor /\ shown' \notin {NoCursor, shown} =>
       /\ shown' > shown
       /\ \/ excused
          \/ \A line \in shown + 1 .. shown' - 1 :
               \A n \in DOMAIN Followed : Followed[n] # line]_source
=============================================================================
