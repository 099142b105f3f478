---------------------------- MODULE LocalStatus ----------------------------
(***************************************************************************)
(* The read-only status endpoint of src/src/runtime/local_status.rs and    *)
(* local_status/windows.rs: a service publishes, observes and drops, one   *)
(* thread per publisher answers one client at a time from a snapshot under *)
(* a process-wide mutex, and readers in other processes ask for it.        *)
(* Clients may be slow or die, system calls may fail and the service may   *)
(* be killed and started again.  The caller of publish owns the            *)
(* maintenance gate, so one process publishes at a time.                   *)
(***************************************************************************)
EXTENDS Integers, FiniteSets

CONSTANTS
  Readers,      \* the clients; they may stop at any point and never go on
  Platforms,    \* which of "unix" and "windows" to look at
  MaxPublish,   \* bound: publishers ever started
  MaxObserve,   \* bound: observations of one publisher
  MaxMishaps,   \* bound: failing system calls and kills of the service together
  None

Publishers == 1..MaxPublish

ASSUME LocalStatusAssumption ==
  /\ Platforms \subseteq {"unix", "windows"}
  /\ {MaxPublish, MaxObserve, MaxMishaps} \subseteq Nat
  /\ None \notin Readers /\ None \notin Publishers /\ None \notin [epoch : Nat, sequence : Nat]

VARIABLES
  system,
  main,      \* what the service is doing with its Publisher
  current,   \* the publisher it started last
  stop,      \* the publishers that have been told to stop
  thread,    \* the next step of each publisher's thread
  client,    \* the client that a thread is serving
  endpoint,  \* the publisher whose socket or pipe has the name
  private,   \* the socket has mode 0600
  pipe,      \* the one instance of the pipe: listening, connected, disconnected
  snapshot,  \* SNAPSHOT
  guard,     \* the publisher whose thread holds its mutex
  observer,  \* the state of a call of observe
  truth,     \* what has been published and observed
  reads,     \* what each read remembers, and what was true when it began
  mishaps

statusVars == <<system, main, current, stop, thread, client, endpoint, private, pipe, snapshot,
                guard, observer, truth, reads, mishaps>>
server == <<main, current, stop>>
threads == <<thread, client>>
name == <<endpoint, private, pipe>>
state == <<snapshot, guard, observer, truth>>

Windows == system = "windows"
Blank == [epoch |-> 0, sequence |-> 0]
NoCall == [pc |-> "idle", to |-> None, sent |-> FALSE, answer |-> None,
           closed |-> FALSE, since |-> Blank]

StatusInit ==
  /\ system \in Platforms
  /\ main = "out" /\ current = 0 /\ stop = {}
  /\ thread = [k \in Publishers |-> "none"] /\ client = [k \in Publishers |-> None]
  /\ endpoint = None /\ private = FALSE /\ pipe = "none"
  /\ snapshot = None /\ guard = None /\ observer = "idle" /\ truth = Blank
  /\ reads = [r \in Readers |-> NoCall]
  /\ mishaps = 0

Mishap == mishaps < MaxMishaps /\ mishaps' = mishaps + 1

-----------------------------------------------------------------------------
\* publish.

Gone == endpoint' = None /\ private' = FALSE /\ pipe' = "none"

Alive(k) == thread[k] \notin {"none", "ended"}

\* A socket that is still there is stale and removed; a pipe of the name must not
\* exist (FILE_FLAG_FIRST_PIPE_INSTANCE).
Bind ==
  /\ main = "out" /\ current < MaxPublish
  /\ Windows => endpoint = None
  /\ main' = IF Windows THEN "fill" ELSE "chmod"
  /\ current' = current + 1
  /\ endpoint' = current + 1 /\ private' = Windows
  /\ pipe' = IF Windows THEN "listening" ELSE "none"
  /\ UNCHANGED <<system, stop, threads, state, reads, mishaps>>

Chmod ==
  /\ main = "chmod"
  /\ main' = "fill" /\ private' = TRUE
  /\ UNCHANGED <<system, current, stop, threads, endpoint, pipe, state, reads, mishaps>>

\* Faulty variant: the snapshot is filled in once for all publishers.
FilledOnce == IF snapshot = None THEN [epoch |-> current, sequence |-> 1] ELSE snapshot

\* A snapshot of its own, with a new epoch and the publisher's binding.
Filled == [epoch |-> current, sequence |-> 1]

Fill ==
  /\ main = "fill" /\ guard = None
  /\ snapshot' = Filled
  /\ truth' = [epoch |-> current, sequence |-> 1]
  /\ main' = "in" /\ thread' = [thread EXCEPT ![current] = "poll"]
  /\ UNCHANGED <<system, current, stop, client, name, guard, observer, reads, mishaps>>

\* publish returns an error: a socket that was bound stays, without a listener.
PublishFails ==
  /\ main \in {"chmod", "fill"} /\ Mishap
  /\ main' = "out"
  /\ IF Windows THEN Gone ELSE UNCHANGED name
  /\ reads' = [r \in Readers |-> IF reads[r].to = current THEN [reads[r] EXCEPT !.closed = TRUE, !.to = None] ELSE reads[r]]
  /\ UNCHANGED <<system, current, stop, threads, state>>

-----------------------------------------------------------------------------
\* observe.

Observe ==
  /\ observer = "idle" /\ snapshot # None
  /\ snapshot.sequence <= MaxObserve
  /\ observer' = "waiting"
  /\ UNCHANGED <<system, server, threads, name, snapshot, guard, truth, reads, mishaps>>

Observed ==
  /\ observer = "waiting" /\ guard = None
  /\ observer' = "idle"
  /\ snapshot' = [snapshot EXCEPT !.sequence = @ + 1]
  /\ truth' = [truth EXCEPT !.sequence = @ + 1]
  /\ UNCHANGED <<system, server, threads, name, guard, reads, mishaps>>

-----------------------------------------------------------------------------
\* The publisher is dropped.

Drop ==
  /\ main = "in"
  /\ main' = "join" /\ stop' = stop \cup {current}
  /\ UNCHANGED <<system, current, threads, name, state, reads, mishaps>>

\* Faulty variant: the thread is left to end by itself.
Detached == TRUE
Joined == thread[current] = "ended"

Join ==
  /\ main = "join" /\ Joined
  /\ main' = "out"
  /\ UNCHANGED <<system, current, stop, threads, name, state, reads, mishaps>>

\* The service is killed, at any point, and started again: its threads are gone,
\* a socket stays.
Kill ==
  /\ Mishap
  /\ main' = "out" /\ stop' = {}
  /\ thread' = [k \in Publishers |-> IF thread[k] = "none" THEN "none" ELSE "ended"]
  /\ client' = [k \in Publishers |-> None]
  /\ IF Windows THEN Gone ELSE UNCHANGED name
  /\ snapshot' = None /\ guard' = None /\ observer' = "idle" /\ UNCHANGED truth
  /\ reads' = [r \in Readers |-> [reads[r] EXCEPT !.closed = TRUE, !.to = None]]
  /\ UNCHANGED <<system, current>>

-----------------------------------------------------------------------------
\* The thread of a publisher.

At(k, here) == thread[k] = here
GoOn(k, there) == thread' = [thread EXCEPT ![k] = there]
Advance(k, here, there) == At(k, here) /\ GoOn(k, there)

Waits(k) == {r \in Readers : reads[r].to = k /\ ~reads[r].closed}

\* accept takes one of the clients that have connected.
Accept(k) ==
  /\ ~Windows /\ k \notin stop /\ Advance(k, "poll", "request")
  /\ \E r \in Waits(k) : client' = [client EXCEPT ![k] = r]
  /\ UNCHANGED <<system, server, name, state, reads, mishaps>>

\* Any other error of accept ends the thread.
AcceptFails(k) ==
  /\ ~Windows /\ k \notin stop /\ Advance(k, "poll", "leave") /\ Mishap
  /\ UNCHANGED <<system, server, client, name, state, reads>>

\* ConnectNamedPipe without waiting: a client that has connected is served.  One
\* that is gone already (ERROR_NO_DATA) is taken for none, for good.
Connected(k) ==
  /\ Windows /\ k \notin stop /\ pipe = "connected" /\ Advance(k, "poll", "request")
  /\ \E r \in Waits(k) : client' = [client EXCEPT ![k] = r]
  /\ UNCHANGED <<system, server, name, state, reads, mishaps>>

\* After a client it succeeds at once and only makes the pipe available.
Listen(k) ==
  /\ Windows /\ k \notin stop /\ pipe = "disconnected" /\ Advance(k, "poll", "identify")
  /\ pipe' = "listening"
  /\ UNCHANGED <<system, server, client, endpoint, private, state, reads, mishaps>>

\* GetNamedPipeClientProcessId may or may not fail when there is no client yet.
Identify(k) ==
  /\ At(k, "identify")
  /\ \/ GoOn(k, "request")
     \/ pipe = "listening" /\ GoOn(k, "close")
  /\ UNCHANGED <<system, server, client, name, state, reads, mishaps>>

\* The client a thread reads from: on Windows whoever is connected by now.
Peer(k) == IF Windows THEN Waits(k) ELSE Waits(k) \cap {client[k]}

Request(k) ==
  /\ Advance(k, "request", "lock")
  /\ \E r \in Peer(k) : reads[r].sent /\ client' = [client EXCEPT ![k] = r]
  /\ UNCHANGED <<system, server, name, state, reads, mishaps>>

\* Faulty variant: without a timeout only a client that is gone ends the wait.
OnlyGone(k) == Peer(k) = {}

\* The timeout of half a second, or a client that is gone.  Where an accepted
\* socket is not blocking either, as on macOS, a request not yet there is enough.
GivesUp(k) == TRUE

RequestFails(k) ==
  /\ Advance(k, "request", "close") /\ GivesUp(k)
  /\ UNCHANGED <<system, server, client, name, state, reads, mishaps>>

Lock(k) ==
  /\ Advance(k, "lock", "write") /\ guard = None
  /\ guard' = k
  /\ UNCHANGED <<system, server, client, name, snapshot, observer, truth, reads, mishaps>>

\* What is written after the client has hung up reaches nobody.
Answers(k, answer) ==
  reads' = [r \in Readers |-> IF r = client[k] THEN [reads[r] EXCEPT !.answer = answer] ELSE reads[r]]

\* The whole snapshot, or the part that fitted before a slow client's timeout.
Write(k) ==
  /\ Advance(k, "write", IF Windows THEN "ack" ELSE "close")
  /\ \/ Answers(k, snapshot) /\ UNCHANGED mishaps
     \/ Answers(k, Blank) /\ Mishap
  /\ UNCHANGED <<system, server, client, name, state>>

\* The acknowledgment, a client that is gone, or half a second more.
Ack(k) ==
  /\ Advance(k, "ack", "close")
  /\ UNCHANGED <<system, server, client, name, state, reads, mishaps>>

\* The stream is dropped or the pipe disconnected, which takes what the client
\* has not read; and the guard of the snapshot ends.
Close(k) ==
  /\ Advance(k, "close", "poll")
  /\ guard' = IF guard = k THEN None ELSE guard
  /\ client' = [client EXCEPT ![k] = None]
  /\ pipe' = IF Windows THEN "disconnected" ELSE pipe
  /\ reads' = [r \in Readers |->
       IF r \notin Peer(k) THEN reads[r]
       ELSE [reads[r] EXCEPT !.closed = TRUE, !.to = None, !.answer = IF Windows THEN None ELSE @]]
  /\ UNCHANGED <<system, server, endpoint, private, snapshot, observer, truth, mishaps>>

Stop(k) ==
  /\ k \in stop /\ Advance(k, "poll", "leave")
  /\ UNCHANGED <<system, server, client, name, state, reads, mishaps>>

\* The thread removes the socket by its name; its listener or pipe is closed.
Leave(k) ==
  /\ Advance(k, "leave", "ended")
  /\ Gone
  /\ reads' = [r \in Readers |-> IF r \in Waits(k) THEN [reads[r] EXCEPT !.closed = TRUE, !.to = None] ELSE reads[r]]
  /\ UNCHANGED <<system, server, client, state, mishaps>>

Thread(k) ==
  \/ Accept(k) \/ Connected(k) \/ Listen(k) \/ Identify(k) \/ Request(k) \/ RequestFails(k)
  \/ Lock(k) \/ Write(k) \/ Ack(k) \/ Close(k) \/ Stop(k) \/ Leave(k)

-----------------------------------------------------------------------------
\* read, in a process of its own.

BeginRead(r) ==
  /\ reads[r].pc = "idle"
  /\ reads' = [reads EXCEPT ![r] = [NoCall EXCEPT !.pc = IF Windows THEN "connect" ELSE "stat", !.since = truth]]
  /\ UNCHANGED <<system, server, threads, name, state, mishaps>>

Goes(r, there) == reads' = [reads EXCEPT ![r].pc = there]
Returns(r) == reads' = [reads EXCEPT ![r] = NoCall]

\* It closes its end: a thread that serves it has no client any longer.
HangsUp(r) ==
  /\ Returns(r)
  /\ client' = [k \in Publishers |-> IF client[k] = r THEN None ELSE client[k]]

\* Only a socket of mode 0600.
Stat(r) ==
  /\ reads[r].pc = "stat"
  /\ IF endpoint # None /\ private THEN Goes(r, "connect") ELSE Returns(r)
  /\ UNCHANGED <<system, server, threads, name, state, mishaps>>

\* A listener accepts connections before its thread runs, a pipe one at a time.
Listens ==
  /\ endpoint # None
  /\ IF Windows THEN pipe = "listening"
     ELSE Alive(endpoint) \/ (endpoint = current /\ main \in {"chmod", "fill"})

Connect(r) ==
  /\ reads[r].pc = "connect"
  /\ IF Listens
     THEN /\ reads' = [reads EXCEPT ![r].pc = "send", ![r].to = endpoint]
          /\ pipe' = IF Windows THEN "connected" ELSE pipe
     ELSE Returns(r) /\ UNCHANGED pipe
  /\ UNCHANGED <<system, server, threads, endpoint, private, state, mishaps>>

Send(r) ==
  /\ reads[r].pc = "send"
  /\ IF reads[r].closed THEN Returns(r)
     ELSE reads' = [reads EXCEPT ![r].pc = "receive", ![r].sent = TRUE]
  /\ UNCHANGED <<system, server, threads, name, state, mishaps>>

\* A whole document: on Unix at the end of the stream, on Windows as soon as it is
\* one.  The binding that was asked for may also refuse it.
Whole(r) ==
  /\ reads[r].pc = "receive" /\ reads[r].answer \notin {None, Blank}
  /\ Windows \/ reads[r].closed

\* With the answer, or with none after the timeout or an error.
Receive(r) ==
  /\ reads[r].pc = "receive"
  /\ HangsUp(r)
  /\ UNCHANGED <<system, server, thread, name, state, mishaps>>

Read(r) == Stat(r) \/ Connect(r) \/ Send(r) \/ Receive(r)

\* A client that is killed, or refuses the server.
Vanish(r) ==
  /\ reads[r].pc # "idle"
  /\ HangsUp(r)
  /\ UNCHANGED <<system, server, thread, name, state, mishaps>>

-----------------------------------------------------------------------------
StatusNext ==
  \/ Bind \/ Chmod \/ Fill \/ PublishFails \/ Observe \/ Observed \/ Drop \/ Join \/ Kill
  \/ \E k \in Publishers : Thread(k) \/ AcceptFails(k)
  \/ \E r \in Readers : BeginRead(r) \/ Read(r) \/ Vanish(r)

\* Nothing is assumed of clients.  Threads run and timeouts come, the service goes
\* on with what it has begun, and whoever waits for a mutex that is free again and
\* again gets it.
StatusSpec ==
  /\ StatusInit /\ [][StatusNext]_statusVars
  /\ WF_statusVars(Chmod \/ Fill \/ Join) /\ SF_statusVars(Observed)
  /\ WF_statusVars(\E k \in Publishers : Thread(k))

-----------------------------------------------------------------------------
\* Properties.

Before(a, b) == a.epoch < b.epoch \/ (a.epoch = b.epoch /\ a.sequence < b.sequence)

\* What read returns is whole, was true at some moment while it ran and belongs to
\* the binding it was asked for, whatever is published, observed, dropped or killed
\* meanwhile.
AnswersAreTrue ==
  \A r \in Readers : Whole(r) => ~Before(reads[r].answer, reads[r].since) /\ ~Before(truth, reads[r].answer)

\* As long as a publisher is owned and its thread has not given up, the name leads
\* to its endpoint: no thread of an earlier one takes it away (Drop joins).
EndpointStays ==
  main = "in" /\ thread[current] \notin {"leave", "ended"} => endpoint = current /\ private

\* Every observation and every drop ends, whatever clients do or fail to do: the
\* thread keeps the mutex of the snapshot while it answers one, but not for ever.
CallsEnd ==
  /\ observer = "waiting" ~> observer = "idle"
  /\ main = "join" ~> main # "join"
=============================================================================
