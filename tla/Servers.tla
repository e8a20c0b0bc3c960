------------------------------ MODULE Servers ------------------------------
(***************************************************************************)
(* The servers of lecture_examples that answer each number a client sends   *)
(* with the next one: by select(), poll(), epoll and kqueue (9_aio), poll() *)
(* in a daemon (10_users/9_daemon.c), and a thread for each client over TCP *)
(* ("threads", 8_net) and over a UNIX socket ("unix", 7_ipc).  The clients  *)
(* (4_client.c and its copies) send one number and wait for the answer;     *)
(* one may be killed.  A number on its way is all that is kept of it.       *)
(***************************************************************************)
EXTENDS Naturals, Sequences, FiniteSets, SequencesExt

CONSTANTS
  Clients,
  OBSERVED,    \* any one of them
  SERVER,      \* the listening socket
  MAX_KILLS    \* bounds the clients that are killed

ASSUME ServersAssumption == OBSERVED \in Clients /\ SERVER \notin Clients /\ MAX_KILLS \in Nat

VARIABLES
  api,         \* which of the servers runs
  conn,        \* a client and its connection
  backlog,     \* connections to accept()
  fds,         \* clients[] of select(), fds[] of poll(): sockets in order
  revents,     \* readset of select(), revents of poll(): ready, by position
  nfds, i,     \* the variables of the same name
  watched,     \* what epoll or kqueue watches; the clients with a worker
  event,       \* new_ev
  server,      \* where the server is
  kills

round == <<fds, revents, nfds, i>>
servers_vars == <<api, conn, backlog, round, watched, event, server, kills>>

APIs == {"select", "poll", "daemon", "epoll", "kqueue", "threads", "unix"}
ByList == {"select", "poll", "daemon"}
ByEvent == {"epoll", "kqueue"}

\* waits: the client reads the answer; up and down: a number is on its way
\* to the server and back; eof, reset: how the client has ended it, for the
\* server to see; side: what the server has made of it.
NewConn == [client |-> "new", waits |-> FALSE, up |-> FALSE, down |-> FALSE,
            eof |-> FALSE, reset |-> FALSE, side |-> "none"]

Readable(c) == IF c = SERVER THEN backlog # <<>> ELSE conn[c].up \/ conn[c].eof \/ conn[c].reset

-----------------------------------------------------------------------------
(* A client *)

Client(c, new) ==
  conn' = [conn EXCEPT ![c] = new]
  /\ UNCHANGED <<api, round, watched, event, server>>

\* The kernel completes a connection before it is accepted.
Connect(c) ==
  /\ conn[c].client = "new" /\ server # "down"
  /\ Client(c, [conn[c] EXCEPT !.client = "open", !.side = "backlog"])
  /\ backlog' = Append(backlog, c) /\ UNCHANGED kills

Send(c) ==
  /\ conn[c].client = "open" /\ ~conn[c].waits
  /\ Client(c, [conn[c] EXCEPT !.waits = TRUE, !.up = conn[c].side # "closed"])
  /\ UNCHANGED <<backlog, kills>>

\* read() gives the answer or, when the server has closed, 0 or an error; the
\* client ends on 0 only.
Receive(c) ==
  /\ conn[c].client = "open" /\ conn[c].waits
  /\ \/ conn[c].down /\ Client(c, [conn[c] EXCEPT !.waits = FALSE, !.down = FALSE])
     \/ /\ ~conn[c].down /\ conn[c].side = "closed"
        /\ \/ Client(c, [conn[c] EXCEPT !.waits = FALSE, !.client = "gone", !.eof = TRUE])
           \/ Client(c, [conn[c] EXCEPT !.waits = FALSE])
  /\ UNCHANGED <<backlog, kills>>

\* The input of the client is at its end.
Close(c) ==
  /\ conn[c].client = "open" /\ ~conn[c].waits
  /\ Client(c, [conn[c] EXCEPT !.client = "gone", !.eof = TRUE])
  /\ UNCHANGED <<backlog, kills>>

\* With an answer that is not read the connection is reset.
Kill(c) ==
  /\ conn[c].client = "open" /\ conn[c].waits /\ kills < MAX_KILLS
  /\ Client(c, [conn[c] EXCEPT !.client = "gone", !.waits = FALSE, !.down = FALSE,
                               !.eof = ~conn[c].down, !.reset = conn[c].down])
  /\ kills' = kills + 1 /\ UNCHANGED backlog

-----------------------------------------------------------------------------
(* What the servers have in common *)

\* interact(): the result of read(), or of write() after it, and what is
\* left of the connection.  The listening socket cannot be read.
Rc(c) == CASE c = SERVER -> "error"
           [] c # SERVER /\ conn[c].up -> "sent"
           [] c # SERVER /\ ~conn[c].up /\ conn[c].reset -> "error"
           [] OTHER -> "closed"

interact(c) ==
  CASE Rc(c) = "sent"   -> [conn EXCEPT ![c].up = FALSE, ![c].down = conn[c].client = "open"]
    [] Rc(c) = "error"  -> IF c = SERVER THEN conn
                           ELSE [conn EXCEPT ![c].reset = FALSE, ![c].eof = TRUE]
    [] Rc(c) = "closed" -> [conn EXCEPT ![c].side = "ended"]

accept == conn' = [conn EXCEPT ![Head(backlog)].side = "accepted"] /\ backlog' = Tail(backlog)

\* The end of the process closes its sockets, the listening one too, and
\* drops what it has not read.
ServerEnds ==
  /\ server' = "down" /\ backlog' = <<>> /\ watched' = {}
  /\ conn' = [c \in Clients |-> IF conn[c].side \in {"backlog", "accepted"}
                                  THEN [conn[c] EXCEPT !.side = "closed", !.up = FALSE]
                                  ELSE conn[c]]

\* Else read() waits, and with it the server.
ReadReturns(c) == c = SERVER \/ Readable(c)

\* Mutant: of the entries behind i one too many is copied.
DropsLast(s, n) == Front(s)

\* remove_client()
remove_client(s, n) == SubSeq(s, 1, n - 1) \o SubSeq(s, n + 1, Len(s))

-----------------------------------------------------------------------------
(* select() *)

SelectWait ==
  LET Ready == {c \in {SERVER} \cup Range(fds) : Readable(c)}
  IN  /\ server = "wait" /\ Ready # {}
      /\ revents' = [n \in 1 .. Len(fds) + 1 |->
                       IF n = 1 THEN SERVER \in Ready ELSE fds[n - 1] \in Ready]
      /\ nfds' = Cardinality(Ready) /\ server' = "accept"
      /\ UNCHANGED <<conn, backlog, fds, i>>

\* The new socket is not in readset.
SelectAccept ==
  /\ server = "accept"
  /\ IF revents[1]
       THEN /\ accept /\ fds' = Append(fds, Head(backlog)) /\ nfds' = nfds - 1
            /\ revents' = Append(Tail(revents), FALSE)
       ELSE revents' = Tail(revents) /\ UNCHANGED <<conn, backlog, fds, nfds>>
  /\ i' = 1 /\ server' = "loop"

\* One iteration of the loop over the clients; removing one shifts the next
\* to its place, behind which the loop goes on.
ListLoop ==
  /\ server = "loop" /\ UNCHANGED backlog
  /\ \/ (i > Len(fds) \/ nfds = 0) /\ server' = "wait" /\ UNCHANGED <<conn, round>>
     \/ /\ i <= Len(fds) /\ nfds > 0 /\ ~revents[i]
        /\ i' = i + 1 /\ UNCHANGED <<conn, fds, revents, nfds, server>>
     \/ /\ i <= Len(fds) /\ nfds > 0 /\ revents[i] /\ ~ReadReturns(fds[i])
        /\ server' = "blocked" /\ UNCHANGED <<conn, round>>
     \/ /\ i <= Len(fds) /\ nfds > 0 /\ revents[i] /\ ReadReturns(fds[i])
        /\ conn' = interact(fds[i]) /\ nfds' = nfds - 1 /\ i' = i + 1
        /\ IF Rc(fds[i]) = "closed"
             THEN fds' = remove_client(fds, i) /\ revents' = remove_client(revents, i)
             ELSE UNCHANGED <<fds, revents>>
        /\ server' = IF Rc(fds[i]) = "error" THEN "wait" ELSE "loop"

Select ==
  /\ api = "select" /\ (SelectWait \/ SelectAccept \/ ListLoop)
  /\ UNCHANGED <<api, watched, event, kills>>

-----------------------------------------------------------------------------
(* poll(): the first of the sockets is the listening one *)

PollWait ==
  /\ server = "wait" /\ \E c \in Range(fds) : Readable(c)
  /\ revents' = [n \in DOMAIN fds |-> Readable(fds[n])]
  /\ nfds' = Cardinality({n \in DOMAIN fds : Readable(fds[n])}) /\ server' = "accept"
  /\ UNCHANGED <<conn, backlog, fds, i>>

\* Mutant: the loop leaves the listening socket out.
SecondPolled == 2

FirstPolled == 1

\* revents of the new entry is what realloc() finds there.
PollAccept ==
  /\ server = "accept"
  /\ IF revents[1]
       THEN /\ accept /\ fds' = Append(fds, Head(backlog)) /\ nfds' = nfds - 1
            /\ \E garbage \in BOOLEAN : revents' = Append(revents, garbage)
       ELSE UNCHANGED <<conn, backlog, fds, revents, nfds>>
  /\ i' = FirstPolled /\ server' = "loop"

PollRound == PollWait \/ PollAccept \/ ListLoop

Poll == api = "poll" /\ PollRound /\ UNCHANGED <<api, watched, event, kills>>

\* The loop of the daemon is that of the server with poll().
Daemon == api = "daemon" /\ PollRound /\ UNCHANGED <<api, watched, event, kills>>

-----------------------------------------------------------------------------
(* epoll and kqueue: one event at a time *)

\* What the kernel gives out; hup is EV_EOF in its flags.
GetEvent(c) ==
  /\ server = "wait" /\ c \in {SERVER} \cup watched /\ Readable(c)
  /\ event' = [ident |-> c, hup |-> c # SERVER /\ (conn[c].eof \/ conn[c].reset)]
  /\ server' = "event"
  /\ UNCHANGED <<conn, backlog, watched>>

\* The new socket is watched too, or else the server ends.
AcceptEvent ==
  /\ server = "event" /\ event.ident = SERVER
  /\ accept /\ watched' = watched \cup {Head(backlog)} /\ server' = "wait"
  /\ UNCHANGED event

\* Closing the socket takes it out of what is watched.
Disconnect(c) == conn' = [interact(c) EXCEPT ![c].side = "ended"] /\ watched' = watched \ {c}

Answer(c) == conn' = interact(c) /\ server' = "wait" /\ UNCHANGED <<backlog, watched>>

Disconnected(c) == Disconnect(c) /\ server' = "wait" /\ UNCHANGED backlog

\* An error of one client ends the server.
EpollInteract ==
  LET c == event.ident
  IN  /\ server = "event" /\ c # SERVER /\ UNCHANGED event
      /\ \/ Rc(c) = "error"  /\ ServerEnds
         \/ Rc(c) = "closed" /\ Disconnected(c)
         \/ Rc(c) = "sent"   /\ Answer(c)

\* Whether the client has ended is told by the flags.
KqueueInteract ==
  LET c == event.ident
  IN  /\ server = "event" /\ c # SERVER /\ UNCHANGED event
      /\ \/ Rc(c) = "error" /\ ServerEnds
         \/ Rc(c) # "error" /\ event.hup /\ Disconnected(c)
         \/ Rc(c) # "error" /\ ~event.hup /\ Answer(c)

Epoll ==
  /\ api = "epoll" /\ (AcceptEvent \/ EpollInteract)
  /\ UNCHANGED <<api, round, kills>>

Kqueue ==
  /\ api = "kqueue" /\ (AcceptEvent \/ KqueueInteract)
  /\ UNCHANGED <<api, round, kills>>

Event(c) == api \in ByEvent /\ GetEvent(c) /\ UNCHANGED <<api, round, kills>>

-----------------------------------------------------------------------------
(* A thread for each client *)

\* pthread_create() may fail.
AcceptThread ==
  /\ server = "wait" /\ backlog # <<>> /\ backlog' = Tail(backlog)
  /\ \/ /\ conn' = [conn EXCEPT ![Head(backlog)].side = "accepted"]
        /\ watched' = watched \cup {Head(backlog)}
     \/ conn' = [conn EXCEPT ![Head(backlog)].side = "closed"] /\ UNCHANGED watched
  /\ UNCHANGED <<event, server>>

\* One iteration of worker_f(); after an error it tries again.  A write to
\* a UNIX socket whose client has gone ends the process with SIGPIPE.
WorkerStep(c) ==
  /\ server = "wait" /\ c \in watched /\ Readable(c) /\ UNCHANGED event
  /\ IF api = "unix" /\ Rc(c) = "sent" /\ conn[c].client = "gone"
       THEN ServerEnds
       ELSE /\ conn' = interact(c) /\ UNCHANGED <<backlog, server>>
            /\ watched' = IF Rc(c) = "closed" THEN watched \ {c} ELSE watched

ThreadServer == api = "threads" /\ AcceptThread /\ UNCHANGED <<api, round, kills>>
Worker(c) == api = "threads" /\ WorkerStep(c) /\ UNCHANGED <<api, round, kills>>
UnixServer == api = "unix" /\ AcceptThread /\ UNCHANGED <<api, round, kills>>
UnixWorker(c) == api = "unix" /\ WorkerStep(c) /\ UNCHANGED <<api, round, kills>>

-----------------------------------------------------------------------------
\* A server with one thread ends when the call it waits in fails, or accept(),
\* or the one that watches a new client.  The servers with threads go on.
Fails ==
  /\ api \in ByList \cup ByEvent
  /\ \/ server = "wait"
     \/ server = "accept" /\ revents[1]
     \/ server = "event" /\ event.ident = SERVER
  /\ ServerEnds /\ fds' = <<>> /\ revents' = <<>> /\ nfds' = 0
  /\ UNCHANGED <<api, i, event, kills>>

Init ==
  /\ api \in APIs
  /\ conn = [c \in Clients |-> NewConn] /\ backlog = <<>>
  /\ fds = (IF api \in {"poll", "daemon"} THEN <<SERVER>> ELSE <<>>)
  /\ revents = <<>> /\ nfds = 0 /\ i = 1
  /\ watched = {} /\ event = [ident |-> SERVER, hup |-> FALSE]
  /\ server = "wait" /\ kills = 0

Loop == Select \/ Poll \/ Daemon \/ Epoll \/ Kqueue \/ ThreadServer \/ UnixServer
Serve(c) == Event(c) \/ Worker(c) \/ UnixWorker(c)
User(c) == Connect(c) \/ Send(c) \/ Receive(c) \/ Close(c) \/ Kill(c)

Next == Loop \/ Event(SERVER) \/ Fails \/ \E c \in Clients : Serve(c) \/ User(c)

\* The server and its threads run, and the kernel gives out every event
\* there is in turn; a client may stop anywhere but reads its answers.
Spec ==
  /\ Init /\ [][Next]_servers_vars
  /\ WF_servers_vars(Loop) /\ SF_servers_vars(Event(SERVER))
  /\ \A c \in Clients : SF_servers_vars(Serve(c)) /\ WF_servers_vars(Receive(c))

-----------------------------------------------------------------------------
\* A server with one thread calls read() only on a socket that has something
\* to read, or all its clients would wait: the marks of poll() and select()
\* stay with their sockets while entries are added and removed in a round,
\* and the mark of a new entry, which nothing has written, is never used.
NeverBlocks == server # "blocked"

\* What the server goes through are the connections it has accepted and
\* whose end it has not read, each once: no client is forgotten and none is
\* read after its end, in whichever place it stands when another is removed.
ServesAccepted ==
  LET served == IF api \in ByList THEN Range(fds) \ {SERVER} ELSE watched
      marks  == IF server = "accept" /\ api = "select" THEN Len(fds) + 1 ELSE Len(fds)
  IN  /\ served = {c \in Clients : conn[c].side = "accepted"}
      /\ IsInjective(fds)
      /\ server \in {"accept", "loop"} => Len(revents) = marks
      /\ nfds <= Cardinality({n \in DOMAIN revents : revents[n]})

\* A client, whichever it is, that waits for an answer gets it or the end of
\* the connection, however the others come, go and are killed, and wherever
\* the server ends: epoll and kqueue on a reset, the server over UNIX sockets
\* on a write to a client that was killed, and others when a call fails.
Answered == conn[OBSERVED].waits ~> ~conn[OBSERVED].waits
=============================================================================
