---------------------------- MODULE ServersProofs ----------------------------
(***************************************************************************)
(* Proofs about Servers, for any number of clients of which any number may  *)
(* be killed, and for each of the servers.                                  *)
(***************************************************************************)
EXTENDS Servers, Integers, FiniteSetTheorems, FunctionTheorems, SequenceTheorems,
        TLAPS

ByPoll == {"poll", "daemon"}
Sides == {"none", "backlog", "accepted", "ended", "closed"}
Conn == [client : {"new", "open", "gone"}, waits : BOOLEAN, up : BOOLEAN, down : BOOLEAN,
         eof : BOOLEAN, reset : BOOLEAN, side : Sides]
Sockets == Clients \cup {SERVER}

Marks(s) == {n \in DOMAIN s : s[n]}

ServersTypeOK ==
  /\ api \in APIs
  /\ conn \in [Clients -> Conn]
  /\ backlog \in Seq(Clients) /\ fds \in Seq(Sockets) /\ revents \in Seq(BOOLEAN)
  /\ nfds \in Int /\ i \in Nat \ {0}
  /\ watched \subseteq Clients
  /\ event \in [ident : Sockets, hup : BOOLEAN]

\* Every client connects once and waits for accept() once.
BacklogOnce ==
  /\ \A c \in Clients : conn[c].client = "new" => conn[c].side = "none"
  /\ IsInjective(backlog)
  /\ \A n \in DOMAIN backlog : conn[backlog[n]].side = "backlog"

\* What a server with a list goes through: the listening socket is the
\* first one of poll(), while it runs, and none of select().
ListServed ==
  api \in ByList =>
    /\ watched = {} /\ server \in {"wait", "accept", "loop", "down"}
    /\ IsInjective(fds)
    /\ \A c \in Clients : conn[c].side = "accepted" <=> \E n \in DOMAIN fds : fds[n] = c
    /\ api = "select" => \A n \in DOMAIN fds : fds[n] # SERVER
    /\ api \in ByPoll /\ server # "down" => fds # <<>> /\ fds[1] = SERVER

\* What the others go through; an event is of a socket that is watched and
\* has not been read since, so that of a client which had not ended then
\* there is a number to read, whatever the client has done meanwhile.
OthersServed ==
  api \notin ByList =>
    /\ fds = <<>> /\ revents = <<>> /\ nfds = 0
    /\ server \in {"wait", "event", "down"}
    /\ \A c \in Clients : conn[c].side = "accepted" <=> c \in watched
    /\ server = "event" =>
         /\ event.ident \in {SERVER} \cup watched /\ Readable(event.ident)
         /\ event.ident \in watched /\ event.hup = FALSE => conn[event.ident].up

\* While select() or poll() has its answer, a mark is of a socket that is
\* still ready.  Of the marks the loop has still to see this holds once the
\* listening socket was not ready; when it was, the loop of poll() ends with
\* it, whatever the mark of the new entry is.
MarksHold ==
  /\ server = "accept" /\ api = "select" =>
       /\ Len(revents) = Len(fds) + 1
       /\ revents[1] => Readable(SERVER)
       /\ \A n \in DOMAIN fds : revents[n + 1] => Readable(fds[n])
  /\ server = "accept" /\ api \in ByPoll =>
       /\ Len(revents) = Len(fds)
       /\ \A n \in DOMAIN fds : revents[n] => Readable(fds[n])
  /\ server = "loop" =>
       /\ Len(revents) = Len(fds)
       /\ \/ api \in ByPoll /\ i = 1 /\ revents[1]
          \/ \A n \in DOMAIN fds : n >= i /\ revents[n] => Readable(fds[n]) /\ fds[n] # SERVER

\* nfds never counts more sockets than are marked.
MarksCounted == nfds <= Cardinality(Marks(revents))

ServersInv ==
  ServersTypeOK /\ BacklogOnce /\ ListServed /\ OthersServed /\ MarksHold /\ MarksCounted
-----------------------------------------------------------------------------
(* The clients *)

(* A connection that becomes another keeps the type of conn. *)
LEMMA OneConnection ==
  ASSUME conn \in [Clients -> Conn], NEW c \in Clients, NEW r \in Conn,
         conn' = [conn EXCEPT ![c] = r]
  PROVE  /\ conn' \in [Clients -> Conn]
         /\ conn'[c] = r
         /\ \A d \in Clients : d # c => conn'[d] = conn[d]
  OBVIOUS

(* What a client does takes no accepted connection from the server, and     *)
(* leaves what is ready to be read ready.                                   *)
LEMMA ClientStep ==
  ASSUME ServersTypeOK, BacklogOnce, NEW c \in Clients, User(c)
  PROVE  /\ conn' \in [Clients -> Conn] /\ backlog' \in Seq(Clients)
         /\ UNCHANGED <<api, round, watched, event, server>>
         /\ \A d \in Clients : conn'[d].side = "accepted" <=> conn[d].side = "accepted"
         /\ \A d \in Clients : conn[d].side = "accepted" /\ Readable(d) => Readable(d)'
         /\ \A d \in Clients : conn[d].side = "accepted" /\ conn[d].up => conn'[d].up
         /\ Readable(SERVER) => Readable(SERVER)'
         /\ BacklogOnce'
<1> USE ServersAssumption
<1>t. conn \in [Clients -> Conn] /\ backlog \in Seq(Clients) /\ conn[c] \in Conn
  BY DEF ServersTypeOK
<1> DEFINE Becomes(r) ==
      /\ Client(c, r) /\ r \in Conn /\ r.client # "new"
      /\ r.side = (IF Connect(c) THEN "backlog" ELSE conn[c].side)
      /\ conn[c].side # "closed" /\ (conn[c].up \/ conn[c].eof \/ conn[c].reset)
           => r.up \/ r.eof \/ r.reset
      /\ conn[c].side # "closed" /\ conn[c].up => r.up
<1>1. PICK r : Becomes(r)
  <2>1. CASE Connect(c)
    <3> DEFINE r == [conn[c] EXCEPT !.client = "open", !.side = "backlog"]
    <3>1. Client(c, r)
      BY <2>1 DEF Connect
    <3>2. conn[c].client = "new"
      BY <2>1 DEF Connect
    <3>3. Becomes(r)
      BY <1>t, <3>1, <3>2, <2>1 DEF Conn, Sides
    <3> QED
      BY <3>3
  <2>2. CASE Send(c)
    <3> DEFINE r == [conn[c] EXCEPT !.waits = TRUE, !.up = conn[c].side # "closed"]
    <3>1. Client(c, r)
      BY <2>2 DEF Send
    <3>2. conn[c].client = "open" /\ ~Connect(c)
      BY <2>2 DEF Send, Connect
    <3>3. Becomes(r)
      BY <1>t, <3>1, <3>2 DEF Conn, Sides
    <3> QED
      BY <3>3
  <2>3. CASE Receive(c)
    <3> DEFINE r == [conn[c] EXCEPT !.waits = FALSE, !.down = FALSE]
               q == [conn[c] EXCEPT !.waits = FALSE, !.client = "gone", !.eof = TRUE]
               o == [conn[c] EXCEPT !.waits = FALSE]
    <3>1. Client(c, r) \/ Client(c, q) \/ Client(c, o)
      BY <2>3 DEF Receive
    <3>2. conn[c].client = "open" /\ ~Connect(c)
      BY <2>3 DEF Receive, Connect
    <3>3. CASE Client(c, r)
      <4>1. Becomes(r)
        BY <1>t, <3>3, <3>2 DEF Conn, Sides
      <4> QED
        BY <4>1
    <3>4. CASE Client(c, q)
      <4>1. Becomes(q)
        BY <1>t, <3>4, <3>2 DEF Conn, Sides
      <4> QED
        BY <4>1
    <3>5. CASE Client(c, o)
      <4>1. Becomes(o)
        BY <1>t, <3>5, <3>2 DEF Conn, Sides
      <4> QED
        BY <4>1
    <3> QED
      BY <3>1, <3>3, <3>4, <3>5
  <2>4. CASE Close(c)
    <3> DEFINE r == [conn[c] EXCEPT !.client = "gone", !.eof = TRUE]
    <3>1. Client(c, r)
      BY <2>4 DEF Close
    <3>2. conn[c].client = "open" /\ ~Connect(c)
      BY <2>4 DEF Close, Connect
    <3>3. Becomes(r)
      BY <1>t, <3>1, <3>2 DEF Conn, Sides
    <3> QED
      BY <3>3
  <2>5. CASE Kill(c)
    <3> DEFINE r == [conn[c] EXCEPT !.client = "gone", !.waits = FALSE, !.down = FALSE,
                                    !.eof = ~conn[c].down, !.reset = conn[c].down]
    <3>1. Client(c, r)
      BY <2>5 DEF Kill
    <3>2. conn[c].client = "open" /\ ~Connect(c)
      BY <2>5 DEF Kill, Connect
    <3>3. Becomes(r)
      BY <1>t, <3>1, <3>2 DEF Conn, Sides
    <3> QED
      BY <3>3
  <2> QED
    BY <2>1, <2>2, <2>3, <2>4, <2>5 DEF User
<1>2. /\ conn' \in [Clients -> Conn] /\ conn'[c] = r
      /\ \A d \in Clients : d # c => conn'[d] = conn[d]
  BY <1>1, <1>t, OneConnection DEF Client
<1>3. CASE Connect(c)
  <2>1. backlog' = Append(backlog, c) /\ conn[c].client = "new" /\ conn[c].side = "none"
    BY <1>3 DEF Connect, BacklogOnce
  <2>2. /\ backlog' \in Seq(Clients) /\ Len(backlog') = Len(backlog) + 1
        /\ backlog'[Len(backlog) + 1] = c
        /\ \A n \in 1 .. Len(backlog) : backlog'[n] = backlog[n]
    BY <2>1, <1>t, AppendProperties
  <2>3. r.side = "backlog"
    BY <1>3, <1>1
  <2>4. \A n \in DOMAIN backlog : backlog[n] \in Clients /\ backlog[n] # c
    BY <2>1, <1>t DEF BacklogOnce
  <2>5. BacklogOnce'
    <3>0. DOMAIN backlog = 1 .. Len(backlog) /\ Len(backlog) \in Nat
          /\ DOMAIN backlog' = 1 .. Len(backlog) + 1
      BY <2>2, <1>t, LenProperties
    <3>1. \A d \in Clients : conn'[d].client = "new" => conn'[d].side = "none"
      BY <1>1, <1>2 DEF BacklogOnce
    <3>2. IsInjective(backlog')
      <4>1. ASSUME NEW m \in DOMAIN backlog', NEW n \in DOMAIN backlog', backlog'[m] = backlog'[n]
            PROVE  m = n
        <5>1. CASE m \in DOMAIN backlog /\ n \in DOMAIN backlog
          <6>1. backlog[m] = backlog[n]
            BY ONLY <5>1, <4>1, <3>0, <2>2
          <6> QED
            BY ONLY <6>1, <5>1, BacklogOnce DEF BacklogOnce, IsInjective
        <5>2. CASE m \notin DOMAIN backlog /\ n \notin DOMAIN backlog
          BY ONLY <5>2, <4>1, <3>0
        <5>3. CASE m \in DOMAIN backlog /\ n \notin DOMAIN backlog
          BY ONLY <5>3, <4>1, <3>0, <2>2, <2>4
        <5>4. CASE m \notin DOMAIN backlog /\ n \in DOMAIN backlog
          BY ONLY <5>4, <4>1, <3>0, <2>2, <2>4
        <5> QED
          BY ONLY <5>1, <5>2, <5>3, <5>4
      <4> QED
        BY ONLY <4>1 DEF IsInjective
    <3>3. \A n \in DOMAIN backlog' : conn'[backlog'[n]].side = "backlog"
      <4>1. ASSUME NEW n \in DOMAIN backlog PROVE conn'[backlog'[n]].side = "backlog"
        BY <3>0, <2>2, <2>4, <1>2 DEF BacklogOnce
      <4>2. conn'[backlog'[Len(backlog) + 1]].side = "backlog"
        BY <2>2, <2>3, <1>2
      <4> QED
        BY ONLY <4>1, <4>2, <3>0
    <3> QED
      BY <3>1, <3>2, <3>3 DEF BacklogOnce
  <2> QED
    BY <1>1, <1>2, <1>t, <2>1, <2>2, <2>3, <2>5, EmptySeq DEF Readable, Client
<1>4. CASE ~Connect(c)
  <2>1. backlog' = backlog
    BY <1>4 DEF User, Send, Receive, Close, Kill
  <2>2. BacklogOnce'
    BY <1>1, <1>2, <1>4, <2>1, <1>t DEF BacklogOnce
  <2> QED
    BY <1>1, <1>2, <1>4, <2>1, <2>2, <1>t DEF Readable, Client
<1> QED
  BY <1>3, <1>4

(* A step of a client keeps the invariant. *)
LEMMA UserStep ==
  ASSUME ServersInv, NEW c \in Clients, User(c)
  PROVE  ServersInv'
<1> USE ServersAssumption
<1>1. /\ conn' \in [Clients -> Conn] /\ backlog' \in Seq(Clients)
      /\ UNCHANGED <<api, round, watched, event, server>>
      /\ \A d \in Clients : conn'[d].side = "accepted" <=> conn[d].side = "accepted"
      /\ \A d \in Clients : conn[d].side = "accepted" /\ Readable(d) => Readable(d)'
      /\ \A d \in Clients : conn[d].side = "accepted" /\ conn[d].up => conn'[d].up
      /\ Readable(SERVER) => Readable(SERVER)'
      /\ BacklogOnce'
  BY ClientStep DEF ServersInv
<1>2. UNCHANGED <<api, fds, revents, nfds, i, watched, event, server>>
  BY <1>1 DEF round
<1>3. ServersTypeOK'
  BY <1>1, <1>2 DEF ServersInv, ServersTypeOK
<1>4. ListServed'
  BY <1>1, <1>2 DEF ServersInv, ListServed
<1>5. OthersServed'
  BY <1>1, <1>2 DEF ServersInv, OthersServed, ServersTypeOK
<1>6. MarksHold'
  <2> DEFINE Stays(d) == Readable(d) => Readable(d)'
  <2>1. api \in ByList => \A n \in DOMAIN fds : Stays(fds[n])
    <3> SUFFICES ASSUME api \in ByList, NEW n \in DOMAIN fds PROVE Stays(fds[n])
      OBVIOUS
    <3>1. fds[n] \in Clients \cup {SERVER}
      BY DEF ServersInv, ServersTypeOK, Sockets
    <3>2. fds[n] \in Clients => conn[fds[n]].side = "accepted"
      BY DEF ServersInv, ListServed
    <3>3. \A d \in Clients : conn[d].side = "accepted" => Stays(d)
      BY <1>1
    <3>4. Stays(SERVER)
      BY <1>1
    <3> QED
      BY ONLY <3>1, <3>2, <3>3, <3>4, <1>2
  <2>2. server \in {"accept", "loop"} => api \in ByList
    BY DEF ServersInv, OthersServed
  <2>3. CASE server \in {"accept", "loop"}
    <3>1. \A n \in DOMAIN fds : Readable(fds[n]) => Readable(fds[n])'
      BY <2>1, <2>2, <2>3, <1>2
    <3>2. Readable(SERVER) => Readable(SERVER)'
      BY <1>1
    <3> QED
      BY <3>1, <3>2, <1>2 DEF ServersInv, MarksHold
  <2> QED
    BY <2>3, <1>2 DEF MarksHold
<1>7. MarksCounted'
  BY <1>2 DEF ServersInv, MarksCounted
<1> QED
  BY <1>1, <1>3, <1>4, <1>5, <1>6, <1>7 DEF ServersInv

-----------------------------------------------------------------------------
(* Lists of sockets and their marks *)

(* Removing one entry shifts those behind it. *)
LEMMA Removed ==
  ASSUME NEW S, NEW s \in Seq(S), NEW n \in 1 .. Len(s)
  PROVE  /\ remove_client(s, n) \in Seq(S)
         /\ Len(remove_client(s, n)) = Len(s) - 1
         /\ \A m \in 1 .. Len(s) - 1 :
              remove_client(s, n)[m] = IF m < n THEN s[m] ELSE s[m + 1]
<1>1. /\ SubSeq(s, 1, n - 1) \in Seq(S) /\ Len(SubSeq(s, 1, n - 1)) = n - 1
      /\ \A m \in 1 .. n - 1 : SubSeq(s, 1, n - 1)[m] = s[m]
  BY SubSeqProperties, LenProperties
<1>2. /\ SubSeq(s, n + 1, Len(s)) \in Seq(S) /\ Len(SubSeq(s, n + 1, Len(s))) = Len(s) - n
      /\ \A m \in 1 .. Len(s) - n : SubSeq(s, n + 1, Len(s))[m] = s[n + m]
  BY SubSeqProperties, LenProperties
<1>3. Len(s) \in Nat
  BY LenProperties
<1> DEFINE a == SubSeq(s, 1, n - 1)
           b == SubSeq(s, n + 1, Len(s))
<1>4. remove_client(s, n) = a \o b
  BY DEF remove_client
<1>5. a \in Seq(S) /\ b \in Seq(S) /\ Len(a) = n - 1 /\ Len(b) = Len(s) - n
      /\ (\A m \in 1 .. n - 1 : a[m] = s[m]) /\ (\A m \in 1 .. Len(s) - n : b[m] = s[n + m])
  BY <1>1, <1>2
<1> HIDE DEF a, b
<1>6. /\ a \o b \in Seq(S) /\ Len(a \o b) = Len(a) + Len(b)
      /\ \A m \in 1 .. Len(a) + Len(b) : (a \o b)[m] = IF m <= Len(a) THEN a[m] ELSE b[m - Len(a)]
  BY <1>5, ConcatProperties, Zenon
<1>7. Len(a) + Len(b) = Len(s) - 1
  BY <1>3, <1>5
<1>8. \A m \in 1 .. Len(s) - 1 : (a \o b)[m] = IF m < n THEN s[m] ELSE s[m + 1]
  <2> SUFFICES ASSUME NEW m \in 1 .. Len(s) - 1
               PROVE  (a \o b)[m] = IF m < n THEN s[m] ELSE s[m + 1]
    OBVIOUS
  <2>1. (a \o b)[m] = IF m <= Len(a) THEN a[m] ELSE b[m - Len(a)]
    BY <1>6, <1>7
  <2>2. CASE m < n
    BY <2>1, <2>2, <1>5, <1>3
  <2>3. CASE ~(m < n)
    <3>1. m - Len(a) \in 1 .. Len(s) - n /\ n + (m - Len(a)) = m + 1 /\ ~(m <= Len(a))
      BY <2>3, <1>5, <1>3
    <3> QED
      BY <2>1, <2>3, <3>1, <1>5
  <2> QED
    BY <2>2, <2>3
<1> QED
  BY <1>4, <1>6, <1>7, <1>8

(* There are as many marks as can be counted. *)
LEMMA MarksFinite ==
  ASSUME NEW s \in Seq(BOOLEAN)
  PROVE  IsFiniteSet(Marks(s)) /\ Cardinality(Marks(s)) \in Nat
<1>1. Marks(s) \subseteq 1 .. Len(s)
  BY LenProperties DEF Marks
<1>2. IsFiniteSet(1 .. Len(s))
  BY FS_Interval, LenProperties
<1>3. IsFiniteSet(Marks(s))
  BY <1>1, <1>2, FS_Subset
<1> QED
  BY <1>3, FS_CardinalityType

(* A list that goes on with the same marks has no fewer of them. *)
LEMMA MarksGrow ==
  ASSUME NEW s \in Seq(BOOLEAN), NEW t \in Seq(BOOLEAN), Len(s) <= Len(t),
         \A m \in 1 .. Len(s) : t[m] = s[m]
  PROVE  Cardinality(Marks(s)) <= Cardinality(Marks(t))
<1>1. Marks(s) \subseteq Marks(t)
  BY LenProperties DEF Marks
<1> QED
  BY <1>1, MarksFinite, FS_Subset

(* Removing an entry takes its own mark and no other. *)
LEMMA MarksLeft ==
  ASSUME NEW s \in Seq(BOOLEAN), NEW t \in Seq(BOOLEAN), NEW n \in 1 .. Len(s),
         Len(s) - 1 <= Len(t),
         \A m \in 1 .. Len(s) - 1 : t[m] = IF m < n THEN s[m] ELSE s[m + 1]
  PROVE  /\ Cardinality(Marks(s)) - 1 <= Cardinality(Marks(t))
         /\ ~s[n] => Cardinality(Marks(s)) <= Cardinality(Marks(t))
<1> DEFINE Rest == Marks(s) \ {n}
           place == [m \in Rest |-> IF m < n THEN m ELSE m - 1]
<1>1. \A m \in Rest : m \in 1 .. Len(s) /\ m # n /\ s[m]
  BY LenProperties DEF Marks
<1>2. place \in [Rest -> Marks(t)]
  <2> SUFFICES ASSUME NEW m \in Rest PROVE place[m] \in Marks(t)
    OBVIOUS
  <2>1. place[m] \in 1 .. Len(s) - 1 /\ t[place[m]] = s[m]
    BY <1>1, LenProperties
  <2> QED
    BY <2>1, <1>1, LenProperties DEF Marks
<1>3. \A a, b \in Rest : place[a] = place[b] => a = b
  BY <1>1
<1>4. place \in Injection(Rest, Marks(t))
  BY <1>2, <1>3, Fun_IsInj
<1>5. Cardinality(Rest) <= Cardinality(Marks(t))
  <2> HIDE DEF Rest, place
  <2> QED
    BY <1>4, FS_Injection, MarksFinite
<1>6. Cardinality(Rest) = IF n \in Marks(s) THEN Cardinality(Marks(s)) - 1 ELSE Cardinality(Marks(s))
  BY MarksFinite, FS_RemoveElement
<1>7. ~s[n] => n \notin Marks(s)
  BY DEF Marks
<1> QED
  BY <1>5, <1>6, <1>7, MarksFinite

-----------------------------------------------------------------------------
(* accept() and interact() *)

(* What is to be read of a connection does not depend on its side. *)
LEMMA SideChanged ==
  ASSUME NEW m \in [Clients -> Conn], NEW c \in Clients, NEW s \in Sides
  PROVE  LET new == [m EXCEPT ![c].side = s]
         IN  /\ new \in [Clients -> Conn]
             /\ \A d \in Clients : d # c => new[d] = m[d]
             /\ new[c].side = s /\ new[c].client = m[c].client
             /\ new[c].up = m[c].up /\ new[c].eof = m[c].eof /\ new[c].reset = m[c].reset
<1> DEFINE r == [m[c] EXCEPT !.side = s]
<1>1. [m EXCEPT ![c].side = s] = [m EXCEPT ![c] = r]
  OBVIOUS
<1>2. m[c] \in Conn
  OBVIOUS
<1>3. /\ r \in Conn /\ r.side = s /\ r.client = m[c].client
      /\ r.up = m[c].up /\ r.eof = m[c].eof /\ r.reset = m[c].reset
  BY <1>2 DEF Conn
<1> HIDE DEF r
<1> QED
  BY <1>1, <1>3

(* accept() makes the first connection of the backlog, which the server did *)
(* not have, an accepted one.                                               *)
LEMMA Accepted ==
  ASSUME ServersTypeOK, BacklogOnce, backlog # <<>>, accept
  PROVE  /\ Head(backlog) \in Clients /\ conn[Head(backlog)].side = "backlog"
         /\ conn' \in [Clients -> Conn] /\ backlog' \in Seq(Clients)
         /\ conn'[Head(backlog)].side = "accepted"
         /\ \A d \in Clients : d # Head(backlog) => conn'[d] = conn[d]
         /\ \A d \in Clients : Readable(d) => Readable(d)'
         /\ BacklogOnce'
<1> DEFINE h == Head(backlog)
<1> USE ServersAssumption
<1>1. backlog \in Seq(Clients) /\ conn \in [Clients -> Conn]
  BY DEF ServersTypeOK
<1>2. /\ h \in Clients /\ backlog' \in Seq(Clients)
      /\ Len(backlog') = Len(backlog) - 1
      /\ \A n \in 1 .. Len(backlog') : backlog'[n] = backlog[n + 1]
  BY <1>1, HeadTailProperties DEF accept
<1>3. Len(backlog) \in Nat /\ Len(backlog) > 0 /\ h = backlog[1]
      /\ DOMAIN backlog = 1 .. Len(backlog) /\ DOMAIN backlog' = 1 .. Len(backlog')
  BY <1>1, <1>2, EmptySeq, LenProperties
<1>4. conn[h].side = "backlog"
  BY <1>3 DEF BacklogOnce
<1> HIDE DEF h
<1>5. /\ conn' \in [Clients -> Conn] /\ conn'[h].side = "accepted"
      /\ conn'[h].client = conn[h].client
      /\ \A d \in Clients : d # h => conn'[d] = conn[d]
      /\ conn'[h].up = conn[h].up /\ conn'[h].eof = conn[h].eof /\ conn'[h].reset = conn[h].reset
  <2>1. conn' = [conn EXCEPT ![h].side = "accepted"]
    BY DEF accept, h
  <2>2. "accepted" \in Sides
    BY DEF Sides
  <2> QED
    BY <1>1, <1>2, <2>1, <2>2, SideChanged
<1>6. BacklogOnce'
  <2>1. IsInjective(backlog')
    <3> SUFFICES ASSUME NEW a \in DOMAIN backlog', NEW b \in DOMAIN backlog',
                        backlog'[a] = backlog'[b]
                 PROVE  a = b
      BY DEF IsInjective
    <3>1. /\ a + 1 \in DOMAIN backlog /\ backlog'[a] = backlog[a + 1] /\ a \in Nat
          /\ b + 1 \in DOMAIN backlog /\ backlog'[b] = backlog[b + 1] /\ b \in Nat
      BY <1>2, <1>3
    <3>2. a + 1 = b + 1
      BY <3>1 DEF BacklogOnce, IsInjective
    <3> QED
      BY <3>1, <3>2
  <2>2. ASSUME NEW n \in DOMAIN backlog' PROVE conn'[backlog'[n]].side = "backlog"
    <3>1. n + 1 \in DOMAIN backlog /\ backlog'[n] = backlog[n + 1] /\ n + 1 # 1 /\ 1 \in DOMAIN backlog
      BY <1>2, <1>3
    <3>2. backlog[n + 1] # h /\ backlog[n + 1] \in Clients
      BY <3>1, <1>1, <1>3 DEF BacklogOnce, IsInjective
    <3> QED
      BY <3>1, <3>2, <1>5 DEF BacklogOnce
  <2>3. \A c \in Clients : conn'[c].client = "new" => conn'[c].side = "none"
    BY <1>2, <1>4, <1>5 DEF BacklogOnce
  <2> QED
    BY <2>1, <2>2, <2>3 DEF BacklogOnce
<1>7. \A d \in Clients : Readable(d) => Readable(d)'
  BY <1>5 DEF Readable
<1> QED
  BY <1>2, <1>4, <1>5, <1>6, <1>7 DEF h

(* interact() changes at most the connection it is about: it is taken from  *)
(* the server when its end has been read, and only then.                    *)
LEMMA Interacted ==
  ASSUME conn \in [Clients -> Conn], NEW c \in Sockets
  PROVE  /\ interact(c) \in [Clients -> Conn]
         /\ \A d \in Clients : d # c => interact(c)[d] = conn[d]
         /\ Rc(c) \in {"sent", "error", "closed"}
         /\ c = SERVER => Rc(c) = "error"
         /\ c \in Clients =>
              /\ interact(c)[c].client = conn[c].client
              /\ Rc(c) = "closed" => interact(c)[c].side = "ended"
              /\ Rc(c) # "closed" => interact(c)[c].side = conn[c].side
<1> USE ServersAssumption
<1>1. Rc(c) \in {"sent", "error", "closed"} /\ (c = SERVER => Rc(c) = "error")
  BY DEF Rc
<1>2. CASE c = SERVER
  BY <1>1, <1>2 DEF interact
<1>3. CASE c \in Clients /\ Rc(c) = "closed"
  <2>1. interact(c) = [conn EXCEPT ![c].side = "ended"]
    BY <1>3 DEF interact
  <2>2. "ended" \in Sides
    BY DEF Sides
  <2> QED
    BY <1>1, <1>3, <2>1, <2>2, SideChanged
<1>4. CASE c \in Clients /\ Rc(c) # "closed"
  <2>1. PICK r \in Conn : /\ interact(c) = [conn EXCEPT ![c] = r]
                          /\ r.client = conn[c].client /\ r.side = conn[c].side
    <3> DEFINE open == conn[c].client = "open"
    <3>1. conn[c] \in Conn
      BY <1>4
    <3>2. CASE Rc(c) = "sent"
      <4> DEFINE r == [conn[c] EXCEPT !.up = FALSE, !.down = open]
      <4>1. interact(c) = [conn EXCEPT ![c] = r]
        BY <3>2, <1>4 DEF interact
      <4>2. r \in Conn /\ r.client = conn[c].client /\ r.side = conn[c].side
        BY <3>1 DEF Conn
      <4> QED
        BY <4>1, <4>2
    <3>3. CASE Rc(c) = "error"
      <4> DEFINE r == [conn[c] EXCEPT !.reset = FALSE, !.eof = TRUE]
      <4>1. interact(c) = [conn EXCEPT ![c] = r]
        BY <3>3, <1>4 DEF interact
      <4>2. r \in Conn /\ r.client = conn[c].client /\ r.side = conn[c].side
        BY <3>1 DEF Conn
      <4> QED
        BY <4>1, <4>2
    <3> QED
      BY <1>1, <1>4, <3>2, <3>3
  <2> QED
    BY <1>1, <1>4, <2>1
<1> QED
  BY <1>2, <1>3, <1>4 DEF Sockets

-----------------------------------------------------------------------------
(* A round of select() and poll() *)

(* What the lists are, while a server with a list runs. *)
LEMMA Lists ==
  ASSUME ServersInv
  PROVE  /\ fds \in Seq(Sockets) /\ Len(fds) \in Nat /\ DOMAIN fds = 1 .. Len(fds)
         /\ \A n \in 1 .. Len(fds) : fds[n] \in Sockets
         /\ revents \in Seq(BOOLEAN) /\ Len(revents) \in Nat /\ DOMAIN revents = 1 .. Len(revents)
         /\ \A n \in 1 .. Len(revents) : revents[n] \in BOOLEAN
  BY LenProperties DEF ServersInv, ServersTypeOK

(* What is the same for the steps of a round: the rest of the state stays. *)
LEMMA RoundFrame ==
  ASSUME ServersInv, api \in ByList, UNCHANGED <<api, watched, event>>,
         server' \in {"wait", "accept", "loop"}
  PROVE  OthersServed' /\ api' \in ByList /\ api' \in APIs /\ watched' = {}
         /\ event' \in [ident : Sockets, hup : BOOLEAN]
  BY DEF ServersInv, ServersTypeOK, ListServed, OthersServed

(* select() says which of the sockets are ready, and how many they are. *)
LEMMA SelectWaitStep ==
  ASSUME ServersInv, api = "select", SelectWait, UNCHANGED <<api, watched, event>>
  PROVE  ServersInv'
<1> DEFINE Ready == {c \in {SERVER} \cup Range(fds) : Readable(c)}
           marks == [n \in 1 .. Len(fds) + 1 |->
                       IF n = 1 THEN SERVER \in Ready ELSE fds[n - 1] \in Ready]
<1>1. /\ revents' = marks /\ nfds' = Cardinality(Ready) /\ server' = "accept"
      /\ UNCHANGED <<conn, backlog, fds, i, api, watched, event>>
  BY DEF SelectWait
<1>2. /\ Len(fds) \in Nat /\ DOMAIN fds = 1 .. Len(fds)
      /\ \A n \in 1 .. Len(fds) : fds[n] \in Sockets
  BY Lists
<1>3. /\ marks \in Seq(BOOLEAN) /\ Len(marks) = Len(fds) + 1 /\ DOMAIN marks = 1 .. Len(fds) + 1
      /\ marks[1] = (SERVER \in Ready)
      /\ \A n \in 1 .. Len(fds) : marks[n + 1] = (fds[n] \in Ready)
  <2> DEFINE ready(n) == IF n = 1 THEN SERVER \in Ready ELSE fds[n - 1] \in Ready
             len == Len(fds) + 1
  <2>1. \A n \in 1 .. len : ready(n) \in BOOLEAN
    <3> HIDE DEF Ready
    <3> SUFFICES ASSUME NEW n PROVE ready(n) \in BOOLEAN
      BY Zenon
    <3>1. CASE n = 1
      BY <3>1
    <3>2. CASE n # 1
      BY <3>2
    <3> QED
      BY <3>1, <3>2
  <2>2. marks = [n \in 1 .. len |-> ready(n)]
    OBVIOUS
  <2>3. /\ ready(1) = (SERVER \in Ready)
        /\ \A n \in 1 .. Len(fds) : ready(n + 1) = (fds[n] \in Ready)
    <3> HIDE DEF Ready
    <3>1. ready(1) = (SERVER \in Ready)
      BY Zenon
    <3>2. ASSUME NEW n \in 1 .. Len(fds) PROVE ready(n + 1) = (fds[n] \in Ready)
      <4>1. n + 1 # 1 /\ n + 1 - 1 = n
        BY <1>2
      <4> DEFINE m == n + 1
      <4>2. m # 1 /\ fds[m - 1] = fds[n]
        BY <4>1
      <4> HIDE DEF m
      <4>3. ready(m) = (fds[n] \in Ready)
        BY <4>2, Zenon
      <4> QED
        BY <4>3, Zenon DEF m
    <3> QED
      BY <3>1, <3>2, Zenon
  <2>4. len \in Nat /\ 1 \in 1 .. len /\ \A n \in 1 .. Len(fds) : n + 1 \in 1 .. len
    BY <1>2
  <2> HIDE DEF ready, len
  <2>5. marks \in [1 .. len -> BOOLEAN] /\ DOMAIN marks = 1 .. len /\ marks[1] = ready(1)
        /\ \A n \in 1 .. Len(fds) : marks[n + 1] = ready(n + 1)
    BY <2>1, <2>2, <2>4, Zenon
  <2> HIDE DEF marks
  <2>6. marks \in Seq(BOOLEAN) /\ Len(marks) = len
    BY <2>4, <2>5
  <2> QED
    BY <2>3, <2>5, <2>6 DEF len
<1>4. IsFiniteSet(Ready) /\ Cardinality(Ready) <= Cardinality(Marks(marks))
  <2> DEFINE entry == [n \in Marks(marks) |-> IF n = 1 THEN SERVER ELSE fds[n - 1]]
  <2>1. entry \in [Marks(marks) -> Ready]
    BY <1>2, <1>3 DEF Marks
  <2>2. ASSUME NEW c \in Ready PROVE \E n \in Marks(marks) : entry[n] = c
    <3> HIDE DEF Ready, marks
    <3>1. CASE c = SERVER
      <4>1. 1 \in Marks(marks)
        BY <3>1, <1>2, <1>3 DEF Marks
      <4> QED
        BY <4>1, <3>1
    <3>2. CASE c # SERVER
      <4>1. PICK n \in 1 .. Len(fds) : fds[n] = c
        BY <3>2, <1>2 DEF Range, Ready
      <4>2. n + 1 \in 1 .. Len(fds) + 1 /\ n + 1 # 1 /\ n + 1 - 1 = n
        BY <4>1, <1>2
      <4>3. n + 1 \in Marks(marks)
        BY <4>1, <4>2, <1>3, Zenon DEF Marks
      <4>4. entry[n + 1] = c
        BY <4>1, <4>2, <4>3
      <4> QED
        BY <4>3, <4>4
    <3> QED
      BY <3>1, <3>2
  <2>3. entry \in Surjection(Marks(marks), Ready)
    BY <2>1, <2>2, Fun_IsSurj
  <2>4. IsFiniteSet(Marks(marks))
    BY <1>3, MarksFinite
  <2> HIDE DEF entry, Ready, marks
  <2> QED
    BY <2>3, <2>4, FS_Surjection
<1>5. MarksCounted'
  BY <1>1, <1>4 DEF MarksCounted, Marks
<1>6. ServersTypeOK'
  <2>1. nfds' \in Int
    BY <1>1, <1>4, FS_CardinalityType
  <2>2. revents' \in Seq(BOOLEAN)
    BY <1>1, <1>3
  <2> QED
    BY <1>1, <2>1, <2>2 DEF ServersInv, ServersTypeOK
<1>7. MarksHold'
  <2>1. Len(revents') = Len(fds') + 1 /\ revents'[1] = (SERVER \in Ready)
    BY <1>1, <1>2, <1>3
  <2>2. \A n \in 1 .. Len(fds) : revents'[n + 1] = (fds[n] \in Ready)
    BY <1>1, <1>2
  <2>3. \A c : c \in Ready => Readable(c)'
    BY <1>1 DEF Readable
  <2> QED
    BY <1>1, <1>2, <2>1, <2>2, <2>3 DEF MarksHold, ByPoll
<1>8. BacklogOnce' /\ ListServed' /\ OthersServed'
  <2>1. server # "down"
    BY DEF SelectWait
  <2> QED
    BY <1>1, <2>1 DEF ServersInv, BacklogOnce, ListServed, OthersServed, ByList, ByPoll
<1> QED
  BY <1>5, <1>6, <1>7, <1>8 DEF ServersInv

(* poll() does it in the entries themselves. *)
LEMMA PollWaitStep ==
  ASSUME ServersInv, api \in ByPoll, PollWait, UNCHANGED <<api, watched, event>>
  PROVE  ServersInv'
<1> DEFINE ready(n) == Readable(fds[n])
           marks == [n \in 1 .. Len(fds) |-> ready(n)]
<1>2. /\ Len(fds) \in Nat /\ DOMAIN fds = 1 .. Len(fds)
      /\ \A n \in 1 .. Len(fds) : fds[n] \in Sockets
  BY Lists
<1>1. /\ revents' = marks /\ nfds' = Cardinality({n \in 1 .. Len(fds) : ready(n)})
      /\ server' = "accept" /\ UNCHANGED <<conn, backlog, fds, i, api, watched, event>>
  BY <1>2 DEF PollWait
<1>3. \A n \in 1 .. Len(fds) : ready(n) \in BOOLEAN
  BY <1>2 DEF Readable, Sockets, ServersInv, ServersTypeOK, Conn
<1>4. /\ marks \in Seq(BOOLEAN) /\ Len(marks) = Len(fds) /\ DOMAIN marks = 1 .. Len(fds)
      /\ \A n \in 1 .. Len(fds) : marks[n] = ready(n)
  <2> HIDE DEF ready
  <2>1. marks \in [1 .. Len(fds) -> BOOLEAN] /\ \A n \in 1 .. Len(fds) : marks[n] = ready(n)
    BY <1>3, Zenon
  <2> HIDE DEF marks
  <2> QED
    BY <2>1, <1>2
<1>5. ServersTypeOK' /\ MarksCounted'
  <2> HIDE DEF ready
  <2>1. {n \in 1 .. Len(fds) : ready(n)} = Marks(marks)
    BY <1>4, Zenon DEF Marks
  <2> HIDE DEF marks
  <2>2. Cardinality(Marks(marks)) \in Nat
    BY <1>4, MarksFinite
  <2>3. nfds' = Cardinality(Marks(revents'))
    BY <1>1, <2>1
  <2>4. nfds' \in Nat
    BY <1>1, <2>2, <2>3
  <2>5. MarksCounted'
    BY <2>3, <2>4 DEF MarksCounted, Marks
  <2> QED
    BY <1>1, <1>4, <2>4, <2>5 DEF ServersInv, ServersTypeOK
<1>6. MarksHold'
  <2>1. Len(revents') = Len(fds')
    BY <1>1, <1>4
  <2>2. \A n \in 1 .. Len(fds) : revents'[n] => Readable(fds[n])
    BY <1>1, <1>4
  <2>3. \A c : Readable(c) => Readable(c)'
    BY <1>1 DEF Readable
  <2> QED
    BY <1>1, <1>2, <2>1, <2>2, <2>3 DEF MarksHold, ByPoll
<1>7. BacklogOnce' /\ ListServed' /\ OthersServed'
  <2>1. server # "down"
    BY DEF PollWait
  <2> QED
    BY <1>1, <2>1 DEF ServersInv, BacklogOnce, ListServed, OthersServed, ByList, ByPoll
<1> QED
  BY <1>5, <1>6, <1>7 DEF ServersInv

(* A new entry is behind the others, and of a connection none of them has.  *)
LEMMA EntryAdded ==
  ASSUME ServersInv, api \in ByList, backlog # <<>>, accept,
         fds' = Append(fds, Head(backlog)), UNCHANGED <<api, watched, event>>,
         server # "down", server' = "loop"
  PROVE  /\ fds' \in Seq(Sockets) /\ Len(fds') = Len(fds) + 1
         /\ \A n \in 1 .. Len(fds) : fds'[n] = fds[n]
         /\ fds'[Len(fds) + 1] \in Clients
         /\ conn' \in [Clients -> Conn] /\ backlog' \in Seq(Clients)
         /\ \A d \in Clients : Readable(d) => Readable(d)'
         /\ BacklogOnce' /\ ListServed'
<1> DEFINE h == Head(backlog)
<1> USE ServersAssumption
<1>1. /\ h \in Clients /\ conn[h].side = "backlog"
      /\ conn' \in [Clients -> Conn] /\ backlog' \in Seq(Clients)
      /\ conn'[h].side = "accepted"
      /\ \A d \in Clients : d # h => conn'[d] = conn[d]
      /\ \A d \in Clients : Readable(d) => Readable(d)'
      /\ BacklogOnce'
  BY Accepted DEF ServersInv
<1> HIDE DEF h
<1>2. fds \in Seq(Sockets) /\ Len(fds) \in Nat /\ DOMAIN fds = 1 .. Len(fds)
  BY Lists
<1>3. /\ fds' \in Seq(Sockets) /\ Len(fds') = Len(fds) + 1
      /\ \A n \in 1 .. Len(fds) : fds'[n] = fds[n]
      /\ fds'[Len(fds) + 1] = h /\ DOMAIN fds' = 1 .. Len(fds) + 1
  BY <1>1, <1>2, AppendProperties, LenProperties DEF h, Sockets
<1>4. /\ IsInjective(fds)
      /\ \A c \in Clients : conn[c].side = "accepted" <=> \E n \in DOMAIN fds : fds[n] = c
      /\ api = "select" => \A n \in DOMAIN fds : fds[n] # SERVER
      /\ api \in ByPoll => fds # <<>> /\ fds[1] = SERVER
      /\ watched = {}
  BY DEF ServersInv, ListServed
<1>5. \A n \in 1 .. Len(fds) : fds[n] # h
  BY <1>1, <1>2, <1>4
<1>6. IsInjective(fds')
  BY <1>2, <1>3, <1>4, <1>5 DEF IsInjective
<1>7. \A c \in Clients : conn'[c].side = "accepted" <=> \E n \in DOMAIN fds' : fds'[n] = c
  <2> SUFFICES ASSUME NEW c \in Clients
               PROVE  conn'[c].side = "accepted" <=> \E n \in DOMAIN fds' : fds'[n] = c
    OBVIOUS
  <2>1. CASE c = h
    BY <2>1, <1>1, <1>2, <1>3
  <2>2. CASE c # h
    <3>1. (\E n \in DOMAIN fds' : fds'[n] = c) <=> (\E n \in DOMAIN fds : fds[n] = c)
      BY <2>2, <1>2, <1>3
    <3> QED
      BY <3>1, <2>2, <1>1, <1>4
  <2> QED
    BY <2>1, <2>2
<1>8. api = "select" => \A n \in DOMAIN fds' : fds'[n] # SERVER
  BY <1>1, <1>2, <1>3, <1>4
<1>9. api \in ByPoll => fds' # <<>> /\ fds'[1] = SERVER
  <2>1. fds # <<>> => Len(fds) > 0
    BY <1>2, EmptySeq
  <2>2. fds' # <<>>
    BY <1>2, <1>3, EmptySeq
  <2> QED
    BY <1>2, <1>3, <1>4, <2>1, <2>2
<1> QED
  BY <1>1, <1>3, <1>4, <1>6, <1>7, <1>8, <1>9 DEF ListServed

(* select() first takes a connection if there is one; the marks of the      *)
(* clients move to the places of their sockets.                             *)
LEMMA SelectAcceptStep ==
  ASSUME ServersInv, api = "select", SelectAccept, UNCHANGED <<api, watched, event>>
  PROVE  ServersInv'
<1> USE ServersAssumption
<1>1. /\ Len(revents) = Len(fds) + 1 /\ (revents[1] => Readable(SERVER))
      /\ \A n \in 1 .. Len(fds) : revents[n + 1] => Readable(fds[n])
      /\ \A n \in 1 .. Len(fds) : fds[n] \in Clients
  BY Lists DEF ServersInv, MarksHold, SelectAccept, ListServed, ByList, Sockets
<1>2. /\ fds \in Seq(Sockets) /\ Len(fds) \in Nat /\ DOMAIN fds = 1 .. Len(fds)
      /\ revents \in Seq(BOOLEAN) /\ Len(revents) \in Nat /\ DOMAIN revents = 1 .. Len(revents)
      /\ revents # <<>>
  BY <1>1, Lists, EmptySeq
<1>3. /\ Tail(revents) \in Seq(BOOLEAN) /\ Len(Tail(revents)) = Len(fds)
      /\ \A n \in 1 .. Len(fds) : Tail(revents)[n] = revents[n + 1]
  BY <1>1, <1>2, HeadTailProperties
<1>4. i' = 1 /\ server' = "loop" /\ api \in ByList
  BY DEF SelectAccept, ByList
<1>5. OthersServed' /\ api' \in ByList /\ api' \in APIs /\ watched' = {}
      /\ event' \in [ident : Sockets, hup : BOOLEAN]
  BY <1>4, RoundFrame
<1>n. nfds \in Int /\ nfds <= Cardinality(Marks(revents)) /\ 1 \in 1 .. Len(revents)
  BY <1>1, <1>2 DEF ServersInv, ServersTypeOK, MarksCounted
<1>6. CASE revents[1]
  <2>1. /\ accept /\ fds' = Append(fds, Head(backlog)) /\ nfds' = nfds - 1
        /\ revents' = Append(Tail(revents), FALSE) /\ backlog # <<>>
    BY <1>6, <1>1 DEF SelectAccept, Readable
  <2>2. /\ fds' \in Seq(Sockets) /\ Len(fds') = Len(fds) + 1
        /\ \A n \in 1 .. Len(fds) : fds'[n] = fds[n]
        /\ fds'[Len(fds) + 1] \in Clients
        /\ conn' \in [Clients -> Conn] /\ backlog' \in Seq(Clients)
        /\ \A d \in Clients : Readable(d) => Readable(d)'
        /\ BacklogOnce' /\ ListServed'
    BY <1>4, <2>1, EntryAdded DEF SelectAccept
  <2>3. /\ revents' \in Seq(BOOLEAN) /\ Len(revents') = Len(fds) + 1
        /\ \A n \in 1 .. Len(fds) : revents'[n] = revents[n + 1]
        /\ ~revents'[Len(fds) + 1]
    <3> DEFINE rest == Tail(revents)
    <3>1. Len(rest) = Len(fds) /\ rest \in Seq(BOOLEAN) /\ revents' = Append(rest, FALSE)
      BY <1>3, <2>1
    <3> HIDE DEF rest
    <3>2. PICK S, off : S = BOOLEAN /\ off = FALSE
      BY Zenon
    <3>3. rest \in Seq(S) /\ off \in S /\ revents' = Append(rest, off)
      BY <3>1, <3>2, Zenon
    <3>4. /\ revents' \in Seq(S) /\ Len(revents') = Len(rest) + 1
          /\ \A n \in 1 .. Len(rest) : revents'[n] = rest[n]
          /\ revents'[Len(rest) + 1] = off
      BY <3>3, AppendProperties
    <3>5. ~revents'[Len(rest) + 1]
      BY <3>2, <3>4, Zenon
    <3> QED
      BY <3>1, <3>2, <3>4, <3>5, <1>3 DEF rest
  <2>4. MarksHold'
    <3>1. ASSUME NEW n \in DOMAIN fds', revents'[n]
          PROVE  Readable(fds[n])' /\ fds'[n] # SERVER
      <4>1. n \in 1 .. Len(fds)
        BY <3>1, <2>2, <2>3, <1>2, LenProperties
      <4>2. PICK d \in Clients : d = fds[n] /\ d = fds'[n]
        BY <4>1, <1>1, <2>2
      <4>3. Readable(d)
        BY <3>1, <4>1, <4>2, <1>1, <2>3
      <4>4. Readable(d)'
        BY <4>3, <2>2
      <4> QED
        BY <4>2, <4>4 DEF Readable
    <3>2. Len(revents') = Len(fds')
      BY <2>2, <2>3
    <3> QED
      BY <3>1, <3>2, <1>4 DEF MarksHold
  <2>5. MarksCounted'
    <3>1. Cardinality(Marks(revents)) - 1 <= Cardinality(Marks(revents'))
      <4>1. \A m \in 1 .. Len(revents) - 1 :
              revents'[m] = IF m < 1 THEN revents[m] ELSE revents[m + 1]
        BY <1>1, <1>2, <2>3
      <4>2. Len(revents) - 1 <= Len(revents')
        BY <1>1, <1>2, <2>3
      <4> QED
        BY <4>1, <4>2, <1>2, <1>n, <2>3, MarksLeft, Zenon
    <3>2. /\ Cardinality(Marks(revents)) \in Nat
          /\ Cardinality(Marks(revents')) \in Nat
      BY <2>3, <1>2, MarksFinite, Zenon
    <3>3. nfds' = nfds - 1
      BY <2>1
    <3> QED
      BY <3>1, <3>2, <3>3, <1>n DEF MarksCounted
  <2>6. ServersTypeOK'
    BY <1>4, <1>5, <2>1, <2>2, <2>3, <1>n DEF ServersTypeOK
  <2> QED
    BY <1>5, <2>2, <2>4, <2>5, <2>6 DEF ServersInv
<1>7. CASE ~revents[1]
  <2>1. revents' = Tail(revents) /\ UNCHANGED <<conn, backlog, fds, nfds>>
    BY <1>7 DEF SelectAccept
  <2>2. MarksHold'
    <3>1. \A n \in 1 .. Len(fds) : revents'[n] => Readable(fds[n]) /\ fds[n] # SERVER
      BY <1>1, <1>3, <2>1
    <3>2. \A c : Readable(c) => Readable(c)'
      BY <2>1 DEF Readable
    <3>3. Len(revents') = Len(fds')
      BY <1>3, <2>1
    <3> QED
      BY <1>2, <1>4, <2>1, <3>1, <3>2, <3>3 DEF MarksHold
  <2>3. MarksCounted'
    <3>1. Cardinality(Marks(revents)) <= Cardinality(Marks(revents'))
      <4>1. \A m \in 1 .. Len(revents) - 1 :
              revents'[m] = IF m < 1 THEN revents[m] ELSE revents[m + 1]
        BY <1>1, <1>2, <1>3, <2>1
      <4>2. Len(revents) - 1 <= Len(revents')
        BY <1>1, <1>2, <1>3, <2>1
      <4> QED
        BY <4>1, <4>2, <1>2, <1>3, <1>7, <1>n, <2>1, MarksLeft, Zenon
    <3>2. /\ Cardinality(Marks(revents)) \in Nat
          /\ Cardinality(Marks(revents')) \in Nat
      BY <2>1, <1>2, <1>3, MarksFinite, Zenon
    <3> QED
      BY <3>1, <3>2, <2>1, <1>n DEF MarksCounted
  <2>4. ServersTypeOK'
    BY <1>3, <1>4, <1>5, <2>1 DEF ServersInv, ServersTypeOK
  <2>5. BacklogOnce' /\ ListServed'
    BY <1>4, <2>1 DEF ServersInv, BacklogOnce, ListServed, SelectAccept
  <2> QED
    BY <1>5, <2>2, <2>3, <2>4, <2>5 DEF ServersInv
<1> QED
  BY <1>6, <1>7

(* poll() does too; the mark of the new entry is whatever is found there.   *)
LEMMA PollAcceptStep ==
  ASSUME ServersInv, api \in ByPoll, PollAccept, UNCHANGED <<api, watched, event>>
  PROVE  ServersInv'
<1> USE ServersAssumption
<1>1. /\ Len(revents) = Len(fds) /\ \A n \in 1 .. Len(fds) : revents[n] => Readable(fds[n])
      /\ fds # <<>> /\ fds[1] = SERVER /\ IsInjective(fds)
  BY Lists DEF ServersInv, MarksHold, PollAccept, ListServed, ByList, ByPoll
<1>2. /\ fds \in Seq(Sockets) /\ Len(fds) \in Nat \ {0} /\ DOMAIN fds = 1 .. Len(fds)
      /\ revents \in Seq(BOOLEAN) /\ DOMAIN revents = 1 .. Len(revents)
  BY <1>1, Lists, EmptySeq
<1>4. i' = 1 /\ server' = "loop" /\ api \in ByList
  BY DEF PollAccept, FirstPolled, ByList, ByPoll
<1>5. OthersServed' /\ api' \in ByList /\ api' \in APIs /\ watched' = {}
      /\ event' \in [ident : Sockets, hup : BOOLEAN]
  BY <1>4, RoundFrame
<1>n. nfds \in Int /\ nfds <= Cardinality(Marks(revents))
  BY DEF ServersInv, ServersTypeOK, MarksCounted
<1>6. CASE revents[1]
  <2>1. PICK garbage \in BOOLEAN : revents' = Append(revents, garbage)
    BY <1>6 DEF PollAccept
  <2>2. accept /\ fds' = Append(fds, Head(backlog)) /\ nfds' = nfds - 1 /\ backlog # <<>>
    BY <1>6, <1>1, <1>2 DEF PollAccept, Readable
  <2>3. /\ fds' \in Seq(Sockets) /\ Len(fds') = Len(fds) + 1
        /\ conn' \in [Clients -> Conn] /\ backlog' \in Seq(Clients)
        /\ BacklogOnce' /\ ListServed'
    BY <1>4, <2>2, EntryAdded DEF PollAccept
  <2>4. /\ revents' \in Seq(BOOLEAN) /\ Len(revents') = Len(revents) + 1
        /\ \A n \in 1 .. Len(revents) : revents'[n] = revents[n]
    BY <2>1, <1>2, AppendProperties
  <2>5. MarksHold'
    BY <1>1, <1>2, <1>4, <1>6, <2>3, <2>4 DEF MarksHold
  <2>6. MarksCounted'
    <3>1. Cardinality(Marks(revents)) <= Cardinality(Marks(revents'))
      BY <2>4, <1>2, <1>1, MarksGrow
    <3> QED
      BY <3>1, <2>2, <2>4, <1>2, <1>n, MarksFinite DEF MarksCounted
  <2>7. ServersTypeOK'
    BY <1>4, <1>5, <2>2, <2>3, <2>4, <1>n DEF ServersTypeOK
  <2> QED
    BY <1>5, <2>3, <2>5, <2>6, <2>7 DEF ServersInv
<1>7. CASE ~revents[1]
  <2>1. UNCHANGED <<conn, backlog, fds, revents, nfds>>
    BY <1>7 DEF PollAccept
  <2>2. MarksHold'
    <3>1. \A c : Readable(c) => Readable(c)'
      BY <2>1 DEF Readable
    <3>2. \A n \in 1 .. Len(fds) : revents[n] => fds[n] # SERVER
      BY <1>1, <1>2, <1>7 DEF IsInjective
    <3> QED
      BY <1>1, <1>2, <1>4, <2>1, <3>1, <3>2 DEF MarksHold
  <2>3. MarksCounted'
    BY <2>1, <1>n DEF MarksCounted, Marks
  <2>4. ServersTypeOK'
    BY <1>4, <1>5, <2>1 DEF ServersInv, ServersTypeOK
  <2>5. BacklogOnce' /\ ListServed'
    BY <1>4, <2>1 DEF ServersInv, BacklogOnce, ListServed, PollAccept
  <2> QED
    BY <1>5, <2>2, <2>3, <2>4, <2>5 DEF ServersInv
<1> QED
  BY <1>6, <1>7

(* A step of the loop over the list: the entry it is at, when it is marked, *)
(* is read or, when its end is read, removed, and no other is.              *)
LEMMA ListLoopStep ==
  ASSUME ServersInv, api \in ByList, ListLoop, UNCHANGED <<api, watched, event>>
  PROVE  ServersInv'
<1> USE ServersAssumption
<1>1. server = "loop" /\ backlog' = backlog
  BY DEF ListLoop
<1>2. /\ fds \in Seq(Sockets) /\ Len(fds) \in Nat /\ DOMAIN fds = 1 .. Len(fds)
      /\ \A n \in 1 .. Len(fds) : fds[n] \in Sockets
      /\ revents \in Seq(BOOLEAN) /\ Len(revents) = Len(fds) /\ DOMAIN revents = 1 .. Len(fds)
  BY <1>1, Lists DEF ServersInv, MarksHold
<1>3. /\ nfds \in Int /\ nfds <= Cardinality(Marks(revents)) /\ i \in Nat \ {0}
      /\ conn \in [Clients -> Conn] /\ backlog \in Seq(Clients)
  BY DEF ServersInv, ServersTypeOK, MarksCounted
<1>4. \/ api \in ByPoll /\ i = 1 /\ revents[1]
      \/ \A n \in 1 .. Len(fds) : n >= i /\ revents[n] => Readable(fds[n]) /\ fds[n] # SERVER
  BY <1>1, <1>2 DEF ServersInv, MarksHold
<1>5. /\ IsInjective(fds)
      /\ \A c \in Clients : conn[c].side = "accepted" <=> \E n \in DOMAIN fds : fds[n] = c
      /\ api = "select" => \A n \in DOMAIN fds : fds[n] # SERVER
      /\ api \in ByPoll => fds # <<>> /\ fds[1] = SERVER
      /\ watched = {}
  BY <1>1 DEF ServersInv, ListServed
<1>6. CASE /\ UNCHANGED <<conn, fds, revents, nfds>> /\ i' \in Nat \ {0}
           /\ \/ server' = "wait"
              \/ server' = "loop" /\ i' = i + 1 /\ ~revents[i]
  <2>1. OthersServed' /\ api' \in ByList /\ api' \in APIs /\ watched' = {}
        /\ event' \in [ident : Sockets, hup : BOOLEAN]
    BY <1>6, RoundFrame
  <2>2. MarksHold'
    <3>1. \A c : Readable(c) => Readable(c)'
      BY <1>1, <1>6 DEF Readable
    <3>2. CASE server' = "wait"
      BY <3>2 DEF MarksHold
    <3>3. CASE server' = "loop" /\ i' = i + 1 /\ ~revents[i]
      <4>1. \A n \in 1 .. Len(fds) : n >= i /\ revents[n] => Readable(fds[n]) /\ fds[n] # SERVER
        BY <1>4, <3>3
      <4> QED
        BY <3>1, <3>3, <4>1, <1>1, <1>2, <1>3, <1>6 DEF MarksHold
    <3> QED
      BY <1>6, <3>2, <3>3
  <2>3. MarksCounted' /\ BacklogOnce' /\ ListServed'
    BY <1>1, <1>6, <2>1 DEF ServersInv, MarksCounted, BacklogOnce, ListServed
  <2>4. ServersTypeOK'
    BY <1>1, <1>6, <2>1 DEF ServersInv, ServersTypeOK
  <2> QED
    BY <2>1, <2>2, <2>3, <2>4 DEF ServersInv
<1>7. CASE /\ i <= Len(fds) /\ revents[i]
           /\ conn' = interact(fds[i]) /\ nfds' = nfds - 1 /\ i' = i + 1
           /\ IF Rc(fds[i]) = "closed"
                THEN fds' = remove_client(fds, i) /\ revents' = remove_client(revents, i)
                ELSE UNCHANGED <<fds, revents>>
           /\ server' = IF Rc(fds[i]) = "error" THEN "wait" ELSE "loop"
  <2>1. i \in 1 .. Len(fds) /\ fds[i] \in Sockets
    BY <1>2, <1>3, <1>7
  <2>2. PICK c \in Sockets : c = fds[i]
    BY <2>1
  <2>3. /\ conn' \in [Clients -> Conn]
        /\ \A d \in Clients : d # c => conn'[d] = conn[d]
        /\ Rc(c) \in {"sent", "error", "closed"}
        /\ c = SERVER => Rc(c) = "error"
        /\ c \in Clients =>
             /\ conn'[c].client = conn[c].client
             /\ Rc(c) = "closed" => conn'[c].side = "ended"
             /\ Rc(c) # "closed" => conn'[c].side = conn[c].side
    BY <2>2, <1>3, <1>7, Interacted
  <2>4. c \in Clients => conn[c].side = "accepted"
    BY <2>1, <2>2, <1>2, <1>5
  <2>5. OthersServed' /\ api' \in ByList /\ api' \in APIs /\ watched' = {}
        /\ event' \in [ident : Sockets, hup : BOOLEAN]
    BY <1>7, RoundFrame
  <2>6. BacklogOnce'
    <3>1. \A n \in DOMAIN backlog : backlog[n] \in Clients /\ conn[backlog[n]].side = "backlog"
      BY <1>3, LenProperties DEF ServersInv, BacklogOnce
    <3>2. \A n \in DOMAIN backlog : backlog[n] # c
      BY <3>1, <2>4
    <3>3. c \in Clients => conn[c].client # "new"
      BY <2>4 DEF ServersInv, BacklogOnce
    <3> QED
      BY <3>1, <3>2, <3>3, <2>3, <1>1 DEF ServersInv, BacklogOnce
  <2>7. \A d \in Sockets : d # c /\ Readable(d) => Readable(d)'
    BY <2>3, <1>1 DEF Readable, Sockets
  <2>8. CASE Rc(c) = "closed"
    <3>1. c \in Clients /\ fds' = remove_client(fds, i) /\ revents' = remove_client(revents, i)
          /\ server' = "loop"
      BY <2>2, <2>3, <2>8, <1>7 DEF Sockets
    <3>2. /\ fds' \in Seq(Sockets) /\ Len(fds') = Len(fds) - 1
          /\ \A m \in 1 .. Len(fds) - 1 : fds'[m] = IF m < i THEN fds[m] ELSE fds[m + 1]
      BY <1>2, <2>1, <3>1, Removed
    <3>3. /\ revents' \in Seq(BOOLEAN) /\ Len(revents') = Len(fds) - 1
          /\ \A m \in 1 .. Len(fds) - 1 : revents'[m] = IF m < i THEN revents[m] ELSE revents[m + 1]
      <4> DEFINE t == remove_client(revents, i)
      <4>1. i \in 1 .. Len(revents)
        BY <1>2, <2>1
      <4>2. /\ t \in Seq(BOOLEAN) /\ Len(t) = Len(revents) - 1
            /\ \A m \in 1 .. Len(revents) - 1 : t[m] = IF m < i THEN revents[m] ELSE revents[m + 1]
        BY <4>1, <1>2, Removed, Zenon
      <4> HIDE DEF t
      <4>3. Len(revents) = Len(fds) /\ revents' = t
        BY <1>2, <3>1 DEF t
      <4> QED
        BY <4>2, <4>3, Zenon
    <3>d. Len(fds) - 1 \in Nat /\ DOMAIN fds' = 1 .. Len(fds) - 1 /\ i \in 1 .. Len(fds)
      BY <1>2, <2>1, <3>2, LenProperties
    <3>4. IsInjective(fds')
      <4> DEFINE from(m) == IF m < i THEN m ELSE m + 1
      <4>1. \A m \in DOMAIN fds' : from(m) \in DOMAIN fds /\ fds'[m] = fds[from(m)]
        BY <3>2, <3>d, <1>2
      <4>2. \A m, n \in DOMAIN fds' : from(m) = from(n) => m = n
        BY <3>d
      <4> HIDE DEF from
      <4> QED
        BY <4>1, <4>2, <1>5 DEF IsInjective
    <3>5. ASSUME NEW d \in Clients
          PROVE  conn'[d].side = "accepted" <=> \E n \in DOMAIN fds' : fds'[n] = d
      <4>1. CASE d = c
        <5>1. conn'[d].side # "accepted"
          BY <4>1, <2>3, <2>8, <3>1
        <5>2. ASSUME NEW n \in DOMAIN fds' PROVE fds'[n] # c
          <6>1. \E k \in DOMAIN fds : k # i /\ fds'[n] = fds[k]
            <7>1. CASE n < i
              <8>1. n \in DOMAIN fds /\ n # i /\ fds'[n] = fds[n]
                BY <7>1, <3>2, <3>d, <1>2
              <8> QED BY <8>1
            <7>2. CASE ~(n < i)
              <8>1. n + 1 \in DOMAIN fds /\ n + 1 # i /\ fds'[n] = fds[n + 1]
                BY <7>2, <3>2, <3>d, <1>2
              <8> QED BY <8>1
            <7> QED BY ONLY <7>1, <7>2
          <6>2. i \in DOMAIN fds /\ fds[i] = c
            BY <2>1, <2>2, <1>2
          <6> QED BY ONLY <6>1, <6>2, <1>5 DEF IsInjective
        <5> QED
          BY <4>1, <5>1, <5>2
      <4>2. CASE d # c
        <5>1. ASSUME NEW n \in DOMAIN fds, fds[n] = d PROVE \E m \in DOMAIN fds' : fds'[m] = d
          <6>1. n # i /\ n \in 1 .. Len(fds)
            BY <5>1, <4>2, <2>2, <1>2
          <6>2. CASE n < i
            BY <6>1, <6>2, <5>1, <3>2, <3>d
          <6>3. CASE n > i
            <7>1. n - 1 \in 1 .. Len(fds) - 1 /\ ~(n - 1 < i) /\ n - 1 + 1 = n
              BY <6>1, <6>3, <3>d
            <7> QED
              BY <7>1, <5>1, <3>2, <3>d
          <6> QED
            BY <6>1, <6>2, <6>3, <3>d
        <5>2. ASSUME NEW m \in DOMAIN fds', fds'[m] = d PROVE \E n \in DOMAIN fds : fds[n] = d
          <6>1. m \in 1 .. Len(fds) /\ m + 1 \in 1 .. Len(fds)
            BY <3>d
          <6>2. fds'[m] = fds[m] \/ fds'[m] = fds[m + 1]
            BY <3>2, <3>d
          <6> QED
            BY <5>2, <6>1, <6>2, <1>2
        <5> QED
          BY <5>1, <5>2, <4>2, <2>3, <1>5
      <4> QED
        BY <4>1, <4>2
    <3>6. api = "select" => \A n \in DOMAIN fds' : fds'[n] # SERVER
      <4>1. ASSUME NEW n \in DOMAIN fds' PROVE \E m \in DOMAIN fds : fds'[n] = fds[m]
        <5>1. n \in 1 .. Len(fds) /\ n + 1 \in 1 .. Len(fds)
          BY <3>d
        <5>2. fds'[n] = fds[n] \/ fds'[n] = fds[n + 1]
          BY <3>2, <3>d
        <5> QED
          BY <5>1, <5>2, <1>2
      <4> QED
        BY <4>1, <1>5
    <3>7. api \in ByPoll => fds' # <<>> /\ fds'[1] = SERVER
      <4> SUFFICES ASSUME api \in ByPoll PROVE fds' # <<>> /\ fds'[1] = SERVER
        OBVIOUS
      <4>1. i # 1
        BY <2>2, <2>3, <2>8, <1>5
      <4>2. 1 \in 1 .. Len(fds) - 1 /\ 1 < i
        BY <4>1, <3>d
      <4>3. fds'[1] = SERVER
        BY <4>2, <3>2, <1>5
      <4>4. Len(fds') # 0
        BY <4>2, <3>2, <3>d
      <4> QED
        BY <4>3, <4>4, EmptySeq
    <3>8. ListServed'
      BY <3>1, <3>4, <3>5, <3>6, <3>7, <2>5 DEF ListServed
    <3>9. MarksHold'
      <4>1. \A n \in 1 .. Len(fds) : n >= i /\ revents[n] => Readable(fds[n]) /\ fds[n] # SERVER
        <5>1. ~(api \in ByPoll /\ i = 1)
          BY <2>2, <2>3, <2>8, <1>5
        <5> QED
          BY <5>1, <1>4
      <4>2. ASSUME NEW n \in DOMAIN fds', n >= i', revents'[n]
            PROVE  Readable(fds[n])' /\ fds'[n] # SERVER
        <5>1. n \in 1 .. Len(fds) - 1 /\ n + 1 \in 1 .. Len(fds) /\ n + 1 >= i /\ ~(n < i) /\ n + 1 # i
          BY <4>2, <3>d, <1>7
        <5>2. PICK d \in Sockets : d = fds[n + 1] /\ d = fds'[n]
          BY <5>1, <3>2, <1>2
        <5>3. Readable(d) /\ d # SERVER
          BY <4>1, <4>2, <5>1, <5>2, <3>3
        <5>4. d # c
          BY <5>1, <5>2, <2>2, <1>2, <1>5, <3>d DEF IsInjective
        <5>5. Readable(d)'
          BY <5>3, <5>4, <2>7
        <5> QED
          BY <5>2, <5>3, <5>5 DEF Readable
      <4> QED
        BY <4>2, <3>1, <3>2, <3>3 DEF MarksHold
    <3>10. MarksCounted'
      <4>1. Len(revents) - 1 <= Len(revents') /\ i \in 1 .. Len(revents)
            /\ \A m \in 1 .. Len(revents) - 1 :
                 revents'[m] = IF m < i THEN revents[m] ELSE revents[m + 1]
        BY <3>3, <3>d, <1>2
      <4>2. Cardinality(Marks(revents)) - 1 <= Cardinality(Marks(revents'))
        BY <4>1, <3>3, <1>2, MarksLeft, Zenon
      <4>3. /\ Cardinality(Marks(revents)) \in Nat
            /\ Cardinality(Marks(revents')) \in Nat
        BY <3>3, <1>2, MarksFinite, Zenon
      <4>4. nfds' = nfds - 1
        BY <1>7
      <4> QED
        BY <4>2, <4>3, <4>4, <1>3 DEF MarksCounted
    <3>11. ServersTypeOK'
      BY <2>3, <2>5, <3>2, <3>3, <1>1, <1>3, <1>7 DEF ServersTypeOK
    <3> QED
      BY <2>5, <2>6, <3>8, <3>9, <3>10, <3>11 DEF ServersInv
  <2>9. CASE Rc(c) # "closed"
    <3>1. UNCHANGED <<fds, revents>> /\ nfds' = nfds - 1
      BY <2>2, <2>9, <1>7
    <3>2. \A d \in Clients : conn'[d].side = conn[d].side
      BY <2>3, <2>9
    <3>3. ListServed'
      BY <3>1, <3>2, <2>5, <1>5, <1>7 DEF ListServed
    <3>4. MarksHold'
      <4>1. CASE server' = "wait"
        BY <4>1 DEF MarksHold
      <4>2. CASE server' = "loop"
        <5>1. c # SERVER
          BY <4>2, <2>2, <2>3, <1>7
        <5>2. \A n \in 1 .. Len(fds) : n >= i /\ revents[n] => Readable(fds[n]) /\ fds[n] # SERVER
          BY <5>1, <2>2, <1>4, <1>5
        <5>3. ASSUME NEW n \in 1 .. Len(fds), n >= i', revents[n]
              PROVE  Readable(fds[n])' /\ fds[n] # SERVER
          <6>1. n >= i /\ n # i
            BY <5>3, <1>3, <1>7
          <6>2. PICK d \in Sockets : d = fds[n]
            BY <1>2
          <6>3. Readable(d) /\ d # SERVER
            BY <6>1, <6>2, <5>2, <5>3
          <6>4. d # c
            BY <6>1, <6>2, <2>1, <2>2, <1>2, <1>5 DEF IsInjective
          <6>5. Readable(d)'
            BY <6>3, <6>4, <2>7
          <6> QED
            BY <6>2, <6>3, <6>5, <3>1 DEF Readable
        <5> QED
          BY <5>3, <4>2, <3>1, <1>2 DEF MarksHold
      <4> QED
        BY <4>1, <4>2, <1>7
    <3>5. MarksCounted'
      <4>1. Cardinality(Marks(revents)) \in Nat
        BY <1>2, MarksFinite
      <4> QED
        BY <4>1, <3>1, <1>3 DEF MarksCounted
    <3>6. ServersTypeOK'
      BY <2>3, <2>5, <3>1, <1>1, <1>2, <1>3, <1>7 DEF ServersTypeOK
    <3> QED
      BY <2>5, <2>6, <3>3, <3>4, <3>5, <3>6 DEF ServersInv
  <2> QED
    BY <2>8, <2>9
<1>8. \A n \in 1 .. Len(fds) : n = i /\ revents[n] => ReadReturns(fds[n])
  BY <1>3, <1>4, <1>5 DEF ReadReturns
<1> QED
  <2>1. i' \in Nat \ {0} \/ UNCHANGED i
    BY <1>3 DEF ListLoop, round
  <2>2. ~(i <= Len(fds) /\ revents[i] /\ ~ReadReturns(fds[i]))
    BY <1>2, <1>3, <1>8
  <2> QED
    BY <2>2, <1>3, <1>6, <1>7 DEF ListLoop, round

(* A round of select() or poll() keeps the invariant.                       *)
LEMMA RoundStep ==
  ASSUME ServersInv, Select \/ Poll \/ Daemon
  PROVE  ServersInv'
<1>1. CASE Select
  <2>1. api = "select" /\ api \in ByList /\ UNCHANGED <<api, watched, event>>
    BY <1>1 DEF Select, ByList
  <2> QED
    BY <1>1, <2>1, SelectWaitStep, SelectAcceptStep, ListLoopStep DEF Select
<1>2. CASE Poll \/ Daemon
  <2>1. api \in ByPoll /\ api \in ByList /\ PollRound /\ UNCHANGED <<api, watched, event>>
    BY <1>2 DEF Poll, Daemon, ByList, ByPoll
  <2> QED
    BY <2>1, PollWaitStep, PollAcceptStep, ListLoopStep DEF PollRound
<1> QED
  BY <1>1, <1>2

-----------------------------------------------------------------------------
(* epoll, kqueue and the servers with threads *)

(* These have no list: what is left of the invariant is who is watched.     *)
LEMMA NoList ==
  ASSUME ServersInv, api \notin ByList, UNCHANGED <<api, round>>,
         conn' \in [Clients -> Conn], backlog' \in Seq(Clients), BacklogOnce',
         watched' \subseteq Clients, event' \in [ident : Sockets, hup : BOOLEAN],
         server' \in {"wait", "event", "down"},
         \A c \in Clients : conn'[c].side = "accepted" <=> c \in watched',
         server' = "event" =>
           /\ event'.ident \in {SERVER} \cup watched' /\ Readable(event.ident)'
           /\ event'.ident \in watched' /\ event'.hup = FALSE => conn'[event'.ident].up
  PROVE  ServersInv'
<1>1. UNCHANGED <<api, fds, revents, nfds, i>>
  BY DEF round
<1>2. ServersTypeOK'
  BY <1>1 DEF ServersInv, ServersTypeOK
<1>3. ListServed' /\ OthersServed'
  BY <1>1 DEF ServersInv, ListServed, OthersServed
<1>4. MarksHold' /\ MarksCounted'
  BY <1>1 DEF ServersInv, MarksHold, MarksCounted
<1> QED
  BY <1>2, <1>3, <1>4 DEF ServersInv

(* What a server without a list does to one connection it has accepted.     *)
LEMMA OneServed ==
  ASSUME ServersInv, api \notin ByList, NEW c \in watched, backlog' = backlog,
         conn' \in [Clients -> Conn], conn'[c].client = conn[c].client,
         \A d \in Clients : d # c => conn'[d] = conn[d],
         \/ conn'[c].side = conn[c].side /\ watched' = watched
         \/ conn'[c].side = "ended" /\ watched' = watched \ {c}
  PROVE  /\ BacklogOnce' /\ backlog' \in Seq(Clients) /\ watched' \subseteq Clients
         /\ \A d \in Clients : conn'[d].side = "accepted" <=> d \in watched'
<1>1. /\ watched \subseteq Clients /\ conn \in [Clients -> Conn] /\ backlog \in Seq(Clients)
      /\ \A d \in Clients : conn[d].side = "accepted" <=> d \in watched
  BY DEF ServersInv, ServersTypeOK, OthersServed
<1>2. c \in Clients /\ conn[c].side = "accepted" /\ conn[c].client # "new"
  BY <1>1 DEF ServersInv, BacklogOnce
<1>3. \A n \in DOMAIN backlog : backlog[n] \in Clients /\ backlog[n] # c
  BY <1>1, <1>2, LenProperties DEF ServersInv, BacklogOnce
<1>4. BacklogOnce'
  BY <1>2, <1>3 DEF ServersInv, BacklogOnce
<1>5. \A d \in Clients : conn'[d].side = "accepted" <=> d \in watched'
  BY <1>1, <1>2
<1> QED
  BY <1>1, <1>4, <1>5

(* The end of a server leaves it no connection.                             *)
LEMMA EndsInv ==
  ASSUME ServersInv, ServerEnds, fds' = <<>>, revents' = <<>>, nfds' = 0, UNCHANGED <<api, i, event>>
  PROVE  ServersInv'
<1> USE ServersAssumption
<1>1. conn \in [Clients -> Conn]
  BY DEF ServersInv, ServersTypeOK
<1> DEFINE ends(c) == IF conn[c].side \in {"backlog", "accepted"}
                        THEN [conn[c] EXCEPT !.side = "closed", !.up = FALSE]
                        ELSE conn[c]
<1>2. ASSUME NEW c \in Clients
      PROVE  /\ ends(c) \in Conn /\ ends(c).side # "accepted" /\ ends(c).client = conn[c].client
             /\ conn[c].side = "none" => ends(c).side = "none"
  BY <1>1 DEF Conn, Sides
<1>3. /\ conn' = [c \in Clients |-> ends(c)]
      /\ server' = "down" /\ backlog' = <<>> /\ watched' = {}
  BY DEF ServerEnds
<1> HIDE DEF ends
<1>4. /\ conn' \in [Clients -> Conn]
      /\ \A c \in Clients : /\ conn'[c].side # "accepted" /\ conn'[c].client = conn[c].client
                            /\ conn[c].side = "none" => conn'[c].side = "none"
  BY <1>2, <1>3
<1>5. ServersTypeOK'
  BY <1>3, <1>4 DEF ServersInv, ServersTypeOK
<1>6. BacklogOnce'
  BY <1>3, <1>4 DEF ServersInv, BacklogOnce, IsInjective
<1>7. ListServed' /\ OthersServed'
  BY <1>3, <1>4 DEF ServersInv, ListServed, OthersServed, IsInjective
<1>8. MarksHold'
  BY <1>3 DEF MarksHold
<1>9. MarksCounted'
  <2>1. Cardinality(Marks(revents')) \in Nat
    BY <1>5, MarksFinite DEF ServersTypeOK
  <2> QED
    BY <2>1 DEF MarksCounted, Marks
<1> QED
  BY <1>5, <1>6, <1>7, <1>8, <1>9 DEF ServersInv

(* A connection that a server without a list takes from the backlog.        *)
LEMMA OneTaken ==
  ASSUME ServersInv, api \notin ByList, backlog # <<>>, UNCHANGED <<api, round, event>>,
         accept, watched' = watched \cup {Head(backlog)}, server' = "wait"
  PROVE  ServersInv'
<1> DEFINE h == Head(backlog)
<1>1. /\ h \in Clients /\ conn[h].side = "backlog"
      /\ conn' \in [Clients -> Conn] /\ backlog' \in Seq(Clients)
      /\ conn'[h].side = "accepted"
      /\ \A d \in Clients : d # h => conn'[d] = conn[d]
      /\ BacklogOnce'
  BY Accepted DEF ServersInv
<1>2. /\ watched \subseteq Clients /\ event \in [ident : Sockets, hup : BOOLEAN]
      /\ \A d \in Clients : conn[d].side = "accepted" <=> d \in watched
  BY DEF ServersInv, ServersTypeOK, OthersServed
<1> HIDE DEF h
<1>3. watched' = watched \cup {h}
  BY DEF h
<1> QED
  BY <1>1, <1>2, <1>3, NoList

(* A connection for which there is no thread is closed.                     *)
LEMMA OneRefused ==
  ASSUME ServersInv, api \notin ByList, backlog # <<>>, UNCHANGED <<api, round, event, watched>>,
         conn' = [conn EXCEPT ![Head(backlog)].side = "closed"],
         backlog' = Tail(backlog), server' = "wait"
  PROVE  ServersInv'
<1> DEFINE h == Head(backlog)
<1>1. backlog \in Seq(Clients) /\ conn \in [Clients -> Conn] /\ "closed" \in Sides
  BY DEF ServersInv, ServersTypeOK, Sides
<1>2. /\ h \in Clients /\ backlog' \in Seq(Clients) /\ Len(backlog') = Len(backlog) - 1
      /\ \A n \in 1 .. Len(backlog') : backlog'[n] = backlog[n + 1]
  BY <1>1, HeadTailProperties
<1>3. /\ Len(backlog) \in Nat /\ Len(backlog) > 0 /\ h = backlog[1]
      /\ DOMAIN backlog = 1 .. Len(backlog) /\ DOMAIN backlog' = 1 .. Len(backlog')
  BY <1>1, <1>2, EmptySeq, LenProperties
<1>4. conn[h].side = "backlog"
  BY <1>3 DEF ServersInv, BacklogOnce
<1> HIDE DEF h
<1>5. /\ conn' \in [Clients -> Conn] /\ conn'[h].side = "closed"
      /\ conn'[h].client = conn[h].client
      /\ \A d \in Clients : d # h => conn'[d] = conn[d]
  <2> DEFINE new == [conn EXCEPT ![h].side = "closed"]
  <2>1. /\ new \in [Clients -> Conn] /\ new[h].side = "closed" /\ new[h].client = conn[h].client
        /\ \A d \in Clients : d # h => new[d] = conn[d]
    BY <1>1, <1>2, SideChanged
  <2>2. conn' = new
    BY DEF h
  <2> HIDE DEF new
  <2> QED
    BY <2>1, <2>2
<1>6. \A n \in DOMAIN backlog' : /\ n \in Nat /\ n + 1 \in DOMAIN backlog
                                 /\ backlog'[n] = backlog[n + 1] /\ backlog[n + 1] # h
  BY <1>2, <1>3 DEF ServersInv, BacklogOnce, IsInjective
<1>7. IsInjective(backlog')
  <2> SUFFICES ASSUME NEW a \in DOMAIN backlog', NEW b \in DOMAIN backlog',
                      backlog'[a] = backlog'[b]
               PROVE  a = b
    BY DEF IsInjective
  <2>1. a + 1 = b + 1
    BY <1>6 DEF ServersInv, BacklogOnce, IsInjective
  <2> QED
    BY <1>6, <2>1
<1>8. \A n \in DOMAIN backlog' : conn'[backlog'[n]].side = "backlog"
  BY <1>1, <1>3, <1>5, <1>6 DEF ServersInv, BacklogOnce
<1>9. \A c \in Clients : conn'[c].client = "new" => conn'[c].side = "none"
  BY <1>2, <1>4, <1>5 DEF ServersInv, BacklogOnce
<1>10. BacklogOnce'
  BY <1>7, <1>8, <1>9 DEF BacklogOnce
<1>11. /\ watched \subseteq Clients /\ event \in [ident : Sockets, hup : BOOLEAN]
       /\ \A d \in Clients : conn[d].side = "accepted" <=> d \in watched
  BY DEF ServersInv, ServersTypeOK, OthersServed
<1>12. \A d \in Clients : conn'[d].side = "accepted" <=> d \in watched'
  BY <1>2, <1>4, <1>5, <1>11
<1> QED
  BY <1>2, <1>5, <1>10, <1>11, <1>12, NoList

(* The kernel gives out an event of a socket that is ready.                 *)
LEMMA EventStep ==
  ASSUME ServersInv, NEW c \in Sockets, Event(c)
  PROVE  ServersInv'
<1> USE ServersAssumption
<1>1. /\ api \notin ByList /\ UNCHANGED <<api, round, conn, backlog, watched>>
      /\ server' = "event" /\ c \in {SERVER} \cup watched /\ Readable(c)
      /\ event' = [ident |-> c, hup |-> c # SERVER /\ (conn[c].eof \/ conn[c].reset)]
  BY DEF Event, GetEvent, ByEvent, ByList
<1>2. /\ conn \in [Clients -> Conn] /\ backlog \in Seq(Clients) /\ BacklogOnce
      /\ watched \subseteq Clients
      /\ \A d \in Clients : conn[d].side = "accepted" <=> d \in watched
  BY <1>1 DEF ServersInv, ServersTypeOK, OthersServed
<1>3. event'.ident = c /\ event' \in [ident : Sockets, hup : BOOLEAN]
  BY <1>1
<1>4. BacklogOnce'
  BY <1>1, <1>2 DEF BacklogOnce
<1>5. Readable(event.ident)'
  BY <1>1, <1>3 DEF Readable
<1>6. c # SERVER /\ event'.hup = FALSE => conn[c].up
  BY <1>1 DEF Readable
<1> QED
  BY <1>1, <1>2, <1>3, <1>4, <1>5, <1>6, NoList

(* A step of the server with epoll or kqueue keeps the invariant.           *)
LEMMA EventLoopStep ==
  ASSUME ServersInv, Epoll \/ Kqueue
  PROVE  ServersInv'
<1> USE ServersAssumption
<1> DEFINE c == event.ident
<1>1. api \notin ByList /\ UNCHANGED <<api, round>> /\ server = "event" /\ event' = event
  BY DEF Epoll, Kqueue, AcceptEvent, EpollInteract, KqueueInteract, ByList
<1>2. /\ c \in {SERVER} \cup watched /\ Readable(c)
      /\ watched \subseteq Clients /\ conn \in [Clients -> Conn]
      /\ event \in [ident : Sockets, hup : BOOLEAN]
  BY <1>1 DEF ServersInv, ServersTypeOK, OthersServed
<1>3. CASE c = SERVER
  <2>1. AcceptEvent
    BY <1>3 DEF Epoll, Kqueue, EpollInteract, KqueueInteract
  <2> QED
    BY <1>1, <1>2, <1>3, <2>1, OneTaken DEF AcceptEvent, Readable
<1>4. CASE c # SERVER
  <2>0. UNCHANGED i /\ fds' = <<>> /\ revents' = <<>> /\ nfds' = 0
    BY <1>1 DEF round, ServersInv, OthersServed
  <2>1. c \in watched /\ c \in Clients /\ c \in Sockets
    BY <1>2, <1>4 DEF Sockets
  <2>2. event.hup = FALSE => Rc(c) = "sent"
    BY <1>1, <1>4, <2>1 DEF Rc, ServersInv, OthersServed
  <2> SUFFICES ASSUME ~ServerEnds PROVE ServersInv'
    BY <1>1, <2>0, EndsInv
  <2>3. /\ backlog' = backlog /\ server' = "wait"
        /\ \/ conn' = interact(c) /\ Rc(c) # "closed" /\ watched' = watched
           \/ Disconnect(c)
    <3>1. Rc(c) \in {"sent", "error", "closed"}
      BY <1>2, <2>1, Interacted
    <3>2. event.hup \in BOOLEAN
      BY <1>2
    <3>3. CASE EpollInteract
      BY <3>1, <3>3, <1>4 DEF EpollInteract, Answer, Disconnected
    <3>4. CASE KqueueInteract
      BY <3>1, <3>2, <3>4, <1>4, <2>2 DEF KqueueInteract, Answer, Disconnected
    <3> QED
      BY <3>3, <3>4, <1>4 DEF Epoll, Kqueue, AcceptEvent
  <2>4. PICK d \in watched : d = c /\ d \in Clients /\ d \in Sockets
    BY <2>1
  <2>5. /\ interact(d) \in [Clients -> Conn] /\ interact(d)[d].client = conn[d].client
        /\ \A e \in Clients : e # d => interact(d)[e] = conn[e]
        /\ Rc(d) # "closed" => interact(d)[d].side = conn[d].side
    BY <1>2, <2>4, Interacted
  <2>6. /\ conn' \in [Clients -> Conn] /\ conn'[d].client = conn[d].client
        /\ \A e \in Clients : e # d => conn'[e] = conn[e]
        /\ \/ conn'[d].side = conn[d].side /\ watched' = watched
           \/ conn'[d].side = "ended" /\ watched' = watched \ {d}
    <3>1. CASE conn' = interact(d) /\ Rc(d) # "closed" /\ watched' = watched
      BY <3>1, <2>5
    <3>2. CASE Disconnect(c)
      <4> DEFINE m == interact(d)
      <4>1. conn' = [m EXCEPT ![d].side = "ended"] /\ watched' = watched \ {d}
        BY <3>2, <2>4 DEF Disconnect
      <4>2. m \in [Clients -> Conn] /\ "ended" \in Sides
        BY <2>5 DEF Sides
      <4>3. m[d].client = conn[d].client /\ \A e \in Clients : e # d => m[e] = conn[e]
        BY <2>5
      <4> HIDE DEF m
      <4> QED
        BY <4>1, <4>2, <4>3, <2>4, SideChanged
    <3> QED
      BY <2>3, <2>4, <3>1, <3>2
  <2>7. /\ BacklogOnce' /\ backlog' \in Seq(Clients) /\ watched' \subseteq Clients
        /\ \A e \in Clients : conn'[e].side = "accepted" <=> e \in watched'
    BY <1>1, <2>3, <2>6, OneServed
  <2> QED
    BY <1>1, <1>2, <2>3, <2>6, <2>7, NoList
<1> QED
  BY <1>3, <1>4

(* A thread for each connection, and what the threads do.                   *)
LEMMA ThreadStep ==
  ASSUME ServersInv, api \in {"threads", "unix"}, UNCHANGED <<api, round>>,
         AcceptThread \/ \E c \in Clients : WorkerStep(c)
  PROVE  ServersInv'
<1> USE ServersAssumption
<1>1. api \notin ByList /\ event \in [ident : Sockets, hup : BOOLEAN]
  BY DEF ByList, ServersInv, ServersTypeOK
<1>2. CASE AcceptThread
  <2>1. backlog # <<>> /\ server' = "wait" /\ event' = event /\ backlog' = Tail(backlog)
    BY <1>2 DEF AcceptThread
  <2>2. CASE /\ conn' = [conn EXCEPT ![Head(backlog)].side = "accepted"]
             /\ watched' = watched \cup {Head(backlog)}
    BY <1>1, <2>1, <2>2, OneTaken DEF accept
  <2>3. CASE /\ conn' = [conn EXCEPT ![Head(backlog)].side = "closed"]
             /\ watched' = watched
    BY <1>1, <2>1, <2>3, OneRefused
  <2> QED
    BY <1>2, <2>2, <2>3 DEF AcceptThread
<1>3. ASSUME NEW c \in Clients, WorkerStep(c) PROVE ServersInv'
  <2>0. UNCHANGED i /\ fds' = <<>> /\ revents' = <<>> /\ nfds' = 0 /\ event' = event
    BY <1>1, <1>3 DEF round, ServersInv, OthersServed, WorkerStep
  <2> SUFFICES ASSUME ~ServerEnds PROVE ServersInv'
    BY <2>0, EndsInv
  <2>1. /\ c \in watched /\ c \in Sockets /\ conn' = interact(c) /\ server' = "wait"
        /\ watched' = (IF Rc(c) = "closed" THEN watched \ {c} ELSE watched)
        /\ UNCHANGED <<backlog, event>> /\ conn \in [Clients -> Conn]
    BY <1>3 DEF WorkerStep, Sockets, ServersInv, ServersTypeOK
  <2>2. /\ conn' \in [Clients -> Conn] /\ conn'[c].client = conn[c].client
        /\ \A d \in Clients : d # c => conn'[d] = conn[d]
        /\ \/ conn'[c].side = conn[c].side /\ watched' = watched
           \/ conn'[c].side = "ended" /\ watched' = watched \ {c}
    BY <2>1, Interacted
  <2>3. /\ BacklogOnce' /\ backlog' \in Seq(Clients) /\ watched' \subseteq Clients
        /\ \A d \in Clients : conn'[d].side = "accepted" <=> d \in watched'
    BY <1>1, <2>1, <2>2, OneServed
  <2> QED
    BY <1>1, <2>1, <2>2, <2>3, NoList
<1> QED
  BY <1>2, <1>3

-----------------------------------------------------------------------------
(* The invariant and what follows from it *)

(* A server starts with no connection.                                      *)
LEMMA ServersInitially == Init => ServersInv
<1> SUFFICES ASSUME Init PROVE ServersInv
  OBVIOUS
<1> USE ServersAssumption
<1>1. NewConn \in Conn /\ NewConn.side = "none"
  BY DEF NewConn, Conn, Sides
<1>2. /\ backlog = <<>> /\ revents = <<>> /\ nfds = 0 /\ i = 1 /\ watched = {}
      /\ server = "wait" /\ api \in APIs /\ event = [ident |-> SERVER, hup |-> FALSE]
      /\ fds = (IF api \in {"poll", "daemon"} THEN <<SERVER>> ELSE <<>>)
      /\ conn = [c \in Clients |-> NewConn]
  BY DEF Init
<1>3. ServersTypeOK
  <2>1. fds \in Seq(Sockets)
    <3>1. <<>> \in Seq(Sockets) /\ <<SERVER>> \in Seq(Sockets)
      BY DEF Sockets
    <3> QED
      BY <1>2, <3>1
  <2>2. event \in [ident : Sockets, hup : BOOLEAN]
    BY <1>2 DEF Sockets
  <2> QED
    BY <1>1, <1>2, <2>1, <2>2 DEF ServersTypeOK
<1>4. BacklogOnce
  BY <1>1, <1>2 DEF BacklogOnce, IsInjective
<1>5. ListServed
  BY <1>1, <1>2 DEF ListServed, IsInjective, ByList, ByPoll
<1>6. OthersServed
  BY <1>1, <1>2 DEF OthersServed, ByList
<1>7. MarksHold
  BY <1>2 DEF MarksHold
<1>8. MarksCounted
  <2>1. Cardinality(Marks(revents)) \in Nat
    BY <1>3, MarksFinite DEF ServersTypeOK
  <2> QED
    BY <1>2, <2>1 DEF MarksCounted
<1> QED
  BY <1>3, <1>4, <1>5, <1>6, <1>7, <1>8 DEF ServersInv

(* Every step of a server and of its clients keeps the invariant.           *)
LEMMA ServersStep == ServersInv /\ [Next]_servers_vars => ServersInv'
<1> SUFFICES ASSUME ServersInv, [Next]_servers_vars PROVE ServersInv'
  OBVIOUS
<1>1. CASE Loop
  BY <1>1, RoundStep, EventLoopStep, ThreadStep DEF Loop, ThreadServer, UnixServer
<1>2. CASE Event(SERVER)
  BY <1>2, EventStep DEF Sockets
<1>3. CASE \E c \in Clients : Serve(c)
  BY <1>3, EventStep, ThreadStep DEF Serve, Worker, UnixWorker, Sockets
<1>4. CASE \E c \in Clients : User(c)
  BY <1>4, UserStep
<1>5. CASE UNCHANGED servers_vars
  BY <1>5 DEF servers_vars, round, ServersInv, ServersTypeOK, BacklogOnce, ListServed,
              OthersServed, MarksHold, MarksCounted, Readable, Marks
<1>6. CASE Fails
  BY <1>6, EndsInv DEF Fails
<1> QED
  BY <1>1, <1>2, <1>3, <1>4, <1>5, <1>6 DEF Next

(* Of any server, with any number of clients: no read() is called on a      *)
(* socket that has nothing to read by a server that has other clients.      *)
THEOREM NeverBlocked == Spec => []NeverBlocks
<1>1. ServersInv => NeverBlocks
  BY DEF ServersInv, ListServed, OthersServed, NeverBlocks
<1> QED
  BY ServersInitially, ServersStep, <1>1, PTL DEF Spec

(* Of any server, with any number of clients: it goes through exactly the   *)
(* connections it has accepted and whose end it has not read, each once.    *)
THEOREM AcceptedServed == Spec => []ServesAccepted
<1>1. ServersInv => ServesAccepted
  <2> SUFFICES ASSUME ServersInv PROVE ServesAccepted
    OBVIOUS
  <2> USE ServersAssumption
  <2>1. /\ \A n \in DOMAIN fds : fds[n] \in Sockets
        /\ watched \subseteq Clients
    BY DEF ServersInv, ServersTypeOK
  <2>2. api \in ByList => Range(fds) \ {SERVER} = {c \in Clients : conn[c].side = "accepted"}
    BY <2>1 DEF ServersInv, ListServed, Range, Sockets
  <2>3. api \notin ByList => watched = {c \in Clients : conn[c].side = "accepted"}
    BY <2>1 DEF ServersInv, OthersServed
  <2>4. IsInjective(fds)
    BY DEF ServersInv, ListServed, OthersServed, IsInjective
  <2>5. server \in {"accept", "loop"} =>
          Len(revents) = IF server = "accept" /\ api = "select" THEN Len(fds) + 1 ELSE Len(fds)
    <3>1. server \in {"accept", "loop"} => api \in {"select"} \cup ByPoll
      BY DEF ServersInv, OthersServed, ByList, ByPoll
    <3> QED
      BY <3>1 DEF ServersInv, MarksHold
  <2>6. nfds <= Cardinality({n \in DOMAIN revents : revents[n]})
    BY DEF ServersInv, MarksCounted, Marks
  <2> QED
    BY <2>2, <2>3, <2>4, <2>5, <2>6 DEF ServesAccepted
<1> QED
  BY ServersInitially, ServersStep, <1>1, PTL DEF Spec
=============================================================================
