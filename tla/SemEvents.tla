----------------------------- MODULE SemEvents -----------------------------
(***************************************************************************)
(* 7_ipc/9_sem_event_source.c and 9_sem_event_cons.c: source i sends a      *)
(* message of type i for each line and raises semaphore i; a consumer takes *)
(* one event of every source and the lock at once, reads one message of     *)
(* each type, and unlocks.  The kernel undoes what a process did to the     *)
(* semaphores when it ends.  The end of source 1, which removes semaphores  *)
(* and queue under everybody, is the end of the model.                      *)
(***************************************************************************)
EXTENDS Naturals, Integers, FiniteSets

CONSTANTS
  Consumers,
  EVENTS,      \* stands for the three sources
  MAX_LINES,   \* bounds the lines a source reads
  MAX_ENDS     \* bounds the sources that end, and the consumers that are killed

ASSUME SemEventsAssumption ==
  /\ EVENTS \in Nat \ {0} /\ MAX_LINES \in Nat /\ MAX_ENDS \in Nat
  /\ IsFiniteSet(Consumers) /\ Consumers \cap (1 .. EVENTS) = {}

VARIABLES
  sems,        \* the values; semaphore LOCK is number 3 of the code
  semadj,      \* per process: what its end adds to them
  messages,    \* messages in the queue, by type
  place,       \* per process: where it is
  lines,       \* per source: lines it has read
  reading,     \* per consumer: the type read_data() reads next
  ends

events_vars == <<sems, semadj, messages, place, lines, reading, ends>>

Sources == 1 .. EVENTS
LOCK == EVENTS + 1
Sems == 1 .. LOCK
Processes == Sources \cup Consumers
NONE == [s \in Sems |-> 0]

Moves(p, from, to) == place[p] = from /\ place' = [place EXCEPT ![p] = to]

\* semop() with SEM_UNDO: all of it or, while a semaphore would be negative, nothing.
SemOp(p, op) ==
  /\ \A s \in Sems : sems[s] + op[s] >= 0
  /\ sems' = [s \in Sems |-> sems[s] + op[s]]
  /\ semadj' = [semadj EXCEPT ![p] = [s \in Sems |-> @[s] - op[s]]]

-----------------------------------------------------------------------------
(* The sources *)

\* semget(): one of the sources creates the semaphores, with the value 0.
sem_get_or_create(i) ==
  /\ Moves(i, "start", IF \A j \in Sources : place[j] = "start" THEN "created" ELSE "getline")
  /\ UNCHANGED <<sems, semadj, messages, lines, reading, ends>>

\* SETALL, which also forgets what is to be undone; others may be at work.
SetAll(i) ==
  /\ Moves(i, "created", "getline")
  /\ sems' = [NONE EXCEPT ![LOCK] = 1] /\ semadj' = [p \in Processes |-> NONE]
  /\ UNCHANGED <<messages, lines, reading, ends>>

send_msg(i) ==
  /\ Moves(i, "getline", "sent") /\ lines[i] < MAX_LINES
  /\ lines' = [lines EXCEPT ![i] = @ + 1]
  /\ messages' = [messages EXCEPT ![i] = @ + 1]
  /\ UNCHANGED <<sems, semadj, reading, ends>>

sem_inc(i) ==
  /\ Moves(i, "sent", "getline")
  /\ SemOp(i, [NONE EXCEPT ![i] = 1])
  /\ UNCHANGED <<messages, lines, reading, ends>>

-----------------------------------------------------------------------------
(* The consumers *)

lock_events(c) ==
  /\ Moves(c, "unlocked", "locked")
  /\ SemOp(c, [s \in Sems |-> -1])
  /\ reading' = [reading EXCEPT ![c] = 1]
  /\ UNCHANGED <<messages, lines, ends>>

\* msgrcv() waits for a message of the type.
recv_msg(c) ==
  /\ place[c] = "locked" /\ reading[c] \in Sources /\ messages[reading[c]] > 0
  /\ messages' = [messages EXCEPT ![reading[c]] = @ - 1]
  /\ reading' = [reading EXCEPT ![c] = @ + 1]
  /\ UNCHANGED <<sems, semadj, place, lines, ends>>

\* Mutant: what the lock is given back for is not forgotten.
NotUndone(c) ==
  /\ Moves(c, "locked", "unlocked") /\ reading[c] = LOCK
  /\ sems' = [sems EXCEPT ![LOCK] = @ + 1]
  /\ UNCHANGED <<semadj, messages, lines, reading, ends>>

unlock_events(c) ==
  /\ Moves(c, "locked", "unlocked") /\ reading[c] = LOCK
  /\ SemOp(c, [NONE EXCEPT ![LOCK] = 1])
  /\ UNCHANGED <<messages, lines, reading, ends>>

-----------------------------------------------------------------------------
(* The end of a process: of a source at the end of its input, or killed *)

Undone(p) == [s \in Sems |-> IF sems[s] + semadj[p][s] < 0 THEN 0 ELSE sems[s] + semadj[p][s]]

End(p) ==
  /\ ends < MAX_ENDS /\ ends' = ends + 1
  /\ place[p] \notin {"start", "ended"} /\ place' = [place EXCEPT ![p] = "ended"]
  /\ sems' = Undone(p) /\ semadj' = [semadj EXCEPT ![p] = NONE]
  /\ UNCHANGED <<messages, lines, reading>>

-----------------------------------------------------------------------------
EventsInit ==
  /\ sems = NONE /\ semadj = [p \in Processes |-> NONE]
  /\ messages = [i \in Sources |-> 0]
  /\ place = [p \in Processes |-> IF p \in Sources THEN "start" ELSE "unlocked"]
  /\ lines = [i \in Sources |-> 0] /\ reading = [c \in Consumers |-> 1] /\ ends = 0

EventsNext ==
  \/ \E i \in Sources : sem_get_or_create(i) \/ SetAll(i) \/ send_msg(i) \/ sem_inc(i)
  \/ \E c \in Consumers : lock_events(c) \/ recv_msg(c) \/ unlock_events(c)
  \/ \E p \in Processes : End(p)

-----------------------------------------------------------------------------
\* One consumer at most has the lock, whoever is killed where.  As long as
\* no consumer was killed each event stands for a message in the queue, so
\* that the consumer with the lock never waits in msgrcv(), whatever sources
\* end and whenever the semaphores are set to their first values.
EventsSound ==
  LET inside  == {c \in Consumers : place[c] = "locked"}
      due(i)  == Cardinality({c \in inside : reading[c] <= i})
  IN  /\ sems[LOCK] + Cardinality(inside) <= 1
      /\ (\A c \in Consumers : place[c] # "ended") =>
           \A i \in Sources : sems[i] + due(i) <= messages[i]
=============================================================================
