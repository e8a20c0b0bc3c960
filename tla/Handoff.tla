------------------------------ MODULE Handoff ------------------------------
(***************************************************************************)
(* Workers that sort one file each and hand the numbers to the parent:      *)
(* through shared memory of a bounded size with two flags (7_ipc/           *)
(* 3_mem_sort.c, "memory") or through a pipe (2_parallel_sort.c, "pipe").   *)
(* Each sends two messages: how many numbers it has, and the numbers.  The  *)
(* unit of copying is one number.                                           *)
(***************************************************************************)
EXTENDS Naturals, Sequences, FiniteSets, SequencesExt

CONSTANTS
  HandoffInputs,   \* each a sequence of files, of sequences of numbers
  ROOM             \* numbers that the memory or the pipe has room for

ASSUME HandoffAssumption == ROOM \in Nat \ {0} /\ HandoffInputs \subseteq Seq(Seq(Nat))

VARIABLES
  channel,
  handoff_input,
  mem,          \* per worker: the flags, and the bytes behind them
  pipes,        \* per worker: what is in the pipe, and is it open for writing
  workers,      \* per worker: where it is, its message and what is left of it
  arrays,       \* worker->size and worker->array as far as they are read
  parent,       \* where the parent is, the worker it reads from, what is missing
  reaped,       \* children that wait() has returned
  total_array

handoff_vars == <<channel, handoff_input, mem, pipes, workers, arrays, parent, reaped, total_array>>

Ids == DOMAIN handoff_input
\* In the i-th place is the number that fewer than i are below and that at
\* least i do not exceed.
Sorted(numbers) ==
  [i \in 1 .. Len(numbers) |->
    CHOOSE n \in Range(numbers) :
      /\ Cardinality({k \in DOMAIN numbers : numbers[k] < n}) < i
      /\ Cardinality({k \in DOMAIN numbers : numbers[k] <= n}) >= i]
Messages(w) == <<<<Len(handoff_input[w])>>, Sorted(handoff_input[w])>>
Fitting(n) == IF n < ROOM THEN n ELSE ROOM
Tail1(s, n) == SubSeq(s, n + 1, Len(s))

-----------------------------------------------------------------------------
(* The worker *)

WorkerIs(w, at) == workers[w].at = at
WorkerGoes(w, at) == workers' = [workers EXCEPT ![w].at = at]
Worker == UNCHANGED <<channel, handoff_input, arrays, parent, reaped, total_array>>

\* After a message comes the next one, or the end of the process.
NextMessage(w) ==
  workers' = [workers EXCEPT ![w] =
    IF @.msg = 1 THEN [at |-> "copy", msg |-> 2, src |-> Messages(w)[2]]
    ELSE [@ EXCEPT !.at = "close"]]

\* write_to_shared_mem() waits, copies, and turns the flags in two steps.
WriteMem(w) ==
  /\ channel = "memory" /\ WorkerIs(w, "copy") /\ mem[w].writable
  /\ LET n == Fitting(Len(workers[w].src))
     IN  /\ mem' = [mem EXCEPT ![w].buf = [k \in 1 .. ROOM |-> IF k <= n THEN workers[w].src[k] ELSE @[k]]]
         /\ workers' = [workers EXCEPT ![w].at = "unset", ![w].src = Tail1(@, n)]
  /\ Worker /\ UNCHANGED pipes

UnsetWritable(w) ==
  /\ WorkerIs(w, "unset") /\ WorkerGoes(w, "set")
  /\ mem' = [mem EXCEPT ![w].writable = FALSE]
  /\ Worker /\ UNCHANGED pipes

SetReadable(w) ==
  /\ WorkerIs(w, "set")
  /\ mem' = [mem EXCEPT ![w].readable = TRUE]
  /\ IF workers[w].src = <<>> THEN NextMessage(w) ELSE WorkerGoes(w, "copy")
  /\ Worker /\ UNCHANGED pipes

\* write() blocks until all of it is in the pipe.
WritePipe(w) ==
  /\ channel = "pipe" /\ WorkerIs(w, "copy")
  /\ IF workers[w].src = <<>> THEN NextMessage(w) /\ UNCHANGED pipes
     ELSE /\ Len(pipes[w].data) < ROOM
          /\ pipes' = [pipes EXCEPT ![w].data = Append(@, Head(workers[w].src))]
          /\ workers' = [workers EXCEPT ![w].src = Tail(@)]
  /\ Worker /\ UNCHANGED mem

\* The end of the process closes the pipe too.
WorkerExit(w) ==
  /\ WorkerIs(w, "close") /\ WorkerGoes(w, "zombie")
  /\ pipes' = [pipes EXCEPT ![w].open = FALSE]
  /\ Worker /\ UNCHANGED mem

WorkerStep(w) == WriteMem(w) \/ UnsetWritable(w) \/ SetReadable(w) \/ WritePipe(w) \/ WorkerExit(w)

-----------------------------------------------------------------------------
(* The parent *)

Parent == UNCHANGED <<channel, handoff_input, workers>>
ParentIs(at) == parent.at = at /\ parent.w \in Ids
ParentGoes(at) == parent' = [parent EXCEPT !.at = at]

\* Reads n of the missing numbers, to the end of what it has of the message.
Takes(numbers, at) ==
  /\ arrays' = [arrays EXCEPT ![parent.w][parent.msg] = @ \o numbers]
  /\ parent' = [parent EXCEPT !.at = at, !.missing = @ - Len(numbers)]

\* After the size come as many numbers, and then wait().
NextRead ==
  parent' = IF parent.msg = 1
            THEN [parent EXCEPT !.at = "copy", !.msg = 2, !.missing = arrays[parent.w][1][1]]
            ELSE [parent EXCEPT !.at = "wait"]

ReadMem ==
  /\ channel = "memory" /\ ParentIs("copy") /\ mem[parent.w].readable
  /\ Takes(SubSeq(mem[parent.w].buf, 1, Fitting(parent.missing)), "unset")
  /\ Parent /\ UNCHANGED <<mem, pipes, reaped, total_array>>

\* Mutant: the flag stays set.
Kept(w) == mem

Unset(w) == [mem EXCEPT ![w].readable = FALSE]

UnsetReadable ==
  /\ ParentIs("unset") /\ ParentGoes("set") /\ mem' = Unset(parent.w)
  /\ Parent /\ UNCHANGED <<pipes, arrays, reaped, total_array>>

SetWritable ==
  /\ ParentIs("set")
  /\ mem' = [mem EXCEPT ![parent.w].writable = TRUE]
  /\ IF parent.missing = 0 THEN NextRead ELSE ParentGoes("copy")
  /\ Parent /\ UNCHANGED <<pipes, arrays, reaped, total_array>>

\* read() returns some of what is in the pipe, nothing at its end and when
\* nothing is asked for; read_from_pipe() goes on for as long as it does.
ReadPipe ==
  /\ channel = "pipe" /\ ParentIs("copy")
  /\ LET pipe == pipes[parent.w]
     IN  IF parent.missing = 0 \/ (pipe.data = <<>> /\ ~pipe.open)
         THEN NextRead /\ UNCHANGED <<pipes, arrays>>
         ELSE \E n \in 1 .. parent.missing :
                /\ n <= Len(pipe.data)
                /\ Takes(SubSeq(pipe.data, 1, n), "copy")
                /\ pipes' = [pipes EXCEPT ![parent.w].data = Tail1(@, n)]
  /\ Parent /\ UNCHANGED <<mem, reaped, total_array>>

\* wait() returns any child that has ended.
WaitWorker ==
  /\ ParentIs("wait")
  /\ \E w \in Ids \ reaped : WorkerIs(w, "zombie") /\ reaped' = reaped \cup {w}
  /\ parent' = [at |-> "copy", w |-> parent.w + 1, msg |-> 1, missing |-> 1]
  /\ Parent /\ UNCHANGED <<mem, pipes, arrays, total_array>>

Concatenate ==
  /\ parent.at = "copy" /\ parent.w = Len(handoff_input) + 1
  /\ total_array' = FlattenSeq([w \in Ids |-> arrays[w][2]])
  /\ ParentGoes("end")
  /\ Parent /\ UNCHANGED <<mem, pipes, arrays, reaped>>

ParentStep == ReadMem \/ UnsetReadable \/ SetWritable \/ ReadPipe \/ WaitWorker \/ Concatenate

-----------------------------------------------------------------------------
HandoffInit ==
  /\ channel \in {"memory", "pipe"} /\ handoff_input \in HandoffInputs
  /\ mem = [w \in Ids |-> [readable |-> FALSE, writable |-> TRUE, buf |-> [k \in 1 .. ROOM |-> 0]]]
  /\ pipes = [w \in Ids |-> [data |-> <<>>, open |-> TRUE]]
  /\ workers = [w \in Ids |-> [at |-> "copy", msg |-> 1, src |-> Messages(w)[1]]]
  /\ arrays = [w \in Ids |-> <<<<>>, <<>>>>]
  /\ parent = [at |-> "copy", w |-> 1, msg |-> 1, missing |-> 1]
  /\ reaped = {} /\ total_array = <<>>

HandoffNext == ParentStep \/ \E w \in Ids : WorkerStep(w)

HandoffEnd == parent.at = "end" /\ \A w \in Ids : WorkerIs(w, "zombie")

-----------------------------------------------------------------------------
\* What the parent has of a worker's messages is the beginning of what the
\* worker sends, whichever is faster and however often the memory or the
\* pipe is filled; and in the end it has the sorted numbers of all files.
HandoffSound ==
  /\ \A w \in Ids, m \in 1 .. 2 : IsPrefix(arrays[w][m], Messages(w)[m])
  /\ parent.at = "end" =>
       total_array = FlattenSeq([w \in Ids |-> Sorted(handoff_input[w])])
=============================================================================
