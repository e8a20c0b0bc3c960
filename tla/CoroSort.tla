------------------------------ MODULE CoroSort ------------------------------
(***************************************************************************)
(* 1/main.c: each coroutine reads a file of numbers, sorts it in place and  *)
(* gives up control between any two steps when its time is over; when all   *)
(* have finished main() merges the files.  One action is what a coroutine   *)
(* does up to the next call of swap().  data[] and arrays count from 1.     *)
(***************************************************************************)
EXTENDS Naturals, Sequences, SequencesExt, FiniteSetsExt

CONSTANTS
  SortInputs,  \* the contents of argv[2..] that are tried
  INT_MAX,     \* bounds the numbers in the files
  LinkRead     \* when a C library reads uc_link: "makecontext" or "end"

\* main() returns when there is no file.
ASSUME CoroSortAssumption ==
  /\ INT_MAX \in Nat /\ LinkRead \in {"makecontext", "end"}
  /\ SortInputs \subseteq Seq(Seq(0 .. INT_MAX)) \ {<<>>} /\ SortInputs # {}

UCTX_MAIN == 0
LOST == -1      \* the thread has ended

VARIABLES
  sort_input,   \* the files as they were
  sort_files,   \* the files
  data,         \* struct context_data data[]
  uctx,         \* the context that runs
  sort_main,    \* where main() is: "coros", "merge", "end"
  sort_out      \* out.txt

sort_vars == <<sort_input, sort_files, data, uctx, sort_main, sort_out>>

-----------------------------------------------------------------------------
(* The scheduler *)

\* The loops of swap() and terminate(): the next one that has not finished,
\* in a circle.  Itself if there is none.
NextAlive(n) ==
  LET alive == {i \in DOMAIN data : i # n /\ ~data[i].finished}
      later == {i \in alive : i > n}
  IN  IF later # {} THEN Min(later) ELSE IF alive # {} THEN Min(alive) ELSE n

\* Mutant: the second loop is left out.
LinkOfLast(n) == IF NextAlive(n) <= n THEN UCTX_MAIN ELSE NextAlive(n)

\* uc_link, as terminate() leaves it.
Link(n) == IF NextAlive(n) = n THEN UCTX_MAIN ELSE NextAlive(n)

\* The time of n may be over or not.
swap(n) == uctx' \in {n, NextAlive(n)}

\* terminate(), and the end of the coroutine's function.  A library that has
\* read uc_link in makecontext(), before it was set, has nowhere to go.
terminate(n) ==
  /\ data' = [data EXCEPT ![n].finished = TRUE, ![n].pc = "over"]
  /\ uctx' = IF LinkRead = "end" THEN Link(n) ELSE LOST

-----------------------------------------------------------------------------
(* part() *)

Swapped(a, i, j) == [a EXCEPT ![i] = a[j], ![j] = a[i]]

\* Where the two loops inside the loop stop.
ScanRight(a, v, i, r) == Min({k \in i .. r + 1 : k = r + 1 \/ a[k] > v})
ScanLeft(a, v, j) == Max({k \in 1 .. j : a[k] <= v})

\* One iteration of the loop, if there is one more.
Round(r, v) ==
  [s \in [a : Seq(Nat), i : Nat, j : Nat] |->
     LET i == ScanRight(s.a, v, s.i, r)
         j == ScanLeft(s.a, v, s.j)
     IN  IF s.i < s.j
           THEN [a |-> IF i < j THEN Swapped(s.a, i, j) ELSE s.a, i |-> i, j |-> j]
           ELSE s]

\* i grows in each, so that r - l + 1 are enough.
Parted(a, l, r) ==
  LET loop[n \in 0 .. r - l + 1] ==
        IF n = 0 THEN [a |-> a, i |-> l, j |-> r] ELSE Round(r, a[l])[loop[n - 1]]
      end == loop[r - l + 1]
  IN  [a |-> Swapped(end.a, end.j, l), p |-> end.j]

\* v is where rand() points to.
part(a, l, r, v) == Parted(Swapped(a, l, v), l, r)

-----------------------------------------------------------------------------
(* A coroutine: sort_file() and the calls of quick_sort() it is in *)

Call(l, r) == [l |-> l, r |-> r, p |-> 0, at |-> "begin"]
Top(n) == Last(data[n].calls)
Sorting(n) == uctx = n /\ data[n].pc = "sort" /\ data[n].calls # <<>>

Goes(n, new) ==
  data' = [data EXCEPT ![n] = new] /\ swap(n)
  /\ UNCHANGED <<sort_input, sort_files, sort_main, sort_out>>

\* fscanf() and insert_buffer()
ReadNumber(n) ==
  LET d == data[n]
  IN  /\ uctx = n /\ d.pc = "read"
      /\ IF d.pos < Len(sort_files[n])
           THEN Goes(n, [d EXCEPT !.buf = Append(@, sort_files[n][d.pos + 1]), !.pos = @ + 1])
           ELSE Goes(n, [d EXCEPT !.pc = "sort", !.calls = <<Call(1, Len(d.buf))>>])

QuickSortPart(n) ==
  LET d == data[n]
      top == Top(n)
  IN  /\ Sorting(n) /\ top.at = "begin" /\ top.l < top.r
      /\ \E v \in top.l .. top.r :
           LET cut == part(d.buf, top.l, top.r, v)
           IN  Goes(n, [d EXCEPT !.buf = cut.a,
                                 !.calls = Front(@) \o <<[top EXCEPT !.p = cut.p, !.at = "left"],
                                                         Call(top.l, cut.p - 1)>>])

\* A call with nothing to sort; no swap().
QuickSortNothing(n) ==
  /\ Sorting(n) /\ Top(n).at = "begin" /\ Top(n).l >= Top(n).r
  /\ data' = [data EXCEPT ![n].calls = Front(@)]
  /\ UNCHANGED <<sort_input, sort_files, uctx, sort_main, sort_out>>

QuickSortLeft(n) ==
  LET d == data[n]
      top == Top(n)
  IN  /\ Sorting(n) /\ top.at = "left"
      /\ Goes(n, [d EXCEPT !.calls = Front(@) \o <<[top EXCEPT !.at = "right"],
                                                  Call(top.p + 1, top.r)>>])

QuickSortRight(n) ==
  Sorting(n) /\ Top(n).at = "right" /\ Goes(n, [data[n] EXCEPT !.calls = Front(@)])

Rewind(n) ==
  LET d == data[n]
  IN  /\ uctx = n
      /\ \/ /\ d.pc = "sort" /\ d.calls = <<>>
            /\ Goes(n, [d EXCEPT !.pc = "rewind"])
         \/ /\ d.pc = "rewind"
            /\ Goes(n, [d EXCEPT !.pc = "write", !.pos = 0])

\* The numbers are written over the ones that were read.
WriteNumber(n) ==
  LET d == data[n]
  IN  /\ uctx = n /\ d.pc = "write"
      /\ IF d.pos < Len(d.buf)
           THEN /\ sort_files' = [sort_files EXCEPT ![n][d.pos + 1] = d.buf[d.pos + 1]]
                /\ data' = [data EXCEPT ![n].pos = @ + 1] /\ swap(n)
                /\ UNCHANGED <<sort_input, sort_main, sort_out>>
           ELSE Goes(n, [d EXCEPT !.pc = "close"])

EndFile(n) ==
  /\ uctx = n /\ data[n].pc = "close"
  /\ terminate(n)
  /\ UNCHANGED <<sort_input, sort_files, sort_main, sort_out>>

-----------------------------------------------------------------------------
(* main() *)

StartMerge ==
  /\ uctx = UCTX_MAIN /\ sort_main = "coros"
  /\ sort_main' = "merge"
  /\ UNCHANGED <<sort_input, sort_files, data, uctx, sort_out>>

\* Mutant: min > v for min >= v, and a buffer that begins with INT_MAX is
\* never taken.
BelowMax == {i \in DOMAIN data : data[i].buf # <<>> /\ data[i].buf[1] < INT_MAX}

\* The buffers merge_files() chooses from; min is INT_MAX at first.
Unmerged == {i \in DOMAIN data : data[i].buf # <<>> /\ data[i].buf[1] <= INT_MAX}

\* One iteration of merge_files(): of equal numbers, that of the last buffer.
Merge ==
  LET rest == Unmerged
      low  == {i \in rest : \A k \in rest : data[i].buf[1] <= data[k].buf[1]}
      flag == Max(low)
  IN  /\ uctx = UCTX_MAIN /\ sort_main = "merge"
      /\ IF rest = {} THEN sort_main' = "end" /\ UNCHANGED <<data, sort_out>>
         ELSE /\ sort_out' = Append(sort_out, data[flag].buf[1])
              /\ data' = [data EXCEPT ![flag].buf = Tail(@)]
              /\ UNCHANGED sort_main
      /\ UNCHANGED <<sort_input, sort_files, uctx>>

-----------------------------------------------------------------------------
Context == [pc |-> "read", pos |-> 0, buf |-> <<>>, calls |-> <<>>, finished |-> FALSE]

SortInit ==
  /\ sort_input \in SortInputs
  /\ sort_files = sort_input
  /\ data = [n \in DOMAIN sort_input |-> Context]
  /\ uctx = 1 /\ sort_main = "coros" /\ sort_out = <<>>

SortStep(n) ==
  \/ ReadNumber(n) \/ QuickSortPart(n) \/ QuickSortNothing(n) \/ QuickSortLeft(n)
  \/ QuickSortRight(n) \/ Rewind(n) \/ WriteNumber(n) \/ EndFile(n)

SortNext == StartMerge \/ Merge \/ \E n \in DOMAIN data : SortStep(n)

-----------------------------------------------------------------------------
Sorted(s) == \A i \in 1 .. Len(s) - 1 : s[i] <= s[i + 1]
Count(s, v) == Cardinality({i \in DOMAIN s : s[i] = v})
SameNumbers(s, t) == \A v \in Range(s) \cup Range(t) : Count(s, v) = Count(t, v)

\* At the end each file holds its own numbers in order and out.txt those of
\* all the files in order, the greatest int and equal numbers with them,
\* whenever the coroutines were switched and whichever pivots were drawn.
SortedOut ==
  sort_main = "end" =>
    /\ \A n \in DOMAIN sort_files :
         Sorted(sort_files[n]) /\ SameNumbers(sort_files[n], sort_input[n])
    /\ Sorted(sort_out) /\ SameNumbers(sort_out, FlattenSeq(sort_input))

\* "set ucontext to swich after end of coroutine" (line 83): the coroutine
\* that ends is followed by another or by main().
SwitchedAfterEnd == uctx # LOST
=============================================================================
