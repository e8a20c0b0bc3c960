# Specifications of the sysprog homeworks and examples

TLA+ models, TLC configurations and TLAPS proofs for the programs of the system
programming course in this repository: four homeworks (`1/` to `4/`) and the
examples of the lectures (`lecture_examples/`, `examples/`).  They are separate
programs; what they share is the subject, so the project is one model (with its
abstract specification and its proofs where there are some) per program worth modelling,
and programs that do the same thing in different ways are checked together.

Contents: [inventory](#inventory), the models of [the file system](#the-model-of-the-file-system-userfs),
[detachable threads](#the-model-of-detachable-threads-cthread), [the shell](#the-model-of-the-shell-shellline-shell),
[coroutines](#the-models-of-coroutines-corosort-libcoro-corojmp), [servers](#the-model-of-the-servers-servers) and
[locks, hand-overs and signals](#the-models-of-locks-hand-overs-and-signals-sync), [runs](#runs), [proofs](#proofs),
[findings](#findings), [not modelled](#what-is-not-modelled), [plan](#plan).

## Inventory

| component | state | operations | what is hard | what makes it correct |
|---|---|---|---|---|
| **User file system** `3/userfs.c`, `3/userfs.h` | linked list of files, each a linked list of blocks; array of descriptors, each with a file, a block, its number and an offset; `ufs_errcode` | `ufs_open`, `ufs_write`, `ufs_read`, `ufs_resize`, `ufs_close`, `ufs_delete`, `ufs_errno` | several descriptors and names share files and blocks; deleted files live on while open; a shrink frees blocks under open descriptors; two ways to write each block boundary | no freed memory is referred to, nothing leaks, positions stay inside data, a file behaves as a string of bytes, calls return |
| Tests of the file system `3/test.c`, `3/unit.h` | – | – | – | – |
| **Merge sort over coroutines** `1/main.c` | one context, stack, file buffer and `finished` flag per coroutine, the current index | `swap`, `terminate`, quicksort with yields, merge in `main` | a yield between any two comparisons; the order in which coroutines finish | every coroutine finishes before the merge, none runs after it finished, the output is the sorted union |
| **Coroutine macros** `1/coro_jmp.h`, `1/example_jmp.c` | per coroutine: a stack of return points, `is_finished` | `coro_init`, `coro_yield`, `coro_call`, `coro_return`, `coro_wait_all` | returns after yields of others | each return goes to its own caller; waiting ends |
| **Shell** `2/shell.c` | tokens of the line, pipe ends `fd[0..3]`, children, exit codes | tokenizer, `strip_comment`, `check_block`, `split_logic`, `split_pipeline`, `execute_pipeline`, `execute_logic`, `kill_zombie` | children end in any order, a failed `fork`, background jobs reaped with the foreground's, pipe ends left open | every stage is connected, all ends are closed, the exit code is the last stage's, `&&`/`\|\|` skip the right commands |
| Thread pool `4/thread_pool.c`, `.h` | – (empty bodies) | – | – | – |
| **libcoro** `4_signals/12_libcoro.c` | list of coroutines, the one running, jump buffers | `coro_new`, `coro_yield`, `coro_sched_wait`, `coro_body` | creation through a signal handler on an alternate stack; the end of a coroutine | a finished coroutine is taken off the list once and returned once |
| **cthread** `6_threads/12_cthread_detach.c`, `clone.h` (earlier versions: `10_…`, `11_…`) | per thread: flags, lock, stack; list of stacks to free | `cthread_create`, `join`, `detach`, `runner`, `destroy` | detach races with the end of the thread; a thread cannot free the stack it runs on | each stack is listed once and freed only after its thread is gone |
| **Locks and condition variables** `6_threads/4`–`8`, `13`, `14` | a lock word; a mutex, a condition, counters | lock, unlock, wait, signal | lost wakeups, test and set in two steps | mutual exclusion, no waiter misses the event it is counted for |
| **Shared memory and semaphores** `7_ipc/2_parallel_sort.c`, `3_mem_sort.c`, `9_sem_event_*.c`, `10_sem_mutex.h` | shared flags and buffers, semaphores, queues | worker and main loops, event source and consumers | two flags hand a buffer over; `SEM_UNDO` when a process ends | the buffer has one writer at a time; each event is consumed once |
| **Servers** `9_aio/4`–`7`, `10_users/9_daemon.c`, `8_net`, `7_ipc` | table of client sockets, what the kernel last said of them | accept, readable, remove | the table changes while it is walked; stale `revents` | every client that waits is answered, none is read after it was closed, the server never blocks on one |
| **Waiting for a signal** `4_signals/2_pause_hangs.c`, `9_sigsuspend.c` | mask, pending signal, flag | test, `pause`, `sigsuspend`, handler | a signal between the test and the wait | no signal is lost |
| Other signal, message, socket, file-lock and system-call examples | – | one call each | – | – |

Interactions: within the file system, the calls of one descriptor act on the
others through the shared `struct file` and `struct block` and through the array
of descriptors.  Coroutines interact by explicit switches, the threads and
processes by shared memory, signals, pipes and `wait()`.  The programs do not call
one another.

Bold components are modelled.  The hazards of these programs, each at its line, with the
properties that would catch them, are listed in `PROJECT.json`; the few that no
property covers say why.

## The model of the file system (UserFS)

`UserFS.tla` translates `3/userfs.c` call by call.

| in the code | in the model |
|---|---|
| `struct block` at an address | `blocks[b]` for `b \in BlockIds`: `occupied` and `memory`; `live_blocks` are the allocated addresses |
| `struct file`, `file_list` | `files[f]` for `f \in FileIds`; `live_files` are the allocated ones, `file_list` the linked ones (a set: the code searches it by name only) |
| `block_list`, `last_block`, `next`/`prev` | the sequence `files[f].block_list`, `last_block`, `NextBlock` |
| `file_descriptors[]`, capacity, count | a sequence, its length, `file_descriptor_count`; slot *i* of the model is slot *i*-1 of the array, so its number is what `ufs_open` returns |
| `free()` | the address leaves the live set and its record is reset, so that models of different garbage do not multiply |
| `malloc()` without `calloc()` | `Garbage` in every byte of a new block |
| locals of a loop | `call`: operation, descriptor, buffer, bytes left and bytes done |
| `ufs_errcode`, return value | `ufs_errcode`, `ret` |

The library is sequential: a call begins only while `call = Idle`.  `ufs_open`,
`ufs_close`, `ufs_delete`, a shrinking `ufs_resize` and all failures are one step.
`ufs_write`, `ufs_read` and a growing `ufs_resize` begin with one step and then make
one iteration per step (`WriteNextBlock` is the block change at the head of an
iteration, `WriteChunk` its `memcpy`).  This is what lets the model loop for ever
where the code does, and it makes the invariants hold inside loops as well.
`ShrinkToNothing` is the null dereference of line 434: the process is gone, and no
action follows.

Callers may pass any descriptor number, used or not, up to one past the array
(`FdArguments`), names with and without a file, and any of the configured buffers,
sizes and flags.  The only bound on behaviour that is not a constant of the
instance is `MAX_OPEN`, on descriptors open at a time; the number of files and
blocks is bounded by `FileIds` and `BlockIds`, whose exhaustion simply disables
`ufs_open` and the growth of files: an allocation always finds memory in the
code too (see below), so such states are those before a step the instance does
not explore.

Bytes are members of a small set.  `FlatFS.tla` is the abstract specification, from
the header's point of view: a name leads to a file, a file is a string of bytes, a
descriptor is an offset.  Blocks, pointers, memory and descriptor slots do not
occur in it.  `UserFSFlat.tla` gives the refinement mapping: `Contents(f)` is
the bytes of the blocks in order, `Position(fd)` is `(block_num - 1) * BLOCK_SIZE +
block_pos`, so that the end of one block and the start of the next are the same
offset.

## The model of detachable threads (Cthread)

`Cthread.tla` translates `lecture_examples/6_threads/12_cthread_detach.c` with the `clone()`
call of `clone.h`.  A thread cannot free the stack it runs on.  `cthread_destroy` therefore
puts the stack on `stack_list` and frees the stacks at the head of the list whose `tid` is 0;
the kernel clears that word (`CLONE_CHILD_CLEARTID`) when the thread is gone.  Whoever
comes second, the end of the thread or its `cthread_detach`, calls `cthread_destroy`; the
lock in `struct cthread` decides who that is.  The earlier versions `10_cthreads_*.c`
(the joiner frees the stack as soon as `is_finished` is set, when the thread still runs on it)
and `11_cthread_bad_detach.c` (no lock) show why both are needed; the mutants
`MayFreeFinished` and `AcquireAnyway` put these two faults back.

| in the code | in the model |
|---|---|
| threads and `main` | `Procs`: `Threads` are numbered, `Main` is one more; `pc[p]` is where each is |
| `cthread_runner` | `FuncEnd`, `RunnerLock`, `RunnerTest`, `Finish`, `RunnerUnlock` of a thread |
| `cthread_detach` | `DetachLock`, `DetachTest`, `DetachSet`, `DetachUnlock` of `main` |
| `cthread_join` | `JoinWait` of `main` |
| `cthread_destroy` | `DestroyLock`, `DestroyFree` (an iteration), `DestroyLink`, `DestroyUnlock`, in whichever process called it; `return_to` is where it returns to |
| `stack_list`, `next` | the sequence `stack_list`; `iter[p]` is the rest of it that a walk has before it |
| `malloc()`, `free()` of a stack and its list entry | `stacks` |
| `stack->tid` | `tid`: what `malloc()` left there (either value) until the child sets it, 1 while the thread is there, 0 after its exit |
| `spin_lock`, `spin_unlock` | a guard and an assignment: the compare-and-swap is atomic, a failed one has no effect |

Every access to shared state is a step of its own.  `main` creates the threads in order
and detaches or joins each once, at any moment and in any order, which includes what the
`main()` of the program does (create and detach, one after the other); then it scans the
array as lines 141-146 do.  When `main` returns, the process and all its threads end.

Left out: what the threads compute (`func`, `arg`, `returned_code`; `cthread_exit`
is one way for the function to end), and reuse of a `struct cthread`.  The
latter would not be safe: the runner writes `thread->lock` (line 87) after it has set
`is_finished` (line 86), when `cthread_join` may already have returned.

## The model of the shell (ShellLine, Shell)

`ShellLine.tla` has what `2/shell.c` does with a line: `ReadChar` is one iteration of the
loop of `main()` over characters, and `strip_comment`, `check_block`,
`split_logic`, `split_pipeline` and `open_files` are operators on the list of words
under their names.  A character is a one-letter string, with names for blank, newline,
backslash and the quotes; a word is a sequence of characters.

`Shell.tla` has the processes.  `main()` reads lines and forks a subshell for each; the
subshell runs `execute_logic()`, which calls `execute_pipeline()`, which forks the stages,
connects them with pipes and waits.

| in the code | in the model |
|---|---|
| `main()` | `Read` (a character), `Execute` (a complete line: comment, `&`, `cd`, `fork`), `Waited` |
| `kill_zombie()` | `kill_zombie`, all children that have ended |
| a subshell | `jobs[j]`: its words, the loop variables of `execute_logic` and `execute_pipeline` |
| `execute_logic()` | `Logic`, `LogicNext`, `Skip` (an iteration of the loops that skip commands) |
| `execute_pipeline()` | `Fork` (`pipe` and `fork`, each of which may fail), `Prepare`, `AllForked`, `Wait` (one `wait()`) |
| `fd[0..3]` | `fd`, pipe ends or `NONE`; `open` has the ends the subshell holds, a stage's `ends` those the stage holds |
| `dup_pipe`, `close_pipe_fork` | `Connect` |
| `open_files` and `execvp` in a stage | `Open` (an iteration), `Exec` |
| the command | `Finish`, `Killed`: it may or may not read and write; one that reads ends at the end of its input, one that writes when a reader takes its output, or by SIGPIPE |
| `last_pid`, `fork_counter`, the status | the same; 0 is the pid of a failed `fork()` |
| the children of a subshell | `stages`, those of the pipeline it is at; all of the one before are reaped |

`printf("execute %s\n")` at line 404 has no argument for its `%s`: the subshell may survive it or
not (`PrintfCrash`).  `MAX_FAULTS` bounds failing calls and such crashes together.
Wait statuses are the members of `Codes`, 0 and 1; a signal counts as 1.

## The models of coroutines (CoroSort, LibCoro, CoroJmp)

`Coop.tla` is what a user of coroutines is promised: control goes only to a coroutine that has
not finished or to the main program, each of them finishes, and the main program goes on when
all have.  Three programs keep the promise in three ways, and `Coroutines.tla` maps each of
them to `Coop` (`Cooperates`).  It has the variables of all three, of which a behaviour
uses those of one.

- `CoroSort.tla`, `1/main.c`: a step is what a coroutine does from one `swap()` to the
  next: a number read or written, or a part of `quick_sort()`.  `calls` is its stack of
  calls.  Whether the time of a coroutine is over is a choice (`swap`), and so is the
  pivot.  `terminate()` sets `uc_link`, which matters to a C library that reads it when the context
  ends (`LinkRead = "end"`) and not to one that reads it in `makecontext()` (finding 5).
  Then `main()` merges the buffers.
- `LibCoro.tla`, `4_signals/12_libcoro.c`: the list of coroutines by its `next` and `prev`
  pointers, `coro_this_ptr`, `is_sched_waiting`, and whose context runs.  `ctx` of a coroutine
  is what its local variable gives back when it is resumed.  Coroutines create coroutines, yield
  at most `MAX_YIELDS` times and end in any order, and the scheduler's user may create and delete
  some between two calls of `coro_sched_wait()`.
- `CoroJmp.tla`, `1/coro_jmp.h` under the coroutines of `1/example_jmp.c`: `exec_point` and the
  stack of `ret_points` of each, which the macros save and jump to.  Places are named for what stands
  before them.

## The model of the servers (Servers)

`Servers.tla` has the seven servers of the lectures that answer a number with the next one:
`select()`, `poll()` and the same in a daemon, epoll, kqueue, and a thread per client over TCP
and over a UNIX socket.  `api` tells which one a behaviour is of.

| in the code | in the model |
|---|---|
| a client program | `Connect`, `Send`, `Receive`, `Close`, `Kill` |
| a connection | `conn[c]`: whether a number is on its way up or down, whether the end or a reset is to be seen, what the server has made of it |
| `listen()` queue | `backlog` |
| `clients[]`, `fds[]`, `readset`, `revents`, `nfds`, `i` | `fds`, `revents`, `nfds`, `i`: one iteration of a server's loop per step |
| `interact()` | `interact`, with the result `Rc` |
| `remove_client()` | `remove_client`, on `fds` and, with `poll()`, on the marks that move with the entries |
| `epoll_wait`, `kevent` | `GetEvent`: one event of the ready ones |
| `worker_f` | `WorkerStep`, one iteration |
| a failing `select`, `poll`, `epoll_wait`, `kevent`, `accept`, `epoll_ctl` | `Fails`, of the servers with one thread |
| the end of a server | `ServerEnds`: the system closes all its sockets, those of the `listen()` queue included |

`Fails` may happen in any place where such a call is made.  The end of a server with epoll or kqueue whose
`interact()` gives an error, and that of the UNIX server by SIGPIPE, are `ServerEnds` too.  A client whose connection was closed
gets 0 from `read()` and ends, or -1 and goes on, as `4_client.c` does (`Receive`).

`SelectWait` has the marks of `readset` by position, as it is tested against the sockets of the
array; they move with the entries because `FD_ISSET` is asked of a socket.  The entry `poll()`'s server
appends has whatever `realloc()` left in `revents`, either value.

## The models of locks, hand-overs and signals (Sync)

`Sync.tla` puts together five modules, one for each way in which the examples wait for one
another; a behaviour is one of one example.

- `Locks.tla`: the counter and the string shared by threads: without a lock, with an atomic
  addition, with a flag that is tested and then set, with compare-and-swap, with a futex, and with the
  semaphore of `10_sem_mutex.h`.  One access to shared memory, or one system call, per step.
- `Condvar.tla`: the condition variables of `13_simple_condvar.c` and `14_condvar.c`: a mutex
  that the signaller holds between signals and a flag, and in the second a count of waiters.
  `entered` is no variable of the code: it tells whether a waiter has had the mutex since the last event was set.
- `Handoff.tla`: workers that sort files and give the numbers to their parent, through shared memory
  of a bounded size with two flags or through a pipe of a bounded size.  Each sends the number
  of numbers and then the numbers.  The flags are turned one at a time.
- `SemEvents.tla`: sources that send messages and raise semaphores, consumers that take an event
  of each source and the lock in one `semop()`, and the kernel that undoes what a process did
  when it ends, wherever it is.
- `Wakeup.tla`: a program that tests a flag and calls `pause()`, one that keeps the signal blocked
  up to `sigsuspend()`, and signals at any moment.

## Runs

| run | instance | question |
|---|---|---|
| `structure` | 1 name, 2 file structs, 4 blocks of 2 bytes, files up to 4 bytes, 2 open descriptors, writes of 1 and 3 bytes, reads of 1 and 2, resizes to 0, 1 and 3 | Does any sequence of calls, `ufs_resize` included, break the heap, the descriptors, the accounting, or disturb what it is not about? |
| `contents` | 1 name, 1 file struct, 2 blocks, 2 different bytes, 3 open descriptors, no resize | Does the file system implement `FlatFS`?  Do reads and writes return? |
| `cthread` | 3 threads | Is every stack freed late enough, once, and never forgotten?  Does `main` come to its end? |
| `shell` | every line of 4 pieces of syntax, every chain of up to 4 commands and 3 operators, in the background or not, and 6 scripts of more lines, with redirections or with a trailing `\|`; 1 fault | Does the shell read lines as their text says?  Are all ends of pipes closed, all children reaped, and is the status the right one?  Does every job end? |
| `coroutines` | `1/main.c`: 3 files of up to 3 numbers together, 2 files of 3 and up to 1 numbers, 1 file of 4 numbers; libcoro: 3 coroutines that yield up to 2 times each; `coro_jmp.h`: 3 coroutines, recursion to depth 3 | Do the three ways to switch keep the promise of `Coop`, and is the output sorted? |
| `servers` | 7 servers, 3 clients, 1 of which may be killed | Does any server block on a client, forget one, or leave one without an answer or the end of its connection? |
| `sync` | 3 threads of 3 iterations and 3 characters; 3 waiters and 3 signals; 2 or 3 workers with up to 4 numbers, room for 2; 2 sources of up to 3 lines, 2 consumers, 2 ends of processes; 3 signals | Are locks exclusive, hand-overs complete, and events accounted for?  Which waits come to their end? |
| `cthread_scan` | 2 threads | Finding 4. |
| `sort_links` | as `coroutines`, with a library that reads `uc_link` in `makecontext()` | Finding 5. |
| `resize_to_zero`, `shrink_positions`, `write_full_block` | as `structure`, one property each | Findings 1 to 3. |

Why these bounds are enough for the interesting cases.  Two descriptors on one file
are what any damage of one descriptor by a call on another needs.  Two file
structs under one name give a deleted file that is still open beside a new one
of its name, and a descriptor on each.  A block of two bytes has an offset that
is neither its start nor its end; files of two blocks have a boundary inside
them and a last block; four blocks let both files be full.  A write of three bytes
crosses a boundary from any position.  Resizes to 1 and 3 end inside the first
and the second block, 0 is the boundary case.  Three descriptors (`contents`)
enlarge the array twice: capacity 0, 2, 6.  The contents of bytes are irrelevant to
the structure run, which has one byte value; the contents run has two to tell a
misplaced byte from the right one.  Both runs have one name, because
`Named(filename)` is the only use of names: files of other names take part in
nothing.  `structure` uses a VIEW without `ufs_errcode` and `ret`: no step reads
them but `ReadEof`, which copies `ufs_errcode` to itself, and no property of
the run mentions them; and it is symmetric in the addresses.  It has no liveness
property.  It does not check for deadlock because after the crash of
`ufs_resize` there is no next step.

Properties of `structure`:

- `DescriptorsAnchored`: an open descriptor refers to an allocated file and to
  block number `block_num` of it, although `ufs_delete`, the `ufs_close` of another
  descriptor and a shrink free memory.
- `PositionsInData`: `block_pos <= occupied`; with it the `memcpy` of `ufs_write`
  stays inside the block and the count of `ufs_read` is not negative.
- `FilesAccounted`, `BlocksAccounted`: no file or block is leaked, freed early,
  or listed twice, and `refs`, `deleted`, `num_blocks`, `last_block` say what is so.
- `NamesUnique`, `SizeBounded`: one linked file per name; no history of writes and
  resizes exceeds the limit that each call checks on its own.
- `CallAnchored`: what the loops rely on from one iteration to the next.
- `DescriptorsStay`, `ContentsStay` (action properties): what a call may not do to
  other descriptors and to the bytes of open files.

Properties of `contents`: `TableAccounted` (the counter of descriptors is the number
of used slots, through every enlargement), `ImplementsFlatFS`, `ReadReturns` and
`WriteReturns`.

Properties of `cthread`:

- `StackKept`: no stack is freed under its thread.
- `ListSound`: outside of the list's lock, and in what a walk has left, no entry of
  the list is freed and none occurs twice.
- `DestroyedOnce`: a thread and `main` never both destroy it, nor is it destroyed again.
- `StacksHandedOver`: whichever of the two came second did list the stack.
- `ScanCovers`: after the scan all threads but thread 0 have finished (finding 4 is about
  thread 0).
- `MainReturns`: no lock is kept, no join, spin or scan goes on for ever.

Properties of `shell`:

- `TokensFaithful`: the words hold the characters the text of the line says, by a reference
  in terms of positions in the text, and are cut where it says; no word is empty, and an operator is the second of a
  pair when the character before it in the text is an operator too.  It is said of the line while it is read and of the
  complete line.
- `PipesClosed`: a subshell that waits holds no end of a pipe, and a command only its own two,
  whichever call failed.  It is said of every chain of pipelines but those with a pipeline that ends in
  `|` (`PipesComplete`), of which it is not true; chains with `||`, in which the line has two `|` in a row,
  are not left out.
- `PipelineStatus`: when a pipeline is over all its stages have been reaped, those behind a failed `fork()` included; the
  status is that of the last stage, in whatever order the stages end, and when the last one could not be forked that of another.
- `LogicSound`: the pipelines that ran are those that `&&` and `||`, associating to the left, say.
- `ZombiesReaped` (action property): when `main()` goes on behind a command, every subshell that has ended is reaped, those
  in the background included that ended while another was waited for, and each once.
- `ScriptEnds`: every command and every subshell ends and every line is read.  Only a job with a pipeline that ends in `|` may wait
  for ever, and `main()` for it; the other jobs of the script must end even then.

Properties of `coroutines`: `Cooperates` (the refinement of `Coop`, with its liveness),
`SortedOut` (each file and `out.txt` are sorted and hold the numbers that were there),
`LibSound` (the list, the running coroutine and the scheduler's context fit together),
`JmpSound` (each coroutine has one point of return for each call it is in).

Properties of `servers`:

- `NeverBlocks`: `read()` is called only on a socket that has something to read.
- `ServesAccepted`: what the server goes through is exactly the connections it has accepted
  and whose end it has not seen, each once.
- `Answered`: a client that waits gets an answer or the end of the connection, with each server, however the others are killed
  and wherever the server ends.

Properties of `sync`: `LocksSound`, `CondvarSound`, `HandoffSound`, `EventsSound`, `WakeupSound`,
one for each module, and `AllEnd`.  Each says what the program guarantees, which for those that are there to show what goes
wrong is less:

- `LocksSound`: with the atomic addition and the futex the counter has every addition; with the spin lock the string inside is all
  one thread's; the semaphore lets in as many as it has room for, and the futex and the spin lock one.  Of the plain counter it says only that it is not too high.  Of `6_bad_lock.c` it says only that every character
  is written: the race between its test and its setting of the flag is in the model, and nothing excludes it.
- `CondvarSound`: no event is taken twice.  With the count of waiters none is lost; with the simple variable the signaller
  clears an event again only when no waiter has had the mutex since it was set.  That this does happen, and that
  the waiter then waits on, is what the second program is there to mend.
- `HandoffSound`: what the parent has, what is on its way and what the worker still has is what the worker sorted.
- `EventsSound`: one consumer at most has the lock, and events have their messages.
- `WakeupSound`: with `sigsuspend()` a signal sent before the program waits is pending there, and one has been handled
  when the mask is restored.  It says nothing of the program with `pause()`, which may miss the signal.
- `AllEnd`: the threads of each lock end; so do the signaller of the condition variables, the parent and its workers, and the
  program with `sigsuspend()` once there is a signal.  It leaves out the waiters that remain when the signaller has ended, or whose event the
  simple variable lost, and the `pause()` that was called after the signal.

Why these bounds.  Four pieces of syntax have a quote with a character in it, an escaped character,
or a pair of operators with a word on a side; the reader's state is four flags and a word, and no
case of it looks at more than the character before.  Chains of three operators have a skip over
`&&` that ends at `||` and one that ends at the line's end; pipelines of four commands have stages
with a pipe on both sides, in front of and behind each other.  One fault hits each
call of `fork()` and `pipe()` in turn.  Three coroutines have a neighbour that has finished between
two that have not.  Three clients have one behind and one in front of the one that is removed in the
same round; clients are interchangeable, so that the one of `Answered` (`OBSERVED`) stands for all.  Two
sources make an event that one semaphore grants and another does not.  Room for two numbers is
filled twice by four, once and a half by three, and exactly by two.  Three iterations are what
`NotAtomic` needs to lose additions across more than one iteration of another thread.

`CHECK_DEADLOCK FALSE` in these runs: the programs end, a client may stop anywhere, and a script with a
trailing `|` hangs (see the notes).

With three threads (`cthread`) there can be a thread that destroys itself, a second that waits
for the list's lock, and a stack further down the list that the walk does not reach or
that it frees; the scan has threads behind the one it restarts at.  `cthread` checks for
deadlock: the only state without a step of a process is the one after `main` returned, and it may stutter.

**Fairness.**  In `Cthread`, weak fairness for every process: the kernel schedules each
thread again and again.  It is enough for the spin locks because each thread takes
the locks a bounded number of times.  In `Shell` and `Coroutines`, weak fairness of `Next`: in the
shell it says that something goes on as long as anything can, and since every process makes a bounded number of
steps all of them come to their end; coroutines are one thread.  In
`Servers`, the loop of the server and the clients' `read()` are weakly fair; events (`Event`, and a worker's
step) are strongly fair, because the kernel gives out the ready ones in turn and does not
put one back for ever; of clients nothing else is assumed, and `Fails` need never happen.  In `Sync`, each thread and process is weakly fair but those of `SemEvents`;
taking the mutex of `Condvar` is strongly fair, as an assumption: who asks for it time and again gets it.  Without
it the signaller, which unlocks and locks at once, may keep it for ever.  `SemEvents`
has no liveness property: when a consumer was killed the others may wait
for ever.  In `UserFS`, `FairSpec` has weak fairness of `Continue`, the disjunction of all
steps of a call in progress: the processor goes on executing a call that has
begun.  Nothing is assumed of callers, who may stop calling at any time.

`FlatFS` leaves out `ufs_resize`: the header does not say what bytes a grown file
has, and the code gives no simple answer (see the notes below).

## Proofs

`UserFSProofs.tla` proves, for all values of the constants allowed by the four
assumptions of `UserFS` (a block has at least one byte; the size limit is a positive multiple
of the block size; `NULL` is no block, no file and no descriptor; callers' inputs have
their types), the theorems `TypeCorrect`, `DescriptorSafety`, `PositionSafety`,
`FileLifetime`, `BlockLifetime`, `TableCorrect` and `CallSafety`, i.e. `Spec => []P` for
the seven properties `TypeOK`, `DescriptorsAnchored`, `PositionsInData`,
`FilesAccounted`, `BlocksAccounted`, `TableAccounted` and `CallAnchored`.  The number
of files, blocks and descriptors is not bounded there, nor need it be finite.

The argument for it is one inductive invariant, `IInv`, the conjunction of the seven
(theorem `Invariance`).  No part is inductive alone.  That closing a descriptor does not free a
file under another one needs `refs` to be the exact number of its open
descriptors, which is a statement about cardinalities of subsets of the array
and needs the array and its counter to agree.  That a shrink of one file leaves the
descriptors of others alone needs the block lists of different files to be
disjoint and each list to have no block twice.  That `block_pos` stays within
`occupied` needs the descriptor's block to be a block of its own file.  That
the loops find a block to work on needs `CallAnchored`.  The proof has one lemma
per action (`CloseIInv`, `ShrinkIInv`, …), over lemmas for what the actions share:
`MoveIInv` (a step that only moves a descriptor), `IncreaseFile`, `DeleteFile`,
`CutFile` (what the heap operations do to lists, ownership and allocation),
`InsertFd` and `ClearSlot` (what happens to the array and the sets of
descriptors of each file).  `NamesCorrect` (`NamesUnique`) rests on it too: every step but the creation of a
file leaves the names of linked files (`NamesStay`), because the file that the last `ufs_close` frees is not linked.

`SizeCorrect` (`SizeBounded`) needs one more conjunct, `RoomLeft`: between its iterations `ufs_write`
looks at `MAX_FILE_SIZE` no more, so it must be known that what it has left to write still fits behind its
position, and that the blocks `ufs_resize` has still to add are few enough.  That a write adds a block only
when its position is behind all bytes of the file comes from `IInv`.  `DescriptorsLeftAlone` and `ContentsLeftAlone` are the two
action properties, `DescriptorsStay` and `ContentsStay`, for every step from a state of `IInv`: the disjointness of block lists is
what keeps a write, a shrink or the last `ufs_close` of one file away from the bytes of another.

`FlatFSProofs.tla` proves that `UserFS` implements `FlatFS` (theorem `Refinement`, property `ImplementsFlatFS`) for any names,
files, blocks, buffers and sizes of a block, when callers do not use `ufs_resize` (`NewSizes = {}`, the only hypothesis; `FlatFS`
leaves it out, see below).  The invariant is `FlatInv`: `IInv`, `NamesUnique`, that only the last block of a file has room
(`BlocksFull`, which `ufs_resize` would break), that a `struct file` that is not allocated has no blocks
(`FreedEmpty`), and what a call in progress has in its buffer (`CallKnown`).
`Text(list, bs)` is what `Contents` says of any list of blocks and any memory.  About it are the
lemmas the steps need: it loses nothing when an empty block is appended (`TextExtended`), copying bytes into the last block is
`FlatFS`'s overwriting of the string at the offset of the descriptor (`TextWrite`), and a part of
a block is that part of the string (`TextRead`).  The full blocks are what makes the write of an
inner block and the end of file right.  Then there is one lemma per action, `OpenCreateFlat`, `WriteChunkFlat` and so on: `ufs_read` and
`ufs_write` copy in steps of `FlatFS`, and the change to the next block is no step of it, because the end of one
block and the start of the next are the same offset (`SamePlace`).

`CthreadProofs.tla` proves, for any positive number of threads (the only assumption),
the six safety properties of `Cthread`: `TypeCorrect`, `StackSafety`, `ListSafety`,
`DestroySafety`, `NoStackForgotten` and `ScanResult`.  None of the properties is
inductive.  `IInv` adds who holds the lock of a thread (`Locked`) and of the list
(`ListLocked`), what the place of a thread says of its flags and `tid` (`Marked`), and
who is responsible for a thread (`Owned`: `main` owns it, is at work on it, or has
detached it).  The heart of it is `StacksAccounted`: a stack is allocated and not
listed exactly when somebody still has to list it (`Pending`).  From it follows that two
cannot list it, that none forgets it, and, since a listed stack's thread is past
its last use of the lists, that a `tid` of 0 in the list means a thread that is gone
and not one that has yet to set it.  `ListWalked` says what a walk under the lock has left of
the list.  There is one lemma per action.

`ShellProofs.tla` proves `PipesClosed`, `PipelineStatus`, `ZombiesReaped`, `LogicSound` and `TokensFaithful` for any scripts (sequences of strings), any number of
subshells, any statuses and any number of failures; subshells are positive numbers and statuses natural ones, as those of the code are.  The invariant `ShellInv` (theorem `ShellInvariant`) has
a conjunct `JobOK` for each subshell, which no step of another changes:

- `JobPipes`: the ends a subshell holds at each place are those in `fd[]`, and none beyond the next two
  when a stage has been forked; a stage holds its own ends only once it has connected itself.
- `JobStatus`: the children that have not been reaped are no more than `fork_counter` says, so that the subshell leaves the loop of
  `wait()` only when none is left, and the status it has then is that of `last_pid`.
- `JobLost`: when the last stage could not be forked `fork_counter` is one more than there are children, so that one `wait()` fails
  as `fork()` did, after all of them were reaped, and the status it takes is one that an earlier `wait()` left.
- `JobLogic`: how far the chain of `&&` and `||` has been executed (`RanUpTo`), in three forms: before a pipeline is
  taken off the list, while it runs, and while the loops skip others.

`PipesComplete` and `WellFormed`, the hypotheses of the properties about a line, are kept by every step because the list
of words only loses words at its front.

`NoZombieLeft` (`ZombiesReaped`) goes over the steps by what each does to the places of the subshells (`StepOf`, `OnlyAlive`): those after
which `main()` goes on behind a command reap all that have ended, and no other step reaps one or takes one back.

`WordsOfLine` proves `TokensFaithful` for lines of any length, with quotes, escapes and operators in any order.  The reference goes
over the text once and gives each character a mark (`Marks`): whether it is escaped, which quotes it stands in, and whether it is a
quote that opens or closes.  The invariant `LineInv` says that the four flags of `main()` are what the last mark says, that the
words and the buffer together are what the marks let be kept (`KeptBy`), and that words end exactly at the cuts of the text
(`WellCut`).  The words and the text are compared through numbers of characters kept (`CutAt`, `EndOf`), which no later
character changes; so one character adds at most its own cuts (`NextCut`), one word its own end (`WordAdded`), and there is one case for each
way `ReadChar` takes a character (`ReadCases`).

`ServersProofs.tla` proves `NeverBlocks` and `ServesAccepted` for any set of clients, any of which may be killed.
`ServersInv` has five conjuncts besides the types: each client waits in the backlog once (`BacklogOnce`); the array, or what
epoll and kqueue watch, is exactly the accepted connections, each once, while it is shifted or extended (`ListServed`,
`OthersServed`); a mark the kernel has put, and the loop has still to see, is of a socket that is still ready (`MarksHold`); and
`nfds` counts no more sockets than are marked (`MarksCounted`).  The last is what ends the loop of `poll()` before it
reads the `revents` of an entry it has just added.  When a server ends, all of it holds because nothing is
served and nothing is marked (`EndsInv`).

`CoroutinesProofs.tla` has three programs.

- `JmpCorrect` (`JmpSound`), for any number of coroutines and any depth of recursion: the place where a coroutine is
  determines what it has saved (`SavedAt`), which is a stack of one form (`Stack`).
- `LibCorrect` (`LibSound`), for any finite set of coroutines: there is a sequence that is linked both ways and has each
  coroutine in use once (`Chain`), and while a coroutine runs none in it has finished (`SchedulerKnows`).  That the links of
  the code are those of one sequence is what has to be shown for each insertion and removal (`ChainGrows`, `ChainShrinks`);
  that it is the sequence of the model's `List` follows because links determine it (`SameLinks`).
- `FilesSorted` (`SortedOut`), for any number of files of any length, any switches and any pivots.  `DataInv` says of each
  context what its file and its buffer are, wherever its coroutine has been switched (`ContextOK`): while it reads, the buffer is a
  beginning of the file; while it sorts, the numbers of the file and an order as far as it has come; while it writes, the file begins
  with the sorted numbers.  How far `quick_sort()` has come is `SortedBut`: the calls that have not returned have ranges of their
  own to sort (`Unsorted`), and any two numbers are in order unless they are in one of those ranges.  A call that returns gives up
  its range, `part()` splits one in two (`CallsSplit`).  That `part()` divides its range is the invariant `Cut` of its
  loop, which also shows that the loops inside do not leave the range and that `i` grows in each iteration (`RoundKeeps`, `LoopIs`).
  That no number is lost is counted: `Count` is the size of a set of positions, and a swap maps these one to one (`SwapIs`).  While
  `main()` merges (`Merging`), `out.txt` and what is left of the buffers are together what the files had, and nothing that is
  left is smaller than what `out.txt` has.  It holds with both kinds of C library: with the one of finding 5 the thread is
  lost and nothing more is written.
- `StepsCooperate`: the initial states of the three programs are those of `Coop` and each of their steps is a step of `Coop` or
  none, under the mapping of `Coroutines`; that is `Cooperates` without its liveness.  The hypothesis is a C library that reads
  `uc_link` when a context ends (see finding 5: with another the conclusion is false).  Of `1/main.c` the invariant is `SortInv`:
  the context that runs has not finished until all have.

`SyncProofs.tla` proves five properties of `Sync`, for any number of threads, iterations, characters, waiters, files, sources,
consumers and signals (the sets of threads, waiters and consumers are finite, and none of them is one of the names for
nobody).  A step of `Sync` is a step of one example and leaves the others alone (`StepOfOne`).

- `WakeupCorrect`: in `sigsuspend`'s program the signal stays blocked up to the end, the place in the loop
  tells how often it was handled, and none that was sent is gone before it was.
- `CondvarCorrect`: the holder of the mutex is known from where each is (`MutexHeld`).  So no waiter leaves while the
  signaller, which found the count not to be zero, has yet to set the event (`WaitersCounted`), and an
  event of the counted variable is set exactly when one more was sent than taken (`EventsCounted`).  The first waiter that has the mutex
  after an event was set is about to take it (`EventSeen`), and until it has, the signaller cannot have the mutex back.
- `EventsCorrect`: what the kernel will undo is known from where each process is
  (`AdjustmentsKnown`): of the lock, 1 for the consumer inside and nothing for others.  Until the creator has set
  the semaphores nobody is inside (`CreatedOnce`), so that forgetting what was to be undone is harmless.
  `EventsBacked` counts a message that was sent and whose event has not been raised.
- `LocksCorrect`: an invariant for each kind of lock.  Where the lock is right, the
  thread inside is one (`HeldByOne`), what it has read of the counter is still the counter, and the counter is the number of
  additions made, those between the addition and the end of the iteration included.  With the plain counter and the flag
  the counter is never more than that, which is all that can be said of them.
- `HandoffCorrect`: the parent and one worker are looked at as a pair.  What the parent has, then
  what is in the memory under its flags or in the pipe, then what the worker still has is the worker's two messages
  (`MemoryTalk`, `PipeTalk`); a step of the parent changes the pair of the worker it reads from, and no other.

`SequenceLemmas.tla` has what the last two modules need of induction.  The library's induction theorems take an operator as
a parameter and cannot be used here.  Their place is taken by sets: `LeastElement` and `UpTo` come from the theorem on well-founded
relations whose parameters are sets (`WFMin`), and `Recursion` shows by them that a function with given equations exists, and
`SameRecursion` that it is the only one.  That is enough for recursive functions: those of `Marks`, of the loop of `Parted` and of the
library's `FlattenSeq`.

Some operators have the form they have because of the proofs.  `Iterations` in `Locks` is a cardinality, not a sum; `Sorted` in
`Handoff` is by rank, not by recursion; `List` in `LibCoro` is the sequence that the links are those of.  `Marks` in `Shell` and
the loop in `Parted` of `CoroSort` are recursive functions of a natural number.  `Round` is one iteration of the loop of
`part()`, and none when its condition is false, so that `r - l + 1` of them are all that the code makes (`LoopIs` shows that the
condition is false then).  TLC evaluates the same definitions.  `CoroSort` takes for granted that there is a file, which
`main()` tests, and that numbers are between 0, as `generator.py` writes them, and `INT_MAX`.

Only model-checked, because the proof system has no rules for fairness and `ENABLED`:

- Liveness: `AllEnd`, `ScriptEnds`, `Answered`, `MainReturns`, `ReadReturns`, `WriteReturns`, and `<>ended` of `Cooperates`.

## Findings

Each has a run whose counterexample shows it.

1. `resize_to_zero`: `ufs_resize(fd, 0)` on a file with a block reads `next` of a
   NULL `new_last_block` (`3/userfs.c:434`), though later lines foresee NULL there.
2. `shrink_positions`: the shrink moves every descriptor with `block_num >=
   num_blocks` to the new end (`3/userfs.c:454`), also those inside the new last block and
   before the end, where the header speaks of those behind it.
3. `write_full_block`: `ufs_write` takes the room of a block from `occupied`
   instead of from the position (`3/userfs.c:294`).  Inside a block that is full,
   each iteration copies 0 bytes: the call never returns.  In a block that is
   not full the same line merely splits the copy at a place it need not.
4. `cthread_scan`: the scan of `main` restarts with `i = 0` and the `++i` of the loop makes
   it 1 (`12_cthread_detach.c:141-143`): "detached threads finished" may be printed, and the process end,
   before thread 0 has finished.
5. `sort_links`: `terminate()` sets `uc_link` when the coroutine ends (`1/main.c:94`), after `makecontext()`.
   A C library that reads `uc_link` in `makecontext()`, as the GNU library on x86-64 does, ends the
   program when the first coroutine ends.

Notes without a run, because no statement of the repository is contradicted or the model
abstracts from them:

- A growing `ufs_resize` (`3/userfs.c:419`) leaves the former last block as it is
  and adds blocks with `occupied` 0.  A read stops at the first such gap, and a later shrink
  (line 447) declares bytes occupied that were never written.
- `ufs_resize` does not look at `rw_flags`: a read-only descriptor may resize.
- A read that ends inside a block returns without setting `ufs_errcode`
  (lines 342-344), which then still has the value of an earlier call.
- A failed `realloc` at line 166 raises the capacity all the same; other
  allocations are not checked.  The model's `malloc` succeeds.
- `curr_size + size` at line 271 is computed in `size_t` and would wrap for sizes near
  2^64; no buffer of that size exists.
- `2/shell.c`: a redirection that directly follows `<` and its file is not seen by the one pass of
  `open_files()`, and stays in the arguments.  An empty quoted word is dropped, `"#"` in quotes begins a
  comment, and a quote inside a comment makes the next line part of it.  `cd x && y` does not run `y`.
  The `printf` of line 404 has no argument.  A pipeline that ends in `|` makes a pipe whose ends stay
  open, and its last command may wait for ever (`PipesComplete` excludes it).  When the last `fork()`
  of a pipeline fails, its status is that of another child, or uninitialised.
- `1/main.c` writes the sorted numbers over the unsorted ones without truncating the file, which is right
  when numbers are separated by single characters, as the model takes them to be.
- The servers with `select()` and `poll()` never close the socket of a client that has ended.
  Those with epoll and kqueue end when one connection is reset; the one over UNIX sockets dies of SIGPIPE when it
  answers a client that was killed.
- `9_sem_event_*.c`: when a source ends, the kernel takes back its events while its messages stay; when a
  consumer is killed after it has read, its events come back without messages.  `SETALL` of the source that
  created the semaphores may overwrite an event of another.
- `3_mem_sort.c`: `memcpy()` and the flags are ordered only by the flags being `volatile`; the model has the
  order of the text.  A worker whose file is missing leaves the parent waiting.
  `14_condvar.c` waits on a flag that is not volatile; the model reads it each time.
- `coro_alloca.c` uses an uninitialised `i` and does not advance `next`: it is not modelled.
- Line 414 of `3/userfs.c` has 512 where other lines have `BLOCK_SIZE`; they are equal.

## What is not modelled

Of the file system: the `prev`/`next` pointers of `file_list` (the list is a
set), and failing allocations.  Of the shell: what the standard output buffers of forked processes hold, and
the effect of `cd`.  Of `SemEvents`: the removal of semaphores and queue at the end of source 1, and
consumers that start before the semaphores exist; the code goes on with failed calls and an uninitialised
buffer there.  Of the servers: what happens before `listen()`, and the end of the server by its operator.

Not to be modelled: `3/test.c` and `3/unit.h` (tests), `4/` (empty bodies), the earlier versions of
cthread (each has a fault that the last one mends), `example_swap.c` (four switches in a fixed order) and
`coro_alloca.c`, the straight-line examples of single system calls (`2_processes`, `3_memory`,
`5_files`, most of `4_signals`, message queues, FIFOs and socket pairs), and the front
ends of file locks, `semop()`, robust mutexes and `setuid`, whose behaviour is the kernel's.

## Plan

Done: **UserFS** and **FlatFS**, **Cthread**; **ShellLine**, **Shell**; **Coop** with
**CoroSort**, **LibCoro**, **CoroJmp**; **Servers**; **Locks**, **Condvar**, **Handoff**, **SemEvents**,
**Wakeup**: models, runs, and proofs of all their safety properties.

To prove: what is left is liveness (above).

To model: **FileList**, the pointer-level list of `3/userfs.c`, implementing the set.
