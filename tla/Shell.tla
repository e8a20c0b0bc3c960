------------------------------- MODULE Shell -------------------------------
(***************************************************************************)
(* The processes of 2/shell.c.  main() reads lines (ShellLine) and forks a  *)
(* subshell for each, here a job, which runs execute_logic() and, for each  *)
(* pipeline, execute_pipeline(): it forks the stages, connects them and     *)
(* waits.  The commands are external: a stage ends with any status once     *)
(* what it reads is at its end and what it writes is taken.                 *)
(***************************************************************************)
EXTENDS ShellLine

CONSTANTS
  Scripts,     \* sequences of characters main() may get on its input
  JobIds,      \* 1 .. the number of subshells
  Codes,       \* exit statuses of commands
  MAX_FAULTS   \* bound on fork() and pipe() calls that fail, and crashes

ASSUME ShellAssumption ==
  /\ Scripts \subseteq Seq(STRING)
  /\ JobIds \subseteq Nat \ {0} /\ Codes \subseteq Nat /\ 0 \in Codes /\ 1 \in Codes
  /\ MAX_FAULTS \in Nat

VARIABLES
  input,       \* what main() has still to read
  line,        \* the line it is reading
  waits_for,   \* the job main() waits for, 0 when it reads
  jobs,        \* the subshells, by number
  faults       \* calls that have failed so far

shell_vars == <<input, line, waits_for, jobs, faults>>

NONE == <<>>            \* -1 in fd[]
R(pipe) == <<pipe, "r">>
W(pipe) == <<pipe, "w">>

NoJob == [pc |-> "none", list |-> <<>>, p |-> <<>>, tail |-> <<>>, op |-> "empty",
          q |-> <<>>, fd |-> <<NONE, NONE, NONE, NONE>>, open |-> {}, pipes |-> 0,
          last_pid |-> 0, fork_counter |-> 0, s |-> 0, code |-> 0, stages |-> <<>>,
          ran |-> <<>>]

Set(j, new) == jobs' = [jobs EXCEPT ![j] = new]
Fault == faults < MAX_FAULTS /\ faults' = faults + 1
Over(job) == job.pc \in {"none", "exited", "crashed", "reaped"}
Ended(stage) == stage.state \in {"exited", "reaped"}

-----------------------------------------------------------------------------
(* The subshell: execute_logic() *)

\* stages are the children of a pipeline, which LogicNext leaves reaped.
Logic(j) ==
  LET job == jobs[j]
      r   == split_logic(job.p)
  IN  /\ job.pc = "logic"
      /\ IF r.op = "empty" THEN Set(j, [job EXCEPT !.pc = "exited"])
         ELSE Set(j, [job EXCEPT !.pc = "pipe", !.op = r.op, !.tail = r.tail, !.q = r.head,
                                 !.fd = NoJob.fd, !.last_pid = 0, !.fork_counter = 0,
                                 !.s = -1, !.code = 1, !.stages = <<>>])
      /\ UNCHANGED <<input, line, waits_for, faults>>

\* Mutant: || stops at the next ||, as && does.
StopsAtOr(op) == "or"

\* The operator that the commands skipped after op end with.
StopsAt(op) == IF op = "or" THEN "and" ELSE "or"

\* A pipeline is over: which commands are to be skipped.
LogicNext(j) ==
  LET job  == jobs[j]
      skip == (job.op = "or") = (job.code = 0)
      done == [job EXCEPT !.ran = Append(@, <<Len(job.list) - Len(job.p) + 1, job.code>>)]
  IN  /\ job.pc = "wait" /\ job.fork_counter = 0
      /\ \/ job.op = "last" /\ Set(j, [done EXCEPT !.pc = "exited"])
         \/ job.op # "last" /\ skip /\ Set(j, [done EXCEPT !.pc = StopsAt(job.op)])
         \/ job.op # "last" /\ ~skip /\ Set(j, [done EXCEPT !.pc = "logic", !.p = job.tail])
      /\ UNCHANGED <<input, line, waits_for, faults>>

\* One iteration of the loops that skip: pc is the operator they stop at.
Skip(j) ==
  LET job == jobs[j]
      r   == split_logic(job.tail)
  IN  /\ job.pc \in {"and", "or"}
      /\ IF job.op \in {"empty", job.pc}
           THEN Set(j, [job EXCEPT !.pc = "logic", !.p = job.tail])
           ELSE Set(j, [job EXCEPT !.p = job.tail, !.op = r.op, !.tail = r.tail])
      /\ UNCHANGED <<input, line, waits_for, faults>>

-----------------------------------------------------------------------------
(* The subshell: execute_pipeline() *)

Stage(p, fd, ends) ==
  [state |-> "forked", p |-> p, at |-> 1, fd |-> fd, ends |-> ends, reads |-> FALSE, writes |-> FALSE,
   code |-> 0]

\* pipe() in every stage but the last, then fork(); each may fail.
Fork(j) ==
  LET job == jobs[j]
      r   == split_pipeline(job.q)
      n   == job.pipes + 1
      calls == IF r.op = "last" THEN {"fork"} ELSE {"pipe", "fork"}
      piped == [job EXCEPT !.fd[3] = R(n), !.fd[4] = W(n), !.open = @ \cup {R(n), W(n)},
                           !.pipes = n]
  IN  /\ job.pc = "pipe" /\ r.op # "empty"
      /\ \E failed \in SUBSET calls :
           LET before == IF "pipe" \in calls \ failed THEN piped ELSE job
               after  == IF "fork" \in failed THEN [before EXCEPT !.last_pid = 0]
                         ELSE [before EXCEPT !.last_pid = Len(before.stages) + 1,
                                             !.stages = Append(@, Stage(r.head, before.fd, before.open))]
           IN  /\ Set(j, [after EXCEPT !.pc = "prepare", !.q = r.tail])
               /\ faults' = faults + Cardinality(failed) /\ faults' <= MAX_FAULTS
      /\ UNCHANGED <<input, line, waits_for>>

\* Mutant: the write end of the pipe behind is kept open.
prepare_fd_keeps(job) ==
  [job EXCEPT !.fd = <<job.fd[3], job.fd[4], NONE, NONE>>, !.open = @ \ {job.fd[1]}]

prepare_fd(job) ==
  [job EXCEPT !.fd = <<job.fd[3], job.fd[4], NONE, NONE>>, !.open = @ \ {job.fd[1], job.fd[2]}]

Prepare(j) ==
  LET job == jobs[j]
  IN  /\ job.pc = "prepare"
      /\ Set(j, [prepare_fd(job) EXCEPT !.pc = "pipe", !.fork_counter = @ + 1])
      /\ UNCHANGED <<input, line, waits_for, faults>>

\* printf("execute %s\n") has no argument for the %s: it may print anything
\* or end the subshell with a signal.
PrintfCrash(j) ==
  /\ jobs[j].pc = "prepare"
  /\ Set(j, [jobs[j] EXCEPT !.pc = "crashed", !.open = {}]) /\ Fault
  /\ UNCHANGED <<input, line, waits_for>>

AllForked(j) ==
  /\ jobs[j].pc = "pipe" /\ split_pipeline(jobs[j].q).op = "empty"
  /\ Set(j, [jobs[j] EXCEPT !.pc = "wait"])
  /\ UNCHANGED <<input, line, waits_for, faults>>

\* Mutant: the status is that of the stage that ends last.
StatusOfAny(job, pid, code) == code

\* The status after wait() has returned pid.
StatusAfter(job, pid, code) == IF pid = job.last_pid THEN code ELSE job.code

\* One wait().  Without children it returns -1, which last_pid is after a
\* failed fork(), and leaves s as it was, at first uninitialized.
Wait(j) ==
  LET job == jobs[j]
      left == {k \in DOMAIN job.stages : job.stages[k].state # "reaped"}
      After(pid, code) == [job EXCEPT !.fork_counter = @ - 1, !.s = code,
                                      !.code = StatusAfter(job, pid, code)]
  IN  /\ job.pc = "wait" /\ job.fork_counter > 0
      /\ \/ \E k \in left :
              /\ job.stages[k].state = "exited"
              /\ Set(j, [After(k, job.stages[k].code) EXCEPT !.stages[k].state = "reaped"])
         \/ /\ left = {}
            /\ \E code \in IF job.s = -1 THEN Codes ELSE {job.s} : Set(j, After(0, code))
      /\ UNCHANGED <<input, line, waits_for, faults>>

-----------------------------------------------------------------------------
(* A stage: the child of execute_pipeline() *)

\* Mutant: close_pipe_fork() is not called.
EndsAll(stage) == stage.ends

\* dup_pipe() and close_pipe_fork(): of the ends it was born with, those it
\* leaves open.
EndsKept(stage) == stage.ends \ {stage.fd[2], stage.fd[3]}

Connect(j, k) ==
  LET stage == jobs[j].stages[k]
  IN  /\ stage.state = "forked"
      /\ jobs' = [jobs EXCEPT ![j].stages[k] = [stage EXCEPT !.state = "opening",
                                                             !.ends = EndsKept(stage)]]
      /\ UNCHANGED <<input, line, waits_for, faults>>

\* One iteration of open_files().  What is opened replaces an end of a pipe;
\* an open() that fails does not.
Open(j, k) ==
  LET stage == jobs[j].stages[k]
      next  == OpenNext(stage.p, stage.at)
  IN  /\ stage.state = "opening" /\ stage.at < Len(stage.p)
      /\ \E in \in {next.in, FALSE}, out \in {next.out, FALSE} :
           jobs' = [jobs EXCEPT ![j].stages[k] =
                      [stage EXCEPT !.p = next.p, !.at = @ + 1,
                                    !.ends = @ \ ((IF in THEN {stage.fd[1]} ELSE {})
                                                  \cup (IF out THEN {stage.fd[4]} ELSE {}))]]
      /\ UNCHANGED <<input, line, waits_for, faults>>

\* What is left of p is its argv; it may read and write what is open.
Exec(j, k) ==
  LET stage == jobs[j].stages[k]
  IN  /\ stage.state = "opening" /\ stage.at >= Len(stage.p)
      /\ \E reads \in {FALSE, stage.fd[1] \in stage.ends},
            writes \in {FALSE, stage.fd[4] \in stage.ends} :
           jobs' = [jobs EXCEPT ![j].stages[k] =
                      [stage EXCEPT !.state = "running", !.reads = reads, !.writes = writes]]
      /\ UNCHANGED <<input, line, waits_for, faults>>

HeldBy(job, end) ==
  end \in job.open \/ \E k \in DOMAIN job.stages : end \in job.stages[k].ends

\* A command that reads goes on until its input ends; one that writes more
\* than a pipe holds needs a reader, and is killed when there is none.
AtEof(job, stage) == ~HeldBy(job, W(stage.fd[1][1]))
Taken(job, stage) == \E k \in DOMAIN job.stages :
                       job.stages[k].reads /\ R(stage.fd[4][1]) \in job.stages[k].ends
Broken(job, stage) == ~HeldBy(job, R(stage.fd[4][1]))

EndStage(j, k, code) ==
  /\ jobs' = [jobs EXCEPT ![j].stages[k] = [@ EXCEPT !.state = "exited", !.ends = {},
                                             !.reads = FALSE, !.writes = FALSE, !.code = code]]
  /\ UNCHANGED <<input, line, waits_for, faults>>

Finish(j, k) ==
  LET job == jobs[j]
      stage == job.stages[k]
  IN  /\ stage.state = "running"
      /\ stage.reads => AtEof(job, stage)
      /\ stage.writes => Taken(job, stage)
      /\ \E code \in Codes : EndStage(j, k, code)

\* SIGPIPE: the status counts as 1.
Killed(j, k) ==
  LET stage == jobs[j].stages[k]
  IN  /\ stage.state = "running" /\ stage.writes /\ Broken(jobs[j], stage)
      /\ EndStage(j, k, 1)

-----------------------------------------------------------------------------
(* main() and execute() *)

Read ==
  /\ waits_for = 0 /\ input # <<>> /\ ~EndsLine(line, Head(input))
  /\ line' = ReadChar(line, Head(input))
  /\ input' = Tail(input)
  /\ UNCHANGED <<waits_for, jobs, faults>>

\* Mutant: waitpid() is called once.
kill_one(js) ==
  LET ended == {j \in JobIds : js[j].pc \in {"exited", "crashed"}}
  IN  [j \in JobIds |-> IF j \in ended /\ j = Min(ended) THEN [js[j] EXCEPT !.pc = "reaped"]
                        ELSE js[j]]

\* Every child that has ended is taken away.
kill_zombie(js) == [j \in JobIds |-> IF js[j].pc \in {"exited", "crashed"}
                                       THEN [js[j] EXCEPT !.pc = "reaped"] ELSE js[j]]

Job(list) == [NoJob EXCEPT !.pc = "logic", !.list = list, !.p = list]

Execute ==
  LET list == strip_comment(ReadChar(line, Head(input)).list)
      command == check_block(list)
  IN  /\ waits_for = 0 /\ input # <<>> /\ EndsLine(line, Head(input))
      /\ line' = NoLine /\ input' = Tail(input)
      /\ IF list = <<>> \/ execute_cd(command) THEN UNCHANGED <<waits_for, jobs, faults>>
         ELSE \/ UNCHANGED <<waits_for, jobs>> /\ Fault
              \/ /\ \E j \in JobIds :
                      /\ jobs[j].pc = "none" /\ \A i \in JobIds : i < j => jobs[i].pc # "none"
                      /\ IF InBackground(list)
                           THEN /\ jobs' = kill_zombie([jobs EXCEPT ![j] = Job(command)])
                                /\ UNCHANGED waits_for
                           ELSE jobs' = [jobs EXCEPT ![j] = Job(command)] /\ waits_for' = j
                 /\ UNCHANGED faults

Waited ==
  /\ waits_for # 0 /\ jobs[waits_for].pc \in {"exited", "crashed"}
  /\ jobs' = kill_zombie(jobs) /\ waits_for' = 0
  /\ UNCHANGED <<input, line, faults>>

-----------------------------------------------------------------------------
Init ==
  /\ input \in Scripts
  /\ line = NoLine /\ waits_for = 0 /\ faults = 0
  /\ jobs = [j \in JobIds |-> NoJob]

Subshell(j) ==
  Logic(j) \/ LogicNext(j) \/ Skip(j) \/ Fork(j) \/ Prepare(j) \/ PrintfCrash(j)
  \/ AllForked(j) \/ Wait(j)

Command(j) == \E k \in DOMAIN jobs[j].stages : 
  Connect(j, k) \/ Open(j, k) \/ Exec(j, k) \/ Finish(j, k) \/ Killed(j, k)

Next == Read \/ Execute \/ Waited \/ \E j \in JobIds : Subshell(j) \/ Command(j)

\* The kernel schedules every process; commands end when nothing holds them.
Spec == Init /\ [][Next]_shell_vars /\ WF_shell_vars(Next)

-----------------------------------------------------------------------------
(* Reading: a reference by positions in the text of the line. *)

\* For each character, whether it is escaped and the quote it leaves open.
Mark(m, c) ==
  LET before == IF m = <<>> THEN [c |-> Space, escaped |-> FALSE, quote |-> "none"] ELSE Last(m)
      escaped == before.c = Backslash /\ ~before.escaped /\ before.quote # SQuote
      quote == CASE escaped \/ c \notin {SQuote, DQuote} -> before.quote
                 [] ~escaped /\ c \in {SQuote, DQuote} /\ before.quote = "none" -> c
                 [] ~escaped /\ c = before.quote -> "none"
                 [] OTHER -> before.quote
  IN  [c |-> c, escaped |-> escaped, quote |-> quote, quotes |-> quote # before.quote]
Marks(t) ==
  LET marks[i \in 0 .. Len(t)] ==
        IF i = 0 THEN <<>> ELSE Append(marks[i - 1], Mark(marks[i - 1], t[i]))
  IN  marks[Len(t)]

\* An operator or a blank that is neither escaped nor quoted.
Separator(m) == m.c \in spec_symbol \cup {Space, NewLine} /\ ~m.escaped /\ m.quote = "none"

\* What each character leaves in the words.
Kept(m) ==
  CASE m.escaped -> IF m.c = NewLine THEN <<>>
                    ELSE IF m.c \in need_escape THEN <<m.c>> ELSE <<Backslash, m.c>>
    [] ~m.escaped /\ Separator(m) -> IF m.c \in spec_symbol THEN <<m.c>> ELSE <<>>
    [] ~m.escaped /\ (m.quotes \/ (m.c = Backslash /\ m.quote # SQuote)) -> <<>>
    [] OTHER -> <<m.c>>

KeptBy(marks) == FlattenSeq([i \in DOMAIN marks |-> Kept(marks[i])])
Words(list) == FlattenSeq([n \in DOMAIN list |-> list[n].word])

\* How much of what is kept comes from the first i characters, and how much is
\* in the first n words.
CutAt(marks, i) == Len(KeptBy(SubSeq(marks, 1, i)))
EndOf(list, n) == Len(Words(SubSeq(list, 1, n)))

Separators(marks) == {i \in DOMAIN marks : Separator(marks[i])}
Operators(marks) == {i \in Separators(marks) : marks[i].c \in spec_symbol}

Faithful(l) ==
  LET marks == Marks(l.text)
      ops   == Operators(marks)
  IN  /\ Words(l.list) \o l.buf = KeptBy(marks)
      /\ {EndOf(l.list, n) : n \in 0 .. Len(l.list)}
           = {0} \cup UNION {{CutAt(marks, i - 1), CutAt(marks, i)} : i \in Separators(marks)}
      /\ \A n \in DOMAIN l.list :
           LET here == {i \in ops : CutAt(marks, i - 1) = EndOf(l.list, n - 1)}
           IN  /\ l.list[n].word # <<>>
               /\ here = {} => l.list[n].spec = "default"
               /\ \A i \in here :
                    l.list[n] = Token(<<marks[i].c>>, IF i - 1 \in ops THEN "second" ELSE "first")

\* The words of a line hold every character that is neither a blank nor a
\* quote nor a backslash used as one, in order; they are cut at the operators
\* and blanks outside of quotes and nowhere else, none is empty; and an
\* operator is a word of its own, the second of a pair exactly when the
\* character before it is an operator too: while a line is read and when it
\* is complete (main(), lines 519-589).
TokensFaithful ==
  /\ Faithful(line)
  /\ input # <<>> /\ EndsLine(line, Head(input)) => Faithful(ReadChar(line, Head(input)))

-----------------------------------------------------------------------------
(* The processes *)

\* Behind every | that is not the first of || there is a command: no pipeline
\* of the chain ends in a |, for which a pipe is made that no stage takes.
PipesComplete(list) ==
  \A i \in DOMAIN list : check_pipe(list, i) /\ ~check_or(list, i) =>
    i < Len(list) /\ ~check_or(list, i + 1) /\ ~check_and(list, i + 1)

\* When a subshell waits it holds no end of a pipe, and a command that runs
\* holds the read end of the pipe behind it and the write end of the one
\* ahead of it only: else a reader would never see the end of its input
\* (prepare_fd(), dup_pipe(), close_pipe_fork()), whichever fork() or pipe()
\* failed.  This is said of every pipeline of a chain of && and ||; it is not
\* true of a chain with a pipeline that ends in a |.
PipesClosed ==
  \A j \in JobIds : PipesComplete(jobs[j].list) =>
    /\ jobs[j].pc \in {"wait", "logic", "exited"} => jobs[j].open = {}
    /\ \A k \in DOMAIN jobs[j].stages :
         LET stage == jobs[j].stages[k]
         IN  stage.state = "running" => stage.ends \subseteq {stage.fd[1], stage.fd[4]}

\* When a pipeline is over all of its commands have been waited for, although
\* those that could not be forked are counted as well.  Its status is that of
\* its last command, in whatever order the commands end and whatever else of
\* it could not be forked; when it is the last that could not, wait() gives -1
\* as fork() did, and the status is that of another command of it, if there
\* is one (lines 410-415).
PipelineStatus ==
  \A j \in JobIds : jobs[j].pc = "wait" /\ jobs[j].fork_counter = 0 =>
    LET job == jobs[j]
    IN  /\ \A stage \in Range(job.stages) : stage.state = "reaped"
        /\ job.last_pid # 0 => job.code = job.stages[job.last_pid].code
        /\ job.last_pid = 0 /\ job.stages # <<>> =>
             \E stage \in Range(job.stages) : job.code = stage.code

\* Where the pipelines of a chain begin, and the operator before each.
OpAt(list, i) == CASE i = 1 -> "first"
                   [] i > 1 /\ check_or(list, i - 2) -> "or"
                   [] i > 1 /\ ~check_or(list, i - 2) -> "and"
Pipelines(list) == {1} \cup {i \in 4 .. Len(list) : check_or(list, i - 2) \/ check_and(list, i - 2)}
WellFormed(list) ==
  \A i \in DOMAIN list : list[i].spec # "default" =>
     i > 1 /\ i < Len(list) /\ (list[i].spec = "first" => list[i - 1].spec = "default")
           /\ list[i + 1].spec = IF check_or(list, i) \/ check_and(list, i) THEN "second" ELSE "default"

\* && and || associate to the left: a pipeline runs exactly when the status
\* of the last one that ran, however far behind, is zero for && and is not
\* for || (execute_logic(): the loops of lines 429-442).
LogicSound ==
  \A j \in JobIds : jobs[j].pc = "exited" /\ WellFormed(jobs[j].list) =>
    LET job == jobs[j]
        at == {run[1] : run \in Range(job.ran)}
        StatusBefore(i) == job.ran[Cardinality({k \in at : k < i})][2]
    IN  /\ \A n \in 1 .. Len(job.ran) - 1 : job.ran[n][1] < job.ran[n + 1][1]
        /\ at = {i \in Pipelines(job.list) :
                   \/ i = 1
                   \/ OpAt(job.list, i) = "and" /\ StatusBefore(i) = 0
                   \/ OpAt(job.list, i) = "or" /\ StatusBefore(i) # 0}

\* Where main() goes on behind a command it has run or started.
GoesOnReading ==
  /\ waits_for' = 0
  /\ waits_for # 0 \/ \E j \in JobIds : jobs[j].pc = "none" /\ jobs'[j].pc # "none"

\* When main() goes on, every subshell that has ended by then is reaped, those
\* in the background included that ended while another was waited for; only
\* one that has ended is, and once (execute(), kill_zombie()).
ZombiesReaped ==
  [][/\ GoesOnReading => \A j \in JobIds : jobs'[j].pc \notin {"exited", "crashed"}
     /\ \A j \in JobIds : /\ jobs[j].pc = "reaped" => jobs'[j].pc = "reaped"
                          /\ jobs'[j].pc = "reaped" => Over(jobs[j]) /\ jobs[j].pc # "none"]_shell_vars

\* Every job comes to its end, and every command of it: no pipe keeps a
\* command waiting and no wait() is for a child that will not come, whichever
\* call failed; and main() reads every line.  Only a job with a pipeline that
\* ends in a | may wait for ever, and main() for it.
ScriptEnds ==
  <>[](/\ \A j \in JobIds : PipesComplete(jobs[j].list) =>
            Over(jobs[j]) /\ \A stage \in Range(jobs[j].stages) : Ended(stage)
       /\ \/ input = <<>> /\ waits_for = 0
          \/ waits_for # 0 /\ ~PipesComplete(jobs[waits_for].list))
=============================================================================
