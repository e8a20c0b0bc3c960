---------------------------- MODULE ShellProofs ----------------------------
(***************************************************************************)
(* The invariants of Shell's processes, for every script, any number of    *)
(* jobs, any exit statuses and any number of calls that fail.              *)
(***************************************************************************)
EXTENDS Shell, SequenceLemmas, FiniteSetTheorems

\* The characters: that the name of one is a string is nothing the provers
\* know.
Chars == STRING \cup {Backslash, Space}

\* The types of a line and of the words on it.
Tokens == [word : Seq(Chars), spec : {"default", "first", "second"}]
LineType ==
  [buf : Seq(Chars), list : Seq(Tokens), text : Seq(Chars), is_quote_d : BOOLEAN,
   is_quote_s : BOOLEAN, is_escape : BOOLEAN, is_prev_spec : BOOLEAN]
SplitType ==
  [op : {"empty", "last", "default", "or", "and"}, head : Seq(Tokens), tail : Seq(Tokens)]

\* The types of a stage and of a job.
Ends == {NONE} \cup {R(n) : n \in Nat} \cup {W(n) : n \in Nat}
StageType ==
  [state : {"forked", "opening", "running", "exited", "reaped"}, p : Seq(Tokens), at : Nat \ {0},
   fd : [1 .. 4 -> Ends], ends : SUBSET Ends, reads : BOOLEAN, writes : BOOLEAN, code : Codes]
JobType ==
  [pc : {"none", "logic", "pipe", "prepare", "wait", "and", "or", "exited", "crashed", "reaped"},
   list : Seq(Tokens), p : Seq(Tokens), tail : Seq(Tokens),
   op : {"empty", "last", "default", "or", "and"}, q : Seq(Tokens), fd : [1 .. 4 -> Ends],
   open : SUBSET Ends, pipes : Nat, last_pid : Nat, fork_counter : Nat, s : Codes \cup {-1},
   code : Codes, stages : Seq(StageType), ran : Seq(Int \X Codes)]

ShellTypeOK ==
  /\ input \in Seq(Chars) /\ line \in LineType
  /\ jobs \in [JobIds -> JobType]

-----------------------------------------------------------------------------
(* The words of a line *)

\* The sequence operators on words that the proofs use.
LEMMA Pieces ==
  ASSUME NEW S, NEW s \in Seq(S), NEW m \in Nat \ {0}, NEW n \in 0 .. Len(s)
  PROVE  /\ SubSeq(s, m, n) \in Seq(S)
         /\ Len(SubSeq(s, m, n)) = IF m <= n THEN n - m + 1 ELSE 0
         /\ \A i \in 1 .. n - m + 1 : SubSeq(s, m, n)[i] = s[m + i - 1]
<1>1. m \in Int /\ n \in Int /\ \A i \in m .. n : s[i] \in S
  OBVIOUS
<1> QED BY <1>1, SubSeqProperties

\* A sequence of one element.
LEMMA Single ==
  ASSUME NEW S, NEW c \in S
  PROVE  <<c>> \in Seq(S)
OBVIOUS

\* A sequence over a larger set.
LEMMA WiderSeq ==
  ASSUME NEW S, NEW T, S \subseteq T, NEW s \in Seq(S)
  PROVE  s \in Seq(T)
<1>1. s \in [1 .. Len(s) -> T] /\ Len(s) \in Nat
  OBVIOUS
<1> QED BY <1>1

\* The smallest of some positions in a sequence.
LEMMA FirstOf ==
  ASSUME NEW T \in SUBSET Nat, T # {}
  PROVE  Min(T) \in T /\ \A i \in T : Min(T) <= i
<1>1. PICK i \in T : \A k \in T : <<k, i>> \notin OpToRel(<, Nat)
  BY WFMin, NatLessThanWellFounded, Zenon
<1>2. \A k \in T : ~(k < i)
  BY <1>1, Zenon DEF OpToRel
<1>3. \A k \in T : i <= k
  BY <1>2
<1> QED BY <1>3 DEF Min

\* A word is made of a buffer.
LEMMA InsertListType ==
  ASSUME NEW l \in LineType, NEW spec \in {"default", "first", "second"}
  PROVE  insert_list(l, spec) \in LineType
<1>1. Token(l.buf, spec) \in Tokens
  BY DEF Token, Tokens, LineType
<1> DEFINE list == Append(l.list, Token(l.buf, spec))
<1>2. list \in Seq(Tokens) /\ << >> \in Seq(Chars)
  BY <1>1 DEF LineType
<1> HIDE DEF list
<1>3. [l EXCEPT !.list = list, !.buf = << >>] \in LineType
  BY <1>2 DEF LineType
<1> QED BY <1>3 DEF insert_list, list

\* A character is put at the end of the buffer.
LEMMA InsertBufferType ==
  ASSUME NEW l \in LineType, NEW c \in Chars
  PROVE  insert_buffer(l, c) \in LineType
<1> DEFINE buf == Append(l.buf, c)
<1>1. buf \in Seq(Chars)
  BY DEF LineType
<1> HIDE DEF buf
<1>2. [l EXCEPT !.buf = buf] \in LineType
  BY <1>1 DEF LineType
<1> QED BY <1>2 DEF insert_buffer, buf

\* The line keeps its type whatever character comes next.
LEMMA ReadCharType ==
  ASSUME NEW l \in LineType, NEW c \in Chars
  PROVE  ReadChar(l, c) \in LineType
<1> DEFINE plain == [l EXCEPT !.is_prev_spec = FALSE]
<1>1. plain \in LineType
  BY DEF LineType
<1> HIDE DEF plain
<1>2. Escaped(l, c) \in LineType
  <2> DEFINE buf == l.buf \o (IF c \in need_escape THEN << >> ELSE <<Backslash>>)
                          \o (IF c = NewLine THEN << >> ELSE <<c>>)
  <2>1. buf \in Seq(Chars)
    <3>0. << >> \in Seq(Chars) /\ <<Backslash>> \in Seq(Chars) /\ <<c>> \in Seq(Chars)
      <4>1. Backslash \in Chars
        BY DEF Chars
      <4>2. << >> \in Seq(Chars)
        OBVIOUS
      <4> QED BY <4>1, <4>2, Single, Zenon
    <3>1. PICK e \in Seq(Chars) : e = IF c \in need_escape THEN << >> ELSE <<Backslash>>
      BY <3>0, Zenon
    <3>2. PICK d \in Seq(Chars) : d = IF c = NewLine THEN << >> ELSE <<c>>
      BY <3>0, Zenon
    <3>3. l.buf \in Seq(Chars)
      BY DEF LineType
    <3> QED BY <3>1, <3>2, <3>3, ConcatProperties, Zenon
  <2> HIDE DEF buf
  <2>2. [l EXCEPT !.is_escape = FALSE, !.buf = buf] \in LineType
    BY <2>1 DEF LineType
  <2> QED BY <2>2 DEF Escaped, buf
<1>3. DoubleQuote(plain, c) \in LineType
  <2>1. [plain EXCEPT !.is_quote_d = ~@] \in LineType
    BY <1>1 DEF LineType
  <2> QED BY <1>1, <2>1, InsertBufferType DEF DoubleQuote
<1>4. SingleQuote(plain, c) \in LineType
  <2>1. [plain EXCEPT !.is_quote_s = ~@] \in LineType
    BY <1>1 DEF LineType
  <2> QED BY <1>1, <2>1, InsertBufferType DEF SingleQuote
<1>5. Escape(plain, c) \in LineType
  <2>1. [plain EXCEPT !.is_escape = TRUE] \in LineType
    BY <1>1 DEF LineType
  <2> QED BY <1>1, <2>1, InsertBufferType DEF Escape
<1>6. Operator(l, c) \in LineType
  <2> PICK spec \in {"default", "first", "second"} :
        spec = IF l.is_prev_spec THEN "second" ELSE "first"
    OBVIOUS
  <2> PICK a \in LineType : a = insert_list(l, "default")
    BY InsertListType
  <2>1. <<c>> \in Seq(Chars)
    BY Single, Zenon
  <2>2. [a EXCEPT !.buf = <<c>>] \in LineType
    BY <2>1 DEF LineType
  <2> PICK b \in LineType : b = insert_list([a EXCEPT !.buf = <<c>>], spec)
    BY <2>2, InsertListType
  <2>3. [b EXCEPT !.is_prev_spec = TRUE] \in LineType
    BY DEF LineType
  <2>4. Operator(l, c) = [b EXCEPT !.is_prev_spec = TRUE]
    BY DEF Operator
  <2> QED BY <2>3, <2>4
<1> DEFINE next ==
      CASE l.is_escape                  -> Escaped(l, c)
        [] ~l.is_escape /\ c = DQuote    -> DoubleQuote(plain, c)
        [] ~l.is_escape /\ c = SQuote    -> SingleQuote(plain, c)
        [] ~l.is_escape /\ c = Backslash -> Escape(plain, c)
        [] OTHER ->
           IF c \notin spec_symbol \cup {Space, NewLine}
             THEN insert_buffer(plain, c)
           ELSE IF Quoted(l) THEN insert_buffer(l, c)
           ELSE IF c \in spec_symbol THEN Operator(l, c)
           ELSE insert_list(plain, "default")
<1>7. next \in LineType
  <2>1. /\ insert_buffer(plain, c) \in LineType
        /\ insert_buffer(l, c) \in LineType
        /\ insert_list(plain, "default") \in LineType
    BY <1>1, InsertBufferType, InsertListType
  <2>2. DQuote # SQuote /\ DQuote # Backslash /\ SQuote # Backslash
    BY DEF DQuote, SQuote, Backslash
  <2>3. CASE l.is_escape
    BY <1>2, <2>3
  <2>4. CASE ~l.is_escape /\ c = DQuote
    BY <1>3, <2>2, <2>4
  <2>5. CASE ~l.is_escape /\ c = SQuote
    BY <1>4, <2>2, <2>5
  <2>6. CASE ~l.is_escape /\ c = Backslash
    BY <1>5, <2>2, <2>6
  <2>7. CASE ~l.is_escape /\ c # DQuote /\ c # SQuote /\ c # Backslash
    BY <1>6, <2>1, <2>7
  <2> QED BY <2>3, <2>4, <2>5, <2>6, <2>7
<1>8. ReadChar(l, c) = [next EXCEPT !.text = Append(@, c)]
  BY DEF ReadChar, plain
<1> HIDE DEF next
<1> DEFINE text == Append(next.text, c)
<1>9. text \in Seq(Chars)
  BY <1>7 DEF LineType
<1> HIDE DEF text
<1>10. [next EXCEPT !.text = text] \in LineType
  BY <1>7, <1>9 DEF LineType
<1> QED BY <1>8, <1>10 DEF text

-----------------------------------------------------------------------------
(* The list of words *)

\* Where split_logic() cuts: at the first && or || behind the first word.
LEMMA SplitLogicIs ==
  ASSUME NEW p \in Seq(Tokens)
  PROVE  \/ p = << >> /\ split_logic(p) = Split("empty", << >>, << >>)
         \/ /\ p # << >> /\ split_logic(p) = Split("last", p, << >>)
            /\ \A i \in 2 .. Len(p) : ~check_or(p, i) /\ ~check_and(p, i)
         \/ \E i \in 2 .. Len(p) :
              /\ check_or(p, i) \/ check_and(p, i)
              /\ \A k \in 2 .. i - 1 : ~check_or(p, k) /\ ~check_and(p, k)
              /\ split_logic(p) = Split(IF check_or(p, i) THEN "or" ELSE "and",
                                        SubSeq(p, 1, i - 1), SubSeq(p, i + 2, Len(p)))
<1> DEFINE ops == {i \in 2 .. Len(p) : check_or(p, i) \/ check_and(p, i)}
<1>1. CASE p = << >>
  BY <1>1 DEF split_logic
<1>2. CASE p # << >> /\ ops = {}
  BY <1>2 DEF split_logic
<1>3. CASE p # << >> /\ ops # {}
  <2>1. ops \in SUBSET Nat
    OBVIOUS
  <2>2. Min(ops) \in ops /\ \A k \in ops : Min(ops) <= k
    BY <2>1, <1>3, FirstOf, Zenon
  <2>3. split_logic(p) = Split(IF check_or(p, Min(ops)) THEN "or" ELSE "and",
                               SubSeq(p, 1, Min(ops) - 1), SubSeq(p, Min(ops) + 2, Len(p)))
    BY <1>3, Zenon DEF split_logic
  <2> PICK i \in ops : i = Min(ops)
    BY <2>2, Zenon
  <2>4. \A k \in ops : i <= k
    BY <2>2
  <2>5. \A k \in 2 .. i - 1 : k \in 2 .. Len(p) /\ k \notin ops
    BY <2>4
  <2>6. \A k \in 2 .. i - 1 : ~check_or(p, k) /\ ~check_and(p, k)
    BY <2>5, Zenon
  <2>7. i \in 2 .. Len(p) /\ (check_or(p, i) \/ check_and(p, i))
    BY Zenon
  <2> QED BY <2>3, <2>6, <2>7, Zenon
<1> QED BY <1>1, <1>2, <1>3

\* Where split_pipeline() cuts: at the first | behind the first word.
LEMMA SplitPipelineIs ==
  ASSUME NEW p \in Seq(Tokens)
  PROVE  \/ p = << >> /\ split_pipeline(p) = Split("empty", << >>, << >>)
         \/ p # << >> /\ split_pipeline(p) = Split("last", p, << >>)
         \/ \E i \in 2 .. Len(p) :
              /\ check_pipe(p, i)
              /\ split_pipeline(p) = Split("default", SubSeq(p, 1, i - 1), SubSeq(p, i + 1, Len(p)))
<1> DEFINE pipes == {i \in 2 .. Len(p) : check_pipe(p, i)}
<1>1. CASE p = << >>
  BY <1>1 DEF split_pipeline
<1>2. CASE p # << >> /\ pipes = {}
  BY <1>2 DEF split_pipeline
<1>3. CASE p # << >> /\ pipes # {}
  <2>1. pipes \in SUBSET Nat
    OBVIOUS
  <2>2. Min(pipes) \in pipes
    BY <2>1, <1>3, FirstOf, Zenon
  <2>3. split_pipeline(p) = Split("default", SubSeq(p, 1, Min(pipes) - 1),
                                  SubSeq(p, Min(pipes) + 1, Len(p)))
    BY <1>3, Zenon DEF split_pipeline
  <2> QED BY <2>2, <2>3, Zenon
<1> QED BY <1>1, <1>2, <1>3

\* The parts of a cut have the types of lists.
LEMMA SplitTypes ==
  ASSUME NEW p \in Seq(Tokens)
  PROVE  /\ split_logic(p) \in SplitType
         /\ split_pipeline(p) \in SplitType
<1>1. << >> \in Seq(Tokens)
  OBVIOUS
<1>2. \A op \in {"empty", "last", "default", "or", "and"}, h, u \in Seq(Tokens) :
        Split(op, h, u) \in SplitType
  BY DEF Split, SplitType
<1>3. \A i \in 2 .. Len(p) : /\ SubSeq(p, 1, i - 1) \in Seq(Tokens)
                             /\ SubSeq(p, i + 1, Len(p)) \in Seq(Tokens)
                             /\ SubSeq(p, i + 2, Len(p)) \in Seq(Tokens)
  <2> TAKE i \in 2 .. Len(p)
  <2>1. /\ 1 \in Nat \ {0} /\ i + 1 \in Nat \ {0} /\ i + 2 \in Nat \ {0}
        /\ i - 1 \in 0 .. Len(p) /\ Len(p) \in 0 .. Len(p)
    OBVIOUS
  <2> QED BY <2>1, Pieces, Zenon
<1>4. split_pipeline(p) \in SplitType
  BY <1>1, <1>2, <1>3, SplitPipelineIs, Zenon
<1>5. split_logic(p) \in SplitType
  <2>1. CASE \/ split_logic(p) = Split("empty", << >>, << >>)
             \/ split_logic(p) = Split("last", p, << >>)
    BY <2>1, <1>1, <1>2, Zenon
  <2>2. ASSUME NEW i \in 2 .. Len(p),
               split_logic(p) = Split(IF check_or(p, i) THEN "or" ELSE "and",
                                      SubSeq(p, 1, i - 1), SubSeq(p, i + 2, Len(p)))
        PROVE  split_logic(p) \in SplitType
    <3>1. PICK op \in {"empty", "last", "default", "or", "and"} :
            op = IF check_or(p, i) THEN "or" ELSE "and"
      OBVIOUS
    <3>2. split_logic(p) = Split(op, SubSeq(p, 1, i - 1), SubSeq(p, i + 2, Len(p)))
      BY <2>2, <3>1, Zenon
    <3> QED BY <3>2, <1>2, <1>3, Zenon
  <2> QED BY <2>1, <2>2, SplitLogicIs, Zenon
<1> QED BY <1>4, <1>5

\* A comment and an & at the end are taken off a list.
LEMMA StripTypes ==
  ASSUME NEW list \in Seq(Tokens)
  PROVE  /\ strip_comment(list) \in Seq(Tokens)
         /\ check_block(list) \in Seq(Tokens)
<1>1. strip_comment(list) \in Seq(Tokens)
  <2> DEFINE comments == {i \in DOMAIN list : Head(list[i].word) = "#"}
  <2>1. CASE comments # {}
    <3>1. comments \in SUBSET Nat
      OBVIOUS
    <3>2. Min(comments) \in comments
      BY <3>1, <2>1, FirstOf, Zenon
    <3>3. Min(comments) - 1 \in 0 .. Len(list) /\ 1 \in Nat \ {0}
      <4> PICK i \in comments : i = Min(comments)
        BY <3>2, Zenon
      <4>1. i \in 1 .. Len(list)
        OBVIOUS
      <4> QED BY <4>1
    <3>4. SubSeq(list, 1, Min(comments) - 1) \in Seq(Tokens)
      BY <3>3, Pieces, Zenon
    <3> QED BY <3>4, <2>1, Zenon DEF strip_comment
  <2> QED BY <2>1, Zenon DEF strip_comment
<1>2. check_block(list) \in Seq(Tokens)
  <2>1. CASE InBackground(list)
    <3>1. Len(list) > 1
      BY <2>1 DEF InBackground
    <3>2. Len(list) - 1 \in 0 .. Len(list) /\ 1 \in Nat \ {0}
      BY <3>1
    <3>3. SubSeq(list, 1, Len(list) - 1) \in Seq(Tokens)
      BY <3>2, Pieces, Zenon
    <3> QED BY <3>3, <2>1, Zenon DEF check_block, Front
  <2> QED BY <2>1, Zenon DEF check_block
<1> QED BY <1>1, <1>2

\* A redirection taken out of a command.
LEMMA WithoutType ==
  ASSUME NEW p \in Seq(Tokens), NEW i \in 2 .. Len(p), NEW n \in Nat
  PROVE  Without(p, i, n) \in Seq(Tokens)
<1>1. i - 1 \in 0 .. Len(p) /\ i + n \in Nat \ {0} /\ 1 \in Nat \ {0} /\ Len(p) \in 0 .. Len(p)
  OBVIOUS
<1>2. SubSeq(p, 1, i - 1) \in Seq(Tokens) /\ SubSeq(p, i + n, Len(p)) \in Seq(Tokens)
  BY <1>1, Pieces, Zenon
<1> QED BY <1>2, ConcatProperties, Zenon DEF Without

\* What is left of a command after an iteration of open_files().
LEMMA OpenNextType ==
  ASSUME NEW p \in Seq(Tokens), NEW at \in Nat \ {0}, at < Len(p)
  PROVE  OpenNext(p, at).p \in Seq(Tokens)
<1> PICK i \in Nat : i = at + 1 /\ i >= 2
  OBVIOUS
<1> DEFINE a == IF check_append(p, i) THEN Without(p, i, 3) ELSE p
           w == IF check_write(a, i) THEN Without(a, i, 2) ELSE a
           r == IF check_read(w, i) THEN Without(w, i, 2) ELSE w
<1>0. \A q \in Seq(Tokens), n \in {2, 3} : i <= Len(q) => Without(q, i, n) \in Seq(Tokens)
  <2> SUFFICES ASSUME NEW q \in Seq(Tokens), NEW n \in {2, 3}, i <= Len(q)
               PROVE  Without(q, i, n) \in Seq(Tokens)
    OBVIOUS
  <2>1. i \in 2 .. Len(q) /\ n \in Nat
    OBVIOUS
  <2> QED BY <2>1, WithoutType, Zenon
<1>1. a \in Seq(Tokens)
  <2>1. i <= Len(p)
    OBVIOUS
  <2> QED BY <1>0, <2>1
<1> HIDE DEF a
<1>2. w \in Seq(Tokens)
  BY <1>0, <1>1 DEF check_write
<1> HIDE DEF w
<1>3. r \in Seq(Tokens)
  BY <1>0, <1>2 DEF check_read
<1>4. OpenNext(p, at).p = r
  BY DEF OpenNext, a, w
<1> QED BY <1>3, <1>4

-----------------------------------------------------------------------------
(* The ends of pipes *)

\* What a stage holds: when it is born the ends that its parent has, later
\* no more than the two it works with.
StagePipes(stage) ==
  IF stage.state = "forked"
    THEN stage.ends \subseteq {stage.fd[1], stage.fd[2], stage.fd[3], stage.fd[4]}
    ELSE stage.ends \subseteq {stage.fd[1], stage.fd[4]}

\* A pipeline: no || is left in it.
OnePipeline(q) == \A i \in 2 .. Len(q) : ~check_or(q, i)

\* What a subshell holds: the ends in fd[].  When the last stage has been
\* forked, no pipe has been made ahead of it.
JobPipes(job) ==
  PipesComplete(job.list) =>
    /\ PipesComplete(job.p) /\ PipesComplete(job.tail) /\ PipesComplete(job.q)
    /\ NONE \notin job.open
    /\ job.pc = "pipe" =>
         /\ OnePipeline(job.q)
         /\ job.open \subseteq {job.fd[1], job.fd[2]}
         /\ job.fd[3] = NONE /\ job.fd[4] = NONE
         /\ job.q = << >> => job.fd[1] = NONE /\ job.fd[2] = NONE
    /\ job.pc = "prepare" =>
         /\ OnePipeline(job.q)
         /\ job.open \subseteq {job.fd[1], job.fd[2], job.fd[3], job.fd[4]}
         /\ job.q = << >> => job.fd[3] = NONE /\ job.fd[4] = NONE
    /\ job.pc \notin {"pipe", "prepare"} => job.open = {}
    /\ \A k \in DOMAIN job.stages : StagePipes(job.stages[k])

\* The operators behind some word of a list are those of the list.
LEMMA OperatorsBehind ==
  ASSUME NEW p \in Seq(Tokens), NEW m \in Nat \ {0}, NEW u, u = SubSeq(p, m, Len(p)),
         NEW i \in 1 .. Len(u)
  PROVE  /\ u \in Seq(Tokens) /\ m + i - 1 \in 1 .. Len(p)
         /\ i < Len(u) <=> m + i - 1 < Len(p)
         /\ check_pipe(u, i) <=> check_pipe(p, m + i - 1)
         /\ check_or(u, i) <=> check_or(p, m + i - 1)
         /\ check_and(u, i) <=> check_and(p, m + i - 1)
<1> PICK n \in Nat : n = Len(p)
  OBVIOUS
<1>0. n \in 0 .. Len(p)
  OBVIOUS
<1>1. /\ u \in Seq(Tokens)
      /\ Len(u) = IF m <= n THEN n - m + 1 ELSE 0
      /\ \A k \in 1 .. n - m + 1 : u[k] = p[m + k - 1]
  BY <1>0, Pieces, Zenon
<1>2. m <= n /\ i \in 1 .. n - m + 1 /\ Len(u) = n - m + 1
  BY <1>1
<1> PICK k \in Nat : k = m + i - 1
  BY <1>2
<1>3. u[i] = p[k] /\ k \in 1 .. n /\ (i < Len(u) <=> k < n)
  BY <1>1, <1>2
<1>4. i < Len(u) => u[i + 1] = p[k + 1]
  <2>1. i < Len(u) => i + 1 \in 1 .. n - m + 1 /\ m + (i + 1) - 1 = k + 1
    BY <1>2
  <2> QED BY <1>1, <2>1
<1> QED BY <1>1, <1>3, <1>4 DEF check_pipe, check_or, check_and

\* And those before some word are, but for one that is cut in two.
LEMMA OperatorsBefore ==
  ASSUME NEW p \in Seq(Tokens), NEW u \in Seq(Tokens), Len(u) < Len(p),
         \A k \in 1 .. Len(u) : u[k] = p[k], NEW i \in 1 .. Len(u)
  PROVE  /\ check_pipe(u, i) <=> check_pipe(p, i)
         /\ check_or(u, i) <=> i < Len(u) /\ check_or(p, i)
         /\ check_and(u, i) <=> i < Len(u) /\ check_and(p, i)
<1> PICK l \in Nat, m \in Nat : l = Len(p) /\ m = Len(u)
  OBVIOUS
<1>1. u[i] = p[i] /\ i \in 1 .. m /\ i < l
  OBVIOUS
<1>2. i < m => u[i + 1] = p[i + 1]
  <2>1. i < m => i + 1 \in 1 .. m
    BY <1>1
  <2> QED BY <2>1
<1> QED BY <1>1, <1>2 DEF check_pipe, check_or, check_and

\* No pipeline ends in a | after the list has been cut behind some word.
LEMMA CompleteTail ==
  ASSUME NEW p \in Seq(Tokens), PipesComplete(p), NEW m \in Nat \ {0}
  PROVE  PipesComplete(SubSeq(p, m, Len(p)))
<1> PICK u : u = SubSeq(p, m, Len(p))
  OBVIOUS
<1>1. ASSUME NEW i \in 1 .. Len(u), check_pipe(u, i), ~check_or(u, i)
      PROVE  i < Len(u) /\ ~check_or(u, i + 1) /\ ~check_and(u, i + 1)
  <2> PICK k : k = m + i - 1
    OBVIOUS
  <2>1. k \in 1 .. Len(p) /\ check_pipe(p, k) /\ ~check_or(p, k) /\ (i < Len(u) <=> k < Len(p))
    BY <1>1, OperatorsBehind
  <2>2. k < Len(p) /\ ~check_or(p, k + 1) /\ ~check_and(p, k + 1)
    BY <2>1 DEF PipesComplete
  <2>3. i + 1 \in 1 .. Len(u) /\ m + (i + 1) - 1 = k + 1
    <3> PICK l : l = Len(u)
      OBVIOUS
    <3> QED BY <2>1, <2>2
  <2>4. /\ check_or(u, i + 1) <=> check_or(p, k + 1)
        /\ check_and(u, i + 1) <=> check_and(p, k + 1)
    BY <2>3, OperatorsBehind
  <2> QED BY <2>1, <2>2, <2>4
<1>2. PipesComplete(u)
  <2>1. DOMAIN u = 1 .. Len(u)
    <3>1. Len(p) \in 0 .. Len(p)
      OBVIOUS
    <3>2. u \in Seq(Tokens)
      BY <3>1, Pieces, Zenon
    <3> QED BY <3>2
  <2> QED BY ONLY <1>1, <2>1, Zenon DEF PipesComplete
<1> QED BY <1>2, Zenon

\* Nor after it has been cut before an operator.
LEMMA CompleteHead ==
  ASSUME NEW p \in Seq(Tokens), PipesComplete(p), NEW n \in 2 .. Len(p),
         check_or(p, n) \/ check_and(p, n)
  PROVE  PipesComplete(SubSeq(p, 1, n - 1))
<1> PICK u : u = SubSeq(p, 1, n - 1)
  OBVIOUS
<1>0. /\ u \in Seq(Tokens) /\ Len(u) = n - 1 /\ Len(u) < Len(p)
      /\ \A k \in 1 .. Len(u) : u[k] = p[k]
  <2>1. n - 1 \in 0 .. Len(p) /\ 1 \in Nat \ {0}
    OBVIOUS
  <2> QED BY <2>1, Pieces
<1>1. ASSUME NEW i \in 1 .. Len(u), check_pipe(u, i), ~check_or(u, i)
      PROVE  i < Len(u) /\ ~check_or(u, i + 1) /\ ~check_and(u, i + 1)
  <2>1. /\ Len(u) = n - 1 /\ i \in 1 .. n - 1 /\ check_pipe(p, i)
        /\ i < n - 1 => ~check_or(p, i)
    <3>1. Len(u) = n - 1 /\ i \in 1 .. n - 1
      BY <1>0
    <3>2. (i < Len(u) => ~check_or(p, i)) /\ check_pipe(p, i)
      BY <1>0, <1>1, OperatorsBefore, ZenonT(40)
    <3> QED BY <3>1, <3>2
  <2>2. i = n - 1 => ~check_or(p, i)
    <3>1. p[n].spec = "first"
      BY DEF check_or, check_and, Token
    <3>2. i = n - 1 => i + 1 = n
      BY <2>1
    <3> QED BY <3>1, <3>2 DEF check_or, Token
  <2>3. i \in DOMAIN p /\ ~check_or(p, i)
    BY <2>1, <2>2
  <2>4. ~check_or(p, i + 1) /\ ~check_and(p, i + 1)
    BY <2>1, <2>3 DEF PipesComplete
  <2>5. i + 1 # n
    BY <2>4
  <2>6. i + 1 \in 1 .. Len(u)
    BY <2>1, <2>5
  <2>7. /\ check_or(u, i + 1) => check_or(p, i + 1)
        /\ check_and(u, i + 1) => check_and(p, i + 1)
    BY <1>0, <2>6, OperatorsBefore
  <2> QED BY <2>1, <2>4, <2>6, <2>7
<1>2. PipesComplete(u)
  <2>1. DOMAIN u = 1 .. Len(u)
    BY <1>0
  <2> QED BY ONLY <1>1, <2>1, Zenon DEF PipesComplete
<1> QED BY <1>2, Zenon

\* The parts that split_logic() makes of such a list are such lists, and the
\* first is a pipeline.
LEMMA CompleteLogic ==
  ASSUME NEW p \in Seq(Tokens), PipesComplete(p)
  PROVE  /\ PipesComplete(split_logic(p).head) /\ PipesComplete(split_logic(p).tail)
         /\ OnePipeline(split_logic(p).head)
<1>1. PipesComplete(<< >>) /\ OnePipeline(<< >>)
  BY DEF PipesComplete, OnePipeline
<1>2. CASE split_logic(p) = Split("empty", << >>, << >>)
  BY <1>1, <1>2 DEF Split
<1>3. CASE /\ split_logic(p) = Split("last", p, << >>)
           /\ \A i \in 2 .. Len(p) : ~check_or(p, i) /\ ~check_and(p, i)
  BY <1>1, <1>3 DEF Split, OnePipeline
<1>4. ASSUME NEW i \in 2 .. Len(p), check_or(p, i) \/ check_and(p, i),
             \A k \in 2 .. i - 1 : ~check_or(p, k) /\ ~check_and(p, k),
             split_logic(p) = Split(IF check_or(p, i) THEN "or" ELSE "and",
                                    SubSeq(p, 1, i - 1), SubSeq(p, i + 2, Len(p)))
      PROVE  /\ PipesComplete(split_logic(p).head) /\ PipesComplete(split_logic(p).tail)
             /\ OnePipeline(split_logic(p).head)
  <2>1. i + 2 \in Nat \ {0}
    OBVIOUS
  <2>2. /\ split_logic(p).head = SubSeq(p, 1, i - 1)
        /\ split_logic(p).tail = SubSeq(p, i + 2, Len(p))
    BY <1>4 DEF Split
  <2> PICK u : u = SubSeq(p, 1, i - 1)
    OBVIOUS
  <2>0. /\ u \in Seq(Tokens) /\ Len(u) = i - 1 /\ Len(u) < Len(p)
        /\ \A k \in 1 .. Len(u) : u[k] = p[k]
    <3>1. i - 1 \in 0 .. Len(p) /\ 1 \in Nat \ {0}
      OBVIOUS
    <3> QED BY <3>1, Pieces
  <2>3. ASSUME NEW k \in 2 .. Len(u)
        PROVE  ~check_or(u, k)
    <3>1. k \in 1 .. Len(u)
      OBVIOUS
    <3>2. k \in 1 .. i - 1 /\ (check_or(u, k) => check_or(p, k))
      BY <2>0, <3>1, OperatorsBefore
    <3>3. k \in 2 .. i - 1
      BY <3>2
    <3> QED BY <1>4, <3>2, <3>3
  <2>4. OnePipeline(u)
    BY ONLY <2>3, Zenon DEF OnePipeline
  <2>5. PipesComplete(SubSeq(p, 1, i - 1)) /\ PipesComplete(SubSeq(p, i + 2, Len(p)))
    BY <1>4, <2>1, CompleteHead, CompleteTail, Zenon
  <2> QED BY <2>2, <2>4, <2>5, Zenon
<1> QED BY <1>2, <1>3, <1>4, SplitLogicIs, Zenon

\* The pipeline that split_logic() finds is not empty.
LEMMA PipelineFound ==
  ASSUME NEW p \in Seq(Tokens), split_logic(p).op # "empty"
  PROVE  split_logic(p).head # << >>
<1>1. CASE split_logic(p) = Split("empty", << >>, << >>)
  BY <1>1 DEF Split
<1>2. CASE p # << >> /\ split_logic(p) = Split("last", p, << >>)
  BY <1>2 DEF Split
<1>3. ASSUME NEW i \in 2 .. Len(p),
             split_logic(p) = Split(IF check_or(p, i) THEN "or" ELSE "and",
                                    SubSeq(p, 1, i - 1), SubSeq(p, i + 2, Len(p)))
      PROVE  split_logic(p).head # << >>
  <2>1. i - 1 \in 0 .. Len(p) /\ 1 \in Nat \ {0}
    OBVIOUS
  <2> PICK u : u = SubSeq(p, 1, i - 1)
    OBVIOUS
  <2>2. Len(u) = i - 1
    BY <2>1, Pieces
  <2>3. u # << >>
    BY <2>2
  <2>4. split_logic(p).head = SubSeq(p, 1, i - 1)
    BY <1>3 DEF Split
  <2> QED BY <2>3, <2>4, Zenon
<1> QED BY <1>1, <1>2, <1>3, SplitLogicIs, Zenon

\* Behind a | that split_pipeline() finds in a pipeline there is a command.
LEMMA CompletePipeline ==
  ASSUME NEW q \in Seq(Tokens), PipesComplete(q), OnePipeline(q)
  PROVE  /\ PipesComplete(split_pipeline(q).tail) /\ OnePipeline(split_pipeline(q).tail)
         /\ split_pipeline(q).op = "default" => split_pipeline(q).tail # << >>
<1>1. PipesComplete(<< >>) /\ OnePipeline(<< >>)
  BY DEF PipesComplete, OnePipeline
<1>2. CASE \/ split_pipeline(q) = Split("empty", << >>, << >>)
           \/ split_pipeline(q) = Split("last", q, << >>)
  BY <1>1, <1>2 DEF Split
<1>3. ASSUME NEW i \in 2 .. Len(q), check_pipe(q, i),
             split_pipeline(q) = Split("default", SubSeq(q, 1, i - 1), SubSeq(q, i + 1, Len(q)))
      PROVE  /\ PipesComplete(split_pipeline(q).tail) /\ OnePipeline(split_pipeline(q).tail)
             /\ split_pipeline(q).tail # << >>
  <2>1. i < Len(q)
    BY <1>3 DEF PipesComplete, OnePipeline
  <2>2. i + 1 \in Nat \ {0} /\ Len(q) \in 0 .. Len(q) /\ i + 1 <= Len(q)
    BY <2>1
  <2>3. split_pipeline(q).tail = SubSeq(q, i + 1, Len(q))
    BY <1>3 DEF Split
  <2> PICK u : u = SubSeq(q, i + 1, Len(q))
    OBVIOUS
  <2>4. u # << >>
    <3>1. Len(u) = Len(q) - (i + 1) + 1
      BY <2>2, Pieces
    <3> PICK l \in Nat : l = Len(q)
      OBVIOUS
    <3>2. l - (i + 1) + 1 # 0
      BY <2>2
    <3>3. Len(u) # 0
      BY <3>1, <3>2, Zenon
    <3> QED BY <3>3
  <2>5. ASSUME NEW k \in 2 .. Len(u)
        PROVE  ~check_or(u, k)
    <3>1. k \in 1 .. Len(u)
      OBVIOUS
    <3> PICK l : l = (i + 1) + k - 1
      OBVIOUS
    <3>2. l \in 1 .. Len(q) /\ (check_or(u, k) <=> check_or(q, l))
      BY <2>2, <3>1, OperatorsBehind
    <3>3. l \in 2 .. Len(q)
      BY <3>2
    <3> QED BY <3>2, <3>3 DEF OnePipeline
  <2>6. OnePipeline(u)
    BY ONLY <2>5, Zenon DEF OnePipeline
  <2>7. PipesComplete(u)
    BY <2>2, CompleteTail, Zenon
  <2> QED BY <2>3, <2>4, <2>6, <2>7, Zenon
<1> QED BY <1>2, <1>3, SplitPipelineIs, Zenon

-----------------------------------------------------------------------------
(* The chain of pipelines *)

\* What is left of a list from a word on, and one past the last word.
Rest(list, b) == SubSeq(list, b, Len(list))
Past(list) == Len(list) + 1

\* The pipelines that have run, the status that counts for pipeline i, and
\* whether it is to run.
At(ran) == {run[1] : run \in Range(ran)}
StatusOf(ran, i) == ran[Cardinality({k \in At(ran) : k < i})][2]
Wanted(list, ran, i) ==
  \/ i = 1
  \/ OpAt(list, i) = "and" /\ StatusOf(ran, i) = 0
  \/ OpAt(list, i) = "or" /\ StatusOf(ran, i) # 0

\* Of the pipelines in front of b exactly those have run that were to.
RanUpTo(list, ran, b) ==
  /\ \A n \in 1 .. Len(ran) : ran[n][1] < b
  /\ \A n \in 1 .. Len(ran) - 1 : ran[n][1] < ran[n + 1][1]
  /\ Cardinality(At(ran)) = Len(ran)
  /\ At(ran) = {i \in Pipelines(list) : i < b /\ Wanted(list, ran, i)}

\* next is where the pipeline after the one at h begins.
Follows(list, h, next) ==
  /\ next \in Pipelines(list) \cup {Past(list)} /\ h < next
  /\ \A i \in Pipelines(list) : i <= h \/ i >= next

\* The operator that leads there.
OpBefore(list, next) == IF next = Past(list) THEN "last" ELSE OpAt(list, next)

\* A pipeline begins with a command.
LEMMA StartsAtCommand ==
  ASSUME NEW list \in Seq(Tokens), list # << >>, WellFormed(list), NEW h \in Pipelines(list)
  PROVE  /\ h \in 1 .. Len(list)
         /\ list[h].spec = "default"
         /\ h > 1 => h >= 4 /\ list[h - 1].spec # "first"
                       /\ (check_or(list, h - 2) \/ check_and(list, h - 2))
<1> PICK n \in Nat \ {0} : n = Len(list)
  BY EmptySeq
<1>1. CASE h = 1
  <2>1. list[1].spec = "default"
    BY DEF WellFormed
  <2> QED BY <1>1, <2>1
<1>2. CASE h # 1
  <2>1. h \in 4 .. n /\ (check_or(list, h - 2) \/ check_and(list, h - 2))
    BY <1>2 DEF Pipelines
  <2> PICK i \in Nat : i = h - 2
    BY <2>1
  <2>2. i > 1 /\ i + 1 \in 1 .. n /\ h = i + 2 /\ h - 1 = i + 1
    BY <2>1
  <2>3. list[i + 1].spec = "second" /\ list[i + 1].spec # "default" /\ list[i + 1].spec # "first"
    BY <2>1 DEF check_or, check_and, Token
  <2>4. ~check_or(list, i + 1) /\ ~check_and(list, i + 1)
    BY <2>3 DEF check_or, check_and, Token
  <2>5. list[(i + 1) + 1].spec = "default"
    BY <2>2, <2>3, <2>4 DEF WellFormed
  <2>6. h = (i + 1) + 1
    BY <2>2
  <2> QED BY <2>1, <2>2, <2>3, <2>5, <2>6
<1> QED BY <1>1, <1>2

\* The words of what is left of a list.
LEMMA RestIs ==
  ASSUME NEW list \in Seq(Tokens), NEW h \in 1 .. Len(list)
  PROVE  /\ Rest(list, h) \in Seq(Tokens)
         /\ Len(Rest(list, h)) = Len(list) - h + 1
         /\ Rest(list, h) # << >>
         /\ \A i \in 1 .. Len(list) - h + 1 : Rest(list, h)[i] = list[h + i - 1]
<1> PICK n \in Nat : n = Len(list)
  OBVIOUS
<1>1. h \in Nat \ {0} /\ n \in 0 .. Len(list) /\ h <= n
  OBVIOUS
<1>2. /\ SubSeq(list, h, n) \in Seq(Tokens)
      /\ Len(SubSeq(list, h, n)) = n - h + 1
      /\ \A i \in 1 .. n - h + 1 : SubSeq(list, h, n)[i] = list[h + i - 1]
  BY <1>1, Pieces
<1>3. SubSeq(list, h, n) # << >>
  <2>1. n - h + 1 # 0
    BY <1>1
  <2> PICK u : u = SubSeq(list, h, n)
    OBVIOUS
  <2>2. Len(u) # 0
    BY <1>2, <2>1, Zenon
  <2> QED BY <2>2
<1> QED BY <1>2, <1>3, Zenon DEF Rest

\* Nothing is left behind the last word.
LEMMA RestPast ==
  ASSUME NEW list \in Seq(Tokens)
  PROVE  Rest(list, Past(list)) = << >>
<1> PICK n \in Nat : n = Len(list)
  OBVIOUS
<1>1. n + 1 \in Nat \ {0} /\ n \in 0 .. Len(list) /\ ~(n + 1 <= n)
  OBVIOUS
<1>2. SubSeq(list, n + 1, n) \in Seq(Tokens) /\ Len(SubSeq(list, n + 1, n)) = 0
  BY <1>1, Pieces
<1>3. SubSeq(list, n + 1, n) = << >>
  BY <1>2, EmptySeq
<1> QED BY <1>3, Zenon DEF Rest, Past

\* A list is what is left of it from its first word on.
LEMMA RestFirst ==
  ASSUME NEW list \in Seq(Tokens)
  PROVE  Rest(list, 1) = list
<1> PICK n \in Nat : n = Len(list)
  OBVIOUS
<1>1. 1 \in Nat \ {0} /\ n \in 0 .. Len(list)
  OBVIOUS
<1> PICK u : u = SubSeq(list, 1, n)
  OBVIOUS
<1>2. /\ u \in Seq(Tokens)
      /\ Len(u) = IF 1 <= n THEN n - 1 + 1 ELSE 0
      /\ \A i \in 1 .. n - 1 + 1 : u[i] = list[1 + i - 1]
  BY <1>1, Pieces, Zenon
<1>3. Len(u) = Len(list) /\ \A i \in 1 .. Len(u) : u[i] = list[i]
  BY <1>2
<1>4. u = list
  BY <1>2, <1>3, SeqEqual
<1> QED BY <1>4, Zenon DEF Rest

\* In the rest of a list the operators are those of the list.
LEMMA OperatorsOfRest ==
  ASSUME NEW list \in Seq(Tokens), NEW h \in 1 .. Len(list), NEW i \in 1 .. Len(list) - h + 1
  PROVE  /\ check_or(Rest(list, h), i) <=> check_or(list, h + i - 1)
         /\ check_and(Rest(list, h), i) <=> check_and(list, h + i - 1)
<1> PICK n \in Nat : n = Len(list)
  OBVIOUS
<1> PICK p : p = Rest(list, h)
  OBVIOUS
<1>1. Len(p) = n - h + 1 /\ \A k \in 1 .. n - h + 1 : p[k] = list[h + k - 1]
  BY RestIs
<1> PICK m \in Nat : m = h + i - 1
  OBVIOUS
<1>2. p[i] = list[m]
  BY <1>1
<1>3. i < Len(p) <=> m < n
  BY <1>1
<1>4. i < Len(p) => p[i + 1] = list[m + 1]
  <2> SUFFICES ASSUME i < n - h + 1
               PROVE  p[i + 1] = list[m + 1]
    BY <1>1
  <2>1. i + 1 \in 1 .. n - h + 1 /\ h + (i + 1) - 1 = m + 1
    OBVIOUS
  <2> QED BY <1>1, <2>1
<1>5. /\ check_or(p, i) <=> check_or(list, m)
      /\ check_and(p, i) <=> check_and(list, m)
  BY <1>2, <1>3, <1>4 DEF check_or, check_and
<1> QED BY <1>5, Zenon

\* The operators in front of the pipelines behind h are behind h's first word.
LEMMA OperatorOf ==
  ASSUME NEW list \in Seq(Tokens), list # << >>, WellFormed(list), NEW h \in Pipelines(list),
         NEW x \in Pipelines(list), x > h
  PROVE  \E k \in 2 .. Len(list) - h + 1 :
           /\ x = h + k + 1
           /\ check_or(Rest(list, h), k) \/ check_and(Rest(list, h), k)
<1> PICK n \in Nat : n = Len(list)
  OBVIOUS
<1>1. h \in 1 .. n /\ list[h].spec = "default" /\ (h > 1 => list[h - 1].spec # "first")
  BY StartsAtCommand
<1>2. x \in 4 .. n /\ (check_or(list, x - 2) \/ check_and(list, x - 2))
  <2>1. x \in 1 .. n /\ (x > 1 => x >= 4 /\ (check_or(list, x - 2) \/ check_and(list, x - 2)))
    BY StartsAtCommand
  <2>2. x > 1
    BY <1>1
  <2> QED BY <2>1, <2>2
<1> PICK m \in Nat : m = x - 2
  BY <1>2
<1>3. list[m].spec = "first"
  BY <1>2 DEF check_or, check_and, Token
<1>4. m # h
  BY <1>1, <1>3
<1>5. m # h - 1
  BY <1>1, <1>2, <1>3
<1> PICK k \in Nat : k = m - h + 1
  BY <1>1, <1>2, <1>4, <1>5
<1>6. k \in 2 .. n - h + 1 /\ m = h + k - 1 /\ x = h + k + 1
  BY <1>1, <1>2, <1>4, <1>5
<1>7. check_or(list, m) \/ check_and(list, m)
  BY <1>2
<1>8. /\ check_or(Rest(list, h), k) <=> check_or(list, m)
      /\ check_and(Rest(list, h), k) <=> check_and(list, m)
  <2>1. k \in 1 .. Len(list) - h + 1 /\ h \in 1 .. Len(list)
    BY <1>1, <1>6
  <2> QED BY <1>6, <2>1, OperatorsOfRest, Zenon
<1>9. k \in 2 .. Len(list) - h + 1
  BY <1>6
<1> QED BY <1>6, <1>7, <1>8, <1>9, Zenon

\* split_logic() cuts what is left of a line at the next pipeline.
LEMMA NextPipeline ==
  ASSUME NEW list \in Seq(Tokens), list # << >>, WellFormed(list), NEW h \in Pipelines(list)
  PROVE  \E next : /\ Follows(list, h, next)
                   /\ split_logic(Rest(list, h)).op = OpBefore(list, next)
                   /\ split_logic(Rest(list, h)).tail = Rest(list, next)
<1> PICK n \in Nat : n = Len(list)
  OBVIOUS
<1>1. h \in 1 .. n /\ h \in 1 .. Len(list)
  BY StartsAtCommand
<1> PICK p \in Seq(Tokens) : p = Rest(list, h)
  BY <1>1, RestIs
<1>2. /\ Len(p) = n - h + 1 /\ p # << >>
      /\ \A i \in 1 .. n - h + 1 : p[i] = list[h + i - 1]
  BY <1>1, RestIs
<1>3. ASSUME NEW x \in Pipelines(list), x > h
      PROVE  \E k \in 2 .. Len(p) : x = h + k + 1 /\ (check_or(p, k) \/ check_and(p, k))
  BY <1>2, <1>3, OperatorOf
<1>4. ASSUME split_logic(p) = Split("last", p, << >>),
             \A i \in 2 .. Len(p) : ~check_or(p, i) /\ ~check_and(p, i)
      PROVE  /\ Follows(list, h, Past(list))
             /\ split_logic(p).op = OpBefore(list, Past(list))
             /\ split_logic(p).tail = Rest(list, Past(list))
  <2>1. \A x \in Pipelines(list) : x \in 1 .. n
    BY StartsAtCommand
  <2>2. \A x \in Pipelines(list) : x <= h
    BY <1>1, <1>3, <1>4, <2>1
  <2>3. h < Past(list)
    BY <1>1 DEF Past
  <2> QED BY <1>4, <2>2, <2>3, RestPast DEF Follows, OpBefore, Split
<1>5. ASSUME NEW i \in 2 .. Len(p), check_or(p, i) \/ check_and(p, i),
             \A k \in 2 .. i - 1 : ~check_or(p, k) /\ ~check_and(p, k),
             split_logic(p) = Split(IF check_or(p, i) THEN "or" ELSE "and",
                                    SubSeq(p, 1, i - 1), SubSeq(p, i + 2, Len(p)))
      PROVE  \E next : /\ Follows(list, h, next)
                       /\ split_logic(p).op = OpBefore(list, next)
                       /\ split_logic(p).tail = Rest(list, next)
  <2> PICK m \in Nat : m = h + i - 1
    BY <1>1
  <2> PICK next \in Nat : next = m + 2
    OBVIOUS
  <2>1. i \in 1 .. Len(list) - h + 1
    BY <1>2
  <2>2. /\ check_or(p, i) <=> check_or(list, m)
        /\ check_and(p, i) <=> check_and(list, m)
    BY <1>1, <2>1, OperatorsOfRest, Zenon
  <2>3. m > 1 /\ m < n /\ list[m + 1].spec = "second"
    BY <1>1, <1>5, <2>2 DEF check_or, check_and, Token
  <2>4. next \in 4 .. n /\ next \in 1 .. Len(list)
    <3>1. m + 1 \in DOMAIN list /\ list[m + 1].spec # "default"
      BY <2>3
    <3>2. m + 1 < Len(list)
      BY <3>1, Zenon DEF WellFormed
    <3> QED BY <2>3, <3>2
  <2>5. next - 2 = m
    OBVIOUS
  <2>6. check_or(list, next - 2) \/ check_and(list, next - 2)
    BY <1>5, <2>2, <2>5, Zenon
  <2>7. next \in Pipelines(list)
    BY <2>4, <2>6 DEF Pipelines
  <2>8. Follows(list, h, next)
    <3>1. h < next
      BY <1>1
    <3>2. ASSUME NEW x \in Pipelines(list), x > h
          PROVE  x >= next
      <4> PICK k \in 2 .. Len(p) : x = h + k + 1 /\ (check_or(p, k) \/ check_and(p, k))
        BY <1>3, <3>2
      <4>1. ~(k < i)
        BY <1>5
      <4> QED BY <1>1, <4>1
    <3>3. \A x \in Pipelines(list) : x \in 1 .. n
      BY StartsAtCommand
    <3>4. \A x \in Pipelines(list) : x <= h \/ x >= next
      BY <1>1, <3>2, <3>3
    <3> QED BY <2>7, <3>1, <3>4, Zenon DEF Follows
  <2>9. split_logic(p).op = OpBefore(list, next)
    <3>1. next # Past(list) /\ next # 1 /\ next > 1
      BY <2>4 DEF Past
    <3>2. OpAt(list, next) = IF check_or(list, next - 2) THEN "or" ELSE "and"
      BY <3>1 DEF OpAt
    <3>3. split_logic(p).op = IF check_or(p, i) THEN "or" ELSE "and"
      BY <1>5 DEF Split
    <3> QED BY <2>2, <2>5, <3>1, <3>2, <3>3 DEF OpBefore
  <2>10. split_logic(p).tail = Rest(list, next)
    <3> PICK l \in Nat : l = Len(p)
      OBVIOUS
    <3>1. i + 2 \in Nat \ {0} /\ l \in 0 .. Len(p) /\ i + 2 <= l /\ l - (i + 2) + 1 = n - next + 1
      BY <1>1, <1>2, <2>4
    <3> PICK u : u = SubSeq(p, i + 2, l)
      OBVIOUS
    <3>2. /\ u \in Seq(Tokens) /\ Len(u) = l - (i + 2) + 1
          /\ \A k \in 1 .. l - (i + 2) + 1 : u[k] = p[(i + 2) + k - 1]
      <4>1. p \in Seq(Tokens)
        OBVIOUS
      <4>2. /\ SubSeq(p, i + 2, l) \in Seq(Tokens)
            /\ Len(SubSeq(p, i + 2, l)) = IF i + 2 <= l THEN l - (i + 2) + 1 ELSE 0
            /\ \A k \in 1 .. l - (i + 2) + 1 : SubSeq(p, i + 2, l)[k] = p[(i + 2) + k - 1]
        BY ONLY <3>1, <4>1, Pieces, Zenon
      <4> QED BY ONLY <3>1, <4>2, u = SubSeq(p, i + 2, l)
    <3> PICK v : v = Rest(list, next)
      OBVIOUS
    <3>3. /\ v \in Seq(Tokens) /\ Len(v) = n - next + 1
          /\ \A k \in 1 .. n - next + 1 : v[k] = list[next + k - 1]
      <4>1. Len(list) = n
        OBVIOUS
      <4>2. next \in 1 .. Len(list)
        BY <2>4
      <4>3. /\ Rest(list, next) \in Seq(Tokens) /\ Len(Rest(list, next)) = Len(list) - next + 1
            /\ \A k \in 1 .. Len(list) - next + 1 : Rest(list, next)[k] = list[next + k - 1]
        BY ONLY <4>2, list \in Seq(Tokens), RestIs, Zenon
      <4> QED BY ONLY <4>1, <4>3, v = Rest(list, next)
    <3>4. ASSUME NEW k \in 1 .. Len(u)
          PROVE  u[k] = v[k]
      <4>1. u[k] = p[(i + 2) + k - 1] /\ v[k] = list[next + k - 1]
        BY <3>1, <3>2, <3>3
      <4> PICK a \in Nat : a = (i + 2) + k - 1
        OBVIOUS
      <4>2. a \in 1 .. n - h + 1 /\ h + a - 1 = next + k - 1
        BY <1>1, <1>2, <3>1, <3>2
      <4>3. p[a] = list[h + a - 1]
        BY <1>2, <4>2
      <4> QED BY <4>1, <4>2, <4>3
    <3>5. u = v
      <4>1. Len(u) = Len(v)
        BY <3>1, <3>2, <3>3
      <4> QED BY <3>2, <3>3, <3>4, <4>1, SeqEqual, Zenon
    <3>6. split_logic(p).tail = SubSeq(p, i + 2, Len(p))
      BY <1>5 DEF Split
    <3> QED BY <3>5, <3>6, Zenon
  <2> QED BY <2>8, <2>9, <2>10, Zenon
<1> QED BY <1>2, <1>4, <1>5, SplitLogicIs, Zenon

\* The pipelines of a list have places in it.
LEMMA PipelinesFinite ==
  ASSUME NEW list \in Seq(Tokens)
  PROVE  IsFiniteSet(Pipelines(list)) /\ Pipelines(list) \subseteq Nat
<1> PICK n \in Nat : n = Len(list)
  OBVIOUS
<1>1. IsFiniteSet(1 .. n + 1)
  BY FS_Interval
<1>2. Pipelines(list) \subseteq 1 .. n + 1
  BY DEF Pipelines
<1> QED BY <1>1, <1>2, FS_Subset

\* The status that counts for the pipeline to decide on is the last one's.
LEMMA LastStatus ==
  ASSUME NEW list \in Seq(Tokens), NEW ran, NEW b, RanUpTo(list, ran, b)
  PROVE  StatusOf(ran, b) = ran[Len(ran)][2]
<1>1. {k \in At(ran) : k < b} = At(ran)
  BY Zenon DEF RanUpTo
<1> QED BY <1>1, Zenon DEF StatusOf, RanUpTo

\* The places at which the pipelines stand that have run.
LEMMA AtIs ==
  ASSUME NEW ran \in Seq(Int \X Codes)
  PROVE  At(ran) = {ran[n][1] : n \in 1 .. Len(ran)} /\ At(ran) \subseteq Int
<1>1. Range(ran) = {ran[n] : n \in 1 .. Len(ran)}
  BY DEF Range
<1>2. At(ran) = {ran[n][1] : n \in 1 .. Len(ran)}
  BY <1>1 DEF At
<1>3. \A n \in 1 .. Len(ran) : ran[n][1] \in Int
  OBVIOUS
<1> QED BY <1>2, <1>3

\* A pipeline that is to run has run: those in front of it are judged as
\* before, and the next one is to be decided on.
LEMMA RunsOneMore ==
  ASSUME NEW list \in Seq(Tokens), NEW ran \in Seq(Int \X Codes), NEW h \in Pipelines(list),
         NEW next, NEW code \in Codes,
         RanUpTo(list, ran, h), Wanted(list, ran, h), Follows(list, h, next)
  PROVE  LET more == Append(ran, <<h, code>>)
         IN  /\ more # << >>
             /\ RanUpTo(list, more, next)
             /\ more[Len(more)][2] = code
<1> PICK more : more = Append(ran, <<h, code>>)
  OBVIOUS
<1>1. Pipelines(list) \subseteq Nat /\ IsFiniteSet(Pipelines(list)) /\ h \in Nat
  BY PipelinesFinite
<1>2. next \in Nat /\ h < next
  BY <1>1 DEF Follows, Past
<1> PICK n \in Nat : n = Len(ran)
  OBVIOUS
<1> PICK run : run = <<h, code>>
  OBVIOUS
<1>3. /\ run \in Int \X Codes /\ run[1] = h /\ run[2] = code
  BY <1>1
<1>4. /\ more \in Seq(Int \X Codes) /\ Len(more) = n + 1
      /\ \A i \in 1 .. n : more[i] = ran[i]
      /\ more[n + 1] = run
  BY <1>3, AppendProperties
<1>5. At(more) = At(ran) \cup {h} /\ At(ran) \subseteq Int /\ At(more) \subseteq Int
  <2>1. /\ At(ran) = {ran[i][1] : i \in 1 .. n}
        /\ At(more) = {more[i][1] : i \in 1 .. n + 1}
        /\ At(ran) \subseteq Int /\ At(more) \subseteq Int
    BY <1>4, AtIs
  <2>2. 1 .. n + 1 = (1 .. n) \cup {n + 1}
    OBVIOUS
  <2>3. At(more) = {more[i][1] : i \in 1 .. n} \cup {more[n + 1][1]}
    BY <2>1, <2>2
  <2>4. {more[i][1] : i \in 1 .. n} = {ran[i][1] : i \in 1 .. n}
    BY <1>4
  <2>5. more[n + 1][1] = h
    BY <1>3, <1>4
  <2> QED BY <2>1, <2>3, <2>4, <2>5, Zenon
<1>6. /\ At(ran) \subseteq Pipelines(list) /\ \A i \in At(ran) : i < h
      /\ Cardinality(At(ran)) = n
      /\ \A i \in 1 .. n : ran[i][1] < h
      /\ \A i \in 1 .. n - 1 : ran[i][1] < ran[i + 1][1]
      /\ At(ran) = {i \in Pipelines(list) : i < h /\ Wanted(list, ran, i)}
  BY DEF RanUpTo
<1>7. IsFiniteSet(At(ran)) /\ h \notin At(ran)
  BY <1>1, <1>6, FS_Subset
<1>8. Cardinality(At(more)) = n + 1
  BY <1>5, <1>6, <1>7, FS_AddElement
<1>9. ASSUME NEW i \in Pipelines(list), i <= h
      PROVE  Wanted(list, more, i) <=> Wanted(list, ran, i)
  <2>1. CASE i = 1
    BY <2>1 DEF Wanted
  <2>2. CASE i # 1
    <3> PICK before : before = {k \in At(ran) : k < i}
      OBVIOUS
    <3>1. {k \in At(more) : k < i} = before
      <4>1. ~(h < i)
        BY <1>1, <1>9
      <4> QED BY <1>5, <4>1
    <3>2. IsFiniteSet(before) /\ Cardinality(before) \in Nat /\ Cardinality(before) <= n
      BY <1>6, <1>7, FS_Subset, FS_CardinalityType
    <3>3. 1 \in before
      <4>1. 1 \in Pipelines(list) /\ Wanted(list, ran, 1)
        BY DEF Pipelines, Wanted
      <4>2. i > 1
        <5>1. i \in 1 .. Len(list) \/ i = 1
          BY DEF Pipelines
        <5> QED BY <2>2, <5>1
      <4>3. 1 < h
        BY <1>1, <1>9, <4>2
      <4> QED BY <1>6, <4>1, <4>2, <4>3
    <3>4. Cardinality(before) # 0
      BY <3>2, <3>3, FS_EmptySet
    <3> PICK c \in Nat : c = Cardinality(before)
      BY <3>2
    <3>5. c \in 1 .. n
      BY <3>2, <3>4
    <3>6. more[c] = ran[c]
      BY <1>4, <3>5
    <3>7. StatusOf(more, i) = StatusOf(ran, i)
      BY <3>1, <3>6, Zenon DEF StatusOf
    <3> QED BY <3>7, Zenon DEF Wanted
  <2> QED BY <2>1, <2>2
<1>10. At(more) = {i \in Pipelines(list) : i < next /\ Wanted(list, more, i)}
  <2>1. \A i \in Pipelines(list) : i < next <=> i <= h
    BY <1>1, <1>2 DEF Follows
  <2>2. \A i \in Pipelines(list) : i <= h <=> i < h \/ i = h
    BY <1>1
  <2> QED BY <1>5, <1>6, <1>9, <2>1, <2>2
<1>11. \A i \in 1 .. n + 1 : more[i][1] < next
  <2> TAKE i \in 1 .. n + 1
  <2>1. CASE i = n + 1
    BY <1>2, <1>3, <1>4, <2>1
  <2>2. CASE i \in 1 .. n
    <3> PICK x \in Int : x = ran[i][1]
      BY <2>2
    <3>1. x < h
      BY <1>6, <2>2
    <3> QED BY <1>1, <1>2, <1>4, <2>2, <3>1
  <2> QED BY <2>1, <2>2
<1>12. \A i \in 1 .. (n + 1) - 1 : more[i][1] < more[i + 1][1]
  <2> TAKE i \in 1 .. (n + 1) - 1
  <2>1. CASE i = n
    BY <1>3, <1>4, <1>6, <2>1
  <2>2. CASE i \in 1 .. n - 1
    <3>1. i + 1 \in 1 .. n /\ i \in 1 .. n
      BY <2>2
    <3> QED BY <1>4, <1>6, <2>2, <3>1
  <2> QED BY <2>1, <2>2
<1>13. RanUpTo(list, more, next)
  BY <1>4, <1>8, <1>10, <1>11, <1>12, Zenon DEF RanUpTo
<1>14. more # << >> /\ more[Len(more)][2] = code
  <2>1. more[Len(more)] = run
    BY ONLY <1>4
  <2>2. more # << >>
    BY ONLY <1>4, EmptySeq, n \in Nat
  <2> QED BY ONLY <1>3, <2>1, <2>2
<1> QED BY <1>13, <1>14, Zenon

\* A pipeline that is not to run is passed by.
LEMMA PassesOne ==
  ASSUME NEW list \in Seq(Tokens), NEW ran, NEW h \in Pipelines(list), NEW next,
         \A n \in 1 .. Len(ran) : ran[n][1] \in Int,
         RanUpTo(list, ran, h), ~Wanted(list, ran, h), Follows(list, h, next)
  PROVE  RanUpTo(list, ran, next)
<1>1. Pipelines(list) \subseteq Nat /\ h \in Nat
  BY PipelinesFinite
<1>2. next \in Nat /\ h < next
  BY <1>1 DEF Follows, Past
<1>3. \A i \in Pipelines(list) : i < next <=> i < h \/ i = h
  BY <1>1, <1>2 DEF Follows
<1>4. {i \in Pipelines(list) : i < next /\ Wanted(list, ran, i)}
        = {i \in Pipelines(list) : i < h /\ Wanted(list, ran, i)}
  BY <1>3
<1>5. \A n \in 1 .. Len(ran) : ran[n][1] < next
  BY <1>1, <1>2 DEF RanUpTo
<1> QED BY <1>4, <1>5, Zenon DEF RanUpTo

-----------------------------------------------------------------------------
(* The invariant of a job *)

\* The stages that a subshell has yet to wait for.
Left(job) == {k \in DOMAIN job.stages : job.stages[k].state # "reaped"}

\* fork_counter covers the stages that are left, although a stage that could
\* not be forked is counted too; the last stage of the pipeline, when there
\* is one, has not been waited for or has left its status in code.
JobStatus(job) ==
  /\ job.last_pid \in 0 .. Len(job.stages)
  /\ job.pc = "prepare" => Cardinality(Left(job)) <= job.fork_counter + 1
  /\ job.pc \in {"pipe", "wait"} => Cardinality(Left(job)) <= job.fork_counter
  /\ job.pc \in {"logic", "and", "or", "exited"} => Left(job) = {}
  /\ job.last_pid # 0 =>
       /\ job.pc \in {"pipe", "prepare"} => job.stages[job.last_pid].state # "reaped"
       /\ job.pc = "wait" /\ job.stages[job.last_pid].state = "reaped"
            => job.code = job.stages[job.last_pid].code

\* wait() leaves in s the status of one of the stages that it has returned.
\* When the last stage could not be forked it was counted nevertheless: there
\* is one wait() more than there are stages, which takes s as the status.
JobLost(job) ==
  /\ job.pc \in {"pipe", "prepare"} => \A k \in DOMAIN job.stages : k \in Left(job)
  /\ job.pc = "wait" /\ Left(job) # DOMAIN job.stages =>
       \E k \in DOMAIN job.stages : job.s = job.stages[k].code /\ k \notin Left(job)
  /\ job.last_pid = 0 =>
       /\ job.pc = "pipe" => Cardinality(Left(job)) < job.fork_counter \/ job.q # << >>
       /\ job.pc = "prepare" => Cardinality(Left(job)) <= job.fork_counter
       /\ job.pc = "wait" =>
            \/ Cardinality(Left(job)) < job.fork_counter
            \/ /\ Left(job) = {}
               /\ job.stages = << >> \/ \E k \in DOMAIN job.stages : job.code = job.stages[k].code

\* p is what is left of the line, and its first pipeline is to run.
Deciding(job) ==
  \E b \in Pipelines(job.list) \cup {Past(job.list)} :
    /\ job.p = Rest(job.list, b)
    /\ RanUpTo(job.list, job.ran, b)
    /\ b = Past(job.list) \/ Wanted(job.list, job.ran, b)

\* The first pipeline of p runs; tail is what is left behind it.
Running(job) ==
  \E h \in Pipelines(job.list) : \E next :
    /\ job.p = Rest(job.list, h)
    /\ RanUpTo(job.list, job.ran, h) /\ Wanted(job.list, job.ran, h)
    /\ Follows(job.list, h, next)
    /\ job.tail = Rest(job.list, next) /\ job.op = OpBefore(job.list, next)

\* The pipelines behind op are skipped, up to the operator that pc names.
Skipping(job) ==
  /\ job.ran # << >>
  /\ (job.pc = "and") <=> (job.ran[Len(job.ran)][2] = 0)
  /\ \E next \in (Pipelines(job.list) \ {1}) \cup {Past(job.list)} :
       /\ RanUpTo(job.list, job.ran, next)
       /\ job.tail = Rest(job.list, next)
       /\ \/ job.op = OpBefore(job.list, next)
          \/ job.op = "empty" /\ next = Past(job.list)

JobLogic(job) ==
  /\ job.pc # "none" => job.list # << >>
  /\ WellFormed(job.list) =>
       /\ job.pc = "logic" => Deciding(job)
       /\ job.pc \in {"pipe", "prepare", "wait"} => Running(job)
       /\ job.pc \in {"and", "or"} => Skipping(job)
       /\ job.pc = "exited" => RanUpTo(job.list, job.ran, Past(job.list))

JobOK(job) ==
  job \in JobType /\ JobPipes(job) /\ JobStatus(job) /\ JobLost(job) /\ JobLogic(job)

\* The invariant of the shell.
ShellInv == ShellTypeOK /\ \A j \in JobIds : JobOK(jobs[j])

\* The stages that are left are finitely many.
LEMMA LeftFinite ==
  ASSUME NEW job \in JobType
  PROVE  IsFiniteSet(Left(job)) /\ Cardinality(Left(job)) \in Nat
<1> PICK n \in Nat : n = Len(job.stages)
  BY DEF JobType
<1>1. IsFiniteSet(1 .. n)
  BY FS_Interval
<1>2. Left(job) \subseteq 1 .. n
  BY DEF Left, JobType
<1> QED BY <1>1, <1>2, FS_Subset, FS_CardinalityType

\* execute_logic() comes to the end of the line.
LEMMA LogicEnds ==
  ASSUME NEW job, JobOK(job), job.pc = "logic", split_logic(job.p).op = "empty",
         NEW new, new = [job EXCEPT !.pc = "exited"]
  PROVE  JobOK(new)
<1>1. job \in JobType
  BY DEF JobOK
<1>2. /\ new \in JobType /\ new.pc = "exited" /\ new.list = job.list /\ new.p = job.p
      /\ new.tail = job.tail /\ new.q = job.q /\ new.open = job.open /\ new.stages = job.stages
      /\ new.last_pid = job.last_pid /\ new.ran = job.ran
  BY <1>1 DEF JobType
<1>3. JobPipes(new)
  BY <1>2 DEF JobOK, JobPipes
<1>4. JobStatus(new)
  BY <1>2 DEF JobOK, JobStatus, Left
<1>5. JobLogic(new)
  <2>1. job.p = << >>
    <3>1. job.p \in Seq(Tokens)
      BY <1>1 DEF JobType
    <3>2. \A i : (IF check_or(job.p, i) THEN "or" ELSE "and") # "empty"
      OBVIOUS
    <3>3. \A op, h, u : Split(op, h, u).op = op
      BY DEF Split
    <3> QED BY <3>1, <3>2, <3>3, SplitLogicIs
  <2>2. ASSUME WellFormed(job.list)
        PROVE  RanUpTo(job.list, job.ran, Past(job.list))
    <3>1. job.list \in Seq(Tokens) /\ job.list # << >>
      BY <1>1 DEF JobType, JobOK, JobLogic
    <3> PICK b \in Pipelines(job.list) \cup {Past(job.list)} :
               job.p = Rest(job.list, b) /\ RanUpTo(job.list, job.ran, b)
      BY <2>2 DEF JobOK, JobLogic, Deciding
    <3>2. b \notin Pipelines(job.list)
      BY <2>1, <2>2, <3>1, StartsAtCommand, RestIs
    <3> QED BY <3>2
  <2> QED BY <1>2, <2>2 DEF JobOK, JobLogic
<1>6. JobLost(new)
  BY <1>2 DEF JobOK, JobLost, Left
<1> QED BY <1>2, <1>3, <1>4, <1>5, <1>6 DEF JobOK

\* execute_logic() runs the next pipeline.
LEMMA LogicGoes ==
  ASSUME NEW job, JobOK(job), job.pc = "logic", NEW r, r = split_logic(job.p), r.op # "empty",
         NEW new, new = [job EXCEPT !.pc = "pipe", !.op = r.op, !.tail = r.tail, !.q = r.head,
                                    !.fd = NoJob.fd, !.last_pid = 0, !.fork_counter = 0,
                                    !.s = -1, !.code = 1, !.stages = << >>]
  PROVE  JobOK(new)
<1>1. job \in JobType /\ r \in SplitType
  BY SplitTypes DEF JobOK, JobType
<1>2. NoJob.fd = <<NONE, NONE, NONE, NONE>> /\ <<NONE, NONE, NONE, NONE>> \in [1 .. 4 -> Ends]
  BY DEF NoJob, Ends
<1>3. 0 \in Nat /\ 1 \in Codes
  BY ShellAssumption
<1>8. << >> \in Seq(StageType) /\ DOMAIN << >> = {} /\ Len(<< >>) = 0
  OBVIOUS
<1>4. /\ new \in JobType /\ new.pc = "pipe" /\ new.list = job.list /\ new.p = job.p
      /\ new.tail = r.tail /\ new.op = r.op /\ new.q = r.head /\ new.open = job.open
      /\ new.fd = <<NONE, NONE, NONE, NONE>> /\ new.stages = << >>
      /\ new.last_pid = 0 /\ new.fork_counter = 0 /\ new.ran = job.ran
  BY <1>1, <1>2, <1>3, <1>8, ZenonT(40) DEF JobType, SplitType
<1>5. JobPipes(new)
  <2>1. job.p \in Seq(Tokens)
    BY <1>1 DEF JobType
  <2>2. PipesComplete(job.p) => PipesComplete(r.head) /\ PipesComplete(r.tail) /\ OnePipeline(r.head)
    BY <2>1, CompleteLogic
  <2> QED BY <1>4, <1>8, <2>2 DEF JobOK, JobPipes
<1>6. JobStatus(new) /\ JobLost(new)
  <2>1. Left(new) = {}
    BY <1>4, <1>8 DEF Left
  <2>2. Cardinality(Left(new)) = 0
    BY <2>1, FS_EmptySet
  <2>3. new.q # << >>
    <3>1. job.p \in Seq(Tokens)
      BY <1>1 DEF JobType
    <3> QED BY <1>4, <3>1, PipelineFound, Zenon
  <2> QED BY <1>4, <1>8, <2>2, <2>3 DEF JobStatus, JobLost
<1>7. JobLogic(new)
  <2>1. job.list \in Seq(Tokens) /\ job.list # << >>
    BY <1>1 DEF JobType, JobOK, JobLogic
  <2>2. ASSUME WellFormed(job.list)
        PROVE  Running(new)
    <3> PICK b \in Pipelines(job.list) \cup {Past(job.list)} :
               /\ job.p = Rest(job.list, b) /\ RanUpTo(job.list, job.ran, b)
               /\ b = Past(job.list) \/ Wanted(job.list, job.ran, b)
      BY <2>2 DEF JobOK, JobLogic, Deciding
    <3>1. b # Past(job.list)
      <4>1. split_logic(<< >>).op = "empty"
        BY DEF split_logic, Split
      <4> QED BY <4>1, <2>1, RestPast
    <3>2. b \in Pipelines(job.list) /\ Wanted(job.list, job.ran, b)
      BY <3>1
    <3> PICK next : /\ Follows(job.list, b, next) /\ r.op = OpBefore(job.list, next)
                    /\ r.tail = Rest(job.list, next)
      BY <2>1, <2>2, <3>2, NextPipeline, Zenon
    <3> QED BY <1>4, <3>2, ZenonT(40) DEF Running
  <2> QED BY <1>4, <2>1, <2>2 DEF JobLogic
<1> QED BY <1>4, <1>5, <1>6, <1>7 DEF JobOK

\* What LogicNext makes of a job whose pipeline has been noted in ran.
GoesOn(job, done, skip, new) ==
  \/ job.op = "last" /\ new = [done EXCEPT !.pc = "exited"]
  \/ job.op # "last" /\ skip /\ new = [done EXCEPT !.pc = StopsAt(job.op)]
  \/ job.op # "last" /\ ~skip /\ new = [done EXCEPT !.pc = "logic", !.p = job.tail]

\* A pipeline is over: the line goes on behind it or is at its end, or some
\* of it is skipped.
LEMMA LogicNextStep ==
  ASSUME NEW job, JobOK(job), job.pc = "wait", job.fork_counter = 0,
         NEW done, done = [job EXCEPT !.ran = Append(@, <<Len(job.list) - Len(job.p) + 1, job.code>>)],
         NEW skip \in BOOLEAN, skip <=> ((job.op = "or") = (job.code = 0)),
         NEW new, GoesOn(job, done, skip, new)
  PROVE  JobOK(new)
<1> USE DEF GoesOn
<1>1. job \in JobType
  BY DEF JobOK
<1>2. /\ job.list \in Seq(Tokens) /\ job.p \in Seq(Tokens) /\ job.tail \in Seq(Tokens)
      /\ job.ran \in Seq(Int \X Codes) /\ job.code \in Codes /\ job.stages \in Seq(StageType)
      /\ job.list # << >>
  BY <1>1 DEF JobType, JobOK, JobLogic
<1> PICK run : run = <<Len(job.list) - Len(job.p) + 1, job.code>>
  OBVIOUS
<1> PICK ran : ran = Append(job.ran, run)
  OBVIOUS
<1>3. run \in Int \X Codes
  <2> PICK n \in Nat, m \in Nat : n = Len(job.list) /\ m = Len(job.p)
    BY <1>2, LenProperties
  <2>1. n - m + 1 \in Int
    OBVIOUS
  <2> QED BY <1>2, <2>1
<1>4. ran \in Seq(Int \X Codes)
  BY <1>2, <1>3, AppendProperties
<1>5. done = [job EXCEPT !.ran = ran]
  BY Zenon
<1>6. /\ new \in JobType /\ new.pc \in {"exited", "and", "or", "logic"} /\ new.list = job.list
      /\ new.tail = job.tail /\ new.q = job.q /\ new.op = job.op
      /\ new.open = job.open /\ new.stages = job.stages
      /\ new.last_pid = job.last_pid /\ new.ran = ran
      /\ \/ job.op = "last" /\ new.pc = "exited" /\ new.p = job.p
         \/ job.op # "last" /\ skip /\ new.pc = StopsAt(job.op) /\ new.p = job.p
         \/ job.op # "last" /\ ~skip /\ new.pc = "logic" /\ new.p = job.tail
  <2>1. /\ done \in JobType /\ done.list = job.list /\ done.p = job.p /\ done.tail = job.tail
        /\ done.q = job.q /\ done.op = job.op /\ done.open = job.open
        /\ done.stages = job.stages /\ done.last_pid = job.last_pid /\ done.ran = ran
    <3>1. job \in JobType
      BY <1>1
    <3> QED BY ONLY <3>1, <1>4, <1>5, ZenonT(40) DEF JobType
  <2>2. CASE job.op = "last" /\ new = [done EXCEPT !.pc = "exited"]
    BY ONLY <2>1, <2>2 DEF JobType
  <2>3. CASE job.op # "last" /\ skip /\ new = [done EXCEPT !.pc = StopsAt(job.op)]
    <3>1. PICK pc \in {"and", "or"} : pc = StopsAt(job.op)
      BY DEF StopsAt
    <3>2. new = [done EXCEPT !.pc = pc]
      BY <2>3, <3>1
    <3>3. /\ new \in JobType /\ new.pc = pc /\ new.p = done.p /\ new.list = done.list
          /\ new.tail = done.tail /\ new.q = done.q /\ new.op = done.op /\ new.open = done.open
          /\ new.stages = done.stages /\ new.last_pid = done.last_pid /\ new.ran = done.ran
      BY ONLY <2>1, <3>2, pc \in {"and", "or"} DEF JobType
    <3> QED BY ONLY <2>1, <2>3, <3>1, <3>3, pc \in {"and", "or"}
  <2>4. CASE job.op # "last" /\ ~skip /\ new = [done EXCEPT !.pc = "logic", !.p = job.tail]
    <3> PICK u \in Seq(Tokens) : u = job.tail
      BY <1>2
    <3>1. new = [[done EXCEPT !.pc = "logic"] EXCEPT !.p = u]
      BY <2>4, Zenon
    <3>2. /\ new \in JobType /\ new.pc = "logic" /\ new.p = u /\ new.list = done.list
          /\ new.tail = done.tail /\ new.q = done.q /\ new.op = done.op /\ new.open = done.open
          /\ new.stages = done.stages /\ new.last_pid = done.last_pid /\ new.ran = done.ran
      BY ONLY <2>1, <3>1, u \in Seq(Tokens) DEF JobType
    <3> QED BY <2>1, <2>4, <3>2
  <2> QED BY <2>2, <2>3, <2>4
<1>7. JobPipes(new)
  BY <1>6 DEF JobOK, JobPipes
<1>8. Left(job) = {}
  <2>1. IsFiniteSet(Left(job)) /\ Cardinality(Left(job)) \in Nat
    BY <1>1, LeftFinite
  <2>2. Cardinality(Left(job)) <= 0
    BY DEF JobOK, JobStatus
  <2> QED BY <2>1, <2>2, FS_EmptySet
<1>9. JobStatus(new) /\ JobLost(new)
  <2>1. Left(new) = {}
    BY <1>6, <1>8 DEF Left
  <2> QED BY <1>6, <2>1 DEF JobOK, JobStatus, JobLost
<1>10. ASSUME WellFormed(job.list)
       PROVE  /\ new.pc = "logic" => Deciding(new)
              /\ new.pc \in {"and", "or"} => Skipping(new)
              /\ new.pc = "exited" => RanUpTo(new.list, new.ran, Past(new.list))
  <2> PICK list \in Seq(Tokens) : list = job.list
    BY <1>2
  <2> PICK h \in Pipelines(list) : \E next :
             /\ job.p = Rest(list, h)
             /\ RanUpTo(list, job.ran, h) /\ Wanted(list, job.ran, h)
             /\ Follows(list, h, next)
             /\ job.tail = Rest(list, next) /\ job.op = OpBefore(list, next)
    BY <1>10, Zenon DEF JobOK, JobLogic, Running
  <2> PICK next :
             /\ job.p = Rest(list, h)
             /\ RanUpTo(list, job.ran, h) /\ Wanted(list, job.ran, h)
             /\ Follows(list, h, next)
             /\ job.tail = Rest(list, next) /\ job.op = OpBefore(list, next)
    OBVIOUS
  <2>1. h \in 1 .. Len(list)
    BY <1>2, <1>10, StartsAtCommand
  <2>2. run = <<h, job.code>>
    <3> PICK n \in Nat, m \in Nat : n = Len(list) /\ m = Len(job.p)
      BY <1>2, LenProperties
    <3>1. m = n - h + 1
      BY <2>1, RestIs
    <3>2. n - m + 1 = h
      BY <2>1, <3>1
    <3> QED BY <3>2
  <2>3. ran # << >> /\ RanUpTo(list, ran, next) /\ ran[Len(ran)][2] = job.code
    <3>1. ran = Append(job.ran, <<h, job.code>>)
      BY <2>2
    <3>2. /\ list \in Seq(Tokens) /\ job.ran \in Seq(Int \X Codes) /\ h \in Pipelines(list)
          /\ job.code \in Codes
          /\ RanUpTo(list, job.ran, h) /\ Wanted(list, job.ran, h) /\ Follows(list, h, next)
      BY <1>2
    <3>3. ran # << >> /\ RanUpTo(list, ran, next) /\ ran[Len(ran)][2] = job.code
      BY ONLY <3>1, <3>2, RunsOneMore, Zenon
    <3> QED BY <3>3
  <2>4. next \in (Pipelines(list) \ {1}) \cup {Past(list)}
    BY <2>1 DEF Follows
  <2>5. next # Past(list) => next \in Pipelines(list) /\ next # 1 /\ next > 1
    <3>1. next # Past(list) => next \in 1 .. Len(list)
      BY <1>2, <1>10, <2>4, StartsAtCommand
    <3> QED BY <2>1, <2>4, <3>1
  <2>6. next # Past(list) => job.op \in {"or", "and"} /\ job.op = OpAt(list, next)
    BY <2>5 DEF OpBefore, OpAt
  <2>7. CASE job.op = "last"
    <3>1. next = Past(list)
      BY <2>6, <2>7
    <3> QED BY <1>6, <2>3, <2>7, <3>1
  <2>8. CASE job.op # "last" /\ skip
    <3>1. next # Past(list)
      BY <2>8 DEF OpBefore
    <3>2. (StopsAt(job.op) = "and") <=> (job.code = 0)
      BY <2>6, <2>8, <3>1 DEF StopsAt
    <3>3. new.pc = StopsAt(job.op) /\ new.pc \in {"and", "or"}
      BY <1>6, <2>8 DEF StopsAt
    <3>4. Skipping(new)
      <4>1. new.ran # << >> /\ ((new.pc = "and") <=> (new.ran[Len(new.ran)][2] = 0))
        <5>1. new.ran = ran
          BY <1>6
        <5> QED BY <2>3, <3>2, <3>3, <5>1, Zenon
      <4>2. new.list = list /\ new.ran = ran /\ new.tail = job.tail /\ new.op = job.op
        BY <1>6
      <4>3. /\ RanUpTo(new.list, new.ran, next) /\ new.tail = Rest(new.list, next)
            /\ new.op = OpBefore(new.list, next)
            /\ next \in (Pipelines(new.list) \ {1}) \cup {Past(new.list)}
        BY <2>3, <2>4, <4>2
      <4> QED BY ONLY <4>1, <4>3, Zenon DEF Skipping
    <3> QED BY <3>3, <3>4
  <2>9. CASE job.op # "last" /\ ~skip
    <3>1. next # Past(list)
      BY <2>9 DEF OpBefore
    <3>2. StatusOf(ran, next) = job.code
      <4>1. StatusOf(ran, next) = ran[Len(ran)][2]
        <5>1. RanUpTo(list, ran, next) /\ list \in Seq(Tokens)
          BY <2>3
        <5> QED BY ONLY <5>1, LastStatus, Zenon
      <4> QED BY <2>3, <4>1, Zenon
    <3>3. Wanted(list, ran, next)
      BY <2>6, <2>9, <3>1, <3>2 DEF Wanted
    <3>4. new.pc = "logic" /\ new.p = Rest(list, next)
      BY <1>6, <2>9
    <3>5. Deciding(new)
      BY <1>6, <2>3, <2>4, <3>3, <3>4, ZenonT(40) DEF Deciding
    <3> QED BY <3>4, <3>5
  <2> QED BY <2>7, <2>8, <2>9
<1>11. JobLogic(new)
  BY <1>2, <1>6, <1>10 DEF JobLogic
<1> QED BY <1>6, <1>7, <1>9, <1>11 DEF JobOK

\* What Skip makes of a job.
SkipsOn(job, r, new) ==
  \/ /\ job.op \in {"empty", job.pc}
     /\ new = [job EXCEPT !.pc = "logic", !.p = job.tail]
  \/ /\ job.op \notin {"empty", job.pc}
     /\ new = [job EXCEPT !.p = job.tail, !.op = r.op, !.tail = r.tail]

\* One iteration of a loop that skips.
LEMMA SkipStep ==
  ASSUME NEW job, JobOK(job), job.pc \in {"and", "or"}, NEW r, r = split_logic(job.tail),
         NEW new, SkipsOn(job, r, new)
  PROVE  JobOK(new)
<1> USE DEF SkipsOn
<1>1. job \in JobType
  BY DEF JobOK
<1>2. /\ job.list \in Seq(Tokens) /\ job.tail \in Seq(Tokens) /\ job.list # << >>
      /\ job.ran \in Seq(Int \X Codes)
  BY <1>1 DEF JobType, JobOK, JobLogic
<1>3. r \in SplitType
  BY <1>2, SplitTypes
<1>4. /\ new \in JobType /\ new.list = job.list /\ new.q = job.q /\ new.open = job.open
      /\ new.stages = job.stages /\ new.last_pid = job.last_pid /\ new.ran = job.ran
      /\ new.p = job.tail
      /\ \/ /\ job.op \in {"empty", job.pc}
            /\ new.pc = "logic" /\ new.tail = job.tail /\ new.op = job.op
         \/ /\ job.op \notin {"empty", job.pc}
            /\ new.pc = job.pc /\ new.tail = r.tail /\ new.op = r.op
  BY <1>1, <1>2, <1>3, ZenonT(40) DEF JobType, SplitType
<1>5. JobPipes(new)
  <2>1. PipesComplete(job.tail) => PipesComplete(r.tail)
    BY <1>2, CompleteLogic
  <2> QED BY <1>4, <2>1 DEF JobOK, JobPipes
<1>6. JobStatus(new) /\ JobLost(new)
  BY <1>4 DEF JobOK, JobStatus, JobLost, Left
<1>7. ASSUME WellFormed(job.list)
      PROVE  /\ new.pc = "logic" => Deciding(new)
             /\ new.pc \in {"and", "or"} => Skipping(new)
  <2> PICK list \in Seq(Tokens) : list = job.list
    BY <1>2
  <2> PICK ran \in Seq(Int \X Codes) : ran = job.ran
    BY <1>2
  <2>1. Skipping(job)
    BY <1>7 DEF JobOK, JobLogic
  <2>2. ran # << >> /\ ((job.pc = "and") <=> (ran[Len(ran)][2] = 0))
    BY <2>1 DEF Skipping
  <2> PICK next \in (Pipelines(list) \ {1}) \cup {Past(list)} :
             /\ RanUpTo(list, ran, next) /\ job.tail = Rest(list, next)
             /\ \/ job.op = OpBefore(list, next)
                \/ job.op = "empty" /\ next = Past(list)
    BY <2>1, Zenon DEF Skipping
  <2>3. next # Past(list) => /\ next \in Pipelines(list) /\ next # 1 /\ next > 1
                             /\ job.op = OpAt(list, next) /\ job.op \in {"or", "and"}
    <3>1. ASSUME next # Past(list)
          PROVE  next \in Pipelines(list) /\ next # 1 /\ next > 1
      <4>1. next \in 1 .. Len(list)
        BY <1>2, <1>7, <3>1, StartsAtCommand
      <4> QED BY <3>1, <4>1
    <3> QED BY <3>1 DEF OpBefore, OpAt
  <2>4. StatusOf(ran, next) = ran[Len(ran)][2]
    <3>1. RanUpTo(list, ran, next) /\ list \in Seq(Tokens)
      OBVIOUS
    <3> QED BY ONLY <3>1, LastStatus, Zenon
  <2>5. new.list = list /\ new.ran = ran
    BY <1>4
  <2>6. CASE job.op \in {"empty", job.pc}
    <3>1. next = Past(list) \/ Wanted(list, ran, next)
      BY <2>2, <2>3, <2>4, <2>6 DEF Wanted
    <3>2. new.pc = "logic" /\ new.p = Rest(list, next)
      BY <1>4, <2>6
    <3>3. Deciding(new)
      <4>1. next \in Pipelines(list) \cup {Past(list)} /\ RanUpTo(list, ran, next)
        OBVIOUS
      <4>2. \E b \in Pipelines(list) \cup {Past(list)} :
              /\ Rest(list, next) = Rest(list, b) /\ RanUpTo(list, ran, b)
              /\ b = Past(list) \/ Wanted(list, ran, b)
        BY ONLY <4>1, <3>1
      <4> QED BY ONLY <4>2, <2>5, <3>2, ZenonT(40) DEF Deciding
    <3> QED BY <3>2, <3>3
  <2>7. CASE job.op \notin {"empty", job.pc}
    <3>1. new.pc = job.pc /\ new.tail = r.tail /\ new.op = r.op
      BY <1>4, <2>7
    <3>2. \E n \in (Pipelines(list) \ {1}) \cup {Past(list)} :
            /\ RanUpTo(list, ran, n) /\ r.tail = Rest(list, n)
            /\ \/ r.op = OpBefore(list, n)
               \/ r.op = "empty" /\ n = Past(list)
      <4>1. CASE next = Past(list)
        <5>1. job.tail = << >>
          BY <4>1, RestPast
        <5>2. r.op = "empty" /\ r.tail = << >>
          BY <5>1 DEF split_logic, Split
        <5> QED BY <4>1, <5>1, <5>2
      <4>2. CASE next # Past(list)
        <5>1. ~Wanted(list, ran, next)
          BY <2>2, <2>3, <2>4, <2>7, <4>2 DEF Wanted
        <5>2. next \in Pipelines(list) /\ list # << >> /\ WellFormed(list)
          BY <1>2, <1>7, <2>3, <4>2
        <5>8. r = split_logic(Rest(list, next))
          BY Zenon
        <5>9. \E n : /\ Follows(list, next, n)
                     /\ split_logic(Rest(list, next)).op = OpBefore(list, n)
                     /\ split_logic(Rest(list, next)).tail = Rest(list, n)
          BY ONLY <5>2, list \in Seq(Tokens), NextPipeline, Zenon
        <5> PICK n : Follows(list, next, n) /\ r.op = OpBefore(list, n) /\ r.tail = Rest(list, n)
          BY ONLY <5>8, <5>9, Zenon
        <5>3. \A i \in 1 .. Len(ran) : ran[i][1] \in Int
          OBVIOUS
        <5>4. RanUpTo(list, ran, n)
          BY <5>1, <5>2, <5>3, PassesOne
        <5>5. n # 1
          BY <2>3, <4>2, <5>2, PipelinesFinite DEF Follows
        <5> QED BY <5>4, <5>5 DEF Follows
      <4> QED BY <4>1, <4>2
    <3>3. new.ran # << >> /\ ((new.pc = "and") <=> (new.ran[Len(new.ran)][2] = 0))
      BY <2>2, <2>5, <3>1, Zenon
    <3>4. \E n \in (Pipelines(new.list) \ {1}) \cup {Past(new.list)} :
            /\ RanUpTo(new.list, new.ran, n) /\ new.tail = Rest(new.list, n)
            /\ \/ new.op = OpBefore(new.list, n)
               \/ new.op = "empty" /\ n = Past(new.list)
      BY <2>5, <3>1, <3>2
    <3>5. Skipping(new)
      BY ONLY <3>3, <3>4, Zenon DEF Skipping
    <3> QED BY <3>1, <3>5
  <2> QED BY <2>6, <2>7
<1>8. JobLogic(new)
  BY <1>2, <1>4, <1>7 DEF JobLogic
<1> QED BY <1>4, <1>5, <1>6, <1>8 DEF JobOK

\* A new stage is of its type and holds what its parent holds.
LEMMA StageBorn ==
  ASSUME NEW p \in Seq(Tokens), NEW fd \in [1 .. 4 -> Ends], NEW open \in SUBSET Ends
  PROVE  /\ Stage(p, fd, open) \in StageType
         /\ Stage(p, fd, open).state = "forked"
         /\ open \subseteq {fd[1], fd[2], fd[3], fd[4]} => StagePipes(Stage(p, fd, open))
<1>1. 0 \in Codes
  BY ShellAssumption
<1>2. Stage(p, fd, open) \in StageType
  BY <1>1 DEF Stage, StageType
<1> QED BY <1>2 DEF Stage, StagePipes

\* What pipe() and fork() make of a job.
Piped(job, r, before) ==
  \/ before = job
  \/ /\ r.op # "last"
     /\ before = [job EXCEPT !.fd[3] = R(job.pipes + 1), !.fd[4] = W(job.pipes + 1),
                             !.open = @ \cup {R(job.pipes + 1), W(job.pipes + 1)},
                             !.pipes = job.pipes + 1]
Forked(before, r, after) ==
  \/ after = [before EXCEPT !.last_pid = 0]
  \/ after = [before EXCEPT !.last_pid = Len(before.stages) + 1,
                            !.stages = Append(@, Stage(r.head, before.fd, before.open))]

\* pipe() and fork(), each with or without success.
LEMMA ForkStep ==
  ASSUME NEW job, JobOK(job), job.pc = "pipe", NEW r, r = split_pipeline(job.q), r.op # "empty",
         NEW before, Piped(job, r, before), NEW after, Forked(before, r, after),
         NEW new, new = [after EXCEPT !.pc = "prepare", !.q = r.tail]
  PROVE  JobOK(new)
<1> USE DEF Piped, Forked
<1> PICK n : n = job.pipes + 1
  OBVIOUS
<1>1. job \in JobType
  BY DEF JobOK
<1>2. /\ job.q \in Seq(Tokens) /\ job.stages \in Seq(StageType) /\ job.pipes \in Nat
      /\ job.fd \in [1 .. 4 -> Ends] /\ job.open \in SUBSET Ends
  BY <1>1 DEF JobType
<1>3. r \in SplitType /\ (r.op = "last" \/ r.op = "default")
  <2>1. r \in SplitType
    BY <1>2, SplitTypes
  <2>2. \A op, h, u : Split(op, h, u).op = op
    BY DEF Split
  <2>3. \E op \in {"empty", "last", "default"} : \E h, u : r = Split(op, h, u)
    BY ONLY <1>2, SplitPipelineIs, r = split_pipeline(job.q)
  <2>4. r.op \in {"empty", "last", "default"}
    BY ONLY <2>2, <2>3
  <2> QED BY ONLY <2>1, <2>4, r.op # "empty"
<1>4. n \in Nat /\ R(n) \in Ends /\ W(n) \in Ends /\ R(n) # NONE /\ W(n) # NONE
  BY <1>2 DEF Ends, R, W, NONE
<1>5. /\ before \in JobType /\ before.list = job.list /\ before.p = job.p
      /\ before.tail = job.tail /\ before.op = job.op /\ before.ran = job.ran
      /\ before.stages = job.stages /\ before.fork_counter = job.fork_counter
      /\ before.fd[1] = job.fd[1] /\ before.fd[2] = job.fd[2]
      /\ \/ before.fd = job.fd /\ before.open = job.open
         \/ /\ r.op # "last" /\ before.fd[3] = R(n) /\ before.fd[4] = W(n)
            /\ before.open = job.open \cup {R(n), W(n)}
  <2>1. CASE before = job
    BY <1>1, <2>1
  <2>2. CASE /\ r.op # "last"
             /\ before = [job EXCEPT !.fd[3] = R(n), !.fd[4] = W(n),
                                     !.open = @ \cup {R(n), W(n)}, !.pipes = n]
    <3> PICK fd : fd = [job.fd EXCEPT ![3] = R(n), ![4] = W(n)]
      OBVIOUS
    <3>1. /\ fd \in [1 .. 4 -> Ends] /\ fd[1] = job.fd[1] /\ fd[2] = job.fd[2]
          /\ fd[3] = R(n) /\ fd[4] = W(n)
      BY <1>2, <1>4
    <3> PICK open : open = job.open \cup {R(n), W(n)}
      OBVIOUS
    <3>2. open \in SUBSET Ends
      BY <1>2, <1>4
    <3>3. before = [job EXCEPT !.fd = fd, !.open = open, !.pipes = n]
      BY <1>1, <2>2 DEF JobType
    <3>4. /\ before \in JobType /\ before.list = job.list /\ before.p = job.p
          /\ before.tail = job.tail /\ before.op = job.op /\ before.ran = job.ran
          /\ before.stages = job.stages /\ before.fork_counter = job.fork_counter
          /\ before.fd = fd /\ before.open = open
      BY ONLY <1>1, <1>4, <3>1, <3>2, <3>3 DEF JobType
    <3> QED BY <2>2, <3>1, <3>4
  <2> QED BY <2>1, <2>2
<1>6. PICK stage : /\ stage \in StageType /\ stage.state = "forked"
                   /\ stage = Stage(r.head, before.fd, before.open)
                   /\ before.open \subseteq {before.fd[1], before.fd[2], before.fd[3], before.fd[4]}
                        => StagePipes(stage)
  <2>1. /\ r.head \in Seq(Tokens) /\ before.fd \in [1 .. 4 -> Ends]
        /\ before.open \in SUBSET Ends
    BY <1>3, <1>5 DEF SplitType, JobType
  <2> QED BY <2>1, StageBorn, Zenon
<1> PICK l \in Nat : l = Len(job.stages)
  BY <1>2, LenProperties
<1>7. PICK stages \in Seq(StageType) :
        /\ stages = Append(job.stages, stage) /\ Len(stages) = l + 1
        /\ \A k \in 1 .. l : stages[k] = job.stages[k]
        /\ stages[l + 1] = stage
  <2> PICK old \in Seq(StageType) : old = job.stages
    BY <1>2
  <2>0. old \in Seq(StageType) /\ stage \in StageType
    BY <1>6
  <2>1. /\ Append(old, stage) \in Seq(StageType)
        /\ Len(Append(old, stage)) = Len(old) + 1
        /\ \A k \in 1 .. Len(old) : Append(old, stage)[k] = old[k]
        /\ Append(old, stage)[Len(old) + 1] = stage
    BY ONLY <2>0, AppendProperties
  <2>2. Len(old) = l
    OBVIOUS
  <2> QED BY <2>1, <2>2, Zenon
<1>8. /\ after \in JobType /\ after.list = job.list /\ after.p = job.p
      /\ after.tail = job.tail /\ after.op = job.op /\ after.ran = job.ran
      /\ after.fork_counter = job.fork_counter
      /\ after.fd = before.fd /\ after.open = before.open
      /\ \/ after.last_pid = 0 /\ after.stages = job.stages
         \/ after.last_pid = l + 1 /\ after.stages = stages
  <2>1. CASE after = [before EXCEPT !.last_pid = 0]
    <3>1. 0 \in Nat
      OBVIOUS
    <3> QED BY ONLY <1>5, <2>1, <3>1 DEF JobType
  <2>2. CASE after = [before EXCEPT !.last_pid = Len(before.stages) + 1,
                             !.stages = Append(@, Stage(r.head, before.fd, before.open))]
    <3>1. after = [before EXCEPT !.last_pid = l + 1, !.stages = stages]
      BY <1>5, <1>6, <1>7, <2>2, Zenon
    <3>2. l + 1 \in Nat /\ stages \in Seq(StageType)
      OBVIOUS
    <3> QED BY ONLY <1>5, <3>1, <3>2 DEF JobType
  <2> QED BY <2>1, <2>2
<1>9. /\ new \in JobType /\ new.pc = "prepare" /\ new.q = r.tail
      /\ new.list = job.list /\ new.p = job.p
      /\ new.tail = job.tail /\ new.op = job.op /\ new.ran = job.ran
      /\ new.fork_counter = job.fork_counter
      /\ new.fd = before.fd /\ new.open = before.open
      /\ \/ new.last_pid = 0 /\ new.stages = job.stages
         \/ new.last_pid = l + 1 /\ new.stages = stages
  <2> PICK q \in Seq(Tokens) : q = r.tail
    BY <1>3 DEF SplitType
  <2>1. new = [after EXCEPT !.pc = "prepare", !.q = q]
    BY Zenon
  <2>2. /\ new \in JobType /\ new.pc = "prepare" /\ new.q = q
        /\ new.list = after.list /\ new.p = after.p
        /\ new.tail = after.tail /\ new.op = after.op /\ new.ran = after.ran
        /\ new.fork_counter = after.fork_counter
        /\ new.fd = after.fd /\ new.open = after.open
        /\ new.last_pid = after.last_pid /\ new.stages = after.stages
    BY ONLY <1>8, <2>1, q \in Seq(Tokens) DEF JobType
  <2> QED BY <1>8, <2>2
<1>10. JobPipes(new)
  <2> SUFFICES ASSUME PipesComplete(job.list)
               PROVE  /\ PipesComplete(new.p) /\ PipesComplete(new.tail) /\ PipesComplete(new.q)
                      /\ OnePipeline(new.q) /\ NONE \notin new.open
                      /\ new.open \subseteq {new.fd[1], new.fd[2], new.fd[3], new.fd[4]}
                      /\ new.q = << >> => new.fd[3] = NONE /\ new.fd[4] = NONE
                      /\ \A k \in DOMAIN new.stages : StagePipes(new.stages[k])
    BY <1>9 DEF JobPipes
  <2>1. /\ PipesComplete(job.p) /\ PipesComplete(job.tail) /\ PipesComplete(job.q)
        /\ OnePipeline(job.q)
        /\ NONE \notin job.open /\ job.open \subseteq {job.fd[1], job.fd[2]}
        /\ job.fd[3] = NONE /\ job.fd[4] = NONE
        /\ \A k \in DOMAIN job.stages : StagePipes(job.stages[k])
    BY DEF JobOK, JobPipes
  <2>2. PipesComplete(r.tail) /\ OnePipeline(r.tail) /\ (r.op = "default" => r.tail # << >>)
    BY <1>2, <2>1, CompletePipeline
  <2>3. /\ NONE \notin before.open
        /\ before.open \subseteq {before.fd[1], before.fd[2], before.fd[3], before.fd[4]}
        /\ r.tail = << >> => before.fd[3] = NONE /\ before.fd[4] = NONE
    BY <1>3, <1>4, <1>5, <2>1, <2>2
  <2>4. \A k \in DOMAIN new.stages : StagePipes(new.stages[k])
    <3>1. DOMAIN stages = 1 .. l + 1 /\ DOMAIN job.stages = 1 .. l
      BY <1>2, <1>7
    <3>2. \A k \in DOMAIN stages : StagePipes(stages[k])
      BY <1>6, <1>7, <2>1, <2>3, <3>1
    <3> QED BY <1>9, <2>1, <3>2
  <2> QED BY <1>9, <2>1, <2>2, <2>3, <2>4
<1>11. JobStatus(new) /\ JobLost(new)
  <2>1. IsFiniteSet(Left(job)) /\ Cardinality(Left(job)) \in Nat /\ job.fork_counter \in Nat
    BY <1>1, LeftFinite DEF JobType
  <2>2. Cardinality(Left(job)) <= job.fork_counter
    BY DEF JobOK, JobStatus
  <2>3. CASE new.last_pid = 0 /\ new.stages = job.stages
    <3>1. Left(new) = Left(job)
      BY <2>3 DEF Left
    <3>2. JobStatus(new)
      BY <1>9, <2>1, <2>2, <2>3, <3>1 DEF JobStatus
    <3>3. JobLost(new)
      BY <1>9, <2>2, <2>3, <3>1 DEF JobOK, JobLost
    <3> QED BY <3>2, <3>3
  <2>4. CASE new.last_pid = l + 1 /\ new.stages = stages
    <3>1. DOMAIN stages = 1 .. l + 1 /\ DOMAIN job.stages = 1 .. l
      BY <1>2, <1>7
    <3>2. stages[l + 1].state # "reaped" /\ \A k \in 1 .. l : stages[k] = job.stages[k]
      BY <1>6, <1>7
    <3>3. Left(new) = Left(job) \cup {l + 1}
      BY <2>4, <3>1, <3>2 DEF Left
    <3>4. l + 1 \notin Left(job)
      BY <3>1 DEF Left
    <3>5. Cardinality(Left(new)) = Cardinality(Left(job)) + 1
      BY <2>1, <3>3, <3>4, FS_AddElement, Zenon
    <3>7. Cardinality(Left(new)) <= job.fork_counter + 1
      BY <2>1, <2>2, <3>5
    <3>6. new.last_pid \in 0 .. Len(new.stages)
      BY <1>7, <2>4
    <3>8. JobStatus(new)
      BY <1>9, <2>4, <3>2, <3>7, <3>6 DEF JobStatus
    <3>9. \A k \in DOMAIN stages : k \in Left(new)
      BY <3>1, <3>3 DEF JobOK, JobLost
    <3> QED BY <1>9, <2>4, <3>8, <3>9 DEF JobLost
  <2> QED BY <1>9, <2>3, <2>4
<1>12. JobLogic(new)
  BY <1>9 DEF JobOK, JobLogic, Running
<1> QED BY <1>9, <1>10, <1>11, <1>12 DEF JobOK

\* prepare_fd(): what is open is what is ahead.
LEMMA PrepareStep ==
  ASSUME NEW job, JobOK(job), job.pc = "prepare",
         NEW new, new = [prepare_fd(job) EXCEPT !.pc = "pipe", !.fork_counter = @ + 1]
  PROVE  JobOK(new)
<1>1. job \in JobType
  BY DEF JobOK
<1> PICK fd : fd = <<job.fd[3], job.fd[4], NONE, NONE>>
  OBVIOUS
<1> PICK open : open = job.open \ {job.fd[1], job.fd[2]}
  OBVIOUS
<1> PICK f \in Nat : f = job.fork_counter + 1
  BY <1>1 DEF JobType
<1>2. /\ fd \in [1 .. 4 -> Ends] /\ open \in SUBSET Ends
      /\ fd[1] = job.fd[3] /\ fd[2] = job.fd[4] /\ fd[3] = NONE /\ fd[4] = NONE
  <2>1. job.fd \in [1 .. 4 -> Ends] /\ job.open \in SUBSET Ends /\ NONE \in Ends
    BY <1>1 DEF JobType, Ends
  <2> QED BY <2>1
<1>3. new = [job EXCEPT !.fd = fd, !.open = open, !.pc = "pipe", !.fork_counter = f]
  BY <1>1 DEF prepare_fd, JobType
<1>4. /\ new \in JobType /\ new.pc = "pipe" /\ new.list = job.list /\ new.p = job.p
      /\ new.tail = job.tail /\ new.op = job.op /\ new.q = job.q /\ new.open = open
      /\ new.fd = fd /\ new.stages = job.stages
      /\ new.last_pid = job.last_pid /\ new.fork_counter = f /\ new.ran = job.ran
  BY ONLY <1>1, <1>2, <1>3, f \in Nat DEF JobType
<1>5. JobPipes(new)
  BY <1>2, <1>4 DEF JobOK, JobPipes
<1>6. JobStatus(new) /\ JobLost(new)
  <2>1. Left(new) = Left(job)
    BY <1>4 DEF Left
  <2>2. Cardinality(Left(job)) \in Nat /\ job.fork_counter \in Nat
    BY <1>1, LeftFinite DEF JobType
  <2>3. JobStatus(new)
    BY <1>4 DEF JobOK, JobStatus, Left
  <2>4. JobLost(new)
    BY <1>4, <2>1, <2>2 DEF JobOK, JobLost
  <2> QED BY <2>3, <2>4
<1>7. JobLogic(new)
  BY <1>4 DEF JobOK, JobLogic, Running
<1> QED BY <1>4, <1>5, <1>6, <1>7 DEF JobOK

\* The printf() without an argument ends the subshell.
LEMMA CrashStep ==
  ASSUME NEW job, JobOK(job), job.pc = "prepare",
         NEW new, new = [job EXCEPT !.pc = "crashed", !.open = {}]
  PROVE  JobOK(new)
<1>1. job \in JobType
  BY DEF JobOK
<1>2. /\ new \in JobType /\ new.pc = "crashed" /\ new.list = job.list /\ new.p = job.p
      /\ new.tail = job.tail /\ new.q = job.q /\ new.open = {}
      /\ new.stages = job.stages /\ new.last_pid = job.last_pid
  BY <1>1 DEF JobType
<1>3. JobPipes(new)
  BY <1>2 DEF JobOK, JobPipes
<1>4. JobStatus(new) /\ JobLost(new) /\ JobLogic(new)
  BY <1>2 DEF JobOK, JobStatus, JobLost, JobLogic
<1> QED BY <1>2, <1>3, <1>4 DEF JobOK

\* All stages have been forked.
LEMMA AllForkedStep ==
  ASSUME NEW job, JobOK(job), job.pc = "pipe", split_pipeline(job.q).op = "empty",
         NEW new, new = [job EXCEPT !.pc = "wait"]
  PROVE  JobOK(new)
<1>1. job \in JobType /\ job.q \in Seq(Tokens)
  BY DEF JobOK, JobType
<1>2. /\ new \in JobType /\ new.pc = "wait" /\ new.list = job.list /\ new.p = job.p
      /\ new.tail = job.tail /\ new.op = job.op /\ new.q = job.q /\ new.open = job.open
      /\ new.fd = job.fd /\ new.stages = job.stages /\ new.code = job.code
      /\ new.last_pid = job.last_pid /\ new.fork_counter = job.fork_counter /\ new.ran = job.ran
  BY <1>1 DEF JobType
<1>3. job.q = << >>
  BY <1>1, SplitPipelineIs DEF Split
<1>4. JobPipes(new)
  BY <1>2, <1>3 DEF JobOK, JobPipes
<1>5. JobStatus(new) /\ JobLost(new)
  <2>1. Left(new) = Left(job)
    BY <1>2 DEF Left
  <2>2. Left(job) = DOMAIN job.stages
    BY DEF JobOK, JobLost, Left
  <2>3. JobStatus(new)
    BY <1>2 DEF JobOK, JobStatus, Left
  <2>4. JobLost(new)
    BY <1>2, <1>3, <2>1, <2>2 DEF JobOK, JobLost
  <2> QED BY <2>3, <2>4
<1>6. JobLogic(new)
  BY <1>2 DEF JobOK, JobLogic, Running
<1> QED BY <1>2, <1>4, <1>5, <1>6 DEF JobOK

\* A stage is replaced.
LEMMA StageReplaced ==
  ASSUME NEW s \in Seq(StageType), NEW k \in DOMAIN s, NEW stage \in StageType
  PROVE  /\ [s EXCEPT ![k] = stage] \in Seq(StageType)
         /\ DOMAIN [s EXCEPT ![k] = stage] = DOMAIN s
         /\ Len([s EXCEPT ![k] = stage]) = Len(s)
         /\ [s EXCEPT ![k] = stage][k] = stage
         /\ \A i \in DOMAIN s \ {k} : [s EXCEPT ![k] = stage][i] = s[i]
OBVIOUS

\* wait() returns a stage that has ended.
LEMMA WaitStep ==
  ASSUME NEW job, JobOK(job), job.pc = "wait", job.fork_counter > 0,
         NEW k \in Left(job), job.stages[k].state = "exited",
         NEW new, new = [job EXCEPT !.fork_counter = @ - 1, !.s = job.stages[k].code,
                                    !.code = StatusAfter(job, k, job.stages[k].code),
                                    !.stages[k].state = "reaped"]
  PROVE  JobOK(new)
<1>1. job \in JobType /\ job.stages \in Seq(StageType)
  BY DEF JobOK, JobType
<1>2. k \in DOMAIN job.stages /\ job.stages[k] \in StageType /\ job.stages[k].state # "reaped"
  BY <1>1 DEF Left
<1> PICK stage : stage = [job.stages[k] EXCEPT !.state = "reaped"]
  OBVIOUS
<1>3. /\ stage \in StageType /\ stage.state = "reaped" /\ stage.code = job.stages[k].code
      /\ stage.ends = job.stages[k].ends /\ stage.fd = job.stages[k].fd
  BY <1>2 DEF StageType
<1> PICK code \in Codes : code = job.stages[k].code
  BY <1>2 DEF StageType
<1>4. PICK stages \in Seq(StageType) :
        /\ stages = [job.stages EXCEPT ![k] = stage]
        /\ DOMAIN stages = DOMAIN job.stages /\ Len(stages) = Len(job.stages)
        /\ stages[k] = stage
        /\ \A i \in DOMAIN job.stages \ {k} : stages[i] = job.stages[i]
  <2> PICK s \in Seq(StageType) : s = job.stages
    BY <1>1
  <2>1. k \in DOMAIN s /\ stage \in StageType
    BY <1>2, <1>3
  <2>2. /\ [s EXCEPT ![k] = stage] \in Seq(StageType)
        /\ DOMAIN [s EXCEPT ![k] = stage] = DOMAIN s
        /\ Len([s EXCEPT ![k] = stage]) = Len(s)
        /\ [s EXCEPT ![k] = stage][k] = stage
        /\ \A i \in DOMAIN s \ {k} : [s EXCEPT ![k] = stage][i] = s[i]
    BY ONLY <2>1, s \in Seq(StageType), StageReplaced
  <2> QED BY <2>2, Zenon
<1>5. new = [job EXCEPT !.fork_counter = @ - 1, !.s = code,
                        !.code = StatusAfter(job, k, code), !.stages = stages]
  BY <1>1, <1>4 DEF JobType
<1>6. /\ new \in JobType /\ new.pc = "wait" /\ new.list = job.list /\ new.p = job.p
      /\ new.tail = job.tail /\ new.op = job.op /\ new.q = job.q /\ new.open = job.open
      /\ new.fd = job.fd /\ new.stages = stages /\ new.code = StatusAfter(job, k, code)
      /\ new.last_pid = job.last_pid /\ new.fork_counter = job.fork_counter - 1
      /\ new.ran = job.ran /\ new.s = code
  <2> PICK f \in Nat : f = job.fork_counter - 1
    BY <1>1 DEF JobType
  <2> PICK status \in Codes : status = StatusAfter(job, k, code)
    BY <1>1 DEF JobType, StatusAfter
  <2>1. new = [job EXCEPT !.fork_counter = f, !.s = code, !.code = status, !.stages = stages]
    BY <1>5, Zenon
  <2>2. f \in Nat /\ code \in Codes /\ status \in Codes /\ stages \in Seq(StageType)
    OBVIOUS
  <2>3. /\ new \in JobType /\ new.pc = job.pc /\ new.list = job.list /\ new.p = job.p
        /\ new.tail = job.tail /\ new.op = job.op /\ new.q = job.q /\ new.open = job.open
        /\ new.fd = job.fd /\ new.stages = stages /\ new.code = status
        /\ new.last_pid = job.last_pid /\ new.fork_counter = f /\ new.ran = job.ran
        /\ new.s = code
    BY ONLY <1>1, <2>1, <2>2 DEF JobType
  <2> QED BY <2>3
<1>7. JobPipes(new)
  <2> SUFFICES ASSUME PipesComplete(job.list)
               PROVE  \A i \in DOMAIN stages : StagePipes(stages[i])
    BY <1>6 DEF JobOK, JobPipes
  <2>1. \A i \in DOMAIN job.stages : StagePipes(job.stages[i])
    BY DEF JobOK, JobPipes
  <2>2. StagePipes(stage)
    BY <1>2, <1>3, <2>1 DEF StagePipes
  <2> QED BY <1>4, <2>1, <2>2
<1>8. JobStatus(new) /\ JobLost(new)
  <2>1. IsFiniteSet(Left(job)) /\ Cardinality(Left(job)) \in Nat /\ job.fork_counter \in Nat
    BY <1>1, LeftFinite DEF JobType
  <2>2. Left(new) = Left(job) \ {k}
    BY <1>2, <1>3, <1>4, <1>6 DEF Left
  <2>3. Cardinality(Left(new)) = Cardinality(Left(job)) - 1
    BY <2>1, <2>2, FS_RemoveElement
  <2>4. Cardinality(Left(new)) <= new.fork_counter
    BY <1>6, <2>1, <2>3 DEF JobOK, JobStatus
  <2>5. new.last_pid \in 0 .. Len(new.stages)
    BY <1>4, <1>6 DEF JobOK, JobStatus
  <2>6. ASSUME new.last_pid # 0, new.stages[new.last_pid].state = "reaped"
        PROVE  new.code = new.stages[new.last_pid].code
    <3>1. CASE job.last_pid = k
      BY <1>3, <1>4, <1>6, <3>1 DEF StatusAfter
    <3>2. CASE job.last_pid # k
      <4>1. job.last_pid \in DOMAIN job.stages
        <5>1. DOMAIN job.stages = 1 .. Len(job.stages) /\ Len(job.stages) \in Nat
          BY <1>1, LenProperties
        <5> QED BY <1>6, <2>6, <5>1 DEF JobOK, JobStatus
      <4>2. new.stages[new.last_pid] = job.stages[job.last_pid]
        BY <1>4, <1>6, <3>2, <4>1
      <4>3. job.code = job.stages[job.last_pid].code
        BY <1>6, <2>6, <4>2 DEF JobOK, JobStatus
      <4> QED BY <1>6, <3>2, <4>2, <4>3 DEF StatusAfter
    <3> QED BY <3>1, <3>2
  <2>7. JobStatus(new)
    BY <1>6, <2>4, <2>5, <2>6 DEF JobStatus
  <2>8. k \in DOMAIN new.stages /\ new.s = new.stages[k].code /\ k \notin Left(new)
    BY <1>2, <1>3, <1>4, <1>6, <2>2
  <2>9. job.last_pid = 0 => Cardinality(Left(new)) < new.fork_counter
    BY <1>6, <2>1, <2>3 DEF JobOK, JobLost
  <2>10. JobLost(new)
    BY <1>6, <2>8, <2>9 DEF JobLost
  <2> QED BY <2>7, <2>10
<1>9. JobLogic(new)
  BY <1>6 DEF JobOK, JobLogic, Running
<1> QED BY <1>6, <1>7, <1>8, <1>9 DEF JobOK

\* wait() has no child to return: the one counted could not be forked.
LEMMA ChildlessStep ==
  ASSUME NEW job, JobOK(job), job.pc = "wait", job.fork_counter > 0, Left(job) = {},
         NEW code \in IF job.s = -1 THEN Codes ELSE {job.s},
         NEW new, new = [job EXCEPT !.fork_counter = @ - 1, !.s = code,
                                    !.code = StatusAfter(job, 0, code)]
  PROVE  JobOK(new)
<1>1. job \in JobType
  BY DEF JobOK
<1>2. code \in Codes
  BY <1>1 DEF JobType
<1> PICK f \in Nat : f = job.fork_counter - 1
  BY <1>1 DEF JobType
<1> PICK status \in Codes : status = StatusAfter(job, 0, code)
  BY <1>1, <1>2 DEF JobType, StatusAfter
<1>3. new = [job EXCEPT !.fork_counter = f, !.s = code, !.code = status]
  BY Zenon
<1>4. f \in Nat /\ status \in Codes
  OBVIOUS
<1>5. /\ new \in JobType /\ new.pc = job.pc /\ new.list = job.list /\ new.p = job.p
      /\ new.tail = job.tail /\ new.op = job.op /\ new.q = job.q /\ new.open = job.open
      /\ new.fd = job.fd /\ new.stages = job.stages /\ new.code = status
      /\ new.last_pid = job.last_pid /\ new.fork_counter = f /\ new.ran = job.ran
      /\ new.s = code
  BY ONLY <1>1, <1>2, <1>3, <1>4 DEF JobType
<1>6. JobPipes(new)
  BY <1>5 DEF JobOK, JobPipes
<1>7. JobStatus(new) /\ JobLost(new)
  <2>1. Left(new) = {} /\ Cardinality(Left(new)) = 0
    BY <1>5, FS_EmptySet DEF Left
  <2>2. JobStatus(new)
    BY <1>5, <2>1 DEF JobOK, JobStatus, StatusAfter
  <2>3. ASSUME job.stages # << >>
        PROVE  \E k \in DOMAIN job.stages : code = job.stages[k].code
    <3>1. DOMAIN job.stages # {}
      <4> PICK stages \in Seq(StageType) : stages = job.stages
        BY <1>1 DEF JobType
      <4>1. stages # << >>
        BY <2>3
      <4>2. Len(stages) # 0 /\ DOMAIN stages = 1 .. Len(stages) /\ Len(stages) \in Nat
        BY <4>1, LenProperties, EmptySeq
      <4>3. 1 \in DOMAIN stages
        BY <4>2
      <4> QED BY <4>3
    <3> PICK k \in DOMAIN job.stages : job.s = job.stages[k].code
      BY <3>1 DEF JobOK, JobLost
    <3>2. job.s # -1
      <4>1. job.stages[k] \in StageType
        BY <1>1 DEF JobType
      <4>2. job.s \in Codes
        BY <4>1 DEF StageType
      <4> QED BY <4>2, ShellAssumption
    <3> QED BY <3>2
  <2>4. job.last_pid = 0 => new.code = code
    BY <1>5 DEF StatusAfter
  <2>5. \A k : k \notin Left(new)
    BY <2>1
  <2>6. new.stages # << >> => \E k \in DOMAIN new.stages : new.s = new.stages[k].code
    BY <1>5, <2>3
  <2>7. Left(new) # DOMAIN new.stages => new.stages # << >>
    <3>1. DOMAIN << >> = {}
      OBVIOUS
    <3> QED BY <2>1, <3>1, Zenon
  <2>8. JobLost(new)
    BY <1>5, <2>1, <2>4, <2>5, <2>6, <2>7 DEF JobLost
  <2> QED BY <2>2, <2>8
<1>8. JobLogic(new)
  BY <1>5 DEF JobOK, JobLogic, Running
<1> QED BY <1>5, <1>6, <1>7, <1>8 DEF JobOK

\* A step of a stage that has not been waited for: the subshell does not see
\* it.
LEMMA CommandStep ==
  ASSUME NEW job, JobOK(job), NEW k \in DOMAIN job.stages, job.stages[k].state # "reaped",
         NEW stage \in StageType, stage.state # "reaped",
         StagePipes(job.stages[k]) => StagePipes(stage),
         NEW new, new = [job EXCEPT !.stages[k] = stage]
  PROVE  JobOK(new)
<1>1. job \in JobType /\ job.stages \in Seq(StageType)
  BY DEF JobOK, JobType
<1>2. PICK stages \in Seq(StageType) :
        /\ stages = [job.stages EXCEPT ![k] = stage]
        /\ DOMAIN stages = DOMAIN job.stages /\ Len(stages) = Len(job.stages)
        /\ stages[k] = stage
        /\ \A i \in DOMAIN job.stages \ {k} : stages[i] = job.stages[i]
  <2> PICK s \in Seq(StageType) : s = job.stages
    BY <1>1
  <2>1. k \in DOMAIN s /\ stage \in StageType
    OBVIOUS
  <2>2. /\ [s EXCEPT ![k] = stage] \in Seq(StageType)
        /\ DOMAIN [s EXCEPT ![k] = stage] = DOMAIN s
        /\ Len([s EXCEPT ![k] = stage]) = Len(s)
        /\ [s EXCEPT ![k] = stage][k] = stage
        /\ \A i \in DOMAIN s \ {k} : [s EXCEPT ![k] = stage][i] = s[i]
    BY ONLY <2>1, s \in Seq(StageType), StageReplaced
  <2> QED BY <2>2, Zenon
<1>3. new = [job EXCEPT !.stages = stages]
  BY <1>1, <1>2 DEF JobType
<1>4. /\ new \in JobType /\ new.pc = job.pc /\ new.list = job.list /\ new.p = job.p
      /\ new.tail = job.tail /\ new.op = job.op /\ new.q = job.q /\ new.open = job.open
      /\ new.fd = job.fd /\ new.stages = stages /\ new.code = job.code
      /\ new.last_pid = job.last_pid /\ new.fork_counter = job.fork_counter /\ new.ran = job.ran
      /\ new.s = job.s
  BY ONLY <1>1, <1>3, stages \in Seq(StageType) DEF JobType
<1>5. JobPipes(new)
  <2> SUFFICES ASSUME PipesComplete(job.list)
               PROVE  \A i \in DOMAIN stages : StagePipes(stages[i])
    BY <1>4 DEF JobOK, JobPipes
  <2>1. \A i \in DOMAIN job.stages : StagePipes(job.stages[i])
    BY DEF JobOK, JobPipes
  <2> QED BY <1>2, <2>1
<1>6. JobStatus(new) /\ JobLost(new)
  <2>1. Left(new) = Left(job)
    BY <1>2, <1>4 DEF Left
  <2>2. ASSUME job.last_pid # 0
        PROVE  \/ new.stages[job.last_pid] = job.stages[job.last_pid]
               \/ /\ new.stages[job.last_pid].state # "reaped"
                  /\ job.stages[job.last_pid].state # "reaped"
    <3>1. job.last_pid \in DOMAIN job.stages
      <4>1. DOMAIN job.stages = 1 .. Len(job.stages) /\ Len(job.stages) \in Nat
        BY <1>1, LenProperties
      <4> QED BY <2>2, <4>1 DEF JobOK, JobStatus
    <3> QED BY <1>2, <1>4, <3>1
  <2>3. /\ new.pc \in {"pipe", "prepare"} /\ new.last_pid # 0
             => new.stages[new.last_pid].state # "reaped"
        /\ new.pc = "wait" /\ new.last_pid # 0 /\ new.stages[new.last_pid].state = "reaped"
             => new.code = new.stages[new.last_pid].code
    <3> PICK l : l = job.last_pid
      OBVIOUS
    <3>1. /\ job.pc \in {"pipe", "prepare"} /\ l # 0 => job.stages[l].state # "reaped"
          /\ job.pc = "wait" /\ l # 0 /\ job.stages[l].state = "reaped"
               => job.code = job.stages[l].code
      BY DEF JobOK, JobStatus
    <3>2. new.pc = job.pc /\ new.code = job.code /\ new.last_pid = l
      BY <1>4
    <3>3. l # 0 => \/ new.stages[l] = job.stages[l]
                   \/ new.stages[l].state # "reaped" /\ job.stages[l].state # "reaped"
      BY <2>2
    <3> QED BY <3>1, <3>2, <3>3
  <2>4. JobStatus(new)
    BY <1>2, <1>4, <2>1, <2>3 DEF JobOK, JobStatus
  <2>5. k \in Left(job) /\ DOMAIN new.stages = DOMAIN job.stages
    BY <1>2, <1>4 DEF Left
  <2>6. \A i \in DOMAIN job.stages : i \notin Left(job) => new.stages[i] = job.stages[i]
    BY <1>2, <1>4, <2>5
  <2>7. JobLost(new)
    <3>1. /\ new.pc = job.pc /\ new.s = job.s /\ new.code = job.code /\ new.q = job.q
          /\ new.last_pid = job.last_pid /\ new.fork_counter = job.fork_counter
      BY <1>4
    <3> QED BY <2>1, <2>5, <2>6, <3>1 DEF JobOK, JobLost
  <2> QED BY <2>4, <2>7
<1>7. JobLogic(new)
  BY <1>4 DEF JobOK, JobLogic, Running, Deciding, Skipping
<1> QED BY <1>4, <1>5, <1>6, <1>7 DEF JobOK

\* main() takes away a subshell that has ended.
LEMMA ReapStep ==
  ASSUME NEW job, JobOK(job), job.pc \in {"exited", "crashed"},
         NEW new, new = [job EXCEPT !.pc = "reaped"]
  PROVE  JobOK(new)
<1>1. job \in JobType
  BY DEF JobOK
<1>2. /\ new \in JobType /\ new.pc = "reaped" /\ new.list = job.list /\ new.p = job.p
      /\ new.tail = job.tail /\ new.q = job.q /\ new.open = job.open
      /\ new.stages = job.stages /\ new.last_pid = job.last_pid
  BY <1>1 DEF JobType
<1>3. JobPipes(new)
  BY <1>2 DEF JobOK, JobPipes
<1>4. JobStatus(new) /\ JobLost(new) /\ JobLogic(new)
  BY <1>2 DEF JobOK, JobStatus, JobLost, JobLogic
<1> QED BY <1>2, <1>3, <1>4 DEF JobOK

\* There is no job yet, or one that begins.
LEMMA JobStarts ==
  /\ JobOK(NoJob)
  /\ \A list \in Seq(Tokens) : list # << >> => JobOK(Job(list))
<1>1. NoJob \in JobType
  <2>1. 0 \in Codes /\ 0 \in Nat
    BY ShellAssumption
  <2>2. <<NONE, NONE, NONE, NONE>> \in [1 .. 4 -> Ends] /\ {} \in SUBSET Ends
    BY DEF Ends
  <2>3. << >> \in Seq(Tokens) /\ << >> \in Seq(StageType) /\ << >> \in Seq(Int \X Codes)
    OBVIOUS
  <2> QED BY <2>1, <2>2, <2>3 DEF NoJob, JobType
<1>2. /\ NoJob.pc = "none" /\ NoJob.open = {} /\ NoJob.stages = << >> /\ NoJob.p = << >>
      /\ NoJob.tail = << >> /\ NoJob.q = << >> /\ NoJob.list = << >> /\ NoJob.last_pid = 0
      /\ NoJob.ran = << >>
  BY DEF NoJob
<1>3. PipesComplete(<< >>) /\ Len(<< >>) = 0 /\ DOMAIN << >> = {}
  BY DEF PipesComplete
<1>4. JobOK(NoJob)
  BY <1>1, <1>2, <1>3 DEF JobOK, JobPipes, JobStatus, JobLost, JobLogic
<1>5. ASSUME NEW list \in Seq(Tokens), list # << >>, NEW new, new = Job(list)
      PROVE  JobOK(new)
  <2>1. /\ new \in JobType /\ new.pc = "logic" /\ new.open = {} /\ new.stages = << >>
        /\ new.p = list /\ new.tail = << >> /\ new.q = << >> /\ new.list = list
        /\ new.last_pid = 0 /\ new.ran = << >>
    BY <1>1, <1>2, <1>5 DEF Job, JobType
  <2>2. JobPipes(new)
    BY <1>3, <2>1 DEF JobPipes
  <2>3. JobStatus(new) /\ JobLost(new)
    BY <1>3, <2>1 DEF JobStatus, JobLost, Left
  <2>4. Deciding(new)
    <3>1. At(<< >>) = {}
      BY <1>3 DEF At, Range
    <3>2. {i \in Pipelines(list) : i < 1 /\ Wanted(list, << >>, i)} = {}
      BY DEF Pipelines
    <3>3. RanUpTo(list, << >>, 1)
      BY <1>3, <3>1, <3>2, FS_EmptySet DEF RanUpTo
    <3>4. 1 \in Pipelines(list) /\ Wanted(list, << >>, 1)
      BY DEF Pipelines, Wanted
    <3>5. list = Rest(list, 1)
      BY RestFirst
    <3> QED BY <2>1, <3>3, <3>4, <3>5, Zenon DEF Deciding
  <2> QED BY <1>5, <2>1, <2>2, <2>3, <2>4 DEF JobOK, JobLogic
<1> QED BY <1>4, <1>5

-----------------------------------------------------------------------------
(* The invariant *)

\* At first no job has begun.
LEMMA ShellInit == Init => ShellInv
<1> SUFFICES ASSUME Init
             PROVE  ShellInv
  OBVIOUS
<1>1. input \in Seq(STRING) /\ STRING \subseteq Chars
  BY ShellAssumption DEF Init, Chars
<1>2. input \in Seq(Chars)
  BY <1>1, WiderSeq, Zenon
<1>3. NoLine \in LineType
  <2>1. << >> \in Seq(Chars) /\ << >> \in Seq(Tokens)
    OBVIOUS
  <2> QED BY <2>1 DEF NoLine, LineType
<1>4. JobOK(NoJob) /\ NoJob \in JobType
  BY JobStarts DEF JobOK
<1> QED BY <1>2, <1>3, <1>4 DEF Init, ShellInv, ShellTypeOK

\* A step of one job.
LEMMA OneJob ==
  ASSUME ShellInv, NEW j \in JobIds, NEW new, JobOK(new), jobs' = [jobs EXCEPT ![j] = new],
         UNCHANGED <<input, line>>
  PROVE  ShellInv'
<1>1. new \in JobType
  BY DEF JobOK
<1>2. jobs' \in [JobIds -> JobType]
  BY <1>1 DEF ShellInv, ShellTypeOK
<1>3. \A i \in JobIds : JobOK(jobs'[i])
  BY DEF ShellInv, ShellTypeOK
<1> QED BY <1>2, <1>3 DEF ShellInv, ShellTypeOK

\* What one wait() does, in the names of the lemmas.
LEMMA WaitIs ==
  ASSUME NEW j \in JobIds, NEW job, job = jobs[j], Wait(j)
  PROVE  /\ job.pc = "wait" /\ job.fork_counter > 0 /\ UNCHANGED <<input, line, waits_for>>
         /\ \/ \E k \in Left(job) :
                 /\ job.stages[k].state = "exited"
                 /\ Set(j, [[job EXCEPT !.fork_counter = @ - 1, !.s = job.stages[k].code,
                                        !.code = StatusAfter(job, k, job.stages[k].code)]
                               EXCEPT !.stages[k].state = "reaped"])
            \/ /\ Left(job) = {}
               /\ \E code \in IF job.s = -1 THEN Codes ELSE {job.s} :
                    Set(j, [job EXCEPT !.fork_counter = @ - 1, !.s = code,
                                       !.code = StatusAfter(job, 0, code)])
  BY Zenon DEF Wait, Left

\* The steps of execute_logic() and execute_pipeline().
LEMMA SubshellInv ==
  ASSUME ShellInv, NEW j \in JobIds, Subshell(j)
  PROVE  ShellInv'
<1> PICK job : job = jobs[j]
  OBVIOUS
<1>1. JobOK(job) /\ job \in JobType
  BY DEF ShellInv, JobOK
<1>2. ASSUME NEW new, Set(j, new), JobOK(new), UNCHANGED <<input, line>>
      PROVE  ShellInv'
  BY <1>2, OneJob DEF Set
<1>3. CASE Logic(j)
  <2> PICK r : r = split_logic(job.p)
    OBVIOUS
  <2>1. CASE r.op = "empty"
    <3> PICK new : new = [job EXCEPT !.pc = "exited"]
      OBVIOUS
    <3>1. JobOK(new)
      BY <1>1, <1>3, <2>1, LogicEnds DEF Logic
    <3>2. Set(j, new) /\ UNCHANGED <<input, line>>
      BY <1>3, <2>1 DEF Logic
    <3> QED BY <1>2, <3>1, <3>2
  <2>2. CASE r.op # "empty"
    <3> PICK new : new = [job EXCEPT !.pc = "pipe", !.op = r.op, !.tail = r.tail, !.q = r.head,
                                     !.fd = NoJob.fd, !.last_pid = 0, !.fork_counter = 0,
                                     !.s = -1, !.code = 1, !.stages = << >>]
      OBVIOUS
    <3>1. JobOK(new)
      <4>1. job.pc = "logic"
        BY <1>3 DEF Logic
      <4> QED BY <1>1, <2>2, <4>1, LogicGoes, Zenon
    <3>2. Set(j, new) /\ UNCHANGED <<input, line>>
      BY <1>3, <2>2 DEF Logic
    <3> QED BY <1>2, <3>1, <3>2
  <2> QED BY <2>1, <2>2
<1>4. CASE LogicNext(j)
  <2> PICK done : done = [job EXCEPT !.ran = Append(@, <<Len(job.list) - Len(job.p) + 1, job.code>>)]
    OBVIOUS
  <2> PICK skip \in BOOLEAN : skip <=> ((job.op = "or") = (job.code = 0))
    OBVIOUS
  <2>1. /\ job.pc = "wait" /\ job.fork_counter = 0 /\ UNCHANGED <<input, line>>
        /\ \/ job.op = "last" /\ Set(j, [done EXCEPT !.pc = "exited"])
           \/ job.op # "last" /\ skip /\ Set(j, [done EXCEPT !.pc = StopsAt(job.op)])
           \/ job.op # "last" /\ ~skip /\ Set(j, [done EXCEPT !.pc = "logic", !.p = job.tail])
    BY <1>4 DEF LogicNext
  <2> PICK new : GoesOn(job, done, skip, new) /\ Set(j, new)
    BY <2>1 DEF GoesOn
  <2>2. JobOK(new)
    BY <1>1, <2>1, LogicNextStep, Zenon
  <2> QED BY <1>2, <2>1, <2>2
<1>5. CASE Skip(j)
  <2> PICK r : r = split_logic(job.tail)
    OBVIOUS
  <2>1. /\ job.pc \in {"and", "or"} /\ UNCHANGED <<input, line>>
        /\ IF job.op \in {"empty", job.pc}
             THEN Set(j, [job EXCEPT !.pc = "logic", !.p = job.tail])
             ELSE Set(j, [job EXCEPT !.p = job.tail, !.op = r.op, !.tail = r.tail])
    BY <1>5 DEF Skip
  <2> PICK new : SkipsOn(job, r, new) /\ Set(j, new)
    BY <2>1 DEF SkipsOn
  <2>2. JobOK(new)
    BY <1>1, <2>1, SkipStep, Zenon
  <2> QED BY <1>2, <2>1, <2>2
<1>6. CASE Fork(j)
  <2> DEFINE r == split_pipeline(jobs[j].q)
             n == jobs[j].pipes + 1
             calls == IF r.op = "last" THEN {"fork"} ELSE {"pipe", "fork"}
             piped == [jobs[j] EXCEPT !.fd[3] = R(n), !.fd[4] = W(n),
                                      !.open = @ \cup {R(n), W(n)}, !.pipes = n]
             before(failed) == IF "pipe" \in calls \ failed THEN piped ELSE jobs[j]
             after(failed) ==
               IF "fork" \in failed THEN [before(failed) EXCEPT !.last_pid = 0]
               ELSE [before(failed) EXCEPT
                       !.last_pid = Len(before(failed).stages) + 1,
                       !.stages = Append(@, Stage(r.head, before(failed).fd, before(failed).open))]
             new(failed) == [after(failed) EXCEPT !.pc = "prepare", !.q = r.tail]
  <2>1. jobs[j].pc = "pipe" /\ r.op # "empty" /\ UNCHANGED <<input, line>>
    BY <1>6 DEF Fork
  <2> PICK failed \in SUBSET calls : Set(j, new(failed))
    BY <1>6, Zenon DEF Fork
  <2>2. Piped(jobs[j], r, before(failed))
    BY DEF Piped
  <2>3. Forked(before(failed), r, after(failed))
    <3> HIDE DEF before
    <3> QED BY Zenon DEF Forked
  <2>4. JobOK(new(failed))
    <3>0. new(failed) = [after(failed) EXCEPT !.pc = "prepare", !.q = r.tail]
      BY Zenon
    <3> HIDE DEF before, after, new
    <3> PICK a : a = before(failed)
      BY Zenon
    <3> PICK b : b = after(failed)
      BY Zenon
    <3> PICK c : c = new(failed)
      BY Zenon
    <3> PICK q : q = r
      OBVIOUS
    <3> HIDE DEF r
    <3>1. c = [b EXCEPT !.pc = "prepare", !.q = q.tail]
      BY <3>0, Zenon
    <3>4. q = split_pipeline(job.q)
      BY DEF r
    <3>2. /\ JobOK(job) /\ job.pc = "pipe" /\ q = split_pipeline(job.q) /\ q.op # "empty"
          /\ Piped(job, q, a) /\ Forked(a, q, b) /\ c = [b EXCEPT !.pc = "prepare", !.q = q.tail]
      BY <1>1, <2>1, <2>2, <2>3, <3>1, <3>4, Zenon
    <3>3. JobOK(c)
      BY ONLY <3>2, ForkStep, Zenon
    <3> QED BY <3>3, Zenon
  <2> PICK c : c = new(failed)
    OBVIOUS
  <2>5. JobOK(c) /\ Set(j, c)
    BY <2>4, Zenon
  <2> QED BY <1>2, <2>1, <2>5
<1>7. CASE Prepare(j)
  <2> PICK new : new = [prepare_fd(job) EXCEPT !.pc = "pipe", !.fork_counter = @ + 1]
    OBVIOUS
  <2>1. job.pc = "prepare" /\ Set(j, new) /\ UNCHANGED <<input, line>>
    BY <1>7 DEF Prepare
  <2>2. JobOK(new)
    BY <1>1, <2>1, PrepareStep, Zenon
  <2> QED BY <1>2, <2>1, <2>2
<1>8. CASE PrintfCrash(j)
  <2> PICK new : new = [job EXCEPT !.pc = "crashed", !.open = {}]
    OBVIOUS
  <2>1. job.pc = "prepare" /\ Set(j, new) /\ UNCHANGED <<input, line>>
    BY <1>8 DEF PrintfCrash
  <2>2. JobOK(new)
    BY <1>1, <2>1, CrashStep, Zenon
  <2> QED BY <1>2, <2>1, <2>2
<1>9. CASE AllForked(j)
  <2> PICK new : new = [job EXCEPT !.pc = "wait"]
    OBVIOUS
  <2>1. /\ job.pc = "pipe" /\ split_pipeline(job.q).op = "empty" /\ Set(j, new)
        /\ UNCHANGED <<input, line>>
    BY <1>9 DEF AllForked
  <2>2. JobOK(new)
    BY <1>1, <2>1, AllForkedStep, Zenon
  <2> QED BY <1>2, <2>1, <2>2
<1>10. CASE Wait(j)
  <2> PICK left : left = Left(job)
    OBVIOUS
  <2>1. /\ job.pc = "wait" /\ job.fork_counter > 0 /\ UNCHANGED <<input, line>>
        /\ \/ \E k \in Left(job) :
                /\ job.stages[k].state = "exited"
                /\ Set(j, [[job EXCEPT !.fork_counter = @ - 1, !.s = job.stages[k].code,
                                       !.code = StatusAfter(job, k, job.stages[k].code)]
                              EXCEPT !.stages[k].state = "reaped"])
           \/ /\ Left(job) = {}
              /\ \E code \in IF job.s = -1 THEN Codes ELSE {job.s} :
                   Set(j, [job EXCEPT !.fork_counter = @ - 1, !.s = code,
                                      !.code = StatusAfter(job, 0, code)])
    BY <1>10, WaitIs, Zenon
  <2>2. ASSUME NEW k \in Left(job), job.stages[k].state = "exited",
               Set(j, [[job EXCEPT !.fork_counter = @ - 1, !.s = job.stages[k].code,
                                   !.code = StatusAfter(job, k, job.stages[k].code)]
                          EXCEPT !.stages[k].state = "reaped"])
        PROVE  ShellInv'
    <3> PICK new : new = [job EXCEPT !.fork_counter = @ - 1, !.s = job.stages[k].code,
                                     !.code = StatusAfter(job, k, job.stages[k].code),
                                     !.stages[k].state = "reaped"]
      OBVIOUS
    <3>1. Set(j, new)
      BY <2>2, Zenon
    <3>2. JobOK(new)
      BY <1>1, <2>1, <2>2, WaitStep, Zenon
    <3> QED BY <1>2, <2>1, <3>1, <3>2
  <2>3. ASSUME Left(job) = {}, NEW code \in IF job.s = -1 THEN Codes ELSE {job.s},
               Set(j, [job EXCEPT !.fork_counter = @ - 1, !.s = code,
                                  !.code = StatusAfter(job, 0, code)])
        PROVE  ShellInv'
    <3> PICK new : new = [job EXCEPT !.fork_counter = @ - 1, !.s = code,
                                     !.code = StatusAfter(job, 0, code)]
      OBVIOUS
    <3>1. Set(j, new)
      BY <2>3
    <3>2. JobOK(new)
      BY <1>1, <2>1, <2>3, ChildlessStep, Zenon
    <3> QED BY <1>2, <2>1, <3>1, <3>2
  <2> QED BY <2>1, <2>2, <2>3
<1> QED BY <1>3, <1>4, <1>5, <1>6, <1>7, <1>8, <1>9, <1>10 DEF Subshell

\* The steps of the commands.
LEMMA CommandInv ==
  ASSUME ShellInv, NEW j \in JobIds, Command(j)
  PROVE  ShellInv'
<1> PICK job : job = jobs[j]
  OBVIOUS
<1>1. JobOK(job) /\ job \in JobType /\ job.stages \in Seq(StageType) /\ jobs \in [JobIds -> JobType]
  BY DEF ShellInv, ShellTypeOK, JobOK, JobType
<1> PICK k \in DOMAIN job.stages :
           Connect(j, k) \/ Open(j, k) \/ Exec(j, k) \/ Finish(j, k) \/ Killed(j, k)
  BY DEF Command
<1> PICK old : old = job.stages[k]
  OBVIOUS
<1>2. /\ old \in StageType /\ old.p \in Seq(Tokens) /\ old.at \in Nat \ {0}
      /\ old.fd \in [1 .. 4 -> Ends] /\ old.ends \in SUBSET Ends
  <2>1. old \in StageType
    BY <1>1
  <2> QED BY <2>1 DEF StageType
<1>3. ASSUME NEW stage \in StageType, stage.state # "reaped", old.state # "reaped",
             StagePipes(old) => StagePipes(stage),
             jobs' = [jobs EXCEPT ![j].stages[k] = stage], UNCHANGED <<input, line>>
      PROVE  ShellInv'
  <2> PICK new : new = [job EXCEPT !.stages[k] = stage]
    OBVIOUS
  <2>1. JobOK(new)
    <3>1. JobOK(job) /\ k \in DOMAIN job.stages /\ job.stages[k].state # "reaped"
          /\ stage \in StageType /\ stage.state # "reaped"
          /\ (StagePipes(job.stages[k]) => StagePipes(stage))
      BY <1>1, <1>3
    <3> QED BY ONLY <3>1, new = [job EXCEPT !.stages[k] = stage], CommandStep, Zenon
  <2>2. jobs' = [jobs EXCEPT ![j] = new]
    BY <1>1, <1>3
  <2> QED BY <1>3, <2>1, <2>2, OneJob
<1>4. CASE Connect(j, k)
  <2> PICK ends \in SUBSET Ends : ends = EndsKept(old)
    BY <1>2 DEF EndsKept
  <2> PICK stage : stage = [old EXCEPT !.state = "opening", !.ends = ends]
    OBVIOUS
  <2>1. stage \in StageType /\ stage.state = "opening" /\ stage.ends = ends /\ stage.fd = old.fd
    BY <1>2 DEF StageType
  <2>2. /\ old.state = "forked" /\ jobs' = [jobs EXCEPT ![j].stages[k] = stage]
        /\ UNCHANGED <<input, line>>
    BY <1>4 DEF Connect
  <2>3. ASSUME StagePipes(old) PROVE StagePipes(stage)
    <3>1. old.ends \subseteq {old.fd[1], old.fd[2], old.fd[3], old.fd[4]}
      BY ONLY <2>2, <2>3 DEF StagePipes
    <3>2. ends = old.ends \ {old.fd[2], old.fd[3]}
      BY DEF EndsKept
    <3>3. ends \subseteq {old.fd[1], old.fd[4]}
      BY ONLY <3>1, <3>2
    <3> QED BY ONLY <2>1, <3>3 DEF StagePipes
  <2> QED BY <1>3, <2>1, <2>2, <2>3
<1>5. CASE Open(j, k)
  <2> PICK p : p = OpenNext(old.p, old.at).p
    OBVIOUS
  <2>1. old.state = "opening" /\ old.at < Len(old.p) /\ UNCHANGED <<input, line>>
    BY <1>5 DEF Open
  <2>2. p \in Seq(Tokens)
    BY <1>2, <2>1, OpenNextType
  <2> PICK at \in Nat \ {0} : at = old.at + 1
    BY <1>2
  <2>3. PICK in, out :
          jobs' = [jobs EXCEPT ![j].stages[k] =
                     [old EXCEPT !.p = p, !.at = at,
                                 !.ends = @ \ ((IF in THEN {old.fd[1]} ELSE {})
                                               \cup (IF out THEN {old.fd[4]} ELSE {}))]]
    BY <1>5 DEF Open
  <2> PICK ends \in SUBSET Ends :
             /\ ends = old.ends \ ((IF in THEN {old.fd[1]} ELSE {})
                                   \cup (IF out THEN {old.fd[4]} ELSE {}))
             /\ ends \subseteq old.ends
    BY <1>2
  <2> PICK stage : stage = [old EXCEPT !.p = p, !.at = at, !.ends = ends]
    OBVIOUS
  <2>4. stage \in StageType /\ stage.state = old.state /\ stage.ends = ends /\ stage.fd = old.fd
    BY <1>2, <2>2 DEF StageType
  <2>5. jobs' = [jobs EXCEPT ![j].stages[k] = stage]
    BY <2>3, Zenon
  <2>6. StagePipes(old) => StagePipes(stage)
    BY <2>1, <2>4 DEF StagePipes
  <2> QED BY <1>3, <2>1, <2>4, <2>5, <2>6
<1>6. CASE Exec(j, k)
  <2>1. old.state = "opening" /\ UNCHANGED <<input, line>>
    BY <1>6 DEF Exec
  <2>2. PICK reads \in BOOLEAN, writes \in BOOLEAN :
          jobs' = [jobs EXCEPT ![j].stages[k] =
                     [old EXCEPT !.state = "running", !.reads = reads, !.writes = writes]]
    <3>1. \E reads \in {FALSE, old.fd[1] \in old.ends}, writes \in {FALSE, old.fd[4] \in old.ends} :
            jobs' = [jobs EXCEPT ![j].stages[k] =
                       [old EXCEPT !.state = "running", !.reads = reads, !.writes = writes]]
      BY <1>6, Zenon DEF Exec
    <3>2. PICK reads \in {FALSE, old.fd[1] \in old.ends}, writes \in {FALSE, old.fd[4] \in old.ends} :
            jobs' = [jobs EXCEPT ![j].stages[k] =
                       [old EXCEPT !.state = "running", !.reads = reads, !.writes = writes]]
      BY <3>1, Zenon
    <3>3. reads \in BOOLEAN
      <4>1. (old.fd[1] \in old.ends) \in BOOLEAN
        BY SMT
      <4>2. reads = FALSE \/ reads = (old.fd[1] \in old.ends)
        BY Zenon
      <4> QED BY <4>1, <4>2, Zenon
    <3>4. writes \in BOOLEAN
      <4>1. (old.fd[4] \in old.ends) \in BOOLEAN
        BY SMT
      <4>2. writes = FALSE \/ writes = (old.fd[4] \in old.ends)
        BY Zenon
      <4> QED BY <4>1, <4>2, Zenon
    <3> QED BY <3>2, <3>3, <3>4, Zenon
  <2> PICK stage : stage = [old EXCEPT !.state = "running", !.reads = reads, !.writes = writes]
    OBVIOUS
  <2>3. stage \in StageType /\ stage.state = "running" /\ stage.ends = old.ends /\ stage.fd = old.fd
    BY <1>2 DEF StageType
  <2>4. StagePipes(old) => StagePipes(stage)
    BY <2>1, <2>3 DEF StagePipes
  <2> QED BY <1>3, <2>1, <2>2, <2>3, <2>4
<1>7. ASSUME NEW code \in Codes, old.state = "running", EndStage(j, k, code)
      PROVE  ShellInv'
  <2> PICK stage : stage = [old EXCEPT !.state = "exited", !.ends = {},
                                       !.reads = FALSE, !.writes = FALSE, !.code = code]
    OBVIOUS
  <2>1. stage \in StageType /\ stage.state = "exited" /\ stage.ends = {}
    BY <1>2 DEF StageType
  <2>2. jobs' = [jobs EXCEPT ![j].stages[k] = stage] /\ UNCHANGED <<input, line>>
    <3>1. /\ jobs' = [jobs EXCEPT ![j].stages[k] = [@ EXCEPT !.state = "exited", !.ends = {},
                                             !.reads = FALSE, !.writes = FALSE, !.code = code]]
          /\ UNCHANGED <<input, line>>
      BY <1>7 DEF EndStage
    <3> QED BY <3>1, Zenon
  <2>3. StagePipes(stage)
    BY <2>1 DEF StagePipes
  <2> QED BY <1>3, <1>7, <2>1, <2>2, <2>3
<1>8. CASE Finish(j, k)
  BY <1>7, <1>8 DEF Finish
<1>9. CASE Killed(j, k)
  BY <1>7, <1>9, ShellAssumption DEF Killed
<1> QED BY <1>4, <1>5, <1>6, <1>8, <1>9

\* main() takes away what has ended.
LEMMA Zombies ==
  ASSUME NEW js \in [JobIds -> JobType], \A j \in JobIds : JobOK(js[j])
  PROVE  /\ kill_zombie(js) \in [JobIds -> JobType]
         /\ \A j \in JobIds : JobOK(kill_zombie(js)[j])
<1>1. ASSUME NEW j \in JobIds
      PROVE  JobOK(kill_zombie(js)[j])
  <2> PICK job : job = js[j]
    OBVIOUS
  <2>1. JobOK(job)
    OBVIOUS
  <2>2. CASE job.pc \in {"exited", "crashed"}
    <3> PICK new : new = [job EXCEPT !.pc = "reaped"]
      OBVIOUS
    <3>1. JobOK(new)
      BY <2>1, <2>2, ReapStep, Zenon
    <3>2. kill_zombie(js)[j] = new
      BY <2>2 DEF kill_zombie
    <3> QED BY <3>1, <3>2
  <2>3. CASE job.pc \notin {"exited", "crashed"}
    BY <2>1, <2>3 DEF kill_zombie
  <2> QED BY <2>2, <2>3
<1>2. kill_zombie(js) = [j \in JobIds |-> kill_zombie(js)[j]]
  BY DEF kill_zombie
<1>3. \A j \in JobIds : kill_zombie(js)[j] \in JobType
  BY <1>1 DEF JobOK
<1> QED BY <1>1, <1>2, <1>3

\* Each step of the shell keeps the invariant.
LEMMA ShellStep == ShellInv /\ [Next]_shell_vars => ShellInv'
<1> SUFFICES ASSUME ShellInv, [Next]_shell_vars
             PROVE  ShellInv'
  OBVIOUS
<1>1. /\ input \in Seq(Chars) /\ line \in LineType /\ jobs \in [JobIds -> JobType]
      /\ \A j \in JobIds : JobOK(jobs[j])
  BY DEF ShellInv, ShellTypeOK
<1>2. input # << >> => Head(input) \in Chars /\ Tail(input) \in Seq(Chars)
  BY <1>1
<1>3. NoLine \in LineType
  <2>1. << >> \in Seq(Chars) /\ << >> \in Seq(Tokens)
    OBVIOUS
  <2> QED BY <2>1 DEF NoLine, LineType
<1>4. input # << >> => ReadChar(line, Head(input)) \in LineType
  BY <1>1, <1>2, ReadCharType, Zenon
<1>5. CASE Read
  <2>1. /\ line' = ReadChar(line, Head(input)) /\ input' = Tail(input) /\ input # << >>
        /\ UNCHANGED jobs
    BY <1>5 DEF Read
  <2> QED BY <1>1, <1>2, <1>4, <2>1 DEF ShellInv, ShellTypeOK
<1>6. CASE Execute
  <2> PICK list : list = strip_comment(ReadChar(line, Head(input)).list)
    OBVIOUS
  <2> PICK command : command = check_block(list)
    OBVIOUS
  <2>1. input # << >> /\ line' = NoLine /\ input' = Tail(input)
    BY <1>6 DEF Execute
  <2>2. /\ list \in Seq(Tokens) /\ command \in Seq(Tokens)
        /\ list # << >> => command # << >>
    <3>1. ReadChar(line, Head(input)).list \in Seq(Tokens)
      BY <1>4, <2>1 DEF LineType
    <3>2. list \in Seq(Tokens)
      BY <3>1, StripTypes, Zenon
    <3>3. command \in Seq(Tokens)
      BY <3>2, StripTypes, Zenon
    <3>4. ASSUME InBackground(list)
          PROVE  Front(list) # << >>
      <4> PICK l \in Nat : l = Len(list)
        BY <3>2, LenProperties
      <4>1. l > 1
        BY <3>4 DEF InBackground
      <4>2. 1 \in Nat \ {0} /\ l - 1 \in 0 .. Len(list) /\ 1 <= l - 1
        BY <4>1
      <4>3. Len(SubSeq(list, 1, l - 1)) = (l - 1) - 1 + 1
        BY <3>2, <4>2, Pieces
      <4> PICK u : u = SubSeq(list, 1, l - 1)
        OBVIOUS
      <4>4. Len(u) # 0
        <5>1. (l - 1) - 1 + 1 # 0
          BY ONLY <4>1, l \in Nat
        <5> QED BY <4>3, <5>1, Zenon
      <4>5. u # << >>
        BY <4>4
      <4> QED BY <4>5, Zenon DEF Front
    <3> QED BY <3>2, <3>3, <3>4, Zenon DEF check_block
  <2>3. \/ UNCHANGED jobs
        \/ /\ list # << >>
           /\ \E j \in JobIds : \/ jobs' = kill_zombie([jobs EXCEPT ![j] = Job(command)])
                                \/ jobs' = [jobs EXCEPT ![j] = Job(command)]
    BY <1>6 DEF Execute
  <2>4. ASSUME NEW j \in JobIds, list # << >>, NEW js, js = [jobs EXCEPT ![j] = Job(command)]
        PROVE  js \in [JobIds -> JobType] /\ \A i \in JobIds : JobOK(js[i])
    <3> PICK new : new = Job(command)
      OBVIOUS
    <3>1. JobOK(new) /\ new \in JobType
      BY <2>2, <2>4, JobStarts DEF JobOK
    <3> QED BY <1>1, <2>4, <3>1
  <2>5. jobs' \in [JobIds -> JobType] /\ \A i \in JobIds : JobOK(jobs'[i])
    <3>1. CASE UNCHANGED jobs
      BY <1>1, <3>1
    <3>2. ASSUME NEW j \in JobIds, list # << >>,
                 \/ jobs' = kill_zombie([jobs EXCEPT ![j] = Job(command)])
                 \/ jobs' = [jobs EXCEPT ![j] = Job(command)]
          PROVE  jobs' \in [JobIds -> JobType] /\ \A i \in JobIds : JobOK(jobs'[i])
      <4> PICK js : js = [jobs EXCEPT ![j] = Job(command)]
        OBVIOUS
      <4>1. js \in [JobIds -> JobType] /\ \A i \in JobIds : JobOK(js[i])
        BY <2>4, <3>2
      <4>2. /\ kill_zombie(js) \in [JobIds -> JobType]
            /\ \A i \in JobIds : JobOK(kill_zombie(js)[i])
        BY <4>1, Zombies, Zenon
      <4>3. jobs' = kill_zombie(js) \/ jobs' = js
        BY <3>2, Zenon
      <4> QED BY <4>1, <4>2, <4>3, Zenon
    <3> QED BY <2>3, <3>1, <3>2
  <2> QED BY <1>2, <1>3, <2>1, <2>5 DEF ShellInv, ShellTypeOK
<1>7. CASE Waited
  <2>1. /\ kill_zombie(jobs) \in [JobIds -> JobType]
        /\ \A j \in JobIds : JobOK(kill_zombie(jobs)[j])
    BY <1>1, Zombies, Zenon
  <2>2. jobs' = kill_zombie(jobs) /\ UNCHANGED <<input, line>>
    BY <1>7 DEF Waited
  <2> QED BY <1>1, <2>1, <2>2 DEF ShellInv, ShellTypeOK
<1>8. CASE \E j \in JobIds : Subshell(j) \/ Command(j)
  BY <1>8, SubshellInv, CommandInv, Zenon
<1>9. CASE UNCHANGED shell_vars
  BY <1>1, <1>9 DEF ShellInv, ShellTypeOK, shell_vars
<1> QED BY <1>5, <1>6, <1>7, <1>8, <1>9 DEF Next

-----------------------------------------------------------------------------
(* The theorems *)

\* Every state of the shell satisfies the invariant.
THEOREM ShellInvariant == Spec => []ShellInv
<1> QED BY ShellInit, ShellStep, PTL DEF Spec

\* No pipe end is left open in a subshell that waits or in a command that
\* runs, for every pipeline of a chain of && and ||, whichever fork() or
\* pipe() failed (execute_pipeline(), prepare_fd(), dup_pipe(),
\* close_pipe_fork()).  Only a chain with a pipeline that ends in a | is
\* excluded, for which it is not true.
THEOREM PipesAreClosed == Spec => []PipesClosed
<1>1. ShellInv => PipesClosed
  <2> SUFFICES ASSUME ShellInv, NEW j \in JobIds, PipesComplete(jobs[j].list)
               PROVE  /\ jobs[j].pc \in {"wait", "logic", "exited"} => jobs[j].open = {}
                      /\ \A k \in DOMAIN jobs[j].stages :
                           jobs[j].stages[k].state = "running"
                             => jobs[j].stages[k].ends
                                  \subseteq {jobs[j].stages[k].fd[1], jobs[j].stages[k].fd[4]}
    BY DEF PipesClosed
  <2>1. JobPipes(jobs[j])
    BY DEF ShellInv, JobOK
  <2> QED BY <2>1 DEF JobPipes, StagePipes
<1> QED BY <1>1, ShellInvariant, PTL

\* When a pipeline is over all of its commands have been waited for, and its
\* status is that of its last command, in whatever order they end; when the
\* last could not be forked it is that of another one, if there is one
\* (execute_pipeline(), the loop over wait()).
THEOREM StatusOfLast == Spec => []PipelineStatus
<1>1. ShellInv => PipelineStatus
  <2> SUFFICES ASSUME ShellInv, NEW j \in JobIds, NEW job, job = jobs[j],
                      job.pc = "wait", job.fork_counter = 0
               PROVE  /\ \A stage \in Range(job.stages) : stage.state = "reaped"
                      /\ job.last_pid # 0 => job.code = job.stages[job.last_pid].code
                      /\ job.last_pid = 0 /\ job.stages # << >> =>
                           \E stage \in Range(job.stages) : job.code = stage.code
    BY DEF PipelineStatus
  <2>1. /\ JobStatus(job) /\ JobLost(job) /\ job \in JobType
        /\ job.stages \in Seq(StageType)
    BY DEF ShellInv, JobOK, JobType
  <2>2. Left(job) = {} /\ Cardinality(Left(job)) = 0
    <3>1. IsFiniteSet(Left(job)) /\ Cardinality(Left(job)) \in Nat
      BY <2>1, LeftFinite
    <3>2. Cardinality(Left(job)) <= 0
      BY <2>1 DEF JobStatus
    <3> QED BY <3>1, <3>2, FS_EmptySet
  <2>3. \A k \in DOMAIN job.stages : job.stages[k].state = "reaped"
    BY <2>2 DEF Left
  <2>4. job.last_pid # 0 => job.last_pid \in DOMAIN job.stages
    <3>1. DOMAIN job.stages = 1 .. Len(job.stages) /\ Len(job.stages) \in Nat
      BY <2>1, LenProperties
    <3> QED BY <2>1, <3>1 DEF JobStatus
  <2>5. \A stage \in Range(job.stages) : stage.state = "reaped"
    BY <2>3 DEF Range
  <2>6. job.last_pid # 0 => job.code = job.stages[job.last_pid].code
    BY <2>1, <2>3, <2>4 DEF JobStatus
  <2>7. job.last_pid = 0 /\ job.stages # << >> =>
          \E k \in DOMAIN job.stages : job.code = job.stages[k].code
    BY <2>1, <2>2 DEF JobLost
  <2>8. job.last_pid = 0 /\ job.stages # << >> =>
          \E stage \in Range(job.stages) : job.code = stage.code
    BY <2>7 DEF Range
  <2> QED BY <2>5, <2>6, <2>8
<1> QED BY <1>1, ShellInvariant, PTL

\* A pipeline of a chain of && and || runs exactly when the status of the
\* last one that ran, however far behind, lets it (execute_logic()).
THEOREM ChainsRun == Spec => []LogicSound
<1>1. ShellInv => LogicSound
  <2> SUFFICES ASSUME ShellInv, NEW j \in JobIds, jobs[j].pc = "exited",
                      WellFormed(jobs[j].list)
               PROVE  /\ \A n \in 1 .. Len(jobs[j].ran) - 1 : jobs[j].ran[n][1] < jobs[j].ran[n + 1][1]
                      /\ At(jobs[j].ran) = {i \in Pipelines(jobs[j].list) :
                                              Wanted(jobs[j].list, jobs[j].ran, i)}
    BY Zenon DEF LogicSound, At, Wanted, StatusOf
  <2> PICK job : job = jobs[j]
    OBVIOUS
  <2>1. /\ RanUpTo(job.list, job.ran, Past(job.list)) /\ job.list \in Seq(Tokens)
        /\ job.list # << >>
    BY DEF ShellInv, JobOK, JobLogic, JobType
  <2>2. \A i \in Pipelines(job.list) : i < Past(job.list)
    <3>1. \A i \in Pipelines(job.list) : i \in 1 .. Len(job.list)
      BY <2>1, StartsAtCommand
    <3> PICK n \in Nat : n = Len(job.list)
      BY <2>1, LenProperties
    <3> QED BY <3>1 DEF Past
  <2> QED BY <2>1, <2>2 DEF RanUpTo
<1> QED BY <1>1, ShellInvariant, PTL

\* What a step makes of a job, as far as main() can see it.
StepOf(j, new) ==
  /\ waits_for' = waits_for /\ jobs' = [jobs EXCEPT ![j] = new]
  /\ \/ new.pc = jobs[j].pc
     \/ jobs[j].pc \notin {"none", "reaped"} /\ new.pc \notin {"none", "reaped"}

\* A job that takes part in a step is alive, and not reaped by it.
LEMMA OnlyAlive ==
  ASSUME ShellInv, NEW j \in JobIds, Subshell(j) \/ Command(j)
  PROVE  \E new : StepOf(j, new)
<1> PICK job : job = jobs[j]
  OBVIOUS
<1>1. job \in JobType /\ jobs \in [JobIds -> JobType] /\ "pc" \in DOMAIN job
  BY DEF ShellInv, ShellTypeOK, JobType
<1>2. CASE Logic(j)
  <2> PICK r : r = split_logic(job.p)
    OBVIOUS
  <2> PICK new, next : /\ new = [job EXCEPT !.pc = "exited"]
                       /\ next = [job EXCEPT !.pc = "pipe", !.op = r.op, !.tail = r.tail, !.q = r.head,
                                             !.fd = NoJob.fd, !.last_pid = 0, !.fork_counter = 0,
                                             !.s = -1, !.code = 1, !.stages = << >>]
    OBVIOUS
  <2>1. new.pc = "exited" /\ next.pc = "pipe"
    BY <1>1
  <2>2. /\ job.pc = "logic" /\ waits_for' = waits_for
        /\ jobs' = [jobs EXCEPT ![j] = new] \/ jobs' = [jobs EXCEPT ![j] = next]
    BY <1>2 DEF Logic, Set
  <2> QED BY <2>1, <2>2 DEF StepOf
<1>3. CASE LogicNext(j)
  <2> PICK done : done = [job EXCEPT !.ran = Append(@, <<Len(job.list) - Len(job.p) + 1, job.code>>)]
    OBVIOUS
  <2>1. "pc" \in DOMAIN done
    BY <1>1
  <2> PICK a, b, c : /\ a = [done EXCEPT !.pc = "exited"]
                     /\ b = [done EXCEPT !.pc = StopsAt(job.op)]
                     /\ c = [done EXCEPT !.pc = "logic", !.p = job.tail]
    OBVIOUS
  <2>2. a.pc = "exited" /\ b.pc = StopsAt(job.op) /\ c.pc = "logic"
    BY <2>1
  <2>3. /\ job.pc = "wait" /\ waits_for' = waits_for
        /\ \/ jobs' = [jobs EXCEPT ![j] = a]
           \/ jobs' = [jobs EXCEPT ![j] = b]
           \/ jobs' = [jobs EXCEPT ![j] = c]
    BY <1>3 DEF LogicNext, Set
  <2>4. StopsAt(job.op) \notin {"none", "reaped"}
    BY DEF StopsAt
  <2>5. PICK new : jobs' = [jobs EXCEPT ![j] = new] /\ new.pc \notin {"none", "reaped"}
    BY ONLY <2>2, <2>3, <2>4
  <2>6. job.pc \notin {"none", "reaped"} /\ waits_for' = waits_for
    BY <2>3
  <2> QED BY <2>5, <2>6 DEF StepOf
<1>4. CASE Skip(j)
  <2> PICK r : r = split_logic(job.tail)
    OBVIOUS
  <2> PICK new, next : /\ new = [job EXCEPT !.pc = "logic", !.p = job.tail]
                       /\ next = [job EXCEPT !.p = job.tail, !.op = r.op, !.tail = r.tail]
    OBVIOUS
  <2>1. new.pc = "logic" /\ next.pc = job.pc
    BY <1>1
  <2>2. /\ job.pc \in {"and", "or"} /\ waits_for' = waits_for
        /\ jobs' = [jobs EXCEPT ![j] = new] \/ jobs' = [jobs EXCEPT ![j] = next]
    BY <1>4 DEF Skip, Set
  <2> QED BY <2>1, <2>2 DEF StepOf
<1>5. CASE Fork(j)
  <2> DEFINE r == split_pipeline(jobs[j].q)
             n == jobs[j].pipes + 1
             calls == IF r.op = "last" THEN {"fork"} ELSE {"pipe", "fork"}
             piped == [jobs[j] EXCEPT !.fd[3] = R(n), !.fd[4] = W(n),
                                      !.open = @ \cup {R(n), W(n)}, !.pipes = n]
             start(failed) == IF "pipe" \in calls \ failed THEN piped ELSE jobs[j]
             done(failed) ==
               IF "fork" \in failed THEN [start(failed) EXCEPT !.last_pid = 0]
               ELSE [start(failed) EXCEPT
                       !.last_pid = Len(start(failed).stages) + 1,
                       !.stages = Append(@, Stage(r.head, start(failed).fd, start(failed).open))]
  <2>1. jobs[j].pc = "pipe" /\ waits_for' = waits_for
    BY <1>5 DEF Fork
  <2> PICK failed \in SUBSET calls :
             Set(j, [done(failed) EXCEPT !.pc = "prepare", !.q = r.tail])
    BY <1>5, Zenon DEF Fork
  <2>2. "pc" \in DOMAIN start(failed)
    BY <1>1
  <2>3. "pc" \in DOMAIN done(failed)
    <3> HIDE DEF start
    <3> QED BY <2>2
  <2> DEFINE all(f) == [done(f) EXCEPT !.pc = "prepare", !.q = r.tail]
  <2>7. Set(j, all(failed))
    OBVIOUS
  <2>8. all(failed) = [done(failed) EXCEPT !.pc = "prepare", !.q = r.tail]
    BY Zenon
  <2> HIDE DEF start, done, all
  <2> PICK q : q = r.tail
    OBVIOUS
  <2> HIDE DEF r
  <2>6. jobs' = [jobs EXCEPT ![j] = [done(failed) EXCEPT !.pc = "prepare", !.q = q]]
    BY <2>7, <2>8, Zenon DEF Set
  <2> PICK after : after = done(failed)
    OBVIOUS
  <2> PICK new : new = [after EXCEPT !.pc = "prepare", !.q = q]
    OBVIOUS
  <2>4. new.pc = "prepare"
    BY <2>3
  <2>5. jobs' = [jobs EXCEPT ![j] = new]
    BY <2>6, Zenon
  <2> QED BY <2>1, <2>4, <2>5 DEF StepOf
<1>6. CASE Prepare(j)
  <2> PICK base : base = prepare_fd(job)
    OBVIOUS
  <2>1. "pc" \in DOMAIN base
    BY <1>1 DEF prepare_fd
  <2> PICK new : new = [base EXCEPT !.pc = "pipe", !.fork_counter = @ + 1]
    OBVIOUS
  <2>2. new.pc = "pipe"
    BY <2>1
  <2>3. job.pc = "prepare" /\ waits_for' = waits_for /\ jobs' = [jobs EXCEPT ![j] = new]
    BY <1>6 DEF Prepare, Set
  <2> QED BY <2>2, <2>3 DEF StepOf
<1>7. CASE PrintfCrash(j)
  <2> PICK new : new = [job EXCEPT !.pc = "crashed", !.open = {}]
    OBVIOUS
  <2>1. new.pc = "crashed"
    BY <1>1
  <2>2. job.pc = "prepare" /\ waits_for' = waits_for /\ jobs' = [jobs EXCEPT ![j] = new]
    BY <1>7 DEF PrintfCrash, Set
  <2> QED BY <2>1, <2>2 DEF StepOf
<1>8. CASE AllForked(j)
  <2> PICK new : new = [job EXCEPT !.pc = "wait"]
    OBVIOUS
  <2>1. new.pc = "wait"
    BY <1>1
  <2>2. job.pc = "pipe" /\ waits_for' = waits_for /\ jobs' = [jobs EXCEPT ![j] = new]
    BY <1>8 DEF AllForked, Set
  <2> QED BY <2>1, <2>2 DEF StepOf
<1>9. CASE Wait(j)
  <2>1. /\ job.pc = "wait" /\ job.fork_counter > 0 /\ UNCHANGED <<input, line, waits_for>>
        /\ \/ \E k \in Left(job) :
                /\ job.stages[k].state = "exited"
                /\ Set(j, [[job EXCEPT !.fork_counter = @ - 1, !.s = job.stages[k].code,
                                       !.code = StatusAfter(job, k, job.stages[k].code)]
                              EXCEPT !.stages[k].state = "reaped"])
           \/ /\ Left(job) = {}
              /\ \E code \in IF job.s = -1 THEN Codes ELSE {job.s} :
                   Set(j, [job EXCEPT !.fork_counter = @ - 1, !.s = code,
                                      !.code = StatusAfter(job, 0, code)])
    BY <1>9, WaitIs, Zenon
  <2>0. waits_for' = waits_for
    BY <2>1, Zenon
  <2>2. ASSUME NEW k \in Left(job),
               Set(j, [[job EXCEPT !.fork_counter = @ - 1, !.s = job.stages[k].code,
                                   !.code = StatusAfter(job, k, job.stages[k].code)]
                          EXCEPT !.stages[k].state = "reaped"])
        PROVE  \E new : StepOf(j, new)
    <3> PICK after : after = [job EXCEPT !.fork_counter = @ - 1, !.s = job.stages[k].code,
                                         !.code = StatusAfter(job, k, job.stages[k].code)]
      OBVIOUS
    <3>1. after.pc = job.pc /\ "pc" \in DOMAIN after
      BY <1>1
    <3> PICK new : new = [after EXCEPT !.stages[k].state = "reaped"]
      OBVIOUS
    <3>2. new.pc = jobs[j].pc
      BY ONLY <3>1, job = jobs[j], new = [after EXCEPT !.stages[k].state = "reaped"]
    <3>3. jobs' = [jobs EXCEPT ![j] = new]
      BY <2>2, Zenon DEF Set
    <3> QED BY ONLY <2>0, <3>2, <3>3, Zenon DEF StepOf
  <2>3. ASSUME NEW code, Set(j, [job EXCEPT !.fork_counter = @ - 1, !.s = code,
                                            !.code = StatusAfter(job, 0, code)])
        PROVE  \E new : StepOf(j, new)
    <3> PICK new : new = [job EXCEPT !.fork_counter = @ - 1, !.s = code,
                                     !.code = StatusAfter(job, 0, code)]
      OBVIOUS
    <3>1. new.pc = jobs[j].pc
      BY <1>1
    <3>2. jobs' = [jobs EXCEPT ![j] = new]
      BY <2>3, Zenon DEF Set
    <3> QED BY ONLY <2>0, <3>1, <3>2, Zenon DEF StepOf
  <2> QED BY <2>1, <2>2, <2>3, Zenon
<1>10. CASE Command(j)
  <2> PICK k \in DOMAIN job.stages :
             Connect(j, k) \/ Open(j, k) \/ Exec(j, k) \/ Finish(j, k) \/ Killed(j, k)
    BY <1>10 DEF Command
  <2>1. \E stage : waits_for' = waits_for /\ jobs' = [jobs EXCEPT ![j].stages[k] = stage]
    <3>1. CASE Connect(j, k)
      BY <3>1, Zenon DEF Connect
    <3>2. CASE Open(j, k)
      BY <3>2, Zenon DEF Open
    <3>3. CASE Exec(j, k)
      BY <3>3, Zenon DEF Exec
    <3>4. ASSUME NEW code, EndStage(j, k, code)
          PROVE  \E stage : waits_for' = waits_for /\ jobs' = [jobs EXCEPT ![j].stages[k] = stage]
      BY <3>4, Zenon DEF EndStage
    <3>5. CASE Finish(j, k)
      BY <3>4, <3>5, Zenon DEF Finish
    <3>6. CASE Killed(j, k)
      BY <3>4, <3>6, Zenon DEF Killed
    <3> QED BY <3>1, <3>2, <3>3, <3>5, <3>6
  <2> PICK stage : waits_for' = waits_for /\ jobs' = [jobs EXCEPT ![j].stages[k] = stage]
    BY <2>1
  <2> PICK new : new = [job EXCEPT !.stages[k] = stage]
    OBVIOUS
  <2>2. jobs' = [jobs EXCEPT ![j] = new] /\ new.pc = job.pc
    BY <1>1
  <2> QED BY <2>2 DEF StepOf
<1> QED BY <1>2, <1>3, <1>4, <1>5, <1>6, <1>7, <1>8, <1>9, <1>10, Zenon DEF Subshell

\* When main() goes on behind a command all subshells that have ended are
\* reaped, none but those and each once (execute(), kill_zombie()).
THEOREM NoZombieLeft == Spec => ZombiesReaped
<1> DEFINE Reaping ==
      /\ GoesOnReading => \A j \in JobIds : jobs'[j].pc \notin {"exited", "crashed"}
      /\ \A j \in JobIds : /\ jobs[j].pc = "reaped" => jobs'[j].pc = "reaped"
                           /\ jobs'[j].pc = "reaped" => Over(jobs[j]) /\ jobs[j].pc # "none"
<1>1. ShellInv /\ [Next]_shell_vars => [Reaping]_shell_vars
  <2> SUFFICES ASSUME ShellInv, Next
               PROVE  Reaping
    BY DEF shell_vars
  <2>1. jobs \in [JobIds -> JobType]
    BY DEF ShellInv, ShellTypeOK
  <2>2. ASSUME UNCHANGED jobs, waits_for = 0 \/ waits_for' # 0
        PROVE  Reaping
    BY <2>2 DEF GoesOnReading, Over
  <2>3. ASSUME NEW js, jobs' = kill_zombie(js),
               \A j \in JobIds : js[j] = jobs[j] \/ (jobs[j].pc = "none" /\ js[j].pc = "logic")
        PROVE  Reaping
    <3>1. \A j \in JobIds : /\ js[j].pc \in {"exited", "crashed"} => jobs'[j].pc = "reaped"
                            /\ js[j].pc \notin {"exited", "crashed"} => jobs'[j] = js[j]
      <4> TAKE j \in JobIds
      <4>1. js[j].pc \in {"exited", "crashed"} => [js[j] EXCEPT !.pc = "reaped"].pc = "reaped"
        BY <2>1, <2>3 DEF JobType
      <4> QED BY <2>3, <4>1 DEF kill_zombie
    <3> QED BY <2>3, <3>1 DEF Over
  <2>4. ASSUME NEW j \in JobIds, jobs[j].pc = "none", NEW command
        PROVE  \A i \in JobIds :
                 \/ [jobs EXCEPT ![j] = Job(command)][i] = jobs[i]
                 \/ jobs[i].pc = "none" /\ [jobs EXCEPT ![j] = Job(command)][i].pc = "logic"
    BY <2>1, <2>4 DEF Job, NoJob
  <2>5. CASE Read
    BY <2>2, <2>5 DEF Read
  <2>6. CASE Execute
    <3> PICK list : list = strip_comment(ReadChar(line, Head(input)).list)
      OBVIOUS
    <3> PICK command : command = check_block(list)
      OBVIOUS
    <3>1. waits_for = 0
      BY <2>6 DEF Execute
    <3>2. \/ UNCHANGED jobs
          \/ \E j \in JobIds :
               /\ jobs[j].pc = "none"
               /\ \/ jobs' = kill_zombie([jobs EXCEPT ![j] = Job(command)])
                  \/ jobs' = [jobs EXCEPT ![j] = Job(command)] /\ waits_for' = j
      BY <2>6 DEF Execute
    <3>3. ASSUME NEW j \in JobIds, jobs[j].pc = "none",
                 \/ jobs' = kill_zombie([jobs EXCEPT ![j] = Job(command)])
                 \/ jobs' = [jobs EXCEPT ![j] = Job(command)] /\ waits_for' = j
          PROVE  Reaping
      <4> PICK js : js = [jobs EXCEPT ![j] = Job(command)]
        OBVIOUS
      <4>1. \A i \in JobIds : js[i] = jobs[i] \/ (jobs[i].pc = "none" /\ js[i].pc = "logic")
        BY <2>4, <3>3
      <4>2. CASE jobs' = kill_zombie(js)
        BY <2>3, <4>1, <4>2
      <4>3. CASE jobs' = js /\ waits_for' = j
        <5>1. j # 0
          BY ShellAssumption
        <5>2. ~GoesOnReading
          BY <4>3, <5>1 DEF GoesOnReading
        <5> QED BY <4>1, <4>3, <5>2 DEF Over
      <4> QED BY <3>3, <4>2, <4>3, Zenon
    <3> QED BY <2>2, <3>1, <3>2, <3>3, Zenon
  <2>7. CASE Waited
    BY <2>1, <2>3, <2>7 DEF Waited
  <2>8. ASSUME NEW j \in JobIds, Subshell(j) \/ Command(j)
        PROVE  Reaping
    <3>1. PICK new : StepOf(j, new)
      BY <2>8, OnlyAlive, Zenon
    <3>2. /\ waits_for' = waits_for
          /\ \A i \in JobIds : \/ jobs'[i].pc = jobs[i].pc
                                \/ /\ jobs[i].pc \notin {"none", "reaped"}
                                   /\ jobs'[i].pc \notin {"none", "reaped"}
      BY <2>1, <3>1 DEF StepOf
    <3> QED BY <3>2 DEF GoesOnReading, Over
  <2> QED BY <2>5, <2>6, <2>7, <2>8 DEF Next
<1> QED BY <1>1, ShellInvariant, PTL DEF Spec, ZombiesReaped

-----------------------------------------------------------------------------
(* What the words of a line are made of *)

\* The marks of characters, and of the one before the first.
MarkType ==
  [c : Chars, escaped : BOOLEAN, quote : {"none", SQuote, DQuote}, quotes : BOOLEAN]
StartMark == [c |-> Space, escaped |-> FALSE, quote |-> "none", quotes |-> FALSE]
LastMark(marks) == IF marks = <<>> THEN StartMark ELSE Last(marks)

\* The names of characters differ.
LEMMA CharsDiffer ==
  /\ NewLine # Space /\ NewLine # DQuote /\ NewLine # SQuote /\ NewLine # Backslash
  /\ Space # DQuote /\ Space # SQuote /\ Space # Backslash
  /\ DQuote # SQuote /\ DQuote # Backslash /\ SQuote # Backslash
  /\ DQuote # "none" /\ SQuote # "none"
  /\ {NewLine, Space, DQuote, SQuote, Backslash} \cap spec_symbol = {}
BY DEF NewLine, Space, DQuote, SQuote, Backslash, spec_symbol

\* The last mark of some is a mark, and the next one is.
LEMMA MarkIs ==
  ASSUME NEW marks \in Seq(MarkType), NEW c \in Chars
  PROVE  LastMark(marks) \in MarkType /\ Mark(marks, c) \in MarkType
<1>1. LastMark(marks) \in MarkType
  <2>1. CASE marks = <<>>
    BY <2>1 DEF LastMark, StartMark, MarkType, Chars
  <2>2. CASE marks # <<>>
    <3>1. Len(marks) \in DOMAIN marks
      BY <2>2
    <3> QED BY <2>2, <3>1 DEF LastMark, Last
  <2> QED BY <2>1, <2>2
<1>2. Mark(marks, c) \in MarkType
  <2> PICK before \in MarkType : before = LastMark(marks)
    BY <1>1
  <2> DEFINE first == IF marks = <<>> THEN [c |-> Space, escaped |-> FALSE, quote |-> "none"]
                      ELSE Last(marks)
  <2>1. first.c = before.c /\ first.escaped = before.escaped /\ first.quote = before.quote
    BY DEF LastMark, StartMark
  <2> HIDE DEF first
  <2> DEFINE escaped == first.c = Backslash /\ ~first.escaped /\ first.quote # SQuote
             quote == CASE escaped \/ c \notin {SQuote, DQuote} -> first.quote
                        [] ~escaped /\ c \in {SQuote, DQuote} /\ first.quote = "none" -> c
                        [] ~escaped /\ c = first.quote -> "none"
                        [] OTHER -> first.quote
  <2>2. Mark(marks, c) = [c |-> c, escaped |-> escaped, quote |-> quote, quotes |-> quote # first.quote]
    BY DEF Mark, first
  <2>3. first.quote \in {"none", SQuote, DQuote}
    BY <2>1 DEF MarkType
  <2>4. quote \in {"none", SQuote, DQuote}
    BY <2>3
  <2>5. escaped \in BOOLEAN
    OBVIOUS
  <2> HIDE DEF escaped, quote
  <2> QED BY <2>2, <2>4, <2>5 DEF MarkType
<1> QED BY <1>1, <1>2

\* What the next mark is, from the last one.
LEMMA NextMark ==
  ASSUME NEW marks \in Seq(MarkType), NEW c \in Chars, NEW before, before = LastMark(marks),
         NEW m, m = Mark(marks, c)
  PROVE  /\ m.c = c
         /\ m.escaped <=> (before.c = Backslash /\ ~before.escaped /\ before.quote # SQuote)
         /\ (m.escaped \/ c \notin {SQuote, DQuote}) => m.quote = before.quote
         /\ (~m.escaped /\ c \in {SQuote, DQuote}) =>
              m.quote = IF before.quote = "none" THEN c
                        ELSE IF c = before.quote THEN "none" ELSE before.quote
         /\ m.quotes <=> m.quote # before.quote
<1> DEFINE first == IF marks = <<>> THEN [c |-> Space, escaped |-> FALSE, quote |-> "none"]
                    ELSE Last(marks)
<1>1. first.c = before.c /\ first.escaped = before.escaped /\ first.quote = before.quote
  BY DEF LastMark, StartMark
<1> HIDE DEF first
<1> DEFINE escaped == first.c = Backslash /\ ~first.escaped /\ first.quote # SQuote
           quote == CASE escaped \/ c \notin {SQuote, DQuote} -> first.quote
                      [] ~escaped /\ c \in {SQuote, DQuote} /\ first.quote = "none" -> c
                      [] ~escaped /\ c = first.quote -> "none"
                      [] OTHER -> first.quote
<1>2. Mark(marks, c) = [c |-> c, escaped |-> escaped, quote |-> quote, quotes |-> quote # first.quote]
  BY DEF Mark, first
<1>3. m.c = c /\ (m.escaped <=> escaped) /\ m.quote = quote /\ (m.quotes <=> quote # first.quote)
  <2> HIDE DEF escaped, quote
  <2>1. m = [c |-> c, escaped |-> escaped, quote |-> quote, quotes |-> quote # first.quote]
    BY <1>2
  <2> QED BY ONLY <2>1
<1>4. (escaped \/ c \notin {SQuote, DQuote}) => quote = first.quote
  <2>1. CASE c \notin {SQuote, DQuote}
    <3>1. first.quote \in {"none", SQuote, DQuote}
      <4>1. before \in MarkType
        BY MarkIs
      <4> QED BY <1>1, <4>1 DEF MarkType
    <3> HIDE DEF escaped
    <3> QED BY <2>1, <3>1
  <2>2. CASE escaped
    <3> HIDE DEF escaped
    <3> QED BY <2>2
  <2> QED BY <2>1, <2>2
<1>5. (~escaped /\ c \in {SQuote, DQuote}) =>
        quote = IF first.quote = "none" THEN c ELSE IF c = first.quote THEN "none" ELSE first.quote
  OBVIOUS
<1> HIDE DEF quote
<1>6. escaped <=> (before.c = Backslash /\ ~before.escaped /\ before.quote # SQuote)
  BY <1>1
<1> HIDE DEF escaped
<1> QED BY <1>1, <1>3, <1>4, <1>5, <1>6

\* The marks of a text, one character after the other.
LEMMA MarksOf ==
  ASSUME NEW t \in Seq(Chars)
  PROVE  \E marks \in [0 .. Len(t) -> Seq(MarkType)] :
           /\ marks[0] = <<>>
           /\ \A i \in 1 .. Len(t) : marks[i] = Append(marks[i - 1], Mark(marks[i - 1], t[i]))
<1> PICK n \in Nat : n = Len(t)
  OBVIOUS
<1> PICK V : V = Seq(MarkType)
  OBVIOUS
<1> PICK step : step = [i \in 1 .. n |-> [s \in V |-> Append(s, Mark(s, t[i]))]]
  OBVIOUS
<1>1. \A i \in 1 .. n, s \in V : Append(s, Mark(s, t[i])) \in V
  <2> SUFFICES ASSUME NEW i \in 1 .. n, NEW s \in V PROVE Append(s, Mark(s, t[i])) \in V
    OBVIOUS
  <2>1. t[i] \in Chars
    OBVIOUS
  <2>2. Mark(s, t[i]) \in MarkType
    BY <2>1, MarkIs
  <2> QED BY <2>2
<1>2. step \in [1 .. n -> [V -> V]]
  BY <1>1
<1>3. <<>> \in V
  OBVIOUS
<1> PICK nothing \in V : nothing = <<>>
  BY <1>3
<1>4. PICK marks \in [0 .. n -> V] : Recurs(n, nothing, step, marks)
  BY ONLY n \in Nat, <1>2, nothing \in V, Recursion
<1>5. marks[0] = <<>> /\ \A i \in 1 .. n : marks[i] = step[i][marks[i - 1]]
  BY <1>4 DEF Recurs
<1>6. \A i \in 1 .. n : i - 1 \in 0 .. n
  OBVIOUS
<1>7. \A i \in 1 .. n : marks[i] = Append(marks[i - 1], Mark(marks[i - 1], t[i]))
  BY <1>5, <1>6
<1> QED BY <1>5, <1>7

\* They are what Marks computes.
LEMMA MarksAre ==
  ASSUME NEW t \in Seq(Chars), NEW f \in [0 .. Len(t) -> Seq(MarkType)], f[0] = <<>>,
         \A i \in 1 .. Len(t) : f[i] = Append(f[i - 1], Mark(f[i - 1], t[i]))
  PROVE  Marks(t) = f[Len(t)]
<1> DEFINE marks[i \in 0 .. Len(t)] ==
             IF i = 0 THEN <<>> ELSE Append(marks[i - 1], Mark(marks[i - 1], t[i]))
<1>1. Marks(t) = marks[Len(t)]
  BY Zenon DEF Marks
<1>2. marks = CHOOSE g : g = [i \in 0 .. Len(t) |->
                                IF i = 0 THEN <<>> ELSE Append(g[i - 1], Mark(g[i - 1], t[i]))]
  OBVIOUS
<1> HIDE DEF marks
<1>3. f = [i \in 0 .. Len(t) |-> IF i = 0 THEN <<>> ELSE Append(f[i - 1], Mark(f[i - 1], t[i]))]
  <2>1. \A i \in 0 .. Len(t) :
          f[i] = IF i = 0 THEN <<>> ELSE Append(f[i - 1], Mark(f[i - 1], t[i]))
    OBVIOUS
  <2> QED BY <2>1
<1>4. marks = [i \in 0 .. Len(t) |->
                 IF i = 0 THEN <<>> ELSE Append(marks[i - 1], Mark(marks[i - 1], t[i]))]
  BY ONLY <1>2, <1>3, Zenon
<1>5. \A i \in 1 .. Len(t) : marks[i] = Append(marks[i - 1], Mark(marks[i - 1], t[i]))
  <2> SUFFICES ASSUME NEW i \in 1 .. Len(t)
               PROVE  marks[i] = Append(marks[i - 1], Mark(marks[i - 1], t[i]))
    OBVIOUS
  <2>1. i \in 0 .. Len(t) /\ i # 0
    OBVIOUS
  <2> QED BY ONLY <1>4, <2>1
<1>6. marks[0] = <<>>
  <2>1. 0 \in 0 .. Len(t)
    OBVIOUS
  <2> QED BY ONLY <1>4, <2>1
<1>7. Agree(Len(t), marks, f)
  <2>1. \A i \in 1 .. Len(t) : marks[i - 1] = f[i - 1] => marks[i] = f[i]
    BY <1>5
  <2> QED BY <1>6, <2>1 DEF Agree
<1>8. \A i \in 0 .. Len(t) : marks[i] = f[i]
  <2>1. Len(t) \in Nat
    OBVIOUS
  <2> QED BY ONLY <1>7, <2>1, SameRecursion
<1>9. Len(t) \in 0 .. Len(t)
  OBVIOUS
<1> QED BY <1>1, <1>8, <1>9

\* They are marks, one for each character.
LEMMA MarksType ==
  ASSUME NEW t \in Seq(Chars)
  PROVE  Marks(t) \in Seq(MarkType)
<1>1. PICK f \in [0 .. Len(t) -> Seq(MarkType)] :
        /\ f[0] = <<>>
        /\ \A i \in 1 .. Len(t) : f[i] = Append(f[i - 1], Mark(f[i - 1], t[i]))
  BY MarksOf
<1>2. Marks(t) = f[Len(t)]
  BY <1>1, MarksAre
<1> QED BY <1>2

\* An empty text has no marks.
LEMMA MarksNothing == Marks(<<>>) = <<>>
<1>1. <<>> \in Seq(Chars) /\ Len(<<>>) = 0
  OBVIOUS
<1>2. PICK t \in Seq(Chars) : t = <<>>
  BY <1>1
<1>3. PICK f \in [0 .. Len(t) -> Seq(MarkType)] :
        /\ f[0] = <<>>
        /\ \A i \in 1 .. Len(t) : f[i] = Append(f[i - 1], Mark(f[i - 1], t[i]))
  BY MarksOf
<1>4. Marks(t) = f[Len(t)]
  BY <1>3, MarksAre
<1> QED BY <1>1, <1>2, <1>3, <1>4

\* One character more adds its mark, and changes no other.
LEMMA MarksAppend ==
  ASSUME NEW t \in Seq(Chars), NEW c \in Chars
  PROVE  Marks(Append(t, c)) = Append(Marks(t), Mark(Marks(t), c))
<1> PICK n \in Nat : n = Len(t)
  OBVIOUS
<1>1. PICK f : /\ f \in [0 .. n -> Seq(MarkType)] /\ f[0] = <<>>
               /\ \A i \in 1 .. n : f[i] = Append(f[i - 1], Mark(f[i - 1], t[i]))
  BY MarksOf
<1>2. Marks(t) = f[n]
  BY <1>1, MarksAre
<1> PICK u : u = Append(t, c)
  OBVIOUS
<1>3. u \in Seq(Chars) /\ Len(u) = n + 1 /\ u[n + 1] = c /\ \A i \in 1 .. n : u[i] = t[i]
  OBVIOUS
<1>4. PICK g : /\ g \in [0 .. n + 1 -> Seq(MarkType)] /\ g[0] = <<>>
               /\ \A i \in 1 .. n + 1 : g[i] = Append(g[i - 1], Mark(g[i - 1], u[i]))
  <2>1. \E g \in [0 .. Len(u) -> Seq(MarkType)] :
          /\ g[0] = <<>>
          /\ \A i \in 1 .. Len(u) : g[i] = Append(g[i - 1], Mark(g[i - 1], u[i]))
    BY ONLY <1>3, MarksOf
  <2> QED BY <1>3, <2>1
<1>5. Marks(u) = g[n + 1]
  BY <1>3, <1>4, MarksAre
<1>6. \A i \in 1 .. n : g[i - 1] = f[i - 1] => g[i] = f[i]
  <2> SUFFICES ASSUME NEW i \in 1 .. n, g[i - 1] = f[i - 1] PROVE g[i] = f[i]
    OBVIOUS
  <2>1. i \in 1 .. n + 1
    OBVIOUS
  <2>2. g[i] = Append(g[i - 1], Mark(g[i - 1], u[i]))
    BY ONLY <1>4, <2>1
  <2>3. f[i] = Append(f[i - 1], Mark(f[i - 1], t[i]))
    BY ONLY <1>1, i \in 1 .. n
  <2>4. u[i] = t[i]
    BY <1>3
  <2> QED BY <2>2, <2>3, <2>4
<1>7. Agree(n, g, f)
  BY ONLY <1>1, <1>4, <1>6 DEF Agree
<1>10. \A i \in 0 .. n : g[i] = f[i]
  <2>1. n \in Nat
    OBVIOUS
  <2> QED BY ONLY <1>7, <2>1, SameRecursion
<1>8. g[n + 1] = Append(g[n], Mark(g[n], c))
  <2>1. n + 1 \in 1 .. n + 1 /\ n + 1 - 1 = n
    OBVIOUS
  <2> QED BY <1>3, <1>4, <2>1
<1>9. g[n] = f[n]
  BY <1>10
<1> QED BY <1>2, <1>5, <1>8, <1>9

\* The beginning of a sequence.
LEMMA Beginnings ==
  ASSUME NEW S, NEW s \in Seq(S)
  PROVE  /\ SubSeq(s, 1, Len(s)) = s /\ SubSeq(s, 1, 0) = <<>>
         /\ \A i \in 0 .. Len(s) : SubSeq(s, 1, i) \in Seq(S) /\ Len(SubSeq(s, 1, i)) = i
         /\ \A x \in S, i \in 0 .. Len(s) : SubSeq(Append(s, x), 1, i) = SubSeq(s, 1, i)
<1> PICK n \in Nat : n = Len(s)
  OBVIOUS
<1>1. \A i \in 0 .. n : SubSeq(s, 1, i) \in Seq(S) /\ Len(SubSeq(s, 1, i)) = i
  <2> SUFFICES ASSUME NEW i \in 0 .. n
               PROVE  SubSeq(s, 1, i) \in Seq(S) /\ Len(SubSeq(s, 1, i)) = i
    OBVIOUS
  <2>1. 1 \in Nat \ {0} /\ i \in 0 .. Len(s)
    OBVIOUS
  <2>2. Len(SubSeq(s, 1, i)) = IF 1 <= i THEN i - 1 + 1 ELSE 0
    BY ONLY <2>1, s \in Seq(S), Pieces
  <2>3. SubSeq(s, 1, i) \in Seq(S)
    BY ONLY <2>1, s \in Seq(S), Pieces
  <2> QED BY <2>2, <2>3
<1>2. ASSUME NEW i \in 0 .. n, NEW k \in 1 .. i
      PROVE  SubSeq(s, 1, i)[k] = s[k]
  <2>1. 1 \in Nat \ {0} /\ i \in 0 .. Len(s) /\ k \in 1 .. i - 1 + 1
    OBVIOUS
  <2>2. SubSeq(s, 1, i)[k] = s[1 + k - 1]
    BY ONLY <2>1, s \in Seq(S), Pieces
  <2> QED BY <2>2
<1>3. SubSeq(s, 1, n) = s
  <2> PICK t \in Seq(S) : t = SubSeq(s, 1, n)
    BY <1>1
  <2>1. Len(t) = n /\ \A k \in 1 .. n : t[k] = s[k]
    BY <1>1, <1>2
  <2>2. t = s
    BY <2>1
  <2> QED BY <2>2
<1>4. SubSeq(s, 1, 0) = <<>>
  <2>1. SubSeq(s, 1, 0) \in Seq(S) /\ Len(SubSeq(s, 1, 0)) = 0
    BY <1>1
  <2> QED BY ONLY <2>1, EmptySeq
<1>5. ASSUME NEW x \in S, NEW i \in 0 .. n
      PROVE  SubSeq(Append(s, x), 1, i) = SubSeq(s, 1, i)
  <2> PICK a \in Seq(S) : a = Append(s, x)
    BY AppendProperties
  <2>1. Len(a) = n + 1 /\ \A k \in 1 .. n : a[k] = s[k]
    BY AppendProperties
  <2>2. 1 \in Nat \ {0} /\ i \in 0 .. Len(a)
    BY <2>1
  <2>3. SubSeq(a, 1, i) \in Seq(S) /\ Len(SubSeq(a, 1, i)) = IF 1 <= i THEN i - 1 + 1 ELSE 0
    BY ONLY <2>2, a \in Seq(S), Pieces
  <2>4. \A k \in 1 .. i - 1 + 1 : SubSeq(a, 1, i)[k] = a[1 + k - 1]
    BY ONLY <2>2, a \in Seq(S), Pieces
  <2> PICK t \in Seq(S) : t = SubSeq(a, 1, i)
    BY <2>3
  <2> PICK u \in Seq(S) : u = SubSeq(s, 1, i)
    BY <1>1
  <2>5. Len(t) = i /\ Len(u) = i
    BY <1>1, <2>3
  <2>6. ASSUME NEW k \in 1 .. i PROVE t[k] = u[k]
    <3>1. k \in 1 .. i - 1 + 1 /\ k \in 1 .. n /\ 1 + k - 1 = k
      OBVIOUS
    <3>2. t[k] = a[k]
      BY <2>4, <3>1
    <3>3. u[k] = s[k]
      BY <1>2
    <3> QED BY <2>1, <3>1, <3>2, <3>3
  <2>7. t = u
    BY <2>5, <2>6
  <2> QED BY <2>7
<1> QED BY <1>1, <1>3, <1>4, <1>5

\* The characters in some words, and in one word more.
LEMMA WordsIs ==
  ASSUME NEW list \in Seq(Tokens)
  PROVE  /\ Words(list) \in Seq(Chars)
         /\ \A t \in Tokens : Words(Append(list, t)) = Words(list) \o t.word
<1> PICK words : words = [n \in DOMAIN list |-> list[n].word]
  OBVIOUS
<1>1. words \in Seq(Seq(Chars)) /\ Len(words) = Len(list)
  <2>1. \A t \in Tokens : t.word \in Seq(Chars)
    BY DEF Tokens
  <2>2. \A n \in DOMAIN list : list[n] \in Tokens
    OBVIOUS
  <2> QED BY <2>1, <2>2, Len(list) \in Nat, DOMAIN list = 1 .. Len(list)
<1>2. Words(list) = FlattenSeq(words)
  BY DEF Words
<1>3. Words(list) \in Seq(Chars)
  BY ONLY <1>1, <1>2, FlattenType
<1>4. ASSUME NEW t \in Tokens PROVE Words(Append(list, t)) = Words(list) \o t.word
  <2> PICK more \in Seq(Tokens) : more = Append(list, t)
    BY AppendProperties
  <2> PICK n \in Nat : n = Len(list)
    OBVIOUS
  <2>1. Len(more) = n + 1 /\ more[n + 1] = t /\ \A i \in 1 .. n : more[i] = list[i]
    BY AppendProperties
  <2>2. t.word \in Seq(Chars)
    BY DEF Tokens
  <2> PICK w \in Seq(Chars) : w = t.word
    BY <2>2
  <2> PICK all : all = [i \in DOMAIN more |-> more[i].word]
    OBVIOUS
  <2>3. all \in Seq(Seq(Chars)) /\ Len(all) = n + 1
    <3>1. \A x \in Tokens : x.word \in Seq(Chars)
      BY DEF Tokens
    <3>2. \A i \in DOMAIN more : more[i] \in Tokens
      OBVIOUS
    <3> QED BY <2>1, <3>1, <3>2
  <2>4. all[n + 1] = w /\ \A i \in 1 .. n : all[i] = words[i]
    BY <2>1
  <2> PICK one \in Seq(Seq(Chars)) : one = Append(words, w)
    BY ONLY <1>1, w \in Seq(Chars), AppendProperties
  <2>5. Len(one) = n + 1 /\ one[n + 1] = w /\ \A i \in 1 .. n : one[i] = words[i]
    BY <1>1, AppendProperties
  <2>6. all = one
    BY <2>3, <2>4, <2>5
  <2>7. FlattenSeq(Append(words, w)) = FlattenSeq(words) \o w
    BY ONLY <1>1, w \in Seq(Chars), FlattenAppend
  <2>8. Words(more) = FlattenSeq(all)
    BY DEF Words
  <2> QED BY <1>2, <2>6, <2>7, <2>8
<1> QED BY <1>3, <1>4

\* What is left of some characters, and of one more.
LEMMA KeptType ==
  ASSUME NEW m \in MarkType
  PROVE  Kept(m) \in Seq(Chars)
<1>1. m.c \in Chars /\ Backslash \in Chars
  BY DEF MarkType, Chars
<1>2. <<>> \in Seq(Chars) /\ <<m.c>> \in Seq(Chars) /\ <<Backslash, m.c>> \in Seq(Chars)
  BY <1>1
<1>3. \/ Kept(m) = <<>> \/ Kept(m) = <<m.c>> \/ Kept(m) = <<Backslash, m.c>>
  <2>1. CASE m.escaped
    BY <2>1 DEF Kept
  <2>2. CASE ~m.escaped /\ Separator(m)
    BY <2>2 DEF Kept
  <2>3. CASE ~m.escaped /\ ~Separator(m)
    BY <2>3 DEF Kept
  <2> QED BY <2>1, <2>2, <2>3
<1> QED BY ONLY <1>2, <1>3

\* What is kept of one character more comes at the end.
LEMMA KeptIs ==
  ASSUME NEW marks \in Seq(MarkType)
  PROVE  /\ KeptBy(marks) \in Seq(Chars)
         /\ \A m \in MarkType : KeptBy(Append(marks, m)) = KeptBy(marks) \o Kept(m)
<1> PICK words : words = [n \in DOMAIN marks |-> Kept(marks[n])]
  OBVIOUS
<1>1. words \in Seq(Seq(Chars)) /\ Len(words) = Len(marks)
  <2>1. \A n \in DOMAIN marks : Kept(marks[n]) \in Seq(Chars)
    BY KeptType
  <2>2. marks \in Seq(MarkType) /\ Len(marks) \in Nat /\ DOMAIN marks = 1 .. Len(marks)
    BY ONLY marks \in Seq(MarkType), LenProperties
  <2>3. words \in [1 .. Len(marks) -> Seq(Chars)]
    BY ONLY <2>1, <2>2, words = [n \in DOMAIN marks |-> Kept(marks[n])]
  <2> QED BY ONLY <2>2, <2>3
<1>2. KeptBy(marks) = FlattenSeq(words)
  BY DEF KeptBy
<1>3. KeptBy(marks) \in Seq(Chars)
  BY ONLY <1>1, <1>2, FlattenType
<1>4. ASSUME NEW m \in MarkType PROVE KeptBy(Append(marks, m)) = KeptBy(marks) \o Kept(m)
  <2> PICK more \in Seq(MarkType) : more = Append(marks, m)
    BY AppendProperties
  <2> PICK n \in Nat : n = Len(marks)
    OBVIOUS
  <2>1. Len(more) = n + 1 /\ more[n + 1] = m /\ \A i \in 1 .. n : more[i] = marks[i]
    BY AppendProperties
  <2> PICK w \in Seq(Chars) : w = Kept(m)
    BY KeptType
  <2> PICK all : all = [i \in DOMAIN more |-> Kept(more[i])]
    OBVIOUS
  <2>3. all \in Seq(Seq(Chars)) /\ Len(all) = n + 1
    <3>1. \A i \in DOMAIN more : Kept(more[i]) \in Seq(Chars)
      BY KeptType
    <3> QED BY <2>1, <3>1
  <2>4. all[n + 1] = w /\ \A i \in 1 .. n : all[i] = words[i]
    BY <2>1
  <2> PICK one \in Seq(Seq(Chars)) : one = Append(words, w)
    BY ONLY <1>1, w \in Seq(Chars), AppendProperties
  <2>5. Len(one) = n + 1 /\ one[n + 1] = w /\ \A i \in 1 .. n : one[i] = words[i]
    BY <1>1, AppendProperties
  <2>6. all = one
    BY <2>3, <2>4, <2>5
  <2>7. FlattenSeq(Append(words, w)) = FlattenSeq(words) \o w
    BY ONLY <1>1, w \in Seq(Chars), FlattenAppend
  <2>8. KeptBy(more) = FlattenSeq(all)
    BY DEF KeptBy
  <2> QED BY <1>2, <2>6, <2>7, <2>8
<1> QED BY <1>3, <1>4

\* Where the words of a list end.
LEMMA EndsAre ==
  ASSUME NEW list \in Seq(Tokens)
  PROVE  /\ EndOf(list, 0) = 0 /\ EndOf(list, Len(list)) = Len(Words(list))
         /\ \A n \in 0 .. Len(list) : EndOf(list, n) \in Nat
         /\ \A t \in Tokens : \A n \in 0 .. Len(list) : EndOf(Append(list, t), n) = EndOf(list, n)
         /\ \A t \in Tokens : EndOf(Append(list, t), Len(list) + 1) = Len(Words(list)) + Len(t.word)
<1>1. /\ SubSeq(list, 1, Len(list)) = list /\ SubSeq(list, 1, 0) = <<>>
      /\ \A i \in 0 .. Len(list) : SubSeq(list, 1, i) \in Seq(Tokens)
      /\ \A x \in Tokens, i \in 0 .. Len(list) : SubSeq(Append(list, x), 1, i) = SubSeq(list, 1, i)
  BY Beginnings
<1>2. Words(<<>>) = <<>>
  <2>1. [n \in DOMAIN <<>> |-> (<<>>)[n].word] = <<>>
    OBVIOUS
  <2> QED BY <2>1, FlattenNothing, Zenon DEF Words
<1>3. EndOf(list, 0) = 0 /\ EndOf(list, Len(list)) = Len(Words(list))
  BY ONLY <1>1, <1>2, Len(<<>>) = 0 DEF EndOf
<1>4. \A n \in 0 .. Len(list) : EndOf(list, n) \in Nat
  <2> SUFFICES ASSUME NEW n \in 0 .. Len(list) PROVE EndOf(list, n) \in Nat
    OBVIOUS
  <2>1. Words(SubSeq(list, 1, n)) \in Seq(Chars)
    BY <1>1, WordsIs
  <2> QED BY <2>1 DEF EndOf
<1>5. ASSUME NEW t \in Tokens
      PROVE  EndOf(Append(list, t), Len(list) + 1) = Len(Words(list)) + Len(t.word)
  <2> PICK more \in Seq(Tokens) : more = Append(list, t)
    BY AppendProperties
  <2>1. Len(more) = Len(list) + 1
    BY AppendProperties
  <2>2. SubSeq(more, 1, Len(more)) = more
    BY Beginnings
  <2>3. Words(more) = Words(list) \o t.word /\ Words(list) \in Seq(Chars)
    BY WordsIs
  <2>4. t.word \in Seq(Chars)
    BY DEF Tokens
  <2>5. Len(Words(list) \o t.word) = Len(Words(list)) + Len(t.word)
    BY ONLY <2>3, <2>4, ConcatProperties
  <2> QED BY <2>1, <2>2, <2>3, <2>5 DEF EndOf
<1>6. \A t \in Tokens : \A n \in 0 .. Len(list) : EndOf(Append(list, t), n) = EndOf(list, n)
  BY <1>1 DEF EndOf
<1> QED BY <1>3, <1>4, <1>5, <1>6

\* Where what is left of the first characters ends.
LEMMA CutsAre ==
  ASSUME NEW marks \in Seq(MarkType)
  PROVE  /\ CutAt(marks, 0) = 0 /\ CutAt(marks, Len(marks)) = Len(KeptBy(marks))
         /\ \A n \in 0 .. Len(marks) : CutAt(marks, n) \in Nat
         /\ \A m \in MarkType : \A n \in 0 .. Len(marks) :
              CutAt(Append(marks, m), n) = CutAt(marks, n)
         /\ \A m \in MarkType :
              CutAt(Append(marks, m), Len(marks) + 1) = Len(KeptBy(marks)) + Len(Kept(m))
<1>1. /\ SubSeq(marks, 1, Len(marks)) = marks /\ SubSeq(marks, 1, 0) = <<>>
      /\ \A i \in 0 .. Len(marks) : SubSeq(marks, 1, i) \in Seq(MarkType)
      /\ \A x \in MarkType, i \in 0 .. Len(marks) :
           SubSeq(Append(marks, x), 1, i) = SubSeq(marks, 1, i)
  BY Beginnings
<1>2. KeptBy(<<>>) = <<>>
  <2>1. [n \in DOMAIN <<>> |-> Kept((<<>>)[n])] = <<>>
    OBVIOUS
  <2> QED BY <2>1, FlattenNothing, Zenon DEF KeptBy
<1>3. CutAt(marks, 0) = 0 /\ CutAt(marks, Len(marks)) = Len(KeptBy(marks))
  BY ONLY <1>1, <1>2, Len(<<>>) = 0 DEF CutAt
<1>4. \A n \in 0 .. Len(marks) : CutAt(marks, n) \in Nat
  <2> SUFFICES ASSUME NEW n \in 0 .. Len(marks) PROVE CutAt(marks, n) \in Nat
    OBVIOUS
  <2>1. KeptBy(SubSeq(marks, 1, n)) \in Seq(Chars)
    BY <1>1, KeptIs
  <2> QED BY <2>1 DEF CutAt
<1>5. ASSUME NEW m \in MarkType
      PROVE  CutAt(Append(marks, m), Len(marks) + 1) = Len(KeptBy(marks)) + Len(Kept(m))
  <2> PICK more \in Seq(MarkType) : more = Append(marks, m)
    BY AppendProperties
  <2>1. Len(more) = Len(marks) + 1
    BY AppendProperties
  <2>2. SubSeq(more, 1, Len(more)) = more
    BY Beginnings
  <2>3. KeptBy(more) = KeptBy(marks) \o Kept(m) /\ KeptBy(marks) \in Seq(Chars)
    BY KeptIs
  <2>4. Kept(m) \in Seq(Chars)
    BY KeptType
  <2>5. Len(KeptBy(marks) \o Kept(m)) = Len(KeptBy(marks)) + Len(Kept(m))
    BY ONLY <2>3, <2>4, ConcatProperties
  <2> QED BY <2>1, <2>2, <2>3, <2>5 DEF CutAt
<1>6. \A m \in MarkType : \A n \in 0 .. Len(marks) : CutAt(Append(marks, m), n) = CutAt(marks, n)
  BY <1>1 DEF CutAt
<1> QED BY <1>3, <1>4, <1>5, <1>6

\* Faithful, in parts: where the words end and where the line is to be cut,
\* and the type of a word.
WordEnds(list) == {EndOf(list, n) : n \in 0 .. Len(list)}
Cuts(marks) ==
  {0} \cup UNION {{CutAt(marks, i - 1), CutAt(marks, i)} : i \in Separators(marks)}
WordOK(list, marks, n) ==
  LET here == {i \in Operators(marks) : CutAt(marks, i - 1) = EndOf(list, n - 1)}
  IN  /\ list[n].word # <<>>
      /\ here = {} => list[n].spec = "default"
      /\ \A i \in here :
           list[n] = Token(<<marks[i].c>>, IF i - 1 \in Operators(marks) THEN "second" ELSE "first")

\* The words of list are those that end at the cuts, and every operator that
\* has been read is in one.
WellCut(list, cuts, marks) ==
  /\ WordEnds(list) = cuts
  /\ \A n \in DOMAIN list : WordOK(list, marks, n)
  /\ \A n \in 0 .. Len(list) - 1 : EndOf(list, n) < Len(Words(list))
  /\ \A i \in Operators(marks) : CutAt(marks, i - 1) < Len(Words(list))

\* What one mark more changes.
MarkAdded(marks, m, more) ==
  /\ Operators(marks) \subseteq 1 .. Len(marks)
  /\ \A i \in 1 .. Len(marks) : more[i] = marks[i]
  /\ more[Len(marks) + 1] = m
  /\ \A i \in 0 .. Len(marks) : CutAt(more, i) = CutAt(marks, i)
  /\ Operators(more) = IF Separator(m) /\ m.c \in spec_symbol
                         THEN Operators(marks) \cup {Len(marks) + 1} ELSE Operators(marks)
  /\ Cuts(more) =
       IF Separator(m)
         THEN Cuts(marks) \cup {Len(KeptBy(marks)), Len(KeptBy(marks)) + Len(Kept(m))}
         ELSE Cuts(marks)

\* What one mark more does to what is kept, to the cuts and to the operators.
LEMMA NextCut ==
  ASSUME NEW marks \in Seq(MarkType), NEW m \in MarkType, NEW more, more = Append(marks, m)
  PROVE  MarkAdded(marks, m, more)
<1> PICK n \in Nat : n = Len(marks)
  OBVIOUS
<1>1. /\ more \in Seq(MarkType) /\ Len(more) = n + 1 /\ more[n + 1] = m
      /\ \A i \in 1 .. n : more[i] = marks[i]
  BY AppendProperties
<1>2. /\ CutAt(marks, n) = Len(KeptBy(marks))
      /\ \A i \in 0 .. n : CutAt(more, i) = CutAt(marks, i)
      /\ CutAt(more, n + 1) = Len(KeptBy(marks)) + Len(Kept(m))
  BY CutsAre
<1>3. DOMAIN marks = 1 .. n /\ DOMAIN more = 1 .. n + 1
  BY <1>1
<1>4. Separators(marks) \subseteq 1 .. n
  BY <1>3 DEF Separators
<1>5. Separators(more) = IF Separator(m) THEN Separators(marks) \cup {n + 1} ELSE Separators(marks)
  <2>1. \A i \in 1 .. n : i \in Separators(more) <=> i \in Separators(marks)
    BY <1>1, <1>3 DEF Separators
  <2>2. n + 1 \in Separators(more) <=> Separator(m)
    BY <1>1, <1>3 DEF Separators
  <2>3. \A i \in Separators(more) : i \in 1 .. n \/ i = n + 1
    BY <1>3 DEF Separators
  <2>4. \A i : i \in Separators(more) <=> i \in Separators(marks) \/ (Separator(m) /\ i = n + 1)
    BY ONLY <1>4, <2>1, <2>2, <2>3
  <2> QED BY <2>4
<1>6. Operators(more) = IF Separator(m) /\ m.c \in spec_symbol
                          THEN Operators(marks) \cup {n + 1} ELSE Operators(marks)
  BY <1>1, <1>4, <1>5 DEF Operators
<1>7. Cuts(more) =
        IF Separator(m)
          THEN Cuts(marks) \cup {Len(KeptBy(marks)), Len(KeptBy(marks)) + Len(Kept(m))}
          ELSE Cuts(marks)
  <2>1. \A i \in Separators(marks) : CutAt(more, i - 1) = CutAt(marks, i - 1)
                                     /\ CutAt(more, i) = CutAt(marks, i)
    <3>1. \A i \in 1 .. n : i \in 0 .. n /\ i - 1 \in 0 .. n
      OBVIOUS
    <3> QED BY <1>2, <1>4, <3>1
  <2>2. \A t, x : x \in Cuts(t) <=>
          x = 0 \/ \E i \in Separators(t) : x = CutAt(t, i - 1) \/ x = CutAt(t, i)
    BY DEF Cuts
  <2>3. CASE ~Separator(m)
    <3>1. \A x : x \in Cuts(more) <=> x \in Cuts(marks)
      BY ONLY <1>5, <2>1, <2>2, <2>3
    <3> QED BY <2>3, <3>1
  <2>4. CASE Separator(m)
    <3>1. CutAt(more, n + 1 - 1) = Len(KeptBy(marks))
      <4>1. n + 1 - 1 = n /\ n \in 0 .. n
        OBVIOUS
      <4> QED BY <1>2, <4>1
    <3>2. \A x : (\E i \in Separators(more) : x = CutAt(more, i - 1) \/ x = CutAt(more, i)) <=>
            \/ \E i \in Separators(marks) : x = CutAt(more, i - 1) \/ x = CutAt(more, i)
            \/ x = CutAt(more, n + 1 - 1) \/ x = CutAt(more, n + 1)
      BY ONLY <1>5, <2>4
    <3>3. \A x : (\E i \in Separators(marks) : x = CutAt(more, i - 1) \/ x = CutAt(more, i)) <=>
            \E i \in Separators(marks) : x = CutAt(marks, i - 1) \/ x = CutAt(marks, i)
      BY ONLY <2>1
    <3>4. CutAt(more, n + 1) = Len(KeptBy(marks)) + Len(Kept(m))
      BY <1>2
    <3>5. \A x : x \in Cuts(more) <=>
            x \in Cuts(marks) \/ x = Len(KeptBy(marks)) \/ x = Len(KeptBy(marks)) + Len(Kept(m))
      <4>1. \A x : x \in Cuts(more) <=>
              x = 0 \/ \E i \in Separators(more) : x = CutAt(more, i - 1) \/ x = CutAt(more, i)
        BY ONLY <2>2
      <4>2. \A x : x \in Cuts(marks) <=>
              x = 0 \/ \E i \in Separators(marks) : x = CutAt(marks, i - 1) \/ x = CutAt(marks, i)
        BY ONLY <2>2
      <4> QED BY ONLY <3>1, <3>2, <3>3, <3>4, <4>1, <4>2
    <3> QED BY <2>4, <3>5
  <2> QED BY <2>3, <2>4
<1>8. Operators(marks) \subseteq 1 .. n
  BY <1>4 DEF Operators
<1> QED BY <1>1, <1>2, <1>6, <1>7, <1>8 DEF MarkAdded

\* A character that does not end a word.
LEMMA LetterRead ==
  ASSUME NEW marks \in Seq(MarkType), NEW m \in MarkType, NEW list \in Seq(Tokens),
         WellCut(list, Cuts(marks), marks), ~Separator(m)
  PROVE  WellCut(list, Cuts(Append(marks, m)), Append(marks, m))
<1> PICK more : more = Append(marks, m)
  OBVIOUS
<1>1. /\ Operators(marks) \subseteq 1 .. Len(marks)
      /\ \A i \in 1 .. Len(marks) : more[i] = marks[i]
      /\ \A i \in 0 .. Len(marks) : CutAt(more, i) = CutAt(marks, i)
      /\ Operators(more) = Operators(marks) /\ Cuts(more) = Cuts(marks)
  <2>1. MarkAdded(marks, m, more)
    BY NextCut
  <2> QED BY <2>1 DEF MarkAdded
<1>2. \A i \in Operators(marks) : more[i] = marks[i] /\ CutAt(more, i - 1) = CutAt(marks, i - 1)
  <2>1. \A i \in 1 .. Len(marks) : i - 1 \in 0 .. Len(marks)
    OBVIOUS
  <2> QED BY <1>1, <2>1
<1>3. ASSUME NEW n \in DOMAIN list PROVE WordOK(list, more, n)
  <2>1. WordOK(list, marks, n)
    BY DEF WellCut
  <2>2. {i \in Operators(more) : CutAt(more, i - 1) = EndOf(list, n - 1)}
          = {i \in Operators(marks) : CutAt(marks, i - 1) = EndOf(list, n - 1)}
    BY <1>1, <1>2
  <2> QED BY ONLY <1>1, <1>2, <2>1, <2>2 DEF WordOK
<1> QED BY <1>1, <1>2, <1>3 DEF WellCut

\* A blank after the last word.
LEMMA BlankRead ==
  ASSUME NEW marks \in Seq(MarkType), NEW m \in MarkType, NEW list \in Seq(Tokens),
         WellCut(list, Cuts(marks) \cup {Len(KeptBy(marks))}, marks),
         Separator(m), m.c \notin spec_symbol, Kept(m) = <<>>
  PROVE  WellCut(list, Cuts(Append(marks, m)), Append(marks, m))
<1> PICK more : more = Append(marks, m)
  OBVIOUS
<1>1. /\ Operators(marks) \subseteq 1 .. Len(marks)
      /\ \A i \in 1 .. Len(marks) : more[i] = marks[i]
      /\ \A i \in 0 .. Len(marks) : CutAt(more, i) = CutAt(marks, i)
      /\ Operators(more) = Operators(marks)
      /\ Cuts(more) = Cuts(marks) \cup {Len(KeptBy(marks)), Len(KeptBy(marks)) + Len(Kept(m))}
  <2>1. MarkAdded(marks, m, more)
    BY NextCut
  <2> QED BY <2>1 DEF MarkAdded
<1>2. \A i \in Operators(marks) : more[i] = marks[i] /\ CutAt(more, i - 1) = CutAt(marks, i - 1)
  <2>1. \A i \in 1 .. Len(marks) : i - 1 \in 0 .. Len(marks)
    OBVIOUS
  <2> QED BY <1>1, <2>1
<1>3. ASSUME NEW n \in DOMAIN list PROVE WordOK(list, more, n)
  <2>1. WordOK(list, marks, n)
    BY DEF WellCut
  <2>2. {i \in Operators(more) : CutAt(more, i - 1) = EndOf(list, n - 1)}
          = {i \in Operators(marks) : CutAt(marks, i - 1) = EndOf(list, n - 1)}
    BY <1>1, <1>2
  <2> QED BY ONLY <1>1, <1>2, <2>1, <2>2 DEF WordOK
<1>4. Cuts(more) = Cuts(marks) \cup {Len(KeptBy(marks))}
  <2>1. KeptBy(marks) \in Seq(Chars)
    BY KeptIs
  <2>2. Len(KeptBy(marks)) + Len(Kept(m)) = Len(KeptBy(marks))
    <3>1. Len(KeptBy(marks)) \in Nat /\ Len(Kept(m)) = 0
      BY <2>1
    <3> QED BY <3>1
  <2> QED BY <1>1, <2>2
<1> QED BY <1>1, <1>2, <1>3, <1>4 DEF WellCut

\* One word more, that begins where the last one ends.
WordPut(list, t, more) ==
  /\ more \in Seq(Tokens) /\ Len(more) = Len(list) + 1 /\ more[Len(list) + 1] = t
  /\ \A n \in 1 .. Len(list) : more[n] = list[n]
  /\ Words(list) \in Seq(Chars) /\ Len(Words(list)) \in Nat
  /\ Words(more) = Words(list) \o t.word /\ Len(Words(more)) = Len(Words(list)) + Len(t.word)
  /\ Len(t.word) \in Nat \ {0}
  /\ EndOf(list, Len(list)) = Len(Words(list))
  /\ EndOf(more, Len(list) + 1) = Len(Words(more))
  /\ \A n \in 0 .. Len(list) : EndOf(more, n) = EndOf(list, n) /\ EndOf(list, n) \in Nat
  /\ WordEnds(more) = WordEnds(list) \cup {Len(Words(more))}

\* What one word more does to the words and where they end.
LEMMA WordAdded ==
  ASSUME NEW list \in Seq(Tokens), NEW t \in Tokens, NEW more, more = Append(list, t), t.word # <<>>
  PROVE  WordPut(list, t, more)
<1>1. /\ more \in Seq(Tokens) /\ Len(more) = Len(list) + 1 /\ more[Len(list) + 1] = t
      /\ \A n \in 1 .. Len(list) : more[n] = list[n]
  BY AppendProperties
<1>2. t.word \in Seq(Chars) /\ Len(t.word) \in Nat /\ Len(t.word) # 0
  <2>1. t.word \in Seq(Chars)
    BY DEF Tokens
  <2> QED BY <2>1, EmptySeq
<1>3. Words(list) \in Seq(Chars) /\ Words(more) = Words(list) \o t.word
  BY WordsIs
<1>4. Len(Words(list)) \in Nat /\ Len(Words(more)) = Len(Words(list)) + Len(t.word)
  BY ONLY <1>2, <1>3, ConcatProperties, LenProperties
<1>5. /\ EndOf(list, Len(list)) = Len(Words(list))
      /\ \A n \in 0 .. Len(list) : EndOf(more, n) = EndOf(list, n) /\ EndOf(list, n) \in Nat
      /\ EndOf(more, Len(list) + 1) = Len(Words(more))
  BY <1>4, EndsAre
<1>6. WordEnds(more) = WordEnds(list) \cup {Len(Words(more))}
  <2> PICK n \in Nat : n = Len(list)
    OBVIOUS
  <2>1. 0 .. Len(more) = (0 .. n) \cup {n + 1}
    BY <1>1
  <2>2. {EndOf(more, k) : k \in (0 .. n) \cup {n + 1}}
          = {EndOf(more, k) : k \in 0 .. n} \cup {EndOf(more, n + 1)}
    OBVIOUS
  <2>3. {EndOf(more, k) : k \in 0 .. n} = {EndOf(list, k) : k \in 0 .. n}
    BY <1>5
  <2> QED BY <1>5, <2>1, <2>2, <2>3 DEF WordEnds
<1> QED BY <1>1, <1>2, <1>3, <1>4, <1>5, <1>6 DEF WordPut

\* What a buffer adds when it is made a word.
LEMMA BufferInserted ==
  ASSUME NEW marks \in Seq(MarkType), NEW list \in Seq(Tokens), NEW buf \in Seq(Chars),
         WellCut(list, Cuts(marks), marks), Words(list) \o buf = KeptBy(marks),
         NEW new, new = IF buf = <<>> THEN list ELSE Append(list, Token(buf, "default"))
  PROVE  /\ WellCut(new, Cuts(marks) \cup {Len(KeptBy(marks))}, marks)
         /\ Words(new) = KeptBy(marks)
<1> PICK n \in Nat : n = Len(list)
  OBVIOUS
<1>1. CASE buf = <<>>
  <2>1. Words(list) = KeptBy(marks)
    <3>1. Words(list) \in Seq(Chars)
      BY WordsIs
    <3> QED BY <1>1, <3>1, ConcatEmptySeq
  <2>2. Len(KeptBy(marks)) \in WordEnds(list)
    <3>1. n \in 0 .. Len(list) /\ EndOf(list, n) = Len(Words(list))
      BY EndsAre
    <3> QED BY <2>1, <3>1 DEF WordEnds
  <2>3. Cuts(marks) \cup {Len(KeptBy(marks))} = Cuts(marks)
    BY <2>2 DEF WellCut
  <2> QED BY <1>1, <2>1, <2>3
<1>2. CASE buf # <<>>
  <2> PICK t : t = Token(buf, "default")
    OBVIOUS
  <2>1. t \in Tokens /\ t.word = buf /\ t.spec = "default"
    BY DEF Token, Tokens
  <2>2. new = Append(list, t)
    BY <1>2
  <2>3. /\ new \in Seq(Tokens) /\ Len(new) = n + 1 /\ new[n + 1] = t
        /\ \A k \in 1 .. n : new[k] = list[k]
        /\ Len(Words(list)) \in Nat
        /\ Words(new) = Words(list) \o buf /\ Len(Words(new)) = Len(Words(list)) + Len(buf)
        /\ Len(buf) \in Nat \ {0}
        /\ EndOf(list, n) = Len(Words(list))
        /\ EndOf(new, n + 1) = Len(Words(new))
        /\ \A k \in 0 .. n : EndOf(new, k) = EndOf(list, k) /\ EndOf(list, k) \in Nat
        /\ WordEnds(new) = WordEnds(list) \cup {Len(Words(new))}
    <3>1. WordPut(list, t, new)
      BY <1>2, <2>1, <2>2, WordAdded
    <3> QED BY <2>1, <3>1 DEF WordPut
  <2>4. Words(new) = KeptBy(marks) /\ WordEnds(new) = Cuts(marks) \cup {Len(KeptBy(marks))}
    BY <2>3 DEF WellCut
  <2>5. ASSUME NEW k \in 0 .. n PROVE EndOf(new, k) < Len(Words(new))
    <3>1. EndOf(list, k) <= Len(Words(list))
      <4>1. CASE k = n
        BY <2>3, <4>1
      <4>2. CASE k # n
        <5>1. k \in 0 .. Len(list) - 1
          BY <4>2
        <5> QED BY <2>3, <5>1 DEF WellCut
      <4> QED BY <4>1, <4>2
    <3> QED BY <2>3, <3>1
  <2>6. ASSUME NEW i \in Operators(marks) PROVE CutAt(marks, i - 1) < Len(Words(new))
    <3>1. CutAt(marks, i - 1) < Len(Words(list))
      BY DEF WellCut
    <3>2. CutAt(marks, i - 1) \in Nat
      <4>1. i \in 1 .. Len(marks)
        BY DEF Operators, Separators
      <4>2. i - 1 \in 0 .. Len(marks)
        BY <4>1
      <4> QED BY <4>2, CutsAre
    <3> QED BY <2>3, <3>1, <3>2
  <2>7. ASSUME NEW k \in 1 .. n + 1 PROVE WordOK(new, marks, k)
    <3>1. CASE k = n + 1
      <4>1. EndOf(new, k - 1) = Len(Words(list))
        <5>1. k - 1 = n /\ n \in 0 .. n
          BY <3>1
        <5> QED BY <2>3, <5>1
      <4>2. {i \in Operators(marks) : CutAt(marks, i - 1) = EndOf(new, k - 1)} = {}
        <5>1. \A i \in Operators(marks) : CutAt(marks, i - 1) < Len(Words(list))
          BY DEF WellCut
        <5> QED BY <2>3, <4>1, <5>1
      <4> QED BY <1>2, <2>1, <2>3, <3>1, <4>2 DEF WordOK
    <3>2. CASE k # n + 1
      <4>1. k \in 1 .. n /\ k - 1 \in 0 .. n /\ k \in DOMAIN list
        BY <3>2
      <4>2. WordOK(list, marks, k)
        BY <4>1 DEF WellCut
      <4>3. new[k] = list[k] /\ EndOf(new, k - 1) = EndOf(list, k - 1)
        BY <2>3, <4>1
      <4> QED BY ONLY <4>2, <4>3 DEF WordOK
    <3> QED BY <3>1, <3>2
  <2>8. DOMAIN new = 1 .. n + 1 /\ Len(new) - 1 = n
    BY <2>3
  <2> QED BY <2>4, <2>5, <2>6, <2>7, <2>8 DEF WellCut
<1> QED BY <1>1, <1>2

\* An operator after the last word.
LEMMA OperatorRead ==
  ASSUME NEW marks \in Seq(MarkType), NEW m \in MarkType, NEW list \in Seq(Tokens),
         WellCut(list, Cuts(marks) \cup {Len(KeptBy(marks))}, marks), Words(list) = KeptBy(marks),
         Separator(m), m.c \in spec_symbol, Kept(m) = <<m.c>>, NEW spec,
         spec = IF Len(marks) \in Operators(marks) THEN "second" ELSE "first",
         NEW new, new = Append(list, Token(<<m.c>>, spec))
  PROVE  /\ WellCut(new, Cuts(Append(marks, m)), Append(marks, m))
         /\ Words(new) = KeptBy(Append(marks, m))
<1> PICK n \in Nat : n = Len(list)
  OBVIOUS
<1> PICK size \in Nat : size = Len(marks)
  OBVIOUS
<1> PICK more : more = Append(marks, m)
  OBVIOUS
<1> PICK c \in Chars : c = m.c
  BY DEF MarkType
<1> PICK t : t = Token(<<c>>, spec)
  OBVIOUS
<1>1. t \in Tokens /\ t.word = <<c>> /\ t.word # <<>> /\ Len(t.word) = 1
  <2>1. <<c>> \in Seq(Chars)
    OBVIOUS
  <2> QED BY <2>1 DEF Token, Tokens
<1>2. /\ new \in Seq(Tokens) /\ Len(new) = n + 1 /\ new[n + 1] = t
      /\ \A k \in 1 .. n : new[k] = list[k]
      /\ Len(Words(list)) \in Nat
      /\ Words(new) = Words(list) \o t.word /\ Len(Words(new)) = Len(Words(list)) + Len(t.word)
      /\ EndOf(list, n) = Len(Words(list))
      /\ EndOf(new, n + 1) = Len(Words(new))
      /\ \A k \in 0 .. n : EndOf(new, k) = EndOf(list, k) /\ EndOf(list, k) \in Nat
      /\ WordEnds(new) = WordEnds(list) \cup {Len(Words(new))}
  <2>1. new = Append(list, t)
    OBVIOUS
  <2>2. WordPut(list, t, new)
    BY <1>1, <2>1, WordAdded
  <2> QED BY <2>2 DEF WordPut
<1>3. Words(new) = KeptBy(more)
  BY <1>1, <1>2, KeptIs
<1>4. Len(Words(new)) = Len(Words(list)) + 1 /\ Len(Kept(m)) = 1
  BY <1>1, <1>2
<1>5. /\ Operators(marks) \subseteq 1 .. size
      /\ \A i \in 1 .. size : more[i] = marks[i]
      /\ more[size + 1] = m
      /\ \A i \in 0 .. size : CutAt(more, i) = CutAt(marks, i)
      /\ Operators(more) = Operators(marks) \cup {size + 1}
      /\ Cuts(more) = Cuts(marks) \cup {Len(KeptBy(marks)), Len(KeptBy(marks)) + Len(Kept(m))}
  <2>1. MarkAdded(marks, m, more)
    BY NextCut
  <2> QED BY <2>1 DEF MarkAdded
<1>6. WordEnds(new) = Cuts(more)
  <2>1. WordEnds(list) = Cuts(marks) \cup {Len(Words(list))}
    BY DEF WellCut
  <2>2. Cuts(more) = Cuts(marks) \cup {Len(Words(list)), Len(Words(list)) + 1}
    BY ONLY <1>4, <1>5, Words(list) = KeptBy(marks)
  <2>3. WordEnds(new) = WordEnds(list) \cup {Len(Words(list)) + 1}
    BY ONLY <1>2, <1>4
  <2> QED BY ONLY <2>1, <2>2, <2>3
<1>7. CutAt(marks, size) = Len(Words(list))
  BY CutsAre
<1>8. \A i \in Operators(marks) :
        /\ i \in 1 .. size /\ more[i] = marks[i] /\ CutAt(more, i - 1) = CutAt(marks, i - 1)
        /\ CutAt(marks, i - 1) \in Nat /\ CutAt(marks, i - 1) < Len(Words(list))
  <2>1. \A i \in 1 .. size : i - 1 \in 0 .. size
    OBVIOUS
  <2>2. \A i \in 0 .. size : CutAt(marks, i) \in Nat
    BY CutsAre
  <2>3. \A i \in Operators(marks) : CutAt(marks, i - 1) < Len(Words(list))
    BY DEF WellCut
  <2> QED BY <1>5, <2>1, <2>2, <2>3
<1>9. CutAt(more, size + 1 - 1) = Len(Words(list))
  <2>1. size + 1 - 1 = size /\ size \in 0 .. size
    OBVIOUS
  <2> QED BY <1>5, <1>7, <2>1
<1>10. ASSUME NEW i \in Operators(more) PROVE CutAt(more, i - 1) < Len(Words(new))
  <2> PICK total \in Nat : total = Len(Words(list))
    BY <1>2
  <2>3. Len(Words(new)) = total + 1
    BY <1>4
  <2>1. CASE i = size + 1
    <3>1. CutAt(more, i - 1) = total
      BY ONLY <1>9, <2>1, total = Len(Words(list))
    <3> QED BY ONLY <2>3, <3>1, total \in Nat
  <2>2. CASE i # size + 1
    <3>1. i \in Operators(marks)
      BY <1>5, <2>2
    <3> QED BY <1>2, <1>4, <1>8, <3>1
  <2> QED BY <2>1, <2>2
<1>11. ASSUME NEW k \in 0 .. n - 1 PROVE EndOf(list, k) < Len(Words(list))
  BY DEF WellCut
<1>12. ASSUME NEW k \in 0 .. n PROVE EndOf(new, k) < Len(Words(new))
  <2> PICK total \in Nat : total = Len(Words(list))
    BY <1>2
  <2>3. Len(Words(new)) = total + 1 /\ EndOf(new, k) = EndOf(list, k) /\ EndOf(list, k) \in Nat
    BY ONLY <1>2, <1>4, k \in 0 .. n, total = Len(Words(list))
  <2>1. CASE k = n
    <3>1. EndOf(new, k) = total
      BY ONLY <1>2, <2>1, <2>3, total = Len(Words(list))
    <3> QED BY ONLY <2>3, <3>1, total \in Nat
  <2>2. CASE k # n
    <3>1. k \in 0 .. n - 1
      BY <2>2
    <3>2. EndOf(list, k) < total
      BY ONLY <1>11, <3>1, total = Len(Words(list))
    <3> QED BY ONLY <2>3, <3>2, total \in Nat
  <2> QED BY <2>1, <2>2
<1>13. ASSUME NEW k \in 1 .. n + 1 PROVE WordOK(new, more, k)
  <2>1. CASE k = n + 1
    <3>1. EndOf(new, k - 1) = Len(Words(list))
      <4>1. k - 1 = n /\ n \in 0 .. n
        BY <2>1
      <4> QED BY <1>2, <4>1
    <3>2. {i \in Operators(more) : CutAt(more, i - 1) = EndOf(new, k - 1)} = {size + 1}
      <4> PICK total \in Nat : total = Len(Words(list))
        BY <1>2
      <4>1. \A i \in Operators(marks) :
              CutAt(more, i - 1) \in Nat /\ CutAt(more, i - 1) < total
        BY ONLY <1>8, total = Len(Words(list))
      <4>2. \A i \in Operators(marks) : CutAt(more, i - 1) # total
        BY ONLY <4>1, total \in Nat
      <4>3. EndOf(new, k - 1) = total /\ CutAt(more, size + 1 - 1) = total
        BY ONLY <1>9, <3>1, total = Len(Words(list))
      <4>4. Operators(more) = Operators(marks) \cup {size + 1}
        BY ONLY <1>5
      <4> QED BY ONLY <4>2, <4>3, <4>4
    <3>3. size + 1 - 1 \in Operators(more) <=> size \in Operators(marks)
      BY <1>5
    <3>4. new[k] = Token(<<more[size + 1].c>>, IF size + 1 - 1 \in Operators(more) THEN "second" ELSE "first")
      BY <1>2, <1>5, <2>1, <3>3
    <3>5. new[k].word # <<>>
      BY <1>1, <1>2, <2>1
    <3>6. ASSUME NEW i \in {x \in Operators(more) : CutAt(more, x - 1) = EndOf(new, k - 1)}
          PROVE  new[k] = Token(<<more[i].c>>, IF i - 1 \in Operators(more) THEN "second" ELSE "first")
      <4>1. i = size + 1
        BY ONLY <3>2, i \in {x \in Operators(more) : CutAt(more, x - 1) = EndOf(new, k - 1)}
      <4> QED BY ONLY <3>4, <4>1
    <3>7. {i \in Operators(more) : CutAt(more, i - 1) = EndOf(new, k - 1)} # {}
      BY ONLY <3>2
    <3> QED BY ONLY <3>5, <3>6, <3>7, Zenon DEF WordOK
  <2>2. CASE k # n + 1
    <3>1. k \in 1 .. n /\ k - 1 \in 0 .. n - 1 /\ k - 1 \in 0 .. n /\ k \in DOMAIN list
      BY <2>2
    <3>2. WordOK(list, marks, k)
      BY <3>1 DEF WellCut
    <3>3. new[k] = list[k] /\ EndOf(new, k - 1) = EndOf(list, k - 1)
      BY <1>2, <3>1
    <3>4. EndOf(list, k - 1) # CutAt(more, size + 1 - 1)
      BY <1>2, <1>9, <1>11, <3>1
    <3>5. {i \in Operators(more) : CutAt(more, i - 1) = EndOf(new, k - 1)}
            = {i \in Operators(marks) : CutAt(marks, i - 1) = EndOf(list, k - 1)}
      BY <1>5, <1>8, <3>3, <3>4
    <3>6. \A i \in Operators(marks) : more[i] = marks[i]
                                      /\ (i - 1 \in Operators(more) <=> i - 1 \in Operators(marks))
      BY <1>5, <1>8
    <3> QED BY ONLY <3>2, <3>3, <3>5, <3>6 DEF WordOK
  <2> QED BY <2>1, <2>2
<1>14. DOMAIN new = 1 .. n + 1 /\ Len(new) - 1 = n
  BY <1>2
<1> QED BY <1>3, <1>6, <1>10, <1>12, <1>13, <1>14 DEF WellCut

\* The invariant of the line that is read: its words are those of its text,
\* and its flags are what the last mark says.
LineInv(l) ==
  LET marks == Marks(l.text)
      last  == LastMark(marks)
  IN  /\ l \in LineType
      /\ Words(l.list) \o l.buf = KeptBy(marks)
      /\ WellCut(l.list, Cuts(marks), marks)
      /\ l.is_escape <=> (last.c = Backslash /\ ~last.escaped /\ last.quote # SQuote)
      /\ l.is_quote_s <=> last.quote = SQuote
      /\ l.is_quote_d <=> last.quote = DQuote
      /\ l.is_prev_spec <=> Len(marks) \in Operators(marks)

\* What a character leaves, case by case.
LEMMA KeptCases ==
  ASSUME NEW m \in MarkType
  PROVE  /\ m.escaped => Kept(m) = IF m.c = NewLine THEN <<>>
                                   ELSE IF m.c \in need_escape THEN <<m.c>> ELSE <<Backslash, m.c>>
         /\ (Separator(m) /\ ~m.quotes) => Kept(m) = IF m.c \in spec_symbol THEN <<m.c>> ELSE <<>>
         /\ (~m.escaped /\ ~Separator(m)) =>
              Kept(m) = IF m.quotes \/ (m.c = Backslash /\ m.quote # SQuote) THEN <<>> ELSE <<m.c>>
<1>1. ASSUME m.escaped
      PROVE  Kept(m) = IF m.c = NewLine THEN <<>>
                       ELSE IF m.c \in need_escape THEN <<m.c>> ELSE <<Backslash, m.c>>
  BY <1>1 DEF Kept
<1>2. ASSUME Separator(m), ~m.quotes
      PROVE  Kept(m) = IF m.c \in spec_symbol THEN <<m.c>> ELSE <<>>
  <2>1. ~m.escaped /\ m.c # Backslash
    BY <1>2, CharsDiffer DEF Separator
  <2> QED BY <1>2, <2>1 DEF Kept
<1>3. ASSUME ~m.escaped, ~Separator(m)
      PROVE  Kept(m) = IF m.quotes \/ (m.c = Backslash /\ m.quote # SQuote) THEN <<>> ELSE <<m.c>>
  BY <1>3 DEF Kept
<1> QED BY <1>1, <1>2, <1>3

\* The words of a line by its parts.
LEMMA FaithfulLine ==
  ASSUME NEW l \in LineType, LineInv(l)
  PROVE  Faithful(l)
<1> PICK marks : marks = Marks(l.text)
  OBVIOUS
<1>1. Words(l.list) \o l.buf = KeptBy(marks) /\ WellCut(l.list, Cuts(marks), marks)
  BY DEF LineInv
<1>2. {EndOf(l.list, n) : n \in 0 .. Len(l.list)}
        = {0} \cup UNION {{CutAt(marks, i - 1), CutAt(marks, i)} : i \in Separators(marks)}
  BY <1>1 DEF WellCut, WordEnds, Cuts
<1>3. ASSUME NEW n \in DOMAIN l.list
      PROVE  LET here == {i \in Operators(marks) : CutAt(marks, i - 1) = EndOf(l.list, n - 1)}
             IN  /\ l.list[n].word # <<>>
                 /\ here = {} => l.list[n].spec = "default"
                 /\ \A i \in here :
                      l.list[n] = Token(<<marks[i].c>>,
                                        IF i - 1 \in Operators(marks) THEN "second" ELSE "first")
  <2>1. WordOK(l.list, marks, n)
    BY <1>1 DEF WellCut
  <2> QED BY <2>1, Zenon DEF WordOK
<1> QED BY <1>1, <1>2, <1>3, Zenon DEF Faithful

\* At first it is empty.
LEMMA NoLineInv == LineInv(NoLine)
<1>1. NoLine \in LineType
  <2>1. << >> \in Seq(Chars) /\ << >> \in Seq(Tokens)
    OBVIOUS
  <2> QED BY <2>1 DEF NoLine, LineType
<1>12. <<>> \in Seq(MarkType) /\ <<>> \in Seq(Tokens)
  OBVIOUS
<1> PICK marks \in Seq(MarkType) : marks = <<>>
  BY <1>12
<1> PICK list \in Seq(Tokens) : list = <<>>
  BY <1>12
<1>2. Marks(NoLine.text) = marks
  BY MarksNothing DEF NoLine
<1>3. Words(list) = <<>> /\ KeptBy(marks) = <<>>
  <2>1. [n \in DOMAIN <<>> |-> (<<>>)[n].word] = <<>> /\ [n \in DOMAIN <<>> |-> Kept((<<>>)[n])] = <<>>
    OBVIOUS
  <2> QED BY <2>1, FlattenNothing, Zenon DEF KeptBy, Words
<1>4. Separators(marks) = {} /\ Operators(marks) = {} /\ Len(marks) = 0
  BY DEF Separators, Operators
<1>5. Cuts(marks) = {0}
  BY <1>4 DEF Cuts
<1>6. WordEnds(list) = {0}
  <2>1. Len(list) = 0 /\ EndOf(list, 0) = 0
    BY EndsAre
  <2>2. 0 .. 0 = {0}
    OBVIOUS
  <2> QED BY ONLY <2>1, <2>2 DEF WordEnds
<1>7. WellCut(list, Cuts(marks), marks)
  <2>1. Len(list) = 0 /\ DOMAIN list = {} /\ 0 .. Len(list) - 1 = {}
    OBVIOUS
  <2> QED BY ONLY <1>4, <1>5, <1>6, <2>1 DEF WellCut
<1>8. LastMark(marks) = StartMark
  BY DEF LastMark
<1>9. /\ StartMark.c # Backslash /\ StartMark.quote # SQuote /\ StartMark.quote # DQuote
  BY CharsDiffer DEF StartMark
<1>10. <<>> \o <<>> = <<>>
  BY ConcatEmptySeq
<1>11. /\ NoLine.list = list /\ NoLine.buf = <<>> /\ ~NoLine.is_escape /\ ~NoLine.is_quote_s
       /\ ~NoLine.is_quote_d /\ ~NoLine.is_prev_spec
  BY DEF NoLine
<1> QED BY ONLY <1>1, <1>2, <1>3, <1>4, <1>7, <1>8, <1>9, <1>10, <1>11, marks = <<>> DEF LineInv

\* The line after a character, by what its fields have become.
LEMMA LineAfter ==
  ASSUME NEW l \in LineType, NEW c \in Chars, NEW new \in LineType, new.text = Append(l.text, c),
         NEW marks, marks = Marks(l.text), NEW m, m = Mark(marks, c),
         Words(new.list) \o new.buf = KeptBy(Append(marks, m)),
         WellCut(new.list, Cuts(Append(marks, m)), Append(marks, m)),
         new.is_escape <=> (m.c = Backslash /\ ~m.escaped /\ m.quote # SQuote),
         new.is_quote_s <=> m.quote = SQuote, new.is_quote_d <=> m.quote = DQuote,
         new.is_prev_spec <=> (Separator(m) /\ m.c \in spec_symbol)
  PROVE  LineInv(new)
<1>1. marks \in Seq(MarkType) /\ l.text \in Seq(Chars)
  BY MarksType DEF LineType
<1>2. m \in MarkType
  BY <1>1, MarkIs
<1> PICK more : more = Append(marks, m)
  OBVIOUS
<1>3. Marks(new.text) = more
  BY <1>1, MarksAppend
<1>4. more \in Seq(MarkType) /\ Len(more) = Len(marks) + 1 /\ more[Len(marks) + 1] = m
  BY <1>1, <1>2, AppendProperties
<1>5. LastMark(more) = m
  <2>1. more # <<>>
    BY <1>1, <1>4
  <2> QED BY <1>4, <2>1 DEF LastMark, Last
<1>6. Len(more) \in Operators(more) <=> (Separator(m) /\ m.c \in spec_symbol)
  <2>4. MarkAdded(marks, m, more)
    BY <1>1, <1>2, NextCut
  <2>1. Operators(marks) \subseteq 1 .. Len(marks)
    BY <2>4 DEF MarkAdded
  <2>2. Operators(more) = IF Separator(m) /\ m.c \in spec_symbol
                            THEN Operators(marks) \cup {Len(marks) + 1} ELSE Operators(marks)
    BY <2>4 DEF MarkAdded
  <2>3. Len(marks) + 1 \notin 1 .. Len(marks)
    BY <1>1
  <2> QED BY ONLY <1>4, <2>1, <2>2, <2>3
<1> QED BY <1>3, <1>5, <1>6 DEF LineInv

\* A line after any character but an operator, and with one character more.
Plain(l) == [l EXCEPT !.is_prev_spec = FALSE]
WithText(next, c) == [next EXCEPT !.text = Append(@, c)]

\* The next character, case by case.
ReadCases(l, c, new) ==
  /\ l.is_escape => new = WithText(Escaped(l, c), c)
  /\ (~l.is_escape /\ c = DQuote) => new = WithText(DoubleQuote(Plain(l), c), c)
  /\ (~l.is_escape /\ c = SQuote) => new = WithText(SingleQuote(Plain(l), c), c)
  /\ (~l.is_escape /\ c = Backslash) => new = WithText(Escape(Plain(l), c), c)
  /\ (~l.is_escape /\ c \notin spec_symbol \cup {Space, NewLine, DQuote, SQuote, Backslash}) =>
       new = WithText(insert_buffer(Plain(l), c), c)
  /\ (~l.is_escape /\ c \in spec_symbol \cup {Space, NewLine} /\ Quoted(l)) =>
       new = WithText(insert_buffer(l, c), c)
  /\ (~l.is_escape /\ c \in spec_symbol /\ ~Quoted(l)) => new = WithText(Operator(l, c), c)
  /\ (~l.is_escape /\ c \in {Space, NewLine} /\ ~Quoted(l)) =>
       new = WithText(insert_list(Plain(l), "default"), c)

\* What main() does with a character is one of these cases.
LEMMA ReadCharIs ==
  ASSUME NEW l, NEW c, l.is_escape \in BOOLEAN
  PROVE  ReadCases(l, c, ReadChar(l, c))
<1> PICK plain : plain = Plain(l)
  OBVIOUS
<1> PICK letter, quoted, operator, blank :
      /\ letter = insert_buffer(plain, c) /\ quoted = insert_buffer(l, c)
      /\ operator = Operator(l, c) /\ blank = insert_list(plain, "default")
  OBVIOUS
<1> PICK other : other = IF c \notin spec_symbol \cup {Space, NewLine} THEN letter
                         ELSE IF Quoted(l) THEN quoted
                         ELSE IF c \in spec_symbol THEN operator ELSE blank
  OBVIOUS
<1> PICK escaped, double, single, escape :
      /\ escaped = Escaped(l, c) /\ double = DoubleQuote(plain, c)
      /\ single = SingleQuote(plain, c) /\ escape = Escape(plain, c)
  OBVIOUS
<1> DEFINE next ==
      CASE l.is_escape                  -> escaped
        [] ~l.is_escape /\ c = DQuote    -> double
        [] ~l.is_escape /\ c = SQuote    -> single
        [] ~l.is_escape /\ c = Backslash -> escape
        [] OTHER                        -> other
<1>1. ReadChar(l, c) = [next EXCEPT !.text = Append(@, c)]
  BY Zenon DEF ReadChar, Plain
<1>2. /\ DQuote # SQuote /\ DQuote # Backslash /\ SQuote # Backslash
      /\ \A x \in spec_symbol \cup {Space, NewLine} : x \notin {DQuote, SQuote, Backslash}
      /\ \A x \in {Space, NewLine} : x \notin spec_symbol
  BY CharsDiffer
<1>3. /\ l.is_escape => next = escaped
      /\ (~l.is_escape /\ c = DQuote) => next = double
      /\ (~l.is_escape /\ c = SQuote) => next = single
      /\ (~l.is_escape /\ c = Backslash) => next = escape
      /\ (~l.is_escape /\ c \notin {DQuote, SQuote, Backslash}) => next = other
  BY <1>2
<1>4. /\ c \notin spec_symbol \cup {Space, NewLine, DQuote, SQuote, Backslash} => other = letter
      /\ c \in spec_symbol \cup {Space, NewLine} /\ Quoted(l) => other = quoted
      /\ c \in spec_symbol /\ ~Quoted(l) => other = operator
      /\ c \in {Space, NewLine} /\ ~Quoted(l) => other = blank
  BY <1>2
<1> HIDE DEF next
<1>5. ReadChar(l, c) = WithText(next, c)
  BY <1>1 DEF WithText
<1> QED BY <1>2, <1>3, <1>4, <1>5 DEF ReadCases

\* A character that does not end a word leaves what it keeps in the buffer.
LEMMA LineGrows ==
  ASSUME NEW l \in LineType, LineInv(l), NEW c \in Chars, NEW new \in LineType,
         new.text = Append(l.text, c), new.list = l.list,
         NEW m, m = Mark(Marks(l.text), c), new.buf = l.buf \o Kept(m), ~Separator(m),
         new.is_escape <=> (m.c = Backslash /\ ~m.escaped /\ m.quote # SQuote),
         new.is_quote_s <=> m.quote = SQuote, new.is_quote_d <=> m.quote = DQuote,
         ~new.is_prev_spec
  PROVE  LineInv(new)
<1> PICK marks : marks = Marks(l.text)
  OBVIOUS
<1>1. marks \in Seq(MarkType) /\ l.text \in Seq(Chars) /\ l.list \in Seq(Tokens) /\ l.buf \in Seq(Chars)
  BY MarksType DEF LineType
<1>2. m \in MarkType /\ Kept(m) \in Seq(Chars)
  BY <1>1, MarkIs, KeptType
<1>3. Words(l.list) \o l.buf = KeptBy(marks) /\ WellCut(l.list, Cuts(marks), marks)
  BY DEF LineInv
<1>4. WellCut(new.list, Cuts(Append(marks, m)), Append(marks, m))
  BY <1>1, <1>2, <1>3, LetterRead
<1>5. Words(new.list) \o new.buf = KeptBy(Append(marks, m))
  <2>1. Words(l.list) \in Seq(Chars)
    BY <1>1, WordsIs
  <2>2. Words(l.list) \o (l.buf \o Kept(m)) = (Words(l.list) \o l.buf) \o Kept(m)
    <3>1. \A r, s, t \in Seq(Chars) : (r \o s) \o t = r \o (s \o t)
      BY ConcatAssociative
    <3> PICK words \in Seq(Chars) : words = Words(l.list)
      BY <2>1
    <3> PICK buf \in Seq(Chars) : buf = l.buf
      BY <1>1
    <3> PICK kept \in Seq(Chars) : kept = Kept(m)
      BY <1>2
    <3>2. (words \o buf) \o kept = words \o (buf \o kept)
      BY ONLY <3>1, words \in Seq(Chars), buf \in Seq(Chars), kept \in Seq(Chars), Zenon
    <3> QED BY ONLY <3>2, words = Words(l.list), buf = l.buf, kept = Kept(m)
  <2>3. KeptBy(Append(marks, m)) = KeptBy(marks) \o Kept(m)
    BY <1>1, <1>2, KeptIs
  <2> QED BY <1>3, <2>2, <2>3
<1> QED BY <1>4, <1>5, LineAfter

\* What a line's flags and the next mark say of each other.
LEMMA FlagsAndMark ==
  ASSUME NEW l \in LineType, LineInv(l), NEW c \in Chars, NEW m, m = Mark(Marks(l.text), c)
  PROVE  /\ m \in MarkType /\ m.c = c /\ (m.escaped <=> l.is_escape)
         /\ (m.escaped \/ c \notin {SQuote, DQuote}) =>
              /\ m.quote = SQuote <=> l.is_quote_s
              /\ m.quote = DQuote <=> l.is_quote_d
              /\ ~m.quotes
         /\ (~m.escaped /\ c = DQuote) =>
              /\ m.quote = SQuote <=> l.is_quote_s
              /\ m.quote = DQuote <=> (~l.is_quote_s /\ ~l.is_quote_d)
              /\ m.quotes <=> ~l.is_quote_s
         /\ (~m.escaped /\ c = SQuote) =>
              /\ m.quote = SQuote <=> (~l.is_quote_s /\ ~l.is_quote_d)
              /\ m.quote = DQuote <=> l.is_quote_d
              /\ m.quotes <=> ~l.is_quote_d
         /\ ~(l.is_quote_s /\ l.is_quote_d)
         /\ l.is_prev_spec => ~l.is_escape /\ ~Quoted(l)
         /\ l.is_escape => ~l.is_quote_s
<1> PICK marks : marks = Marks(l.text)
  OBVIOUS
<1>1. marks \in Seq(MarkType)
  BY MarksType DEF LineType
<1> PICK last \in MarkType : last = LastMark(marks)
  BY <1>1, MarkIs
<1>2. /\ l.is_escape <=> (last.c = Backslash /\ ~last.escaped /\ last.quote # SQuote)
      /\ l.is_quote_s <=> last.quote = SQuote
      /\ l.is_quote_d <=> last.quote = DQuote
      /\ l.is_prev_spec <=> Len(marks) \in Operators(marks)
  BY DEF LineInv
<1>3. m \in MarkType
  BY <1>1, MarkIs
<1>4. /\ m.c = c
      /\ m.escaped <=> (last.c = Backslash /\ ~last.escaped /\ last.quote # SQuote)
      /\ (m.escaped \/ c \notin {SQuote, DQuote}) => m.quote = last.quote
      /\ (~m.escaped /\ c \in {SQuote, DQuote}) =>
           m.quote = IF last.quote = "none" THEN c
                     ELSE IF c = last.quote THEN "none" ELSE last.quote
      /\ m.quotes <=> m.quote # last.quote
  BY <1>1, NextMark
<1>5. last.quote \in {"none", SQuote, DQuote}
  BY DEF MarkType
<1>6. DQuote # SQuote /\ DQuote # "none" /\ SQuote # "none"
  BY CharsDiffer
<1>7. ASSUME l.is_prev_spec PROVE ~l.is_escape /\ ~Quoted(l)
  <2>1. Len(marks) \in Operators(marks)
    BY <1>2, <1>7
  <2>2. Len(marks) \in DOMAIN marks /\ Separator(marks[Len(marks)]) /\ marks[Len(marks)].c \in spec_symbol
    BY <2>1 DEF Operators, Separators
  <2>3. last = marks[Len(marks)]
    <3>1. marks # <<>>
      BY <1>1, <2>2
    <3> QED BY <3>1 DEF LastMark, Last
  <2>4. last.c \in spec_symbol /\ last.quote = "none"
    BY <2>2, <2>3 DEF Separator
  <2>5. last.c # Backslash
    BY <2>4, CharsDiffer
  <2> QED BY <1>2, <1>6, <2>4, <2>5 DEF Quoted
<1>8. m.escaped <=> l.is_escape
  BY ONLY <1>2, <1>4
<1>9. /\ (m.escaped \/ c \notin {SQuote, DQuote}) =>
              /\ m.quote = SQuote <=> l.is_quote_s
              /\ m.quote = DQuote <=> l.is_quote_d
              /\ ~m.quotes
  BY ONLY <1>2, <1>4
<1>10. (~m.escaped /\ c = DQuote) =>
              /\ m.quote = SQuote <=> l.is_quote_s
              /\ m.quote = DQuote <=> (~l.is_quote_s /\ ~l.is_quote_d)
              /\ m.quotes <=> ~l.is_quote_s
  BY ONLY <1>2, <1>4, <1>5, <1>6
<1>11. (~m.escaped /\ c = SQuote) =>
              /\ m.quote = SQuote <=> (~l.is_quote_s /\ ~l.is_quote_d)
              /\ m.quote = DQuote <=> l.is_quote_d
              /\ m.quotes <=> ~l.is_quote_d
  BY ONLY <1>2, <1>4, <1>5, <1>6
<1>12. ~(l.is_quote_s /\ l.is_quote_d) /\ (l.is_escape => ~l.is_quote_s)
  BY ONLY <1>2, <1>6
<1> QED BY <1>3, <1>4, <1>7, <1>8, <1>9, <1>10, <1>11, <1>12

\* Two elements.
LEMMA Pair ==
  ASSUME NEW S, NEW b \in S, NEW c \in S
  PROVE  Append(<<b>>, c) = <<b, c>>
<1>7. <<b, c>> \in Seq(S) /\ <<b>> \in Seq(S)
  OBVIOUS
<1>1. PICK v \in Seq(S) : v = <<b, c>>
  BY <1>7
<1>8. PICK w \in Seq(S) : w = <<b>>
  BY <1>7
<1>9. Len(w) = 1 /\ w[1] = b
  BY <1>8
<1>2. PICK u \in Seq(S) : u = Append(w, c)
  BY AppendProperties
<1>3. Len(v) = 2 /\ v[1] = b /\ v[2] = c
  BY <1>1
<1>4. Len(u) = 2 /\ u[1] = b /\ u[2] = c
  <2>2. /\ Len(Append(w, c)) = Len(w) + 1 /\ Append(w, c)[Len(w) + 1] = c
        /\ \A i \in 1 .. Len(w) : Append(w, c)[i] = w[i]
    BY ONLY w \in Seq(S), c \in S, AppendProperties
  <2>3. Len(Append(w, c)) = 2 /\ Append(w, c)[2] = c /\ Append(w, c)[1] = w[1]
    BY ONLY <1>9, <2>2
  <2>1. u[1] = w[1] /\ u[2] = c /\ Len(u) = 2
    BY ONLY <1>2, <2>3
  <2> QED BY <1>9, <2>1
<1>6. \A i \in 1 .. 2 : u[i] = v[i]
  BY <1>3, <1>4
<1>5. u = v
  BY ONLY <1>3, <1>4, <1>6, SeqEqual
<1> QED BY <1>1, <1>2, <1>5, <1>8

\* A character within a word: in quotes or after a backslash, a quote, a
\* backslash, or one that separates nothing.
LEMMA LetterKeeps ==
  ASSUME NEW l \in LineType, LineInv(l), NEW c \in Chars,
         l.is_escape \/ Quoted(l) \/ c \notin spec_symbol \cup {Space, NewLine}
  PROVE  LineInv(ReadChar(l, c))
<1> PICK new \in LineType : new = ReadChar(l, c)
  BY ReadCharType
<1> PICK m : m = Mark(Marks(l.text), c)
  OBVIOUS
<1> PICK plain : plain = Plain(l)
  OBVIOUS
<1>8. plain = [l EXCEPT !.is_prev_spec = FALSE] /\ plain \in LineType
  BY DEF LineType, Plain
<1>9. ReadCases(l, c, new)
  BY ReadCharIs DEF LineType
<1>1. /\ m \in MarkType /\ m.c = c /\ (m.escaped <=> l.is_escape)
      /\ (m.escaped \/ c \notin {SQuote, DQuote}) =>
           /\ m.quote = SQuote <=> l.is_quote_s
           /\ m.quote = DQuote <=> l.is_quote_d
           /\ ~m.quotes
      /\ (~m.escaped /\ c = DQuote) =>
           /\ m.quote = SQuote <=> l.is_quote_s
           /\ m.quote = DQuote <=> (~l.is_quote_s /\ ~l.is_quote_d)
           /\ m.quotes <=> ~l.is_quote_s
      /\ (~m.escaped /\ c = SQuote) =>
           /\ m.quote = SQuote <=> (~l.is_quote_s /\ ~l.is_quote_d)
           /\ m.quote = DQuote <=> l.is_quote_d
           /\ m.quotes <=> ~l.is_quote_d
      /\ ~(l.is_quote_s /\ l.is_quote_d)
      /\ l.is_prev_spec => ~l.is_escape /\ ~Quoted(l)
      /\ l.is_escape => ~l.is_quote_s
  BY FlagsAndMark
<1>2. ~Separator(m)
  <2>1. c \in spec_symbol \cup {Space, NewLine} => c \notin {SQuote, DQuote}
    BY CharsDiffer
  <2>2. CASE l.is_escape
    BY <1>1, <2>2 DEF Separator
  <2>3. CASE Quoted(l) /\ ~l.is_escape /\ c \in spec_symbol \cup {Space, NewLine}
    <3>1. m.quote = SQuote \/ m.quote = DQuote
      BY <1>1, <2>1, <2>3 DEF Quoted
    <3> QED BY <3>1, CharsDiffer DEF Separator
  <2>4. CASE c \notin spec_symbol \cup {Space, NewLine}
    BY <1>1, <2>4 DEF Separator
  <2> QED BY <2>2, <2>3, <2>4
<1>3. /\ m.escaped => Kept(m) = IF c = NewLine THEN <<>>
                                ELSE IF c \in need_escape THEN <<c>> ELSE <<Backslash, c>>
      /\ ~m.escaped => Kept(m) = IF m.quotes \/ (c = Backslash /\ m.quote # SQuote) THEN <<>> ELSE <<c>>
  BY ONLY <1>1, <1>2, KeptCases
<1>4. /\ DQuote # SQuote /\ DQuote # Backslash /\ SQuote # Backslash
      /\ NewLine # DQuote /\ NewLine # SQuote /\ NewLine # Backslash
      /\ \A x \in spec_symbol \cup {Space, NewLine} : x \notin {DQuote, SQuote, Backslash}
  BY CharsDiffer
<1>5. /\ l.buf \in Seq(Chars) /\ l.list \in Seq(Tokens) /\ l.text \in Seq(Chars)
      /\ l.is_escape \in BOOLEAN /\ l.is_quote_s \in BOOLEAN /\ l.is_quote_d \in BOOLEAN
      /\ l.is_prev_spec \in BOOLEAN
  BY DEF LineType
<1>6. l.buf \o <<c>> = Append(l.buf, c) /\ l.buf \o <<>> = l.buf
  BY <1>5, AppendIsConcat, ConcatEmptySeq
<1>7. /\ new.text = Append(l.text, c) /\ new.list = l.list /\ new.buf = l.buf \o Kept(m)
      /\ new.is_escape <=> (c = Backslash /\ ~m.escaped /\ m.quote # SQuote)
      /\ new.is_quote_s <=> m.quote = SQuote
      /\ new.is_quote_d <=> m.quote = DQuote
      /\ ~new.is_prev_spec
  <2>1. CASE l.is_escape
    <3> PICK buf : buf = l.buf \o (IF c \in need_escape THEN <<>> ELSE <<Backslash>>)
                            \o (IF c = NewLine THEN <<>> ELSE <<c>>)
      OBVIOUS
    <3>1. new = [[l EXCEPT !.is_escape = FALSE, !.buf = buf] EXCEPT !.text = Append(@, c)]
      BY <1>9, <2>1 DEF Escaped, ReadCases, WithText
    <3>2. /\ new.text = Append(l.text, c) /\ new.list = l.list /\ new.buf = buf
          /\ new.is_escape = FALSE /\ new.is_quote_s = l.is_quote_s
          /\ new.is_quote_d = l.is_quote_d /\ new.is_prev_spec = l.is_prev_spec
      BY ONLY <3>1, l \in LineType DEF LineType
    <3>3. buf = l.buf \o Kept(m)
      <4>1. NewLine \in need_escape
        BY DEF need_escape
      <4>2. Backslash \in Chars /\ <<Backslash>> \in Seq(Chars) /\ <<c>> \in Seq(Chars) /\ <<>> \in Seq(Chars)
        <5>1. Backslash \in Chars
          BY DEF Chars
        <5> QED BY <5>1
      <4>3. CASE c = NewLine
        <5>1. buf = (l.buf \o <<>>) \o <<>> /\ Kept(m) = <<>>
          BY <1>1, <1>3, <2>1, <4>1, <4>3
        <5> QED BY <1>6, <5>1
      <4>4. CASE c # NewLine /\ c \in need_escape
        <5>1. buf = (l.buf \o <<>>) \o <<c>> /\ Kept(m) = <<c>>
          BY <1>1, <1>3, <2>1, <4>4
        <5> QED BY <1>6, <5>1
      <4>5. CASE c # NewLine /\ c \notin need_escape
        <5>1. buf = (l.buf \o <<Backslash>>) \o <<c>> /\ Kept(m) = <<Backslash, c>>
          BY <1>1, <1>3, <2>1, <4>5
        <5>2. (l.buf \o <<Backslash>>) \o <<c>> = l.buf \o (<<Backslash>> \o <<c>>)
          <6>1. \A r, s, t \in Seq(Chars) : (r \o s) \o t = r \o (s \o t)
            BY ConcatAssociative
          <6> PICK b, s, t \in Seq(Chars) : b = l.buf /\ s = <<Backslash>> /\ t = <<c>>
            BY <1>5, <4>2
          <6>2. (b \o s) \o t = b \o (s \o t)
            BY ONLY <6>1, b \in Seq(Chars), s \in Seq(Chars), t \in Seq(Chars), Zenon
          <6> QED BY ONLY <6>2, b = l.buf /\ s = <<Backslash>> /\ t = <<c>>
        <5>3. <<Backslash>> \o <<c>> = <<Backslash, c>>
          <6>1. Append(<<Backslash>>, c) = <<Backslash, c>>
            BY <4>2, Pair
          <6> QED BY <4>2, <6>1, AppendIsConcat
        <5> QED BY <5>1, <5>2, <5>3
      <4> QED BY <4>3, <4>4, <4>5
    <3> QED BY <1>1, <2>1, <3>2, <3>3
  <2>2. CASE ~l.is_escape /\ c = DQuote
    <3>1. CASE l.is_quote_s
      <4>1. new = [[plain EXCEPT !.buf = Append(@, c)] EXCEPT !.text = Append(@, c)]
        <5>1. plain.is_quote_s
          BY <3>1 DEF LineType, Plain
        <5>2. new = WithText(DoubleQuote(plain, c), c)
          BY <1>9, <2>2 DEF ReadCases
        <5> QED BY <3>1, <5>1, <5>2 DEF DoubleQuote, insert_buffer, WithText
      <4>2. /\ new.text = Append(l.text, c) /\ new.list = l.list /\ new.buf = Append(l.buf, c)
            /\ new.is_escape = l.is_escape /\ new.is_quote_s = l.is_quote_s
            /\ new.is_quote_d = l.is_quote_d /\ new.is_prev_spec = FALSE
        BY ONLY <4>1, l \in LineType, <1>8 DEF LineType
      <4>3. Kept(m) = <<c>>
        BY <1>1, <1>3, <1>4, <2>2, <3>1
      <4> QED BY ONLY <1>1, <1>4, <1>6, <2>2, <3>1, <4>2, <4>3
    <3>2. CASE ~l.is_quote_s
      <4>1. new = [[plain EXCEPT !.is_quote_d = ~@] EXCEPT !.text = Append(@, c)]
        <5>1. ~plain.is_quote_s
          BY <3>2 DEF LineType, Plain
        <5>2. new = WithText(DoubleQuote(plain, c), c)
          BY <1>9, <2>2 DEF ReadCases
        <5> QED BY <3>2, <5>1, <5>2 DEF DoubleQuote, WithText
      <4>2. /\ new.text = Append(l.text, c) /\ new.list = l.list /\ new.buf = l.buf
            /\ new.is_escape = l.is_escape /\ new.is_quote_s = l.is_quote_s
            /\ new.is_quote_d = ~l.is_quote_d /\ new.is_prev_spec = FALSE
        BY ONLY <4>1, l \in LineType, <1>8 DEF LineType
      <4>3. Kept(m) = <<>>
        BY <1>1, <1>3, <1>4, <2>2, <3>2
      <4> QED BY ONLY <1>1, <1>4, <1>6, <2>2, <3>2, <4>2, <4>3
    <3> QED BY <3>1, <3>2
  <2>3. CASE ~l.is_escape /\ c = SQuote
    <3>1. CASE l.is_quote_d
      <4>1. new = [[plain EXCEPT !.buf = Append(@, c)] EXCEPT !.text = Append(@, c)]
        <5>1. plain.is_quote_d
          BY <3>1 DEF LineType, Plain
        <5>2. new = WithText(SingleQuote(plain, c), c)
          BY <1>9, <2>3 DEF ReadCases
        <5> QED BY <3>1, <5>1, <5>2 DEF SingleQuote, insert_buffer, WithText
      <4>2. /\ new.text = Append(l.text, c) /\ new.list = l.list /\ new.buf = Append(l.buf, c)
            /\ new.is_escape = l.is_escape /\ new.is_quote_s = l.is_quote_s
            /\ new.is_quote_d = l.is_quote_d /\ new.is_prev_spec = FALSE
        BY ONLY <4>1, l \in LineType, <1>8 DEF LineType
      <4>3. Kept(m) = <<c>>
        BY <1>1, <1>3, <1>4, <2>3, <3>1
      <4> QED BY ONLY <1>1, <1>4, <1>6, <2>3, <3>1, <4>2, <4>3
    <3>2. CASE ~l.is_quote_d
      <4>1. new = [[plain EXCEPT !.is_quote_s = ~@] EXCEPT !.text = Append(@, c)]
        <5>1. ~plain.is_quote_d
          BY <3>2 DEF LineType, Plain
        <5>2. new = WithText(SingleQuote(plain, c), c)
          BY <1>9, <2>3 DEF ReadCases
        <5> QED BY <3>2, <5>1, <5>2 DEF SingleQuote, WithText
      <4>2. /\ new.text = Append(l.text, c) /\ new.list = l.list /\ new.buf = l.buf
            /\ new.is_escape = l.is_escape /\ new.is_quote_s = ~l.is_quote_s
            /\ new.is_quote_d = l.is_quote_d /\ new.is_prev_spec = FALSE
        BY ONLY <4>1, l \in LineType, <1>8 DEF LineType
      <4>3. Kept(m) = <<>>
        BY <1>1, <1>3, <1>4, <2>3, <3>2
      <4> QED BY ONLY <1>1, <1>4, <1>6, <2>3, <3>2, <4>2, <4>3
    <3> QED BY <3>1, <3>2
  <2>4. CASE ~l.is_escape /\ c = Backslash
    <3>1. CASE l.is_quote_s
      <4>1. new = [[plain EXCEPT !.buf = Append(@, c)] EXCEPT !.text = Append(@, c)]
        <5>1. plain.is_quote_s
          BY <3>1 DEF LineType, Plain
        <5>2. new = WithText(Escape(plain, c), c)
          BY <1>9, <2>4 DEF ReadCases
        <5> QED BY <3>1, <5>1, <5>2 DEF Escape, insert_buffer, WithText
      <4>2. /\ new.text = Append(l.text, c) /\ new.list = l.list /\ new.buf = Append(l.buf, c)
            /\ new.is_escape = l.is_escape /\ new.is_quote_s = l.is_quote_s
            /\ new.is_quote_d = l.is_quote_d /\ new.is_prev_spec = FALSE
        BY ONLY <4>1, l \in LineType, <1>8 DEF LineType
      <4>3. Kept(m) = <<c>>
        BY <1>1, <1>3, <1>4, <2>4, <3>1
      <4> QED BY ONLY <1>1, <1>4, <1>6, <2>4, <3>1, <4>2, <4>3
    <3>2. CASE ~l.is_quote_s
      <4>1. new = [[plain EXCEPT !.is_escape = TRUE] EXCEPT !.text = Append(@, c)]
        <5>1. ~plain.is_quote_s
          BY <3>2 DEF LineType, Plain
        <5>2. new = WithText(Escape(plain, c), c)
          BY <1>9, <2>4 DEF ReadCases
        <5> QED BY <3>2, <5>1, <5>2 DEF Escape, WithText
      <4>2. /\ new.text = Append(l.text, c) /\ new.list = l.list /\ new.buf = l.buf
            /\ new.is_escape = TRUE /\ new.is_quote_s = l.is_quote_s
            /\ new.is_quote_d = l.is_quote_d /\ new.is_prev_spec = FALSE
        BY ONLY <4>1, l \in LineType, <1>8 DEF LineType
      <4>3. Kept(m) = <<>>
        BY <1>1, <1>3, <1>4, <2>4, <3>2
      <4> QED BY ONLY <1>1, <1>4, <1>6, <2>4, <3>2, <4>2, <4>3
    <3> QED BY <3>1, <3>2
  <2>5. CASE ~l.is_escape /\ c \notin {DQuote, SQuote, Backslash}
    <3>1. Kept(m) = <<c>>
      BY <1>1, <1>3, <2>5
    <3>2. /\ new.text = Append(l.text, c) /\ new.list = l.list /\ new.buf = Append(l.buf, c)
          /\ new.is_escape = l.is_escape /\ new.is_quote_s = l.is_quote_s
          /\ new.is_quote_d = l.is_quote_d /\ ~new.is_prev_spec
      <4>1. CASE c \notin spec_symbol \cup {Space, NewLine}
        <5>1. new = [[plain EXCEPT !.buf = Append(@, c)] EXCEPT !.text = Append(@, c)]
          BY <1>9, <2>5, <4>1 DEF insert_buffer, ReadCases, WithText
        <5> QED BY ONLY <5>1, l \in LineType, <1>8 DEF LineType
      <4>2. CASE c \in spec_symbol \cup {Space, NewLine}
        <5>0. Quoted(l) /\ ~l.is_prev_spec
          BY <1>1, <2>5, <4>2
        <5>1. new = [[l EXCEPT !.buf = Append(@, c)] EXCEPT !.text = Append(@, c)]
          BY <1>9, <2>5, <4>2, <5>0 DEF insert_buffer, ReadCases, WithText
        <5> QED BY ONLY <5>0, <5>1, l \in LineType DEF LineType
      <4> QED BY <4>1, <4>2
    <3> QED BY ONLY <1>1, <1>6, <2>5, <3>1, <3>2
  <2> QED BY <1>5, <2>1, <2>2, <2>3, <2>4, <2>5
<1> QED BY <1>1, <1>2, <1>7, LineGrows

\* A blank outside of quotes ends a word.
LEMMA BlankKeeps ==
  ASSUME NEW l \in LineType, LineInv(l), NEW c \in {Space, NewLine}, c \in Chars,
         ~l.is_escape, ~Quoted(l)
  PROVE  LineInv(ReadChar(l, c))
<1> PICK new \in LineType : new = ReadChar(l, c)
  BY ReadCharType
<1> PICK marks : marks = Marks(l.text)
  OBVIOUS
<1> PICK m : m = Mark(marks, c)
  OBVIOUS
<1> PICK plain : plain = Plain(l)
  OBVIOUS
<1>1. plain = [l EXCEPT !.is_prev_spec = FALSE] /\ plain \in LineType
  BY DEF LineType, Plain
<1>2. /\ marks \in Seq(MarkType) /\ l.text \in Seq(Chars) /\ l.list \in Seq(Tokens)
      /\ l.buf \in Seq(Chars)
  BY MarksType DEF LineType
<1>3. c \notin spec_symbol /\ c \notin {SQuote, DQuote, Backslash}
  BY CharsDiffer
<1>4. /\ m \in MarkType /\ m.c = c /\ ~m.escaped /\ ~m.quotes /\ m.quote # SQuote /\ m.quote # DQuote
  BY <1>3, FlagsAndMark DEF Quoted
<1>5. m.quote = "none"
  BY <1>4 DEF MarkType
<1>6. Separator(m)
  BY <1>4, <1>5 DEF Separator
<1>7. Kept(m) = <<>>
  BY <1>3, <1>4, <1>6, KeptCases
<1>8. Words(l.list) \o l.buf = KeptBy(marks) /\ WellCut(l.list, Cuts(marks), marks)
  BY DEF LineInv
<1> PICK list : list = IF l.buf = <<>> THEN l.list ELSE Append(l.list, Token(l.buf, "default"))
  OBVIOUS
<1>9. WellCut(list, Cuts(marks) \cup {Len(KeptBy(marks))}, marks) /\ Words(list) = KeptBy(marks)
  <2> PICK first : first = l.list
    OBVIOUS
  <2> PICK buf : buf = l.buf
    OBVIOUS
  <2>1. /\ first \in Seq(Tokens) /\ buf \in Seq(Chars) /\ marks \in Seq(MarkType)
        /\ WellCut(first, Cuts(marks), marks) /\ Words(first) \o buf = KeptBy(marks)
    BY <1>2, <1>8
  <2>2. list = IF buf = <<>> THEN first ELSE Append(first, Token(buf, "default"))
    OBVIOUS
  <2> QED BY ONLY <2>1, <2>2, BufferInserted, Zenon
<1>10. /\ new.text = Append(l.text, c) /\ new.list = list /\ new.buf = <<>>
       /\ new.is_escape = l.is_escape /\ new.is_quote_s = l.is_quote_s
       /\ new.is_quote_d = l.is_quote_d /\ new.is_prev_spec = FALSE
  <2>1. new = WithText(insert_list(plain, "default"), c)
    <3>1. ReadCases(l, c, new)
      BY ReadCharIs DEF LineType
    <3> QED BY <1>3, <3>1 DEF ReadCases
  <2>2. plain.buf = l.buf /\ plain.list = l.list
    BY ONLY <1>1, l \in LineType DEF LineType
  <2>3. CASE l.buf = <<>>
    <3>1. new = [plain EXCEPT !.text = Append(@, c)]
      BY <2>1, <2>2, <2>3 DEF insert_list, WithText
    <3>2. list = l.list
      BY <2>3
    <3> QED BY ONLY <1>1, <2>3, <3>1, <3>2, l \in LineType DEF LineType
  <2>4. CASE l.buf # <<>>
    <3>1. list = Append(plain.list, Token(plain.buf, "default"))
      BY <2>2, <2>4
    <3>2. new = [[plain EXCEPT !.list = list, !.buf = <<>>] EXCEPT !.text = Append(@, c)]
      BY <2>1, <2>2, <2>4, <3>1 DEF insert_list, WithText
    <3> QED BY ONLY <1>1, <3>2, l \in LineType DEF LineType
  <2> QED BY <2>3, <2>4
<1>11. list \in Seq(Tokens)
  BY <1>10 DEF LineType
<1>12. WellCut(list, Cuts(Append(marks, m)), Append(marks, m))
  BY <1>2, <1>3, <1>4, <1>6, <1>7, <1>9, <1>11, BlankRead
<1>13. Words(new.list) \o new.buf = KeptBy(Append(marks, m))
  <2>1. KeptBy(marks) \in Seq(Chars) /\ KeptBy(Append(marks, m)) = KeptBy(marks) \o Kept(m)
    BY <1>2, <1>4, KeptIs
  <2> QED BY <1>7, <1>9, <1>10, <2>1
<1>14. /\ new.is_escape <=> (m.c = Backslash /\ ~m.escaped /\ m.quote # SQuote)
       /\ new.is_quote_s <=> m.quote = SQuote
       /\ new.is_quote_d <=> m.quote = DQuote
       /\ new.is_prev_spec <=> (Separator(m) /\ m.c \in spec_symbol)
  BY <1>3, <1>4, <1>10 DEF Quoted
<1> QED BY <1>10, <1>12, <1>13, <1>14, LineAfter

\* An operator outside of quotes ends a word and is one.
LEMMA OperatorKeeps ==
  ASSUME NEW l \in LineType, LineInv(l), NEW c \in spec_symbol, c \in Chars,
         ~l.is_escape, ~Quoted(l)
  PROVE  LineInv(ReadChar(l, c))
<1> PICK new \in LineType : new = ReadChar(l, c)
  BY ReadCharType
<1> PICK marks : marks = Marks(l.text)
  OBVIOUS
<1> PICK m : m = Mark(marks, c)
  OBVIOUS
<1>2. /\ marks \in Seq(MarkType) /\ l.text \in Seq(Chars) /\ l.list \in Seq(Tokens)
      /\ l.buf \in Seq(Chars)
  BY MarksType DEF LineType
<1>3. c \notin {SQuote, DQuote, Backslash}
  BY CharsDiffer
<1>4. /\ m \in MarkType /\ m.c = c /\ ~m.escaped /\ ~m.quotes /\ m.quote # SQuote /\ m.quote # DQuote
  BY <1>3, FlagsAndMark DEF Quoted
<1>5. m.quote = "none"
  BY <1>4 DEF MarkType
<1>6. Separator(m)
  BY <1>4, <1>5 DEF Separator
<1>7. Kept(m) = <<c>>
  BY <1>4, <1>6, KeptCases
<1>8. /\ Words(l.list) \o l.buf = KeptBy(marks) /\ WellCut(l.list, Cuts(marks), marks)
      /\ l.is_prev_spec <=> Len(marks) \in Operators(marks)
  BY DEF LineInv
<1> PICK list : list = IF l.buf = <<>> THEN l.list ELSE Append(l.list, Token(l.buf, "default"))
  OBVIOUS
<1>9. WellCut(list, Cuts(marks) \cup {Len(KeptBy(marks))}, marks) /\ Words(list) = KeptBy(marks)
  <2> PICK first : first = l.list
    OBVIOUS
  <2> PICK buf : buf = l.buf
    OBVIOUS
  <2>1. /\ first \in Seq(Tokens) /\ buf \in Seq(Chars) /\ marks \in Seq(MarkType)
        /\ WellCut(first, Cuts(marks), marks) /\ Words(first) \o buf = KeptBy(marks)
    BY <1>2, <1>8
  <2>2. list = IF buf = <<>> THEN first ELSE Append(first, Token(buf, "default"))
    OBVIOUS
  <2> QED BY ONLY <2>1, <2>2, BufferInserted, Zenon
<1> PICK spec : spec = IF l.is_prev_spec THEN "second" ELSE "first"
  OBVIOUS
<1> PICK begun : begun = insert_list(l, "default")
  OBVIOUS
<1>10. begun \in LineType /\ begun.list = list /\ begun.buf = <<>> /\ begun.text = l.text
       /\ begun.is_escape = l.is_escape /\ begun.is_quote_s = l.is_quote_s
       /\ begun.is_quote_d = l.is_quote_d
  <2>1. begun \in LineType
    BY InsertListType
  <2>2. CASE l.buf = <<>>
    BY <2>1, <2>2 DEF insert_list
  <2>3. CASE l.buf # <<>>
    <3>1. begun = [l EXCEPT !.list = list, !.buf = <<>>]
      BY <2>3 DEF insert_list
    <3> QED BY ONLY <2>1, <3>1, l \in LineType DEF LineType
  <2> QED BY <2>2, <2>3
<1> PICK all : all = Append(list, Token(<<c>>, spec))
  OBVIOUS
<1>11. /\ new.text = Append(l.text, c) /\ new.list = all /\ new.buf = <<>>
       /\ new.is_escape = l.is_escape /\ new.is_quote_s = l.is_quote_s
       /\ new.is_quote_d = l.is_quote_d /\ new.is_prev_spec = TRUE
  <2>1. new = WithText(Operator(l, c), c)
    <3>1. ReadCases(l, c, new)
      BY ReadCharIs DEF LineType
    <3> QED BY <3>1 DEF ReadCases
  <2> PICK with : with = [begun EXCEPT !.buf = <<c>>]
    OBVIOUS
  <2>2. with.buf = <<c>> /\ with.list = list /\ with.buf # <<>>
    BY ONLY <1>10, with = [begun EXCEPT !.buf = <<c>>] DEF LineType
  <2>3. insert_list(with, spec) = [with EXCEPT !.list = all, !.buf = <<>>]
    BY <2>2 DEF insert_list
  <2>4. Operator(l, c) = [insert_list(with, spec) EXCEPT !.is_prev_spec = TRUE]
    BY DEF Operator
  <2>5. new = [[[with EXCEPT !.list = all, !.buf = <<>>] EXCEPT !.is_prev_spec = TRUE]
                 EXCEPT !.text = Append(@, c)]
    BY <2>1, <2>3, <2>4 DEF WithText
  <2> QED BY ONLY <1>10, <2>5, with = [begun EXCEPT !.buf = <<c>>] DEF LineType
<1>12. list \in Seq(Tokens)
  BY <1>10 DEF LineType
<1>13. WellCut(all, Cuts(Append(marks, m)), Append(marks, m)) /\ Words(all) = KeptBy(Append(marks, m))
  <2>1. spec = IF Len(marks) \in Operators(marks) THEN "second" ELSE "first"
    BY <1>8
  <2>2. m.c \in spec_symbol /\ Kept(m) = <<m.c>> /\ all = Append(list, Token(<<m.c>>, spec))
    BY <1>4, <1>7
  <2>3. /\ marks \in Seq(MarkType) /\ m \in MarkType /\ list \in Seq(Tokens)
        /\ WellCut(list, Cuts(marks) \cup {Len(KeptBy(marks))}, marks) /\ Words(list) = KeptBy(marks)
        /\ Separator(m)
    BY <1>2, <1>4, <1>6, <1>9, <1>12
  <2> QED BY ONLY <2>1, <2>2, <2>3, OperatorRead, ZenonT(30)
<1>14. Words(new.list) \o new.buf = KeptBy(Append(marks, m))
  <2>1. Append(marks, m) \in Seq(MarkType)
    BY <1>2, <1>4, AppendProperties
  <2>2. KeptBy(Append(marks, m)) \in Seq(Chars)
    BY <2>1, KeptIs
  <2> QED BY <1>11, <1>13, <2>2, ConcatEmptySeq
<1>15. /\ new.is_escape <=> (m.c = Backslash /\ ~m.escaped /\ m.quote # SQuote)
       /\ new.is_quote_s <=> m.quote = SQuote
       /\ new.is_quote_d <=> m.quote = DQuote
       /\ new.is_prev_spec <=> (Separator(m) /\ m.c \in spec_symbol)
  BY <1>3, <1>4, <1>6, <1>11 DEF Quoted
<1> QED BY <1>11, <1>13, <1>14, <1>15, LineAfter

\* Whatever character is read, the line's words are those of its text.
LEMMA LineRead ==
  ASSUME NEW l \in LineType, LineInv(l), NEW c \in Chars
  PROVE  LineInv(ReadChar(l, c))
<1>1. CASE l.is_escape \/ Quoted(l) \/ c \notin spec_symbol \cup {Space, NewLine}
  BY <1>1, LetterKeeps
<1>2. CASE ~l.is_escape /\ ~Quoted(l) /\ c \in spec_symbol
  BY <1>2, OperatorKeeps
<1>3. CASE ~l.is_escape /\ ~Quoted(l) /\ c \in {Space, NewLine}
  BY <1>3, BlankKeeps
<1> QED BY <1>1, <1>2, <1>3

\* The words of every line that is read hold its characters, and are cut at
\* its operators and blanks and nowhere else (main(), lines 519-589).
THEOREM WordsOfLine == Spec => []TokensFaithful
<1>1. Init => LineInv(line)
  BY NoLineInv DEF Init
<1>2. ShellInv /\ LineInv(line) /\ [Next]_shell_vars => LineInv(line)'
  <2> SUFFICES ASSUME ShellInv, LineInv(line), [Next]_shell_vars
               PROVE  LineInv(line)'
    OBVIOUS
  <2>1. LineInv(line)' <=> LineInv(line')
    OBVIOUS
  <2>2. line \in LineType /\ input \in Seq(Chars)
    BY DEF ShellInv, ShellTypeOK
  <2>3. CASE Read
    <3>1. Head(input) \in Chars /\ line' = ReadChar(line, Head(input))
      BY <2>2, <2>3 DEF Read
    <3> QED BY <2>1, <2>2, <3>1, LineRead
  <2>4. CASE Execute
    BY <2>1, <2>4, NoLineInv DEF Execute
  <2>5. CASE UNCHANGED line
    BY <2>1, <2>5
  <2>6. ASSUME NEW j \in JobIds, Subshell(j) PROVE UNCHANGED line
    BY <2>6 DEF Subshell, Logic, LogicNext, Skip, Fork, Prepare, PrintfCrash, AllForked, Wait, Set, Fault
  <2>7. ASSUME NEW j \in JobIds, Command(j) PROVE UNCHANGED line
    BY <2>7, Zenon DEF Command, Connect, Open, Exec, Finish, Killed, EndStage
  <2> QED BY <2>3, <2>4, <2>5, <2>6, <2>7 DEF Next, shell_vars, Waited
<1>3. ShellInv /\ LineInv(line) => TokensFaithful
  <2> SUFFICES ASSUME ShellInv, LineInv(line)
               PROVE  TokensFaithful
    OBVIOUS
  <2>1. line \in LineType /\ input \in Seq(Chars)
    BY DEF ShellInv, ShellTypeOK
  <2>2. ASSUME input # <<>> PROVE Faithful(ReadChar(line, Head(input)))
    <3>1. Head(input) \in Chars
      BY <2>1, <2>2
    <3> QED BY <2>1, <3>1, LineRead, ReadCharType, FaithfulLine
  <2> QED BY <2>1, <2>2, FaithfulLine DEF TokensFaithful
<1> QED BY <1>1, <1>2, <1>3, ShellInvariant, PTL DEF Spec
=============================================================================
