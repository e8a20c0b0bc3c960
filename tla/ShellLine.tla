----------------------------- MODULE ShellLine -----------------------------
(***************************************************************************)
(* The reading of a command line in 2/shell.c: main()'s loop over           *)
(* characters, and the operations on the list of words that it builds.      *)
(* A character is a one-letter string or one of the names below; a word is  *)
(* a sequence of characters.  buf is the word being read, list the words    *)
(* that are complete, text (not in the code) what the line has been so far. *)
(***************************************************************************)
EXTENDS Naturals, Sequences, FiniteSetsExt, SequencesExt

NewLine == "newline"
Space == "space"
DQuote == "dquote"
SQuote == "squote"
Backslash == "backslash"

spec_symbol == {"<", ">", "|", "&"}
need_escape == {NewLine, SQuote, DQuote, Backslash, Space} \cup spec_symbol

Token(word, spec) == [word |-> word, spec |-> spec]

NoLine == [buf |-> <<>>, list |-> <<>>, text |-> <<>>, is_quote_d |-> FALSE,
           is_quote_s |-> FALSE, is_escape |-> FALSE, is_prev_spec |-> FALSE]

-----------------------------------------------------------------------------
(* One character.  Each operator gives the line as the code leaves it. *)

insert_buffer(line, c) == [line EXCEPT !.buf = Append(@, c)]

insert_list(line, spec) ==
  IF line.buf = <<>> THEN line
  ELSE [line EXCEPT !.list = Append(@, Token(line.buf, spec)), !.buf = <<>>]

\* Mutant: the backslash is kept before every character.
EscapedKept(line, c) ==
  [line EXCEPT !.is_escape = FALSE,
               !.buf = @ \o IF c = NewLine THEN <<>> ELSE <<Backslash, c>>]

\* A backslash escapes need_escape only, and joins two lines.
Escaped(line, c) ==
  [line EXCEPT !.is_escape = FALSE,
               !.buf = @ \o (IF c \in need_escape THEN <<>> ELSE <<Backslash>>)
                         \o (IF c = NewLine THEN <<>> ELSE <<c>>)]

DoubleQuote(line, c) ==
  IF line.is_quote_s THEN insert_buffer(line, c)
  ELSE [line EXCEPT !.is_quote_d = ~@]

SingleQuote(line, c) ==
  IF line.is_quote_d THEN insert_buffer(line, c)
  ELSE [line EXCEPT !.is_quote_s = ~@]

Escape(line, c) ==
  IF line.is_quote_s THEN insert_buffer(line, c)
  ELSE [line EXCEPT !.is_escape = TRUE]

\* A character of the operators < > | &, outside of quotes.
Operator(line, c) ==
  LET spec == IF line.is_prev_spec THEN "second" ELSE "first"
  IN  [insert_list([insert_list(line, "default") EXCEPT !.buf = <<c>>], spec)
         EXCEPT !.is_prev_spec = TRUE]

Quoted(line) == line.is_quote_s \/ line.is_quote_d

ReadChar(line, c) ==
  LET plain == [line EXCEPT !.is_prev_spec = FALSE]
      next  == CASE line.is_escape                  -> Escaped(line, c)
                 [] ~line.is_escape /\ c = DQuote    -> DoubleQuote(plain, c)
                 [] ~line.is_escape /\ c = SQuote    -> SingleQuote(plain, c)
                 [] ~line.is_escape /\ c = Backslash -> Escape(plain, c)
                 [] OTHER ->
                    IF c \notin spec_symbol \cup {Space, NewLine}
                      THEN insert_buffer(plain, c)
                    ELSE IF Quoted(line) THEN insert_buffer(line, c)
                    ELSE IF c \in spec_symbol THEN Operator(line, c)
                    ELSE insert_list(plain, "default")
  IN  [next EXCEPT !.text = Append(@, c)]

\* The line ends here and is executed.
EndsLine(line, c) == c = NewLine /\ ~line.is_escape /\ ~Quoted(line)

-----------------------------------------------------------------------------
(* The list of words. *)

strip_comment(list) ==
  LET comments == {i \in DOMAIN list : Head(list[i].word) = "#"}
  IN  IF comments = {} THEN list ELSE SubSeq(list, 1, Min(comments) - 1)

\* check_block() tells whether to wait, and takes the & off.
InBackground(list) == Len(list) > 1 /\ Last(list) = Token(<<"&">>, "first")
check_block(list) == IF InBackground(list) THEN Front(list) ELSE list

execute_cd(list) == list[1].word = <<"c", "d">>

check_or(p, i) == /\ p[i] = Token(<<"|">>, "first")
                  /\ i < Len(p) /\ p[i + 1] = Token(<<"|">>, "second")
check_and(p, i) == /\ p[i] = Token(<<"&">>, "first")
                   /\ i < Len(p) /\ p[i + 1] = Token(<<"&">>, "second")

Split(op, head, tail) == [op |-> op, head |-> head, tail |-> tail]

\* The first word is never taken for an operator.
split_logic(p) ==
  LET ops == {i \in 2 .. Len(p) : check_or(p, i) \/ check_and(p, i)}
      i   == Min(ops)
  IN  IF p = <<>> THEN Split("empty", <<>>, <<>>)
      ELSE IF ops = {} THEN Split("last", p, <<>>)
      ELSE Split(IF check_or(p, i) THEN "or" ELSE "and",
                 SubSeq(p, 1, i - 1), SubSeq(p, i + 2, Len(p)))

check_pipe(p, i) == p[i] = Token(<<"|">>, "first")

split_pipeline(p) ==
  LET pipes == {i \in 2 .. Len(p) : check_pipe(p, i)}
  IN  IF p = <<>> THEN Split("empty", <<>>, <<>>)
      ELSE IF pipes = {} THEN Split("last", p, <<>>)
      ELSE Split("default", SubSeq(p, 1, Min(pipes) - 1), SubSeq(p, Min(pipes) + 1, Len(p)))

-----------------------------------------------------------------------------
(* open_files(): one pass over the words of a command, which takes         *)
(* redirections out of the list.  Where it stands is the index at.          *)

SpecAt(p, i, spec) == i <= Len(p) /\ p[i].spec = spec

check_append(p, i) ==
  /\ i + 2 <= Len(p) /\ p[i] = Token(<<">">>, "first") /\ p[i + 1] = Token(<<">">>, "second")
  /\ SpecAt(p, i + 2, "default")
check_write(p, i) ==
  i <= Len(p) /\ p[i] = Token(<<">">>, "first") /\ SpecAt(p, i + 1, "default")
check_read(p, i) ==
  i <= Len(p) /\ p[i] = Token(<<"<">>, "first") /\ SpecAt(p, i + 1, "default")

Without(p, i, n) == SubSeq(p, 1, i - 1) \o SubSeq(p, i + n, Len(p))

\* One iteration of the loop, for the word after word number at.  in and out
\* tell whether a file is opened to read and to write.
OpenNext(p, at) ==
  LET i == at + 1
      a == IF check_append(p, i) THEN Without(p, i, 3) ELSE p
      w == IF check_write(a, i) THEN Without(a, i, 2) ELSE a
      r == IF check_read(w, i) THEN Without(w, i, 2) ELSE w
  IN  [p |-> r, in |-> r # w, out |-> w # p]
=============================================================================
