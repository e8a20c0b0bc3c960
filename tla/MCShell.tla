------------------------------ MODULE MCShell ------------------------------
(* The shell on every short line, and on every short chain of commands.     *)
EXTENDS Shell

\* Every line of n pieces of syntax.
MCPieces == {<<"a">>, <<"#">>, <<"&">>, <<"|">>, <<">">>, <<DQuote>>, <<SQuote>>, <<Backslash>>,
             <<Space>>, <<NewLine>>}
MCLines(n) == {FlattenSeq(t) \o <<NewLine>> : t \in [1 .. n -> MCPieces]}

\* Commands joined by operators, in the background or not.
MCOperators == {<<"&", "&">>, <<"|", "|">>, <<"|">>}
MCChain(ops, end) ==
  LET Piece(op) == <<Space>> \o op \o <<Space, "a">>
  IN  <<"a">> \o FlattenSeq([i \in DOMAIN ops |-> Piece(ops[i])]) \o end \o <<NewLine>>
MCChains(n) == {MCChain(ops, end) : ops \in UNION {[1 .. m -> MCOperators] : m \in 0 .. n},
                                    end \in {<<>>, <<Space, "&">>}}
\* Background lines with another behind them, an input and an output of a
\* pipeline redirected, a pipe without a command behind it.
MCTwoLines == {<<"a", "&", NewLine, "a", "&", NewLine, "a", NewLine>>,
               <<"a", "|", "a", "&", NewLine, "a", NewLine>>,
               <<"a", "|", "a", ">", "f", NewLine, "c", "d", Space, "a", NewLine, "a", NewLine>>,
               <<"a", ">", "f", "|", "a", "<", "f", NewLine>>,
               <<"a", "|", "|", "a", "|", NewLine, "a", NewLine>>, <<"a", "|", NewLine>>}

MCScripts == MCLines(4) \cup MCChains(3) \cup MCTwoLines
MCJobIds == 1 .. 4
=============================================================================
