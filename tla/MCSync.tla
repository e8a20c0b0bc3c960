------------------------------- MODULE MCSync -------------------------------
(* Three threads, three waiters, two or three workers, two sources of      *)
(* events and two consumers.                                               *)
EXTENDS Sync

\* One worker has more numbers than there is room for, or than twice; one
\* has none.
Numbers == {<<<<3, 1, 2>>, <<>>, <<2>>>>, <<<<2, 1>>, <<3, 5, 1, 4>>>>}
=============================================================================
