------------------------------- MODULE FlatFS -------------------------------
(***************************************************************************)
(* What the header userfs.h promises of a file system without ufs_resize:  *)
(* a name leads to a file, a file is a string of bytes, a descriptor is an *)
(* offset into one.  There are no blocks, no pointers and no memory: a     *)
(* write puts its bytes at the descriptor's offset, over the old ones and  *)
(* beyond the end, and a read returns what is there, up to the end.        *)
(***************************************************************************)
EXTENDS Integers, Sequences

CONSTANTS FileNames, FileIds, NULL, Buffers, ReadSizes

VARIABLES
  linked,     \* FileNames -> FileIds \cup {NULL}
  content,    \* FileIds -> strings of bytes
  opened,     \* number of an open descriptor -> [file, offset, rw_flags]
  call,       \* the read or write in progress
  ret         \* what the last call returned

vars == <<linked, content, opened, call, ret>>

Idle == [op |-> "idle", fd |-> 0, buf |-> <<>>, size |-> 0, done |-> 0]
FileOf(i) == opened[i].file
OffsetOf(i) == opened[i].offset

\* The contents kept: those of the files that are linked or open.
Kept(contents) ==
  [f \in FileIds |-> IF \/ \E n \in FileNames : linked'[n] = f
                        \/ \E i \in DOMAIN opened' : opened'[i].file = f
                       THEN contents[f] ELSE <<>>]

Init ==
  /\ linked = [n \in FileNames |-> NULL]
  /\ content = [f \in FileIds |-> <<>>]
  /\ opened = <<>> /\ call = Idle /\ ret = 0

Return(value) == call' = Idle /\ ret' = value

Fails == call = Idle /\ Return(-1) /\ UNCHANGED <<linked, content, opened>>

\* A new descriptor gets a number not in use and stands at the start of the
\* file of that name: the one linked, or a new and empty one.
Open(n) ==
  /\ call = Idle
  /\ \E f \in FileIds :
       /\ \/ linked[n] = f
          \/ /\ linked[n] = NULL
             /\ \A m \in FileNames : linked[m] # f
             /\ \A i \in DOMAIN opened : FileOf(i) # f
       /\ linked' = [linked EXCEPT ![n] = f]
       /\ ret' > 0 /\ ret' \notin DOMAIN opened
       /\ DOMAIN opened' = DOMAIN opened \cup {ret'}
       /\ \A i \in DOMAIN opened : opened'[i] = opened[i]
       /\ opened'[ret'].file = f /\ opened'[ret'].offset = 0
  /\ UNCHANGED <<content, call>>

Close(i) ==
  /\ call = Idle /\ Return(0)
  /\ opened' = [j \in DOMAIN opened \ {i} |-> opened[j]]
  /\ content' = Kept(content)
  /\ UNCHANGED linked

Delete(n) ==
  /\ call = Idle /\ linked[n] # NULL /\ Return(0)
  /\ linked' = [linked EXCEPT ![n] = NULL]
  /\ content' = Kept(content)
  /\ UNCHANGED opened

Begin(op, i, buf, size) ==
  /\ call = Idle
  /\ call' = [op |-> op, fd |-> i, buf |-> buf, size |-> size, done |-> 0]
  /\ UNCHANGED <<linked, content, opened, ret>>

WriteBegin(i, buf) ==
  /\ opened[i].rw_flags \cap {"UFS_WRITE_ONLY", "UFS_READ_WRITE"} # {}
  /\ Begin("write", i, buf, Len(buf))

ReadBegin(i, size) ==
  /\ opened[i].rw_flags \cap {"UFS_READ_ONLY", "UFS_READ_WRITE"} # {}
  /\ Begin("read", i, <<>>, size)

\* String s with the string t put at offset at <= Len(s).
Overwritten(s, at, t) ==
  SubSeq(s, 1, at) \o t \o SubSeq(s, at + Len(t) + 1, Len(s))

\* The next k bytes of the transfer are done.
Advance(k) ==
  /\ opened' = [opened EXCEPT ![call.fd].offset = @ + k]
  /\ UNCHANGED <<linked, ret>>

WriteSome(k) ==
  /\ call.op = "write"
  /\ content' = [content EXCEPT ![FileOf(call.fd)] =
       Overwritten(@, OffsetOf(call.fd), SubSeq(call.buf, call.done + 1, call.done + k))]
  /\ call' = [call EXCEPT !.size = @ - k, !.done = @ + k]
  /\ Advance(k)

WriteEnd ==
  /\ call.op = "write" /\ call.size = 0
  /\ Return(Len(call.buf))
  /\ UNCHANGED <<linked, content, opened>>

AtEnd(i) == OffsetOf(i) = Len(content[FileOf(i)])

ReadSome(k) ==
  /\ call.op = "read"
  /\ LET here == OffsetOf(call.fd)
         file == content[FileOf(call.fd)]
     IN /\ here + k <= Len(file)
        /\ call' = [call EXCEPT !.buf = @ \o SubSeq(file, here + 1, here + k),
                                !.size = @ - k, !.done = @ + k]
  /\ Advance(k)
  /\ UNCHANGED content

\* A read ends when it has what it asked for or at the end of the file.
ReadEnd ==
  /\ call.op = "read" /\ (call.size = 0 \/ AtEnd(call.fd))
  /\ Return(Len(call.buf))
  /\ UNCHANGED <<linked, content, opened>>

ReadNothing(i) ==
  /\ call = Idle /\ content[FileOf(i)] = <<>> /\ Return(0)
  /\ UNCHANGED <<linked, content, opened>>

Next ==
  \/ Fails
  \/ \E n \in FileNames : Open(n) \/ Delete(n)
  \/ \E i \in DOMAIN opened :
       \/ Close(i) \/ ReadNothing(i)
       \/ \E buf \in Buffers : WriteBegin(i, buf)
       \/ \E size \in ReadSizes : ReadBegin(i, size)
  \/ \E k \in 1 .. call.size : WriteSome(k) \/ ReadSome(k)
  \/ WriteEnd \/ ReadEnd

Spec == Init /\ [][Next]_vars
=============================================================================
