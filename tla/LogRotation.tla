---------------------------- MODULE LogRotation ----------------------------
(***************************************************************************)
(* The two loggers of the program, "main" (main.cpp) and "broker"          *)
(* (InitLogger), each a rotating file sink with its own mutex, size count  *)
(* and stdio buffer, on one path.  A sink's own calls are serialised by    *)
(* its mutex; its system calls interleave with the other sink's.           *)
(*                                                                         *)
(* Name i of dir is the log file with index i, 0 the one written to; a     *)
(* file is an inode with its bytes, which lives on without a name while it *)
(* is open.  The bytes of a logger are numbered as they are handed to it;  *)
(* a line is a run of them, of any length: the program logs whole payloads *)
(* and the sink writes a line that is longer than its limit all the same.  *)
(***************************************************************************)
EXTENDS Integers, Sequences, SequencesExt

CONSTANTS First, Second,    \* the two loggers, in the order in which they open the path
          MaxSize,          \* max_size_
          MaxFiles,         \* max_files_
          Lengths,          \* lengths of the lines
          Longest,          \* the length no line exceeds
          MaxBytes,         \* bound: bytes of each logger
          Old               \* what earlier runs may have left: the lengths of
                            \* the files, from the oldest one to name 0

\* What one sink can put into one file: max_size_, or a single longer line.
Limit == IF MaxSize < Longest THEN Longest ELSE MaxSize

ASSUME LogAssumption ==
    /\ First # Second /\ "old" \notin {First, Second}
    /\ MaxSize \in Nat \ {0} /\ MaxFiles \in Nat \ {0} /\ MaxBytes \in Nat
    /\ Longest \in Nat /\ Lengths \subseteq 1..Longest
    /\ \A o \in Old : o \in Seq(0..(2 * Limit)) /\ Len(o) \in 1..(MaxFiles + 1)

Sinks == {First, Second}
None  == 0
Names == 0..MaxFiles

VARIABLES dir,              \* name -> inode
          file,             \* inode -> its bytes, in order
          fd,               \* sink -> the inode it has open (file_helper_.fd_)
          buf,              \* sink -> bytes written and not flushed
          size,             \* sink -> current_size_
          pc, i,            \* sink -> where it is in sink_it_ and rotate_
          sent,             \* sink -> bytes of the lines it is done with
          len,              \* sink -> length of the line it rotates the files for
          made,             \* inodes so far
          turns,            \* ghost: rotations begun
          born,             \* ghost: inode -> rotations begun when it was made
          clash             \* ghost: two rotations have overlapped

disk  == <<dir, file, made, born>>
ghost == <<turns, clash>>
vars  == <<dir, file, fd, buf, size, pc, i, sent, len, made, turns, born, clash>>

\* Rotated files of earlier runs have the names behind 0, without a gap; an
\* empty file at name 0 stands for none as well.
OldFile(o, j) == [k \in 1..o[j] |-> <<"old", (j - 1) * (2 * Limit) + k>>]

Init ==
    /\ \E o \in Old :
          /\ made = Len(o)
          /\ file = [j \in 1..Len(o) |-> OldFile(o, j)]
          /\ born = [j \in 1..Len(o) |-> j - Len(o)]
          /\ dir = [n \in Names |-> IF n < Len(o) THEN Len(o) - n ELSE None]
    /\ fd = [s \in Sinks |-> None] /\ buf = [s \in Sinks |-> <<>>]
    /\ size = [s \in Sinks |-> 0]
    /\ pc = [s \in Sinks |-> "closed"] /\ i = [s \in Sinks |-> 0]
    /\ sent = [s \in Sinks |-> 0] /\ len = [s \in Sinks |-> 0]
    /\ turns = 0 /\ clash = FALSE

-----------------------------------------------------------------------------
(* The file system. *)

\* fopen of name 0: a new inode when the name is free.
Opened   == IF dir[0] = None THEN made + 1 ELSE dir[0]
Contents == IF dir[0] = None THEN <<>> ELSE file[dir[0]]
Fopen(lines) ==
    /\ dir' = [dir EXCEPT ![0] = Opened]
    /\ IF dir[0] = None
       THEN made' = made + 1 /\ born' = Append(born, turns) /\ file' = Append(file, lines)
       ELSE file' = [file EXCEPT ![Opened] = lines] /\ UNCHANGED <<made, born>>

\* fflush: what the buffer holds goes to the end of the file.
FlushedToStart(s) == IF fd[s] = None THEN file ELSE [file EXCEPT ![fd[s]] = buf[s] \o @]
Flushed(s) == IF fd[s] = None THEN file ELSE [file EXCEPT ![fd[s]] = @ \o buf[s]]

Goto(s, l) == pc' = [pc EXCEPT ![s] = l]

-----------------------------------------------------------------------------
(* The sink. *)

\* The constructor.  The thread that writes to the first sink makes the other
\* one, between two lines.
OpenSink(s) ==
    /\ pc[s] = "closed"
    /\ s # First => pc[First] = "idle"
    /\ Fopen(Contents)
    /\ fd' = [fd EXCEPT ![s] = Opened]
    /\ size' = [size EXCEPT ![s] = Len(Contents)]
    /\ Goto(s, "idle")
    /\ UNCHANGED <<buf, i, sent, len, ghost>>

\* The bytes of a line of length n, and the write of it.
Line(s, n) == [k \in 1..n |-> <<s, sent[s] + k>>]
Write(s, n, total) ==
    /\ buf' = [buf EXCEPT ![s] = @ \o Line(s, n)]
    /\ size' = [size EXCEPT ![s] = total]
    /\ sent' = [sent EXCEPT ![s] = @ + n]

\* sink_it_ is given a line of length n.
Sink(s, n) == pc[s] = "idle" /\ sent[s] + n <= MaxBytes

\* sink_it_ of a line that fits.
WriteLineUncounted(s, n) ==
    /\ Sink(s, n) /\ size[s] + n <= MaxSize
    /\ Write(s, n, size[s])
    /\ UNCHANGED <<disk, fd, pc, i, len, ghost>>
WriteLine(s, n) ==
    /\ Sink(s, n) /\ size[s] + n <= MaxSize
    /\ Write(s, n, size[s] + n)
    /\ UNCHANGED <<disk, fd, pc, i, len, ghost>>

\* sink_it_ of a line that does not fit, in a file that is empty after the
\* flush: it is written all the same.
WriteEmpty(s, n) ==
    /\ Sink(s, n) /\ size[s] + n > MaxSize
    /\ Flushed(s)[fd[s]] = <<>>
    /\ Write(s, n, size[s] + n)
    /\ UNCHANGED <<disk, fd, pc, i, len, ghost>>

\* The oldest name, where rotate_ begins.
OldestLess == MaxFiles - 1
Oldest == MaxFiles

\* sink_it_ of a line that does not fit: flush, and the close of rotate_.
Rotate(s, n) ==
    /\ Sink(s, n) /\ size[s] + n > MaxSize
    /\ Flushed(s)[fd[s]] # <<>>
    /\ len' = [len EXCEPT ![s] = n]
    /\ file' = Flushed(s)
    /\ buf' = [buf EXCEPT ![s] = <<>>]
    /\ fd' = [fd EXCEPT ![s] = None]
    /\ i' = [i EXCEPT ![s] = Oldest]
    /\ Goto(s, "exists")
    /\ turns' = turns + 1
    /\ clash' = (clash \/ \E t \in Sinks \ {s} : pc[t] \notin {"closed", "idle"})
    /\ UNCHANGED <<dir, made, born, size, sent>>

\* The loop of rotate_, from the oldest name down: path_exists(src), ...
LoopEndsEarly(s) == i[s] <= 1
LoopEnds(s) == i[s] = 0
Exists(s) ==
    /\ pc[s] = "exists"
    /\ IF LoopEnds(s) THEN Goto(s, "truncate") /\ UNCHANGED i
       ELSE IF dir[i[s] - 1] = None THEN i' = [i EXCEPT ![s] = @ - 1] /\ UNCHANGED pc
       ELSE Goto(s, "remove") /\ UNCHANGED i
    /\ UNCHANGED <<disk, fd, buf, size, sent, len, ghost>>

\* ... remove(target), ...
RemoveTarget(s) ==
    /\ pc[s] \in {"remove", "remove again"}
    /\ dir' = [dir EXCEPT ![i[s]] = None]
    /\ Goto(s, IF pc[s] = "remove" THEN "rename" ELSE "rename again")
    /\ UNCHANGED <<file, made, born, fd, buf, size, i, sent, len, ghost>>

\* ... rename(src, target), ...
RenameSource(s) ==
    /\ pc[s] \in {"rename", "rename again"}
    /\ dir[i[s] - 1] # None
    /\ dir' = [dir EXCEPT ![i[s]] = dir[i[s] - 1], ![i[s] - 1] = None]
    /\ i' = [i EXCEPT ![s] = @ - 1]
    /\ Goto(s, "exists")
    /\ UNCHANGED <<file, made, born, fd, buf, size, sent, len, ghost>>

\* ... which fails when the other sink has taken the source away: once more
\* after a delay, and then the file is truncated and the line given up.
RenameFails(s) ==
    /\ pc[s] \in {"rename", "rename again"}
    /\ dir[i[s] - 1] = None
    /\ Goto(s, IF pc[s] = "rename" THEN "remove again" ELSE "give up")
    /\ UNCHANGED <<disk, fd, buf, size, i, sent, len, ghost>>

\* reopen(true): fopen "wb" and fclose, ...
Truncate(s) ==
    /\ pc[s] \in {"truncate", "give up"}
    /\ Fopen(<<>>)
    /\ Goto(s, IF pc[s] = "truncate" THEN "append" ELSE "append nothing")
    /\ UNCHANGED <<fd, buf, size, i, sent, len, ghost>>

\* ... then fopen "ab", and the line is written, or an exception ends it.
Reopen(s) ==
    /\ pc[s] \in {"append", "append nothing"}
    /\ Fopen(Contents)
    /\ fd' = [fd EXCEPT ![s] = Opened]
    /\ IF pc[s] = "append" THEN Write(s, len[s], len[s])
       ELSE /\ size' = [size EXCEPT ![s] = 0] /\ UNCHANGED buf
            /\ sent' = [sent EXCEPT ![s] = @ + len[s]]
    /\ len' = [len EXCEPT ![s] = 0]
    /\ Goto(s, "idle")
    /\ UNCHANGED <<i, ghost>>

\* flush() of the logger, or the stdio buffer is full.
Flush(s) ==
    /\ pc[s] = "idle" /\ buf[s] # <<>>
    /\ file' = Flushed(s)
    /\ buf' = [buf EXCEPT ![s] = <<>>]
    /\ UNCHANGED <<dir, made, born, fd, size, pc, i, sent, len, ghost>>

\* The bound on the bytes is reached.
Bound ==
    /\ \A s \in Sinks : /\ pc[s] = "idle" /\ buf[s] = <<>>
                        /\ \A n \in Lengths : sent[s] + n > MaxBytes
    /\ UNCHANGED vars

Next ==
    \/ \E s \in Sinks :
          \/ OpenSink(s)
          \/ \E n \in Lengths : WriteLine(s, n) \/ WriteEmpty(s, n) \/ Rotate(s, n)
          \/ Exists(s) \/ RemoveTarget(s) \/ RenameSource(s) \/ RenameFails(s)
          \/ Truncate(s) \/ Reopen(s) \/ Flush(s)
    \/ Bound

Spec == Init /\ [][Next]_vars

-----------------------------------------------------------------------------
(* What must hold. *)

\* No file grows past twice max_size_, or twice the longest line where that is
\* more, what is still in the buffers included, although neither sink counts
\* what the other one writes and a line that is too long is written all the
\* same.
SizeBounded ==
    LET Pending(s, f) == IF fd[s] = f THEN Len(buf[s]) ELSE 0
    IN  \A f \in 1..made :
            Len(file[f]) + Pending(First, f) + Pending(Second, f) <= 2 * Limit

\* Whoever reads the files from the oldest to the newest meets the bytes of
\* each logger in the order in which it wrote them, whatever the loggers'
\* rotations do to each other's files.
Ordered ==
    \A a, b \in {n \in Names : dir[n] # None} :
        \A j \in 1..Len(file[dir[a]]), k \in 1..Len(file[dir[b]]) :
            LET older == file[dir[a]][j]
                newer == file[dir[b]][k]
            IN  older[1] = newer[1] /\ (a > b \/ (a = b /\ j < k)) => older[2] < newer[2]

\* While no two rotations have overlapped, a file leaves the directory by age
\* alone, after max_files_ rotations.  (What a logger writes to a file that
\* has left is lost all the same.)
LostByAge ==
    ~clash => \A f \in 1..made :
                 turns - born[f] <= MaxFiles => \E n \in Names : dir[n] = f

\* And nothing that has reached a file is cut from it: the truncation of
\* reopen(true) meets a new file.
OnlyGrows == [][~clash => \A f \in 1..made : IsPrefix(file[f], file'[f])]_vars
=============================================================================
