------------------------- MODULE LogRotationProofs --------------------------
(***************************************************************************)
(* Proofs about LogRotation, for any limits, any number of files kept and  *)
(* any number of lines of any length.                                                    *)
(***************************************************************************)
EXTENDS LogRotation, SequenceTheorems, TLAPS

Lines == (Sinks \union {"old"}) \X Nat

Places == {"closed", "idle", "exists", "remove", "remove again", "rename",
           "rename again", "truncate", "give up", "append", "append nothing"}
Renaming == {"remove", "remove again", "rename", "rename again"}

DiskTyped ==
    /\ made \in Nat \ {0}
    /\ file \in Seq(Seq(Lines)) /\ Len(file) = made
    /\ born \in Seq(Int) /\ Len(born) = made
    /\ dir \in [Names -> 0..made] /\ dir[0] \in {None, made}

SinkTyped ==
    /\ fd \in [Sinks -> 0..made]
    /\ buf \in [Sinks -> Seq(Lines)]
    /\ size \in [Sinks -> Nat]
    /\ pc \in [Sinks -> Places]
    /\ i \in [Sinks -> Names]
    /\ sent \in [Sinks -> Nat]
    /\ len \in [Sinks -> 0..Longest]
    /\ \A s \in Sinks : /\ fd[s] = None <=> pc[s] # "idle"
                        /\ pc[s] # "idle" => buf[s] = <<>>
                        /\ pc[s] \in Renaming => i[s] > 0
    /\ pc[First] = "closed" => pc[Second] = "closed"

Typed == DiskTyped /\ SinkTyped /\ turns \in Nat /\ clash \in BOOLEAN

\* A newer file has a smaller name.
DirOrdered ==
    \A a, b \in Names : a > b /\ dir[a] # None /\ dir[b] # None => dir[a] < dir[b]

\* The lines of a logger are in the files in order, ...
Sorted ==
    \A f, g \in 1..made : \A j \in 1..Len(file[f]), k \in 1..Len(file[g]) :
        file[f][j][1] = file[g][k][1] /\ (f < g \/ (f = g /\ j < k)) => file[f][j][2] < file[g][k][2]

\* ... and what comes next comes behind them: the bytes of s in the files, in
\* its buffer, and its file.
Filed(s) ==
    \A f \in 1..made : \A k \in 1..Len(file[f]) : file[f][k][1] = s =>
        /\ file[f][k][2] <= sent[s]
        /\ fd[s] # None => f <= fd[s]
        /\ \A j \in 1..Len(buf[s]) : file[f][k][2] < buf[s][j][2]

Buffered(s) ==
    /\ \A j \in 1..Len(buf[s]) : buf[s][j][1] = s /\ buf[s][j][2] <= sent[s]
    /\ \A j, k \in 1..Len(buf[s]) : j < k => buf[s][j][2] < buf[s][k][2]

\* While no two rotations overlap, only one sink rotates, and none of its
\* renames can fail.
Rotating(s) == pc[s] \notin {"closed", "idle"}
Steady(s) ==
    /\ pc[s] \notin {"remove again", "rename again", "give up", "append nothing"}
    /\ pc[s] \in {"remove", "rename"} => dir[i[s] - 1] # None
    /\ pc[s] = "exists" => i[s] = MaxFiles \/ dir[i[s]] = None
    /\ pc[s] = "truncate" => i[s] = 0 /\ dir[0] = None
    /\ pc[s] = "append" => dir[0] # None
Alone ==
    /\ \A s, t \in Sinks : Rotating(s) /\ Rotating(t) => s = t
    /\ \A s \in Sinks : Steady(s)

\* Then the file born a rotations ago has the name a, or the name a - 1 when a
\* rotation is under way that has not come to it yet.
Age(f) == turns - born[f]
Shifting(s) == pc[s] \in {"exists", "remove", "rename", "truncate"}
Settled ==
    \A f \in 1..made : Age(f) >= 0 /\ (Age(f) <= MaxFiles => dir[Age(f)] = f)
ShiftedDownTo(n) ==
    \A f \in 1..made :
        /\ Age(f) >= 1
        /\ Age(f) > n /\ Age(f) <= MaxFiles => dir[Age(f)] = f
        /\ Age(f) <= n => dir[Age(f) - 1] = f
Placed ==
    /\ (\A s \in Sinks : ~Shifting(s)) => Settled
    /\ \A s \in Sinks : Shifting(s) => ShiftedDownTo(i[s])

Unclashed == ~clash => Alone /\ Placed

\* What a sink may still add to a file: what it holds in its buffer, and what its
\* own count leaves it.  The claim of one sink is never above the limit, which a
\* single longer line raises, ...
Room(s) == IF size[s] < MaxSize THEN MaxSize - size[s] ELSE 0
Claim(s, f) == IF fd[s] = f THEN Len(buf[s]) + Room(s) ELSE 0
Counted(s) == Len(buf[s]) <= Limit /\ Len(buf[s]) <= size[s]

\* ... a file and the claims on it are never above twice the limit, ...
Claimed ==
    \A f \in 1..made : \A s, t \in Sinks :
        s # t => Len(file[f]) + Claim(s, f) + Claim(t, f) <= 2 * Limit

\* ... and a sink that has truncated a file and is about to open it finds room
\* for a claim of its own.
Reopening(s) == pc[s] \in {"append", "append nothing"}
Roomy ==
    \A s, t \in Sinks : s # t /\ Reopening(s) /\ dir[0] # None =>
        /\ Len(file[dir[0]]) + Claim(t, dir[0]) <= Limit
        /\ Reopening(t) => Len(file[dir[0]]) = 0

Sized == (\A s \in Sinks : Counted(s)) /\ Claimed /\ Roomy

-----------------------------------------------------------------------------
(* The constants. *)

LEMMA Limits ==
    /\ Limit \in Nat \ {0} /\ MaxSize \in Nat \ {0} /\ Longest \in Nat
    /\ MaxSize <= Limit /\ Longest <= Limit
    /\ \A n \in Lengths : n \in Nat /\ n >= 1 /\ n <= Longest
BY LogAssumption DEF Limit

\* The files of earlier runs: their bytes are numbered in order.
LEMMA FarApart ==
    ASSUME NEW D \in Nat, NEW f \in Nat, NEW g \in Nat, f < g,
           NEW j \in Nat, j <= D, NEW k \in Nat, k >= 1
    PROVE  (f - 1) * D + j < (g - 1) * D + k
<1>1. PICK e \in Nat : g - 1 = (f - 1) + 1 + e
  <2>1. (g - f) - 1 \in Nat
    OBVIOUS
  <2> QED BY <2>1
<1>2. PICK a \in Int : a = (f - 1) * D
  OBVIOUS
<1>3. PICK b \in Nat : b = e * D
  OBVIOUS
<1>4. ((f - 1) + 1 + e) * D = a + D + b
  <2>1. ((f - 1) + 1 + e) * D = (f - 1) * D + D + e * D
    OBVIOUS
  <2> QED BY <1>2, <1>3, <2>1
<1> QED BY <1>1, <1>2, <1>4

LEMMA OldBytes ==
    ASSUME NEW o \in Old, NEW j \in 1..Len(o)
    PROVE  /\ OldFile(o, j) \in Seq(Lines) /\ Len(OldFile(o, j)) = o[j]
           /\ o[j] \in Nat /\ o[j] <= 2 * Limit
           /\ \A k \in 1..o[j] : OldFile(o, j)[k] = <<"old", (j - 1) * (2 * Limit) + k>>
<1>1. o \in Seq(0..(2 * Limit)) /\ Len(o) \in Nat
  BY LogAssumption
<1>2. o[j] \in 0..(2 * Limit) /\ Limit \in Nat /\ j \in Nat /\ j >= 1
  BY <1>1, Limits
<1>3. PICK n \in Nat : n = o[j] /\ n <= 2 * Limit
  BY <1>2
<1>4. PICK base \in Nat : base = (j - 1) * (2 * Limit)
  <2>1. j - 1 \in Nat /\ 2 * Limit \in Nat
    BY <1>2
  <2> QED BY <2>1
<1>5. OldFile(o, j) = [k \in 1..n |-> <<"old", base + k>>]
  BY <1>3, <1>4 DEF OldFile
<1>6. \A k \in 1..n : <<"old", base + k>> \in Lines
  BY DEF Lines
<1>7. [k \in 1..n |-> <<"old", base + k>>] \in Seq(Lines)
  BY <1>6
<1>8. Len([k \in 1..n |-> <<"old", base + k>>]) = n
  OBVIOUS
<1> QED BY <1>3, <1>4, <1>5, <1>7, <1>8

\* Where the program starts.
LEMMA OldFiles ==
    ASSUME Init
    PROVE  \E o \in Old :
              /\ made = Len(o) /\ made \in Nat \ {0} /\ made <= MaxFiles + 1
              /\ file \in Seq(Seq(Lines)) /\ Len(file) = made
              /\ \A j \in 1..made : file[j] = OldFile(o, j)
              /\ born \in Seq(Int) /\ Len(born) = made /\ \A j \in 1..made : born[j] = j - made
              /\ dir = [n \in Names |-> IF n < made THEN made - n ELSE None]
<1>1. PICK o \in Old :
          /\ made = Len(o)
          /\ file = [j \in 1..Len(o) |-> OldFile(o, j)]
          /\ born = [j \in 1..Len(o) |-> j - Len(o)]
          /\ dir = [n \in Names |-> IF n < Len(o) THEN Len(o) - n ELSE None]
  BY DEF Init
<1>2. made \in Nat \ {0} /\ made <= MaxFiles + 1
  BY <1>1, LogAssumption
<1>3. \A j \in 1..made : OldFile(o, j) \in Seq(Lines)
  BY <1>1, OldBytes
<1>4. file \in Seq(Seq(Lines)) /\ Len(file) = made
  <2>1. file = [j \in 1..made |-> OldFile(o, j)]
    BY <1>1
  <2>2. file \in [1..made -> Seq(Lines)]
    BY <1>3, <2>1
  <2> QED BY <1>2, <2>1, <2>2
<1>5. born \in Seq(Int) /\ Len(born) = made
  BY <1>1, <1>2
<1> QED BY <1>1, <1>2, <1>4, <1>5

-----------------------------------------------------------------------------
(* The file system. *)

LEMMA Zero == 0 \in Names /\ MaxFiles \in Names /\ \A n \in Names : n \in Nat /\ n <= MaxFiles
BY LogAssumption DEF Names

LEMMA ContentsTyped == ASSUME DiskTyped PROVE Contents \in Seq(Lines)
<1>1. CASE dir[0] = None
  <2>1. <<>> \in Seq(Lines)
    OBVIOUS
  <2> QED BY <1>1, <2>1 DEF Contents
<1>2. CASE dir[0] # None
  BY <1>2 DEF Contents, DiskTyped
<1> QED BY <1>1, <1>2

\* What fopen of name 0 does: the newest inode is at name 0, and holds "lines".
LEMMA FopenEffect ==
    ASSUME DiskTyped, turns \in Nat, NEW lines \in Seq(Lines), Fopen(lines)
    PROVE  /\ DiskTyped'
           /\ Opened = made' /\ dir'[0] = made' /\ \A n \in Names \ {0} : dir'[n] = dir[n]
           /\ made' = IF dir[0] = None THEN made + 1 ELSE made
           /\ file'[made'] = lines /\ \A f \in 1..made : f # made' => file'[f] = file[f]
           /\ \A f \in 1..made : born'[f] = born[f]
           /\ dir[0] = None => born'[made'] = turns
<1>0. /\ made \in Nat \ {0}
      /\ file \in Seq(Seq(Lines)) /\ Len(file) = made
      /\ born \in Seq(Int) /\ Len(born) = made
      /\ dir \in [Names -> 0..made] /\ dir[0] \in {None, made}
  BY DEF DiskTyped
<1>1. CASE dir[0] = None
  <2>1. /\ Opened = made + 1 /\ made' = made + 1
        /\ dir' = [dir EXCEPT ![0] = made + 1]
        /\ born' = Append(born, turns) /\ file' = Append(file, lines)
    BY <1>1 DEF Fopen, Opened
  <2>2. dir' \in [Names -> 0..made'] /\ dir'[0] = made' /\ \A n \in Names \ {0} : dir'[n] = dir[n]
    BY <1>0, <2>1, Zero
  <2>3. file' \in Seq(Seq(Lines)) /\ Len(file') = made' /\ file'[made'] = lines
    BY <1>0, <2>1
  <2>4. born' \in Seq(Int) /\ Len(born') = made' /\ born'[made'] = turns
    BY <1>0, <2>1
  <2>5. \A f \in 1..made : file'[f] = file[f] /\ born'[f] = born[f]
    BY <1>0, <2>1
  <2>6. DiskTyped'
    BY <1>0, <2>1, <2>2, <2>3, <2>4 DEF DiskTyped
  <2> QED BY <1>1, <2>1, <2>2, <2>3, <2>4, <2>5, <2>6
<1>2. CASE dir[0] # None
  <2>1. /\ Opened = made /\ made' = made
        /\ dir' = [dir EXCEPT ![0] = made]
        /\ born' = born /\ file' = [file EXCEPT ![made] = lines]
    BY <1>0, <1>2 DEF Fopen, Opened
  <2>2. dir' \in [Names -> 0..made'] /\ dir'[0] = made' /\ \A n \in Names \ {0} : dir'[n] = dir[n]
    BY <1>0, <2>1, Zero
  <2>3. file' \in Seq(Seq(Lines)) /\ Len(file') = made' /\ file'[made'] = lines
    BY <1>0, <2>1
  <2>4. \A f \in 1..made : f # made => file'[f] = file[f]
    BY <1>0, <2>1
  <2>5. DiskTyped'
    BY <1>0, <2>1, <2>2, <2>3 DEF DiskTyped
  <2> QED BY <1>2, <2>1, <2>2, <2>3, <2>4, <2>5
<1> QED BY <1>1, <1>2

\* What fflush does.
LEMMA FlushedEffect ==
    ASSUME Typed, NEW s \in Sinks, pc[s] = "idle"
    PROVE  /\ Flushed(s) \in Seq(Seq(Lines)) /\ Len(Flushed(s)) = made
           /\ fd[s] \in 1..made
           /\ Flushed(s)[fd[s]] = file[fd[s]] \o buf[s]
           /\ \A f \in 1..made : f # fd[s] => Flushed(s)[f] = file[f]
<1>1. /\ made \in Nat \ {0} /\ file \in Seq(Seq(Lines)) /\ Len(file) = made
      /\ fd[s] \in 1..made /\ buf[s] \in Seq(Lines) /\ fd[s] # None
  BY DEF Typed, DiskTyped, SinkTyped, None
<1> DEFINE whole == file[fd[s]] \o buf[s]
<1>2. Flushed(s) = [file EXCEPT ![fd[s]] = whole]
  BY <1>1 DEF Flushed
<1>3. whole \in Seq(Lines)
  BY <1>1
<1> HIDE DEF whole
<1>4. /\ Flushed(s) \in Seq(Seq(Lines)) /\ Len(Flushed(s)) = made
      /\ Flushed(s)[fd[s]] = whole
      /\ \A f \in 1..made : f # fd[s] => Flushed(s)[f] = file[f]
  BY <1>1, <1>2, <1>3
<1> QED BY <1>1, <1>4 DEF whole

-----------------------------------------------------------------------------
(* Types. *)

\* A line and the buffer it is written to.
LEMMA LineBytes ==
    ASSUME SinkTyped, NEW s \in Sinks, NEW n \in Nat
    PROVE  /\ Line(s, n) \in Seq(Lines) /\ Len(Line(s, n)) = n
           /\ \A k \in 1..n : Line(s, n)[k] = <<s, sent[s] + k>>
<1>1. PICK b \in Nat : b = sent[s]
  BY DEF SinkTyped
<1>2. Line(s, n) = [k \in 1..n |-> <<s, b + k>>]
  BY <1>1 DEF Line
<1>3. \A k \in 1..n : <<s, b + k>> \in Lines
  BY DEF Lines
<1>4. [k \in 1..n |-> <<s, b + k>>] \in Seq(Lines)
  BY <1>3
<1>5. Len([k \in 1..n |-> <<s, b + k>>]) = n
  OBVIOUS
<1> QED BY <1>1, <1>2, <1>4, <1>5

LEMMA Joined ==
    ASSUME NEW x \in Seq(Lines), NEW y \in Seq(Lines)
    PROVE  /\ x \o y \in Seq(Lines) /\ Len(x \o y) = Len(x) + Len(y)
           /\ Len(x) \in Nat /\ Len(y) \in Nat
           /\ \A k \in 1..Len(x) : (x \o y)[k] = x[k]
           /\ \A k \in 1..Len(x \o y) : k > Len(x) =>
                 k - Len(x) \in 1..Len(y) /\ (x \o y)[k] = y[k - Len(x)]
OBVIOUS

LEMMA TypedInit == Init => Typed
<1> SUFFICES ASSUME Init PROVE Typed
  OBVIOUS
<1>1. PICK o \in Old :
              /\ made \in Nat \ {0} /\ file \in Seq(Seq(Lines)) /\ Len(file) = made
              /\ born \in Seq(Int) /\ Len(born) = made
              /\ dir = [n \in Names |-> IF n < made THEN made - n ELSE None]
  BY OldFiles
<1>2. dir \in [Names -> 0..made] /\ dir[0] = made
  BY <1>1, Zero DEF None
<1>6. DiskTyped
  BY <1>1, <1>2 DEF DiskTyped
<1> USE DEF Init
<1>7. SinkTyped
  <2>1. First \in Sinks /\ Second \in Sinks
    BY DEF Sinks
  <2>2. <<>> \in Seq(Lines) /\ 0 \in 0..made /\ 0 \in 0..Longest
    BY <1>1, Limits
  <2>3. /\ fd \in [Sinks -> 0..made] /\ buf \in [Sinks -> Seq(Lines)] /\ size \in [Sinks -> Nat]
        /\ i \in [Sinks -> Names] /\ sent \in [Sinks -> Nat] /\ len \in [Sinks -> 0..Longest]
    BY <2>2, Zero DEF None
  <2> QED BY <2>1, <2>3 DEF SinkTyped, Places, Renaming, None
<1> QED BY <1>6, <1>7 DEF Typed

LEMMA TypedStep == Typed /\ [Next]_vars => Typed'
<1> SUFFICES ASSUME Typed, [Next]_vars PROVE Typed'
  OBVIOUS
<1> USE DEF ghost, disk, Goto
<1>0. First \in Sinks /\ Second \in Sinks /\ First # Second /\ (\A s \in Sinks : s \in {First, Second})
  BY LogAssumption DEF Sinks
<1>a. /\ DiskTyped /\ SinkTyped /\ turns \in Nat /\ clash \in BOOLEAN /\ made \in Nat
  BY DEF Typed, DiskTyped
<1>1. CASE UNCHANGED vars
  BY <1>1 DEF vars, Typed, DiskTyped, SinkTyped
<1>2. ASSUME NEW s \in Sinks, OpenSink(s) PROVE Typed'
  <2>1. Contents \in Seq(Lines) /\ Len(Contents) \in Nat /\ Fopen(Contents)
    BY <1>a, <1>2, ContentsTyped DEF OpenSink
  <2>2. DiskTyped' /\ Opened = made' /\ made' >= made
    BY <1>a, <2>1, FopenEffect
  <2>3. made' \in Nat \ {0}
    BY <2>2 DEF DiskTyped
  <2>4. fd' = [fd EXCEPT ![s] = made'] /\ size' = [size EXCEPT ![s] = Len(Contents)]
        /\ pc' = [pc EXCEPT ![s] = "idle"] /\ pc[s] = "closed" /\ (s # First => pc[First] = "idle")
        /\ UNCHANGED <<buf, i, sent, len, turns, clash>>
    BY <1>2, <2>2 DEF OpenSink
  <2>5. fd' \in [Sinks -> 0..made'] /\ fd'[s] # None /\ \A t \in Sinks : t # s => fd'[t] = fd[t]
    BY <1>a, <2>2, <2>3, <2>4 DEF SinkTyped, None
  <2>6. SinkTyped'
    BY <1>0, <1>a, <2>1, <2>4, <2>5 DEF SinkTyped, Places, Renaming
  <2> QED BY <1>a, <2>2, <2>4, <2>6 DEF Typed
<1>3. ASSUME NEW s \in Sinks, NEW n \in Lengths, WriteLine(s, n) \/ WriteEmpty(s, n) PROVE Typed'
  <2>1. /\ pc[s] = "idle" /\ sent' = [sent EXCEPT ![s] = @ + n]
        /\ buf' = [buf EXCEPT ![s] = @ \o Line(s, n)]
        /\ size' = [size EXCEPT ![s] = size[s] + n]
        /\ UNCHANGED <<disk, fd, pc, i, len, ghost>>
    BY <1>3 DEF WriteLine, WriteEmpty, Write, Sink
  <2>2. n \in Nat
    BY Limits
  <2>3. buf[s] \o Line(s, n) \in Seq(Lines)
    <3>1. Line(s, n) \in Seq(Lines) /\ buf[s] \in Seq(Lines)
      BY <1>a, <2>2, LineBytes DEF SinkTyped
    <3> QED BY <3>1, Joined
  <2>4. buf' \in [Sinks -> Seq(Lines)] /\ \A t \in Sinks : t # s => buf'[t] = buf[t]
    BY <1>a, <2>1, <2>3 DEF SinkTyped
  <2>5. size' \in [Sinks -> Nat] /\ sent' \in [Sinks -> Nat]
    BY <1>a, <2>1, <2>2 DEF SinkTyped
  <2>6. SinkTyped'
    BY <1>a, <2>1, <2>4, <2>5 DEF SinkTyped
  <2> QED BY <1>a, <2>1, <2>6 DEF Typed, DiskTyped
<1>4. ASSUME NEW s \in Sinks, NEW n \in Lengths, Rotate(s, n) PROVE Typed'
  <2>1. /\ pc[s] = "idle" /\ len' = [len EXCEPT ![s] = n] /\ file' = Flushed(s)
        /\ buf' = [buf EXCEPT ![s] = <<>>] /\ fd' = [fd EXCEPT ![s] = None]
        /\ i' = [i EXCEPT ![s] = MaxFiles] /\ pc' = [pc EXCEPT ![s] = "exists"]
        /\ turns' = turns + 1 /\ clash' \in BOOLEAN
        /\ UNCHANGED <<dir, made, born, size, sent>>
    BY <1>a, <1>4 DEF Rotate, Oldest, Sink
  <2>2. DiskTyped'
    BY <1>a, <2>1, FlushedEffect DEF DiskTyped
  <2>3. <<>> \in Seq(Lines) /\ None \in 0..made /\ n \in 0..Longest
    BY <1>a, Limits DEF None
  <2>4. /\ fd' \in [Sinks -> 0..made'] /\ buf' \in [Sinks -> Seq(Lines)]
        /\ i' \in [Sinks -> Names] /\ len' \in [Sinks -> 0..Longest]
    BY <1>a, <2>1, <2>3, Zero DEF SinkTyped
  <2>5. SinkTyped'
    BY <1>0, <1>a, <2>1, <2>4 DEF SinkTyped, Places, Renaming
  <2> QED BY <1>a, <2>1, <2>2, <2>5 DEF Typed
<1>5. ASSUME NEW s \in Sinks, Exists(s) PROVE Typed'
  <2>1. /\ pc[s] = "exists" /\ UNCHANGED <<disk, fd, buf, size, sent, len, ghost>>
        /\ \/ i[s] = 0 /\ pc' = [pc EXCEPT ![s] = "truncate"] /\ UNCHANGED i
           \/ i[s] # 0 /\ i' = [i EXCEPT ![s] = @ - 1] /\ UNCHANGED pc
           \/ i[s] # 0 /\ pc' = [pc EXCEPT ![s] = "remove"] /\ UNCHANGED i
    BY <1>5 DEF Exists, LoopEnds
  <2>2. i[s] \in Names /\ (i[s] # 0 => i[s] > 0 /\ i[s] - 1 \in Names)
    BY <1>a, LogAssumption DEF SinkTyped, Names
  <2>3. SinkTyped'
    BY <1>0, <1>a, <2>1, <2>2 DEF SinkTyped, Places, Renaming
  <2> QED BY <1>a, <2>1, <2>3 DEF Typed, DiskTyped
<1>6. ASSUME NEW s \in Sinks, RemoveTarget(s) PROVE Typed'
  <2>1. /\ pc[s] \in {"remove", "remove again"} /\ dir' = [dir EXCEPT ![i[s]] = None]
        /\ pc' = [pc EXCEPT ![s] = IF pc[s] = "remove" THEN "rename" ELSE "rename again"]
        /\ UNCHANGED <<file, made, born, fd, buf, size, i, sent, len, ghost>>
    BY <1>6 DEF RemoveTarget
  <2>2. i[s] > 0 /\ i[s] \in Names
    BY <1>a, <2>1 DEF SinkTyped, Renaming
  <2>3. DiskTyped'
    <3>0. dir \in [Names -> 0..made] /\ None \in 0..made
      BY <1>a DEF DiskTyped, None
    <3>1. dir' \in [Names -> 0..made] /\ dir'[0] \in {None, dir[0]}
      BY <2>1, <2>2, <3>0, Zero
    <3> QED BY <1>a, <2>1, <3>1 DEF DiskTyped
  <2>4. SinkTyped'
    BY <1>0, <1>a, <2>1 DEF SinkTyped, Places, Renaming
  <2> QED BY <1>a, <2>1, <2>3, <2>4 DEF Typed
<1>7. ASSUME NEW s \in Sinks, RenameSource(s) PROVE Typed'
  <2>1. /\ pc[s] \in {"rename", "rename again"}
        /\ dir' = [dir EXCEPT ![i[s]] = dir[i[s] - 1], ![i[s] - 1] = None]
        /\ i' = [i EXCEPT ![s] = @ - 1] /\ pc' = [pc EXCEPT ![s] = "exists"]
        /\ UNCHANGED <<file, made, born, fd, buf, size, sent, len, ghost>>
    BY <1>7 DEF RenameSource
  <2>2. i[s] > 0 /\ i[s] \in Names /\ i[s] - 1 \in Names
    <3>1. i[s] > 0 /\ i[s] \in Names
      BY <1>a, <2>1 DEF SinkTyped, Renaming
    <3> QED BY <3>1, LogAssumption DEF Names
  <2>3. DiskTyped'
    <3>0. dir \in [Names -> 0..made] /\ None \in 0..made
      BY <1>a DEF DiskTyped, None
    <3>1. dir' \in [Names -> 0..made] /\ dir'[0] \in {None, dir[0]}
      <4>1. dir' = [n \in Names |-> IF n = i[s] - 1 THEN None
                                    ELSE IF n = i[s] THEN dir[i[s] - 1] ELSE dir[n]]
        BY <2>1, <2>2, <3>0, Zero
      <4>2. 0 \in Names /\ i[s] # 0
        BY <2>2, Zero
      <4> QED BY <2>2, <3>0, <4>1, <4>2
    <3> QED BY <1>a, <2>1, <3>1 DEF DiskTyped
  <2>4. SinkTyped'
    BY <1>0, <1>a, <2>1, <2>2 DEF SinkTyped, Places, Renaming
  <2> QED BY <1>a, <2>1, <2>3, <2>4 DEF Typed
<1>8. ASSUME NEW s \in Sinks, RenameFails(s) PROVE Typed'
  <2>1. /\ pc[s] \in {"rename", "rename again"}
        /\ pc' = [pc EXCEPT ![s] = IF pc[s] = "rename" THEN "remove again" ELSE "give up"]
        /\ UNCHANGED <<disk, fd, buf, size, i, sent, len, ghost>>
    BY <1>8 DEF RenameFails
  <2>2. SinkTyped'
    BY <1>0, <1>a, <2>1 DEF SinkTyped, Places, Renaming
  <2> QED BY <1>a, <2>1, <2>2 DEF Typed, DiskTyped
<1>9. ASSUME NEW s \in Sinks, Truncate(s) PROVE Typed'
  <2>0. <<>> \in Seq(Lines)
    OBVIOUS
  <2>1. /\ pc[s] \in {"truncate", "give up"} /\ Fopen(<<>>)
        /\ pc' = [pc EXCEPT ![s] = IF pc[s] = "truncate" THEN "append" ELSE "append nothing"]
        /\ UNCHANGED <<fd, buf, size, i, sent, len, ghost>>
    BY <1>9 DEF Truncate
  <2>2. DiskTyped' /\ made' >= made
    <3>1. PICK lines \in Seq(Lines) : lines = <<>>
      BY <2>0
    <3>2. Fopen(lines)
      BY <2>1, <3>1
    <3> QED BY <1>a, <3>2, FopenEffect
  <2>3. fd \in [Sinks -> 0..made']
    BY <1>a, <2>2 DEF SinkTyped, DiskTyped
  <2>4. SinkTyped'
    BY <1>0, <1>a, <2>1, <2>3 DEF SinkTyped, Places, Renaming
  <2> QED BY <1>a, <2>1, <2>2, <2>4 DEF Typed
<1>10. ASSUME NEW s \in Sinks, Reopen(s) PROVE Typed'
  <2>1. Contents \in Seq(Lines) /\ Fopen(Contents)
    BY <1>a, <1>10, ContentsTyped DEF Reopen
  <2>2. DiskTyped' /\ Opened = made' /\ made' >= made
    BY <1>a, <2>1, FopenEffect
  <2>3. made' \in Nat \ {0} /\ len[s] \in Nat /\ 0 \in 0..Longest
    BY <1>a, <1>10, <2>2, Limits DEF DiskTyped, SinkTyped
  <2>4. /\ fd' = [fd EXCEPT ![s] = made'] /\ pc' = [pc EXCEPT ![s] = "idle"]
        /\ pc[s] \in {"append", "append nothing"}
        /\ \/ buf' = [buf EXCEPT ![s] = @ \o Line(s, len[s])] /\ size' = [size EXCEPT ![s] = len[s]]
           \/ buf' = buf /\ size' = [size EXCEPT ![s] = 0]
        /\ sent' = [sent EXCEPT ![s] = @ + len[s]] /\ len' = [len EXCEPT ![s] = 0]
        /\ UNCHANGED <<i, turns, clash>>
    BY <1>10, <2>2 DEF Reopen, Write
  <2>5. fd' \in [Sinks -> 0..made'] /\ fd'[s] # None /\ \A t \in Sinks : t # s => fd'[t] = fd[t]
    <3>1. fd \in [Sinks -> 0..made] /\ made' \in 0..made' /\ made' # None
      BY <1>a, <2>3 DEF SinkTyped, None
    <3>2. fd' = [fd EXCEPT ![s] = made']
      BY <2>4
    <3> QED BY <1>a, <2>2, <2>3, <3>1, <3>2
  <2>6. /\ buf' \in [Sinks -> Seq(Lines)] /\ size' \in [Sinks -> Nat]
        /\ \A t \in Sinks : t # s => buf'[t] = buf[t]
    <3>1. buf \in [Sinks -> Seq(Lines)] /\ size \in [Sinks -> Nat]
      BY <1>a DEF SinkTyped
    <3>2. Line(s, len[s]) \in Seq(Lines) /\ buf[s] \in Seq(Lines)
      BY <1>a, <2>3, <3>1, LineBytes
    <3>3. buf[s] \o Line(s, len[s]) \in Seq(Lines)
      BY <3>2, Joined
    <3>4. buf' \in [Sinks -> Seq(Lines)] /\ \A t \in Sinks : t # s => buf'[t] = buf[t]
      BY <2>4, <3>1, <3>3
    <3>5. size' \in [Sinks -> Nat]
      <4>1. \E n \in Nat : size' = [size EXCEPT ![s] = n]
        BY <2>3, <2>4
      <4> QED BY <3>1, <4>1
    <3> QED BY <3>4, <3>5
  <2>7. sent' \in [Sinks -> Nat] /\ len' \in [Sinks -> 0..Longest]
    <3>1. sent \in [Sinks -> Nat] /\ len \in [Sinks -> 0..Longest]
      BY <1>a DEF SinkTyped
    <3>2. sent' = [sent EXCEPT ![s] = sent[s] + len[s]]
      BY <2>4
    <3>3. sent[s] \in Nat
      BY <3>1
    <3>4. sent[s] + len[s] \in Nat
      BY <2>3, <3>3
    <3>5. len' = [len EXCEPT ![s] = 0]
      BY <2>4
    <3> QED BY <2>3, <3>1, <3>2, <3>4, <3>5
  <2>8. SinkTyped'
    BY <1>0, <1>a, <2>4, <2>5, <2>6, <2>7 DEF SinkTyped, Places, Renaming
  <2> QED BY <1>a, <2>2, <2>4, <2>8 DEF Typed
<1>11. ASSUME NEW s \in Sinks, Flush(s) PROVE Typed'
  <2>1. /\ pc[s] = "idle" /\ file' = Flushed(s) /\ buf' = [buf EXCEPT ![s] = <<>>]
        /\ UNCHANGED <<dir, made, born, fd, size, pc, i, sent, len, ghost>>
    BY <1>11 DEF Flush
  <2>2. DiskTyped'
    BY <1>a, <2>1, FlushedEffect DEF DiskTyped
  <2>3. <<>> \in Seq(Lines)
    OBVIOUS
  <2>4. SinkTyped'
    BY <1>a, <2>1, <2>3 DEF SinkTyped
  <2> QED BY <1>a, <2>1, <2>2, <2>4 DEF Typed
<1> QED
  BY <1>1, <1>2, <1>3, <1>4, <1>5, <1>6, <1>7, <1>8, <1>9, <1>10, <1>11 DEF Next, Bound

-----------------------------------------------------------------------------
(* The order of the files. *)

\* fopen, with what each of its three callers writes.
LEMMA FopenStep ==
    ASSUME Typed, NEW s \in Sinks, OpenSink(s) \/ Truncate(s) \/ Reopen(s)
    PROVE  \E lines \in Seq(Lines) :
              /\ Fopen(lines) /\ lines \in {<<>>, Contents}
              /\ OpenSink(s) \/ Reopen(s) => lines = Contents
              /\ Truncate(s) => lines = <<>>
<1>1. CASE OpenSink(s) \/ Reopen(s)
  <2>1. Contents \in Seq(Lines) /\ Fopen(Contents) /\ ~Truncate(s)
    BY <1>1, ContentsTyped DEF Typed, OpenSink, Reopen, Truncate
  <2> QED BY <2>1
<1>2. CASE Truncate(s)
  <2>1. Fopen(<<>>) /\ ~OpenSink(s) /\ ~Reopen(s)
    BY <1>2 DEF OpenSink, Reopen, Truncate
  <2>2. PICK lines \in Seq(Lines) : lines = <<>>
    <3>1. <<>> \in Seq(Lines)
      OBVIOUS
    <3> QED BY <3>1
  <2> QED BY <2>1, <2>2
<1> QED BY <1>1, <1>2

\* What rename does.
LEMMA RenameEffect ==
    ASSUME Typed, NEW s \in Sinks, RenameSource(s)
    PROVE  /\ i[s] \in Nat /\ i[s] > 0 /\ i[s] \in Names /\ i[s] - 1 \in Names
           /\ dir[i[s] - 1] # None
           /\ dir' = [n \in Names |-> IF n = i[s] - 1 THEN None
                                      ELSE IF n = i[s] THEN dir[i[s] - 1] ELSE dir[n]]
<1>1. i[s] > 0 /\ i[s] \in Names
  BY DEF RenameSource, Typed, SinkTyped, Renaming
<1>2. i[s] \in Nat /\ i[s] - 1 \in Names
  BY <1>1, LogAssumption DEF Names
<1>3. /\ dir[i[s] - 1] # None
      /\ dir' = [dir EXCEPT ![i[s]] = dir[i[s] - 1], ![i[s] - 1] = None]
      /\ dir \in [Names -> 0..made]
  BY DEF RenameSource, Typed, DiskTyped
<1> QED BY <1>1, <1>2, <1>3

LEMMA DirOrderedStep == Typed /\ DirOrdered /\ [Next]_vars => DirOrdered'
<1> SUFFICES ASSUME Typed, DirOrdered, [Next]_vars PROVE DirOrdered'
  OBVIOUS
<1>0. DiskTyped /\ turns \in Nat /\ made \in Nat /\ dir \in [Names -> 0..made] /\ dir[0] \in {None, made}
  BY DEF Typed, DiskTyped
<1>1. ASSUME UNCHANGED dir PROVE DirOrdered'
  BY <1>1 DEF DirOrdered
<1>2. ASSUME NEW s \in Sinks, OpenSink(s) \/ Truncate(s) \/ Reopen(s) PROVE DirOrdered'
  <2>1. PICK lines \in Seq(Lines) : Fopen(lines)
    BY <1>2, FopenStep
  <2>2. /\ dir'[0] = made' /\ \A n \in Names \ {0} : dir'[n] = dir[n]
        /\ made' = IF dir[0] = None THEN made + 1 ELSE made
    BY <1>0, <2>1, FopenEffect
  <2>3. CASE dir[0] = None
    <3>1. ASSUME NEW a \in Names, NEW b \in Names, a > b, dir'[a] # None, dir'[b] # None
          PROVE  dir'[a] < dir'[b]
      <4>1. a \in Names \ {0} /\ dir'[a] = dir[a] /\ dir[a] \in 0..made
        BY <1>0, <2>2, <3>1, Zero
      <4>2. CASE b = 0
        BY <1>0, <2>2, <2>3, <4>1, <4>2
      <4>3. CASE b # 0
        BY <2>2, <3>1, <4>1, <4>3 DEF DirOrdered
      <4> QED BY <4>2, <4>3
    <3> QED BY <3>1 DEF DirOrdered
  <2>4. CASE dir[0] # None
    <3>1. \A n \in Names : dir'[n] = dir[n]
      BY <1>0, <2>2, <2>4
    <3> QED BY <3>1 DEF DirOrdered
  <2> QED BY <2>3, <2>4
<1>3. ASSUME NEW s \in Sinks, RemoveTarget(s) PROVE DirOrdered'
  <2>1. dir' = [dir EXCEPT ![i[s]] = None]
    BY <1>3 DEF RemoveTarget
  <2>2. \A n \in Names : dir'[n] \in {None, dir[n]}
    BY <1>0, <2>1
  <2> QED BY <2>2 DEF DirOrdered
<1>4. ASSUME NEW s \in Sinks, RenameSource(s) PROVE DirOrdered'
  <2>1. /\ i[s] \in Nat /\ i[s] > 0 /\ i[s] \in Names /\ i[s] - 1 \in Names
        /\ dir[i[s] - 1] # None
        /\ dir' = [n \in Names |-> IF n = i[s] - 1 THEN None
                                   ELSE IF n = i[s] THEN dir[i[s] - 1] ELSE dir[n]]
    BY <1>4, RenameEffect
  <2>2. PICK k \in Nat : k = i[s] /\ k > 0
    BY <2>1
  <2>3. ASSUME NEW a \in Names, NEW b \in Names, a > b, dir'[a] # None, dir'[b] # None
        PROVE  dir'[a] < dir'[b]
    <3>0. a \in Nat /\ b \in Nat /\ a # k - 1 /\ b # k - 1
      BY <2>1, <2>2, <2>3, Zero
    <3>1. CASE a = k
      <4>1. b < k - 1 /\ dir'[b] = dir[b] /\ dir'[a] = dir[k - 1]
        BY <2>1, <2>2, <2>3, <3>0, <3>1
      <4> QED BY <2>1, <2>2, <2>3, <4>1 DEF DirOrdered
    <3>2. CASE b = k
      <4>1. a > k - 1 /\ dir'[a] = dir[a] /\ dir'[b] = dir[k - 1]
        BY <2>1, <2>2, <2>3, <3>0, <3>2
      <4> QED BY <2>1, <2>2, <2>3, <4>1 DEF DirOrdered
    <3>3. CASE a # k /\ b # k
      BY <2>1, <2>2, <2>3, <3>0, <3>3 DEF DirOrdered
    <3> QED BY <3>1, <3>2, <3>3
  <2> QED BY <2>3 DEF DirOrdered
<1>5. ASSUME NEW s \in Sinks, NEW n \in Lengths, WriteLine(s, n) \/ WriteEmpty(s, n) \/ Rotate(s, n)
      PROVE  UNCHANGED dir
  BY <1>5 DEF WriteLine, WriteEmpty, Rotate, disk
<1>7. ASSUME NEW s \in Sinks, Exists(s) \/ RenameFails(s) \/ Flush(s)
      PROVE  UNCHANGED dir
  BY <1>7 DEF Exists, RenameFails, Flush, disk
<1>6. Bound \/ UNCHANGED vars => UNCHANGED dir
  BY DEF Bound, vars
<1> QED BY <1>1, <1>2, <1>3, <1>4, <1>5, <1>6, <1>7 DEF Next

-----------------------------------------------------------------------------
(* The order of the lines. *)

\* Every line that is in a file was there before.
NoNewLines ==
    \A f \in 1..made' : \A k \in 1..Len(file'[f]) :
        f \in 1..made /\ k \in 1..Len(file[f]) /\ file'[f][k] = file[f][k]

LEMMA FopenLines ==
    ASSUME Typed, NEW lines \in Seq(Lines), Fopen(lines), lines \in {<<>>, Contents}
    PROVE  NoNewLines /\ made' >= made
<1>0. DiskTyped /\ turns \in Nat /\ made \in Nat /\ dir[0] \in {None, made} /\ made # None
  BY DEF Typed, DiskTyped, None
<1>1. /\ made' = IF dir[0] = None THEN made + 1 ELSE made
      /\ file'[made'] = lines /\ \A f \in 1..made : f # made' => file'[f] = file[f]
  BY <1>0, FopenEffect
<1>2. CASE dir[0] = None
  <2>1. Contents = <<>>
    BY <1>2 DEF Contents
  <2>2. Len(file'[made']) = 0 /\ made' = made + 1
    BY <1>1, <1>2, <2>1
  <2> QED BY <1>0, <1>1, <2>2 DEF NoNewLines
<1>3. CASE dir[0] # None
  <2>1. Contents = file[made] /\ made' = made
    BY <1>0, <1>1, <1>3 DEF Contents
  <2>2. file'[made] = <<>> \/ file'[made] = file[made]
    BY <1>1, <2>1
  <2>3. ASSUME NEW f \in 1..made PROVE Len(file'[f]) = 0 \/ file'[f] = file[f]
    BY <1>1, <2>1, <2>2
  <2>4. ASSUME NEW f \in 1..made, NEW k \in 1..Len(file'[f])
        PROVE  k \in 1..Len(file[f]) /\ file'[f][k] = file[f][k]
    <3>1. Len(file'[f]) # 0
      OBVIOUS
    <3> QED BY <2>3, <3>1
  <2>5. ASSUME NEW f \in 1..made', NEW k \in 1..Len(file'[f])
        PROVE  f \in 1..made /\ k \in 1..Len(file[f]) /\ file'[f][k] = file[f][k]
    <3>1. f \in 1..made
      BY <2>1
    <3> QED BY <2>4, <3>1
  <2>6. NoNewLines
    BY <2>5 DEF NoNewLines
  <2> QED BY <1>0, <2>1, <2>6
<1> QED BY <1>0, <1>1, <1>2, <1>3

LEMMA SortedKept == ASSUME Sorted, NoNewLines PROVE Sorted'
BY DEF Sorted, NoNewLines

\* A flush of sink s.
LEMMA FlushLines ==
    ASSUME Typed, NEW s \in Sinks, pc[s] = "idle", file' = Flushed(s), made' = made, Buffered(s)
    PROVE  \A f \in 1..made' : \A k \in 1..Len(file'[f]) :
              \/ k \in 1..Len(file[f]) /\ file'[f][k] = file[f][k]
              \/ /\ f = fd[s] /\ k > Len(file[f])
                 /\ k - Len(file[f]) \in 1..Len(buf[s]) /\ file'[f][k] = buf[s][k - Len(file[f])]
<1>1. /\ fd[s] \in 1..made /\ file'[fd[s]] = file[fd[s]] \o buf[s]
      /\ \A f \in 1..made : f # fd[s] => file'[f] = file[f]
  BY FlushedEffect
<1>2. file[fd[s]] \in Seq(Lines) /\ buf[s] \in Seq(Lines)
  BY <1>1 DEF Typed, DiskTyped, SinkTyped
<1>3. ASSUME NEW x \in Seq(Lines), NEW y \in Seq(Lines), NEW k \in 1..Len(x \o y)
      PROVE  \/ k \in 1..Len(x) /\ (x \o y)[k] = x[k]
             \/ k > Len(x) /\ k - Len(x) \in 1..Len(y) /\ (x \o y)[k] = y[k - Len(x)]
  OBVIOUS
<1>4. ASSUME NEW f \in 1..made, f # fd[s], NEW k \in 1..Len(file'[f])
      PROVE  k \in 1..Len(file[f]) /\ file'[f][k] = file[f][k]
  BY <1>1, <1>4
<1>5. ASSUME NEW k \in 1..Len(file'[fd[s]])
      PROVE  \/ k \in 1..Len(file[fd[s]]) /\ file'[fd[s]][k] = file[fd[s]][k]
             \/ /\ k > Len(file[fd[s]]) /\ k - Len(file[fd[s]]) \in 1..Len(buf[s])
                /\ file'[fd[s]][k] = buf[s][k - Len(file[fd[s]])]
  <2> DEFINE x == file[fd[s]]
  <2> DEFINE y == buf[s]
  <2>1. x \in Seq(Lines) /\ y \in Seq(Lines) /\ file'[fd[s]] = x \o y
    BY <1>1, <1>2
  <2> HIDE DEF x, y
  <2>2. k \in 1..Len(x \o y)
    BY <2>1
  <2>3. \/ k \in 1..Len(x) /\ (x \o y)[k] = x[k]
        \/ k > Len(x) /\ k - Len(x) \in 1..Len(y) /\ (x \o y)[k] = y[k - Len(x)]
    BY <1>3, <2>1, <2>2
  <2> QED BY <2>1, <2>3 DEF x, y
<1> QED BY <1>4, <1>5

LEMMA FlushSorted ==
    ASSUME Typed, Sorted, NEW s \in Sinks, Filed(s), Buffered(s),
           pc[s] = "idle", file' = Flushed(s), made' = made
    PROVE  Sorted'
<1>1. \A f \in 1..made' : \A k \in 1..Len(file'[f]) :
              \/ k \in 1..Len(file[f]) /\ file'[f][k] = file[f][k]
              \/ /\ f = fd[s] /\ k > Len(file[f])
                 /\ k - Len(file[f]) \in 1..Len(buf[s]) /\ file'[f][k] = buf[s][k - Len(file[f])]
  BY FlushLines
<1>2. fd[s] # None /\ fd[s] \in Nat
  BY DEF Typed, SinkTyped
<1> SUFFICES ASSUME NEW f \in 1..made', NEW g \in 1..made',
                    NEW j \in 1..Len(file'[f]), NEW k \in 1..Len(file'[g]),
                    file'[f][j][1] = file'[g][k][1] /\ (f < g \/ (f = g /\ j < k))
             PROVE  file'[f][j][2] < file'[g][k][2]
  BY DEF Sorted
<1>0. f \in 1..made /\ g \in 1..made
  OBVIOUS
<1>3. Len(file[f]) \in Nat /\ Len(file[g]) \in Nat
  BY <1>0 DEF Typed, DiskTyped
<1>4. CASE k \in 1..Len(file[g]) /\ file'[g][k] = file[g][k]
  <2>1. CASE j \in 1..Len(file[f]) /\ file'[f][j] = file[f][j]
    BY <1>0, <1>4, <2>1 DEF Sorted
  <2>2. CASE /\ f = fd[s] /\ j > Len(file[f])
             /\ j - Len(file[f]) \in 1..Len(buf[s]) /\ file'[f][j] = buf[s][j - Len(file[f])]
    <3>1. file[g][k][1] = s
      BY <1>4, <2>2 DEF Buffered
    <3>2. g <= fd[s]
      BY <1>0, <1>2, <1>4, <3>1 DEF Filed
    <3>3. f = g /\ j < k
      BY <1>0, <1>2, <2>2, <3>2
    <3>4. FALSE
      BY <1>3, <1>4, <2>2, <3>3
    <3> QED BY <3>4
  <2> QED BY <1>1, <2>1, <2>2
<1>5. CASE /\ g = fd[s] /\ k > Len(file[g])
           /\ k - Len(file[g]) \in 1..Len(buf[s]) /\ file'[g][k] = buf[s][k - Len(file[g])]
  <2>0. file'[g][k][1] = s
    BY <1>5 DEF Buffered
  <2>1. CASE j \in 1..Len(file[f]) /\ file'[f][j] = file[f][j]
    BY <1>0, <1>5, <2>0, <2>1 DEF Filed
  <2>2. CASE /\ f = fd[s] /\ j > Len(file[f])
             /\ j - Len(file[f]) \in 1..Len(buf[s]) /\ file'[f][j] = buf[s][j - Len(file[f])]
    <3>1. f = g /\ j < k
      BY <1>0, <1>2, <1>5, <2>2
    <3>2. j - Len(file[f]) < k - Len(file[f])
      BY <1>3, <3>1
    <3> QED BY <1>5, <2>2, <3>1, <3>2 DEF Buffered
  <2> QED BY <1>1, <2>1, <2>2
<1> QED BY <1>1, <1>4, <1>5

\* The lines of t in the files were there before.
NoNewLinesOf(t) ==
    \A f \in 1..made' : \A k \in 1..Len(file'[f]) : file'[f][k][1] = t =>
        f \in 1..made /\ k \in 1..Len(file[f]) /\ file'[f][k] = file[f][k]

LEMMA OtherFiled ==
    ASSUME NEW t \in Sinks, Filed(t), Buffered(t), NoNewLinesOf(t),
           fd'[t] = fd[t], buf'[t] = buf[t], sent'[t] = sent[t]
    PROVE  Filed(t)' /\ Buffered(t)'
<1>2. Buffered(t)'
  BY DEF Buffered
<1>3. Filed(t)'
  BY DEF Filed, NoNewLinesOf
<1> QED BY <1>2, <1>3

LEMMA FlushFiled ==
    ASSUME Typed, NEW s \in Sinks, Filed(s), Buffered(s),
           pc[s] = "idle", file' = Flushed(s), made' = made, buf'[s] = <<>>,
           fd'[s] \in {None, fd[s]}, sent'[s] = sent[s]
    PROVE  Filed(s)' /\ Buffered(s)' /\ \A t \in Sinks : t # s => NoNewLinesOf(t)
<1>1. \A f \in 1..made' : \A k \in 1..Len(file'[f]) :
              \/ k \in 1..Len(file[f]) /\ file'[f][k] = file[f][k]
              \/ /\ f = fd[s] /\ k > Len(file[f])
                 /\ k - Len(file[f]) \in 1..Len(buf[s]) /\ file'[f][k] = buf[s][k - Len(file[f])]
  BY FlushLines
<1>2. fd[s] \in Nat /\ fd[s] # None
  BY DEF Typed, SinkTyped
<1>3. Len(buf'[s]) = 0
  OBVIOUS
<1>4. Buffered(s)'
  BY <1>3 DEF Buffered
<1>5. ASSUME NEW f \in 1..made, NEW k \in 1..Len(file'[f]), file'[f][k][1] = s
      PROVE  file'[f][k][2] <= sent[s] /\ (fd'[s] # None => f <= fd'[s])
  <2>1. CASE k \in 1..Len(file[f]) /\ file'[f][k] = file[f][k]
    BY <1>2, <1>5, <2>1 DEF Filed
  <2>2. CASE /\ f = fd[s] /\ k - Len(file[f]) \in 1..Len(buf[s])
             /\ file'[f][k] = buf[s][k - Len(file[f])]
    BY <1>2, <2>2 DEF Buffered
  <2> QED BY <1>1, <2>1, <2>2
<1>6. Filed(s)'
  BY <1>3, <1>5 DEF Filed
<1>7. ASSUME NEW t \in Sinks, t # s PROVE NoNewLinesOf(t)
  BY <1>1, <1>7 DEF NoNewLinesOf, Buffered
<1> QED BY <1>4, <1>6, <1>7

LinesOrdered == Sorted /\ \A s \in Sinks : Filed(s) /\ Buffered(s)

LEMMA LinesOrderedInit == Init => LinesOrdered
<1> SUFFICES ASSUME Init PROVE LinesOrdered
  OBVIOUS
<1>1. PICK o \in Old : /\ made \in Nat /\ made = Len(o)
                       /\ \A j \in 1..made : file[j] = OldFile(o, j)
  BY OldFiles
<1>2. "old" \notin Sinks /\ 2 * Limit \in Nat
  BY LogAssumption, Limits DEF Sinks
<1>3. ASSUME NEW f \in 1..made, NEW k \in 1..Len(file[f])
      PROVE  /\ file[f][k] = <<"old", (f - 1) * (2 * Limit) + k>>
             /\ k \in Nat /\ k >= 1 /\ k <= 2 * Limit
  <2>1. /\ Len(file[f]) = o[f] /\ o[f] \in Nat /\ o[f] <= 2 * Limit
        /\ \A l \in 1..o[f] : file[f][l] = <<"old", (f - 1) * (2 * Limit) + l>>
    BY <1>1, OldBytes
  <2>2. k \in 1..o[f]
    BY <2>1
  <2> QED BY <1>2, <2>1, <2>2
<1>4. Sorted
  <2> SUFFICES ASSUME NEW f \in 1..made, NEW g \in 1..made,
                      NEW j \in 1..Len(file[f]), NEW k \in 1..Len(file[g]),
                      f < g \/ (f = g /\ j < k)
               PROVE  file[f][j][2] < file[g][k][2]
    BY DEF Sorted
  <2>1. /\ file[f][j][2] = (f - 1) * (2 * Limit) + j /\ j \in Nat /\ j <= 2 * Limit
        /\ file[g][k][2] = (g - 1) * (2 * Limit) + k /\ k \in Nat /\ k >= 1
    BY <1>3
  <2>2. f \in Nat /\ g \in Nat
    BY <1>1
  <2>3. CASE f < g
    <3>1. (f - 1) * (2 * Limit) + j < (g - 1) * (2 * Limit) + k
      BY <1>2, <2>1, <2>2, <2>3, FarApart
    <3> QED BY <2>1, <3>1
  <2>4. CASE f = g /\ j < k
    <3>1. PICK base \in Int : base = (f - 1) * (2 * Limit)
      BY <1>2, <2>2
    <3>2. base + j < base + k
      BY <2>1, <2>4
    <3> QED BY <2>1, <2>4, <3>1, <3>2
  <2> QED BY <2>3, <2>4
<1>5. ASSUME NEW s \in Sinks PROVE Filed(s) /\ Buffered(s)
  <2>1. Len(buf[s]) = 0
    BY DEF Init
  <2>2. \A f \in 1..made : \A k \in 1..Len(file[f]) : file[f][k][1] # s
    BY <1>2, <1>3
  <2> QED BY <2>1, <2>2 DEF Filed, Buffered
<1> QED BY <1>4, <1>5 DEF LinesOrdered

\* A sink that writes n bytes, to its buffer or nowhere, to the file it had open
\* or to the newest one.
LEMMA WriteOrdered ==
    ASSUME Typed, NEW s \in Sinks, NEW n \in Nat, Filed(s), Buffered(s), NoNewLines,
           sent'[s] = sent[s] + n,
           buf'[s] = buf[s] \/ buf'[s] = buf[s] \o Line(s, n),
           fd'[s] = fd[s] \/ (fd'[s] \in Nat /\ fd'[s] >= made)
    PROVE  Filed(s)' /\ Buffered(s)'
<1>0. SinkTyped /\ DiskTyped /\ made \in Nat /\ buf[s] \in Seq(Lines) /\ fd[s] \in Nat
  <2>1. SinkTyped /\ DiskTyped
    BY DEF Typed
  <2>2. made \in Nat
    BY <2>1 DEF DiskTyped
  <2>3. fd \in [Sinks -> 0..made] /\ buf \in [Sinks -> Seq(Lines)]
    BY <2>1 DEF SinkTyped
  <2>4. buf[s] \in Seq(Lines) /\ fd[s] \in 0..made
    BY <2>3
  <2> QED BY <2>1, <2>2, <2>4
<1>1. PICK m \in Nat, b \in Nat : m = Len(buf[s]) /\ b = sent[s]
  BY <1>0 DEF SinkTyped
<1>2. \A j \in 1..m : buf[s][j][2] \in Nat
  <2>1. \A j \in 1..m : buf[s][j] \in Lines
    BY <1>0, <1>1
  <2> QED BY <2>1 DEF Lines
<1>3. /\ \A j \in 1..m : buf[s][j][1] = s /\ buf[s][j][2] <= b
      /\ \A j, k \in 1..m : j < k => buf[s][j][2] < buf[s][k][2]
  BY <1>1 DEF Buffered
<1>4. ASSUME NEW j \in 1..Len(buf'[s])
      PROVE  \/ j \in 1..m /\ buf'[s][j] = buf[s][j]
             \/ j > m /\ j - m \in 1..n /\ buf'[s][j] = <<s, b + (j - m)>>
  <2>1. CASE buf'[s] = buf[s]
    BY <1>1, <2>1
  <2>2. CASE buf'[s] = buf[s] \o Line(s, n)
    <3> DEFINE x == buf[s]
    <3> DEFINE y == Line(s, n)
    <3>1. x \in Seq(Lines) /\ Len(x) = m /\ buf'[s] = x \o y
      BY <1>0, <1>1, <2>2
    <3>2. y \in Seq(Lines) /\ Len(y) = n /\ \A k \in 1..n : y[k] = <<s, b + k>>
      BY <1>0, <1>1, LineBytes
    <3> HIDE DEF x, y
    <3>3. /\ Len(x \o y) = m + n
          /\ \A k \in 1..m : (x \o y)[k] = x[k]
          /\ \A k \in 1..Len(x \o y) : k > m => k - m \in 1..n /\ (x \o y)[k] = y[k - m]
      BY <3>1, <3>2, Joined
    <3>4. j \in 1..Len(x \o y) /\ (j \in 1..m \/ j > m)
      BY <3>1, <3>3
    <3>5. CASE j \in 1..m
      <4>1. buf'[s][j] = x[j]
        BY <3>1, <3>3, <3>5
      <4> QED BY <3>5, <4>1 DEF x
    <3>6. CASE j > m
      <4>1. j - m \in 1..n /\ buf'[s][j] = y[j - m]
        BY <3>1, <3>3, <3>4, <3>6
      <4> QED BY <3>2, <3>6, <4>1
    <3> QED BY <3>4, <3>5, <3>6
  <2> QED BY <2>1, <2>2
<1>5. ASSUME NEW j \in 1..Len(buf'[s])
      PROVE  buf'[s][j][1] = s /\ buf'[s][j][2] \in Nat /\ buf'[s][j][2] <= b + n
  <2>1. CASE j \in 1..m /\ buf'[s][j] = buf[s][j]
    <3>1. PICK v \in Nat : v = buf[s][j][2] /\ v <= b
      BY <1>2, <1>3, <2>1
    <3>2. v <= b + n
      BY <3>1
    <3> QED BY <1>3, <2>1, <3>1, <3>2
  <2>2. CASE j - m \in 1..n /\ buf'[s][j] = <<s, b + (j - m)>>
    <3>1. PICK d \in Nat : d = j - m /\ d <= n
      BY <2>2
    <3> QED BY <2>2, <3>1
  <2> QED BY <1>4, <2>1, <2>2
<1>6. ASSUME NEW j \in 1..Len(buf'[s]), NEW k \in 1..Len(buf'[s]), j < k
      PROVE  buf'[s][j][2] < buf'[s][k][2]
  <2>1. CASE k \in 1..m /\ buf'[s][k] = buf[s][k]
    <3>1. j \in 1..m /\ ~(j > m)
      BY <1>6, <2>1
    <3> QED BY <1>3, <1>4, <1>6, <2>1, <3>1
  <2>2. CASE k > m /\ k - m \in 1..n /\ buf'[s][k] = <<s, b + (k - m)>>
    <3>1. CASE j \in 1..m /\ buf'[s][j] = buf[s][j]
      <4>1. PICK v \in Nat : v = buf[s][j][2] /\ v <= b
        BY <1>2, <1>3, <3>1
      <4>2. v < b + (k - m)
        BY <2>2, <4>1
      <4> QED BY <2>2, <3>1, <4>1, <4>2
    <3>2. CASE j > m /\ j - m \in 1..n /\ buf'[s][j] = <<s, b + (j - m)>>
      <4>1. b + (j - m) < b + (k - m)
        BY <1>6, <2>2, <3>2
      <4> QED BY <2>2, <3>2, <4>1
    <3> QED BY <1>4, <3>1, <3>2
  <2> QED BY <1>4, <2>1, <2>2
<1>7. Buffered(s)'
  BY <1>1, <1>5, <1>6 DEF Buffered
<1>8. Filed(s)'
  <2>1. ASSUME NEW f \in 1..made', NEW k \in 1..Len(file'[f]), file'[f][k][1] = s
        PROVE  /\ file'[f][k][2] <= sent'[s]
               /\ fd'[s] # None => f <= fd'[s]
               /\ \A j \in 1..Len(buf'[s]) : file'[f][k][2] < buf'[s][j][2]
    <3>1. f \in 1..made /\ k \in 1..Len(file[f]) /\ file'[f][k] = file[f][k]
      BY <2>1 DEF NoNewLines
    <3>2. file[f][k] \in Lines
      BY <1>0, <3>1 DEF DiskTyped
    <3>3. file[f][k][2] \in Nat
      BY <3>2 DEF Lines
    <3>4. /\ file[f][k][2] <= b /\ (fd[s] # None => f <= fd[s])
          /\ \A j \in 1..m : file[f][k][2] < buf[s][j][2]
      BY <1>1, <2>1, <3>1 DEF Filed
    <3>5. PICK v \in Nat : v = file'[f][k][2] /\ v <= b
      BY <3>1, <3>3, <3>4
    <3>6. v <= sent'[s]
      BY <1>1, <3>5
    <3>7. fd'[s] # None => f <= fd'[s]
      BY <1>0, <3>1, <3>4
    <3>8. ASSUME NEW j \in 1..Len(buf'[s]) PROVE v < buf'[s][j][2]
      <4>1. CASE j \in 1..m /\ buf'[s][j] = buf[s][j]
        BY <3>1, <3>4, <3>5, <4>1
      <4>2. CASE j > m /\ j - m \in 1..n /\ buf'[s][j] = <<s, b + (j - m)>>
        <5>1. v < b + (j - m)
          BY <3>5, <4>2
        <5> QED BY <4>2, <5>1
      <4> QED BY <1>4, <4>1, <4>2
    <3> QED BY <3>5, <3>6, <3>7, <3>8
  <2> QED BY <2>1 DEF Filed
<1> QED BY <1>7, <1>8

LEMMA LinesOrderedStep == Typed /\ LinesOrdered /\ [Next]_vars => LinesOrdered'
<1> SUFFICES ASSUME Typed, LinesOrdered, [Next]_vars PROVE LinesOrdered'
  OBVIOUS
<1> USE DEF ghost, disk, Goto
<1>0. /\ Sorted /\ \A t \in Sinks : Filed(t) /\ Buffered(t)
      /\ SinkTyped /\ DiskTyped /\ turns \in Nat /\ made \in Nat
  BY DEF Typed, DiskTyped, LinesOrdered
\* A step of s that writes to no file and leaves the other sink alone.
<1>1. ASSUME NEW s \in Sinks, NoNewLines, Filed(s)' /\ Buffered(s)',
             \A t \in Sinks : t # s => fd'[t] = fd[t] /\ buf'[t] = buf[t] /\ sent'[t] = sent[t]
      PROVE  LinesOrdered'
  <2>1. Sorted'
    BY <1>0, <1>1, SortedKept
  <2>2. \A t \in Sinks : NoNewLinesOf(t)
    BY <1>1 DEF NoNewLines, NoNewLinesOf
  <2>3. ASSUME NEW t \in Sinks, t # s PROVE Filed(t)' /\ Buffered(t)'
    BY <1>0, <1>1, <2>2, <2>3, OtherFiled
  <2> QED BY <1>1, <2>1, <2>3 DEF LinesOrdered
\* A step that moves no line at all.
<1>2. ASSUME NEW s \in Sinks, NoNewLines, UNCHANGED <<fd, buf, sent>> PROVE LinesOrdered'
  <2>1. NoNewLinesOf(s)
    BY <1>2 DEF NoNewLines, NoNewLinesOf
  <2>2. Filed(s)' /\ Buffered(s)'
    BY <1>0, <1>2, <2>1, OtherFiled
  <2> QED BY <1>1, <1>2, <2>2
<1>3. ASSUME UNCHANGED <<file, made>> PROVE NoNewLines
  BY <1>3 DEF NoNewLines
<1>4. ASSUME NEW s \in Sinks, Exists(s) \/ RemoveTarget(s) \/ RenameSource(s) \/ RenameFails(s)
      PROVE  LinesOrdered'
  <2>1. UNCHANGED <<fd, buf, sent, file, made>>
    BY <1>4 DEF Exists, RemoveTarget, RenameSource, RenameFails
  <2> QED BY <1>2, <1>3, <2>1
<1>5. ASSUME NEW s \in Sinks, Truncate(s) PROVE LinesOrdered'
  <2>1. NoNewLines
    BY <1>5, FopenStep, FopenLines
  <2>2. UNCHANGED <<fd, buf, sent>>
    BY <1>5 DEF Truncate
  <2> QED BY <1>2, <2>1, <2>2
<1>6. ASSUME NEW s \in Sinks, OpenSink(s) \/ Reopen(s) PROVE LinesOrdered'
  <2>1. NoNewLines /\ made' >= made
    BY <1>6, FopenStep, FopenLines
  <2>2. Opened = made' /\ made' \in Nat
    <3>1. PICK lines \in Seq(Lines) : Fopen(lines)
      BY <1>6, FopenStep
    <3>2. Opened = made' /\ DiskTyped'
      BY <1>0, <3>1, FopenEffect
    <3> QED BY <3>2 DEF DiskTyped
  <2>3. /\ fd'[s] = made'
        /\ \A t \in Sinks : t # s => fd'[t] = fd[t]
    BY <1>0, <1>6, <2>2 DEF OpenSink, Reopen, SinkTyped
  <2>4. \E n \in Nat : /\ sent' = [sent EXCEPT ![s] = @ + n]
                       /\ buf' = buf \/ buf' = [buf EXCEPT ![s] = @ \o Line(s, n)]
    <3>1. CASE OpenSink(s)
      <4>1. sent' = [sent EXCEPT ![s] = @ + 0] /\ buf' = buf
        BY <1>0, <3>1 DEF OpenSink, SinkTyped
      <4> QED BY <4>1
    <3>2. CASE Reopen(s)
      <4>1. len[s] \in Nat
        BY <1>0, Limits DEF SinkTyped
      <4>2. /\ sent' = [sent EXCEPT ![s] = @ + len[s]]
            /\ buf' = buf \/ buf' = [buf EXCEPT ![s] = @ \o Line(s, len[s])]
        BY <3>2 DEF Reopen, Write
      <4> QED BY <4>1, <4>2
    <3> QED BY <1>6, <3>1, <3>2
  <2>5. PICK n \in Nat : /\ sent' = [sent EXCEPT ![s] = @ + n]
                         /\ buf' = buf \/ buf' = [buf EXCEPT ![s] = @ \o Line(s, n)]
    BY <2>4
  <2>6. /\ sent'[s] = sent[s] + n /\ (buf'[s] = buf[s] \/ buf'[s] = buf[s] \o Line(s, n))
        /\ \A t \in Sinks : t # s => buf'[t] = buf[t] /\ sent'[t] = sent[t]
    BY <1>0, <2>5 DEF SinkTyped
  <2>7. Filed(s)' /\ Buffered(s)'
    BY <1>0, <2>1, <2>2, <2>3, <2>6, WriteOrdered
  <2> QED BY <1>1, <2>1, <2>3, <2>6, <2>7
<1>7. ASSUME NEW s \in Sinks, NEW n \in Lengths, WriteLine(s, n) \/ WriteEmpty(s, n)
      PROVE  LinesOrdered'
  <2>1. /\ sent' = [sent EXCEPT ![s] = @ + n] /\ buf' = [buf EXCEPT ![s] = @ \o Line(s, n)]
        /\ UNCHANGED <<file, made, fd>>
    BY <1>7 DEF WriteLine, WriteEmpty, Write
  <2>2. /\ sent'[s] = sent[s] + n /\ buf'[s] = buf[s] \o Line(s, n) /\ n \in Nat
        /\ \A t \in Sinks : t # s => buf'[t] = buf[t] /\ sent'[t] = sent[t]
    BY <1>0, <2>1, Limits DEF SinkTyped
  <2>3. NoNewLines
    BY <1>3, <2>1
  <2>4. Filed(s)' /\ Buffered(s)'
    BY <1>0, <2>1, <2>2, <2>3, WriteOrdered
  <2> QED BY <1>1, <2>1, <2>2, <2>3, <2>4
<1>8. ASSUME NEW s \in Sinks, pc[s] = "idle", file' = Flushed(s), made' = made,
             buf' = [buf EXCEPT ![s] = <<>>], fd'[s] \in {None, fd[s]}, sent' = sent,
             \A t \in Sinks : t # s => fd'[t] = fd[t]
      PROVE  LinesOrdered'
  <2>1. buf'[s] = <<>> /\ \A t \in Sinks : t # s => buf'[t] = buf[t]
    BY <1>0, <1>8 DEF SinkTyped
  <2>2. Sorted'
    BY <1>0, <1>8, FlushSorted
  <2>3. Filed(s)' /\ Buffered(s)' /\ \A t \in Sinks : t # s => NoNewLinesOf(t)
    BY <1>0, <1>8, <2>1, FlushFiled
  <2>4. ASSUME NEW t \in Sinks, t # s PROVE Filed(t)' /\ Buffered(t)'
    BY <1>0, <1>8, <2>1, <2>3, <2>4, OtherFiled
  <2> QED BY <2>2, <2>3, <2>4 DEF LinesOrdered
<1>9. ASSUME NEW s \in Sinks, Flush(s) PROVE LinesOrdered'
  <2>1. /\ pc[s] = "idle" /\ file' = Flushed(s) /\ buf' = [buf EXCEPT ![s] = <<>>]
        /\ UNCHANGED <<made, fd, sent>>
    BY <1>9 DEF Flush
  <2> QED BY <1>8, <2>1
<1>10. ASSUME NEW s \in Sinks, NEW n \in Lengths, Rotate(s, n) PROVE LinesOrdered'
  <2>1. /\ pc[s] = "idle" /\ file' = Flushed(s)
        /\ buf' = [buf EXCEPT ![s] = <<>>] /\ fd' = [fd EXCEPT ![s] = None]
        /\ UNCHANGED <<made, sent>>
    BY <1>10 DEF Rotate, Sink
  <2>2. fd'[s] = None /\ \A t \in Sinks : t # s => fd'[t] = fd[t]
    BY <1>0, <2>1 DEF SinkTyped
  <2> QED BY <1>8, <2>1, <2>2
<1>11. ASSUME Bound \/ UNCHANGED vars PROVE LinesOrdered'
  <2>1. UNCHANGED <<file, made, fd, buf, sent>>
    BY <1>11 DEF Bound, vars
  <2> QED BY <1>0, <2>1 DEF LinesOrdered, Sorted, Filed, Buffered
<1> QED
  BY <1>4, <1>5, <1>6, <1>7, <1>9, <1>10, <1>11 DEF Next

\* A file that has a name holds the bytes of every logger in order, and so do
\* the files together, read from the oldest name to the newest: rotate_ moves
\* names only, and a sink appends to the newest file it has seen.
THEOREM LinesInOrder == Spec => []Ordered
<1>1. Init => DirOrdered
  <2> SUFFICES ASSUME Init PROVE DirOrdered
    OBVIOUS
  <2>1. made \in Nat /\ dir = [n \in Names |-> IF n < made THEN made - n ELSE None]
    BY OldFiles
  <2>2. ASSUME NEW a \in Names, NEW b \in Names, a > b, dir[a] # None, dir[b] # None
        PROVE  dir[a] < dir[b]
    <3>1. dir[a] = made - a /\ dir[b] = made - b
      BY <2>1, <2>2
    <3>2. PICK x \in Nat, y \in Nat : x = a /\ y = b /\ x > y
      BY <2>2, Zero
    <3>3. made - x < made - y
      BY <2>1, <3>2
    <3> QED BY <3>1, <3>2, <3>3
  <2> QED BY <2>2 DEF DirOrdered
<1>2. Typed /\ DirOrdered /\ LinesOrdered => Ordered
  <2> SUFFICES ASSUME Typed, DirOrdered, LinesOrdered,
                      NEW a \in Names, NEW b \in Names, dir[a] # None, dir[b] # None,
                      NEW j \in 1..Len(file[dir[a]]), NEW k \in 1..Len(file[dir[b]]),
                      file[dir[a]][j][1] = file[dir[b]][k][1], a > b \/ (a = b /\ j < k)
               PROVE  file[dir[a]][j][2] < file[dir[b]][k][2]
    BY DEF Ordered
  <2>1. dir[a] \in 1..made /\ dir[b] \in 1..made
    BY DEF Typed, DiskTyped, None
  <2>2. dir[a] < dir[b] \/ (dir[a] = dir[b] /\ j < k)
    BY DEF DirOrdered
  <2> QED BY <2>1, <2>2 DEF LinesOrdered, Sorted
<1> QED
  BY <1>1, <1>2, TypedInit, TypedStep, DirOrderedStep, LinesOrderedInit, LinesOrderedStep, PTL DEF Spec

-----------------------------------------------------------------------------
(* Rotations that do not overlap. *)

LEMMA UnclashedInit == Init => Unclashed
<1> SUFFICES ASSUME Init PROVE Alone /\ Placed
  BY DEF Unclashed
<1>1. \A s \in Sinks : pc[s] = "closed"
  BY DEF Init
<1>2. Alone
  BY <1>1 DEF Alone, Steady, Rotating
<1>3. Settled
  <2>1. PICK o \in Old :
           /\ made \in Nat \ {0} /\ made <= MaxFiles + 1
           /\ \A j \in 1..made : born[j] = j - made
           /\ dir = [n \in Names |-> IF n < made THEN made - n ELSE None]
    BY OldFiles
  <2>2. turns = 0
    BY DEF Init
  <2>3. ASSUME NEW f \in 1..made PROVE Age(f) >= 0 /\ dir[Age(f)] = f
    <3>1. Age(f) = made - f
      BY <2>1, <2>2 DEF Age
    <3>2. made - f \in Names /\ made - f < made /\ made - f >= 0 /\ made - (made - f) = f
      BY <2>1, LogAssumption DEF Names
    <3> QED BY <2>1, <3>1, <3>2
  <2> QED BY <2>3 DEF Settled
<1> QED BY <1>1, <1>2, <1>3 DEF Placed, Shifting

LEMMA UnclashedStep == Typed /\ Unclashed /\ [Next]_vars => Unclashed'
<1> SUFFICES ASSUME Typed, Unclashed, [Next]_vars, ~clash' PROVE Alone' /\ Placed'
  BY DEF Unclashed
<1> USE DEF ghost, disk, Goto
<1>0. /\ SinkTyped /\ DiskTyped /\ turns \in Nat /\ made \in Nat /\ dir \in [Names -> 0..made]
      /\ pc \in [Sinks -> Places] /\ i \in [Sinks -> Names]
      /\ \A f \in 1..made : born[f] \in Int
  <2>1. born \in Seq(Int) /\ Len(born) = made
    BY DEF Typed, DiskTyped
  <2>2. \A f \in 1..made : born[f] \in Int
    BY <2>1
  <2> QED BY <2>2 DEF Typed, DiskTyped, SinkTyped
<1>1. ~clash
  BY DEF Next, vars, OpenSink, WriteLine, WriteEmpty, Rotate, Exists, RemoveTarget, RenameSource,
         RenameFails, Truncate, Reopen, Flush, Bound
<1>2. /\ \A s, t \in Sinks : Rotating(s) /\ Rotating(t) => s = t
      /\ \A s \in Sinks : Steady(s)
      /\ (\A s \in Sinks : ~Shifting(s)) => Settled
      /\ \A s \in Sinks : Shifting(s) => ShiftedDownTo(i[s])
  BY <1>1 DEF Unclashed, Alone, Placed
<1>3. \A s \in Sinks : Shifting(s) => Rotating(s)
  BY DEF Shifting, Rotating
\* After a step that leaves nobody in a rotation.
<1>4. ASSUME \A t \in Sinks : ~Rotating(t)', Settled' PROVE Alone' /\ Placed'
  BY <1>4 DEF Alone, Steady, Placed, Rotating, Shifting
\* After a step of s that leaves s alone in a rotation.
<1>5. ASSUME NEW s \in Sinks, \A t \in Sinks : t # s => ~Rotating(t)', Steady(s)',
             IF Shifting(s)' THEN ShiftedDownTo(i[s])' ELSE Settled'
      PROVE  Alone' /\ Placed'
  <2>1. \A t \in Sinks : t # s => Steady(t)' /\ ~Shifting(t)'
    BY <1>5 DEF Steady, Rotating, Shifting
  <2> QED BY <1>5, <2>1 DEF Alone, Placed
<1>6. ASSUME NEW s \in Sinks, Rotating(s), \A t \in Sinks : t # s => pc'[t] = pc[t]
      PROVE  \A t \in Sinks : t # s => ~Rotating(t)' /\ ~Shifting(t)
  BY <1>2, <1>3, <1>6 DEF Rotating
<1>7. CASE UNCHANGED <<dir, made, born, turns, pc, i>>
  BY <1>1, <1>7 DEF Unclashed, Alone, Steady, Placed, Rotating, Shifting, Settled, ShiftedDownTo, Age
\* fopen, while nobody renames.
<1>8. ASSUME NEW lines \in Seq(Lines), Fopen(lines), turns' = turns, Settled PROVE Settled'
  <2>1. /\ dir'[0] = made' /\ \A n \in Names \ {0} : dir'[n] = dir[n]
        /\ made' = IF dir[0] = None THEN made + 1 ELSE made
        /\ \A f \in 1..made : born'[f] = born[f]
        /\ dir[0] = None => born'[made'] = turns
        /\ dir[0] \in {None, made}
    BY <1>0, <1>8, FopenEffect DEF DiskTyped
  <2>2. ASSUME NEW f \in 1..made PROVE Age(f)' >= 0 /\ (Age(f)' <= MaxFiles => dir'[Age(f)'] = f)
    <3>1. Age(f)' = Age(f) /\ Age(f) \in Int /\ Age(f) >= 0 /\ (Age(f) <= MaxFiles => dir[Age(f)] = f)
      BY <1>0, <1>8, <2>1 DEF Settled, Age
    <3>2. ASSUME Age(f) <= MaxFiles PROVE dir'[Age(f)] = f
      <4>1. Age(f) \in Names
        BY <3>1, <3>2, LogAssumption DEF Names
      <4>2. CASE Age(f) = 0
        BY <2>1, <3>1, <3>2, <4>2 DEF None
      <4>3. CASE Age(f) # 0
        BY <2>1, <3>1, <3>2, <4>1, <4>3
      <4> QED BY <4>2, <4>3
    <3> QED BY <3>1, <3>2
  <2>3. CASE dir[0] = None
    <3>1. PICK new \in Nat : new = made' /\ new = made + 1
      BY <1>0, <2>1, <2>3
    <3>2. Age(new)' = 0 /\ dir'[0] = new
      BY <1>0, <1>8, <2>1, <2>3, <3>1 DEF Age
    <3>3. Age(new)' >= 0 /\ (Age(new)' <= MaxFiles => dir'[Age(new)'] = new)
      BY <3>2
    <3>4. \A f \in 1..made' : f \in 1..made \/ f = new
      BY <1>0, <3>1
    <3> QED BY <2>2, <3>3, <3>4 DEF Settled
  <2>4. CASE dir[0] # None
    BY <2>1, <2>2, <2>4 DEF Settled
  <2> QED BY <2>3, <2>4
<1>9. ASSUME NEW s \in Sinks, OpenSink(s) PROVE Alone' /\ Placed'
  <2>1. \A t \in Sinks : ~Rotating(t) /\ ~Rotating(t)'
    BY <1>0, <1>9 DEF OpenSink, Rotating, SinkTyped, Sinks
  <2>2. Settled
    BY <1>2, <1>3, <2>1
  <2>3. PICK lines \in Seq(Lines) : Fopen(lines)
    BY <1>9, FopenStep
  <2>4. turns' = turns
    BY <1>9 DEF OpenSink
  <2> QED BY <1>4, <1>8, <2>1, <2>2, <2>3, <2>4
<1>10. ASSUME NEW s \in Sinks, NEW n \in Lengths, Rotate(s, n) PROVE Alone' /\ Placed'
  <2>1. /\ pc[s] = "idle" /\ pc'[s] = "exists" /\ i'[s] = MaxFiles
        /\ \A t \in Sinks : t # s => pc'[t] = pc[t] /\ ~Rotating(t)
        /\ turns' = turns + 1 /\ UNCHANGED <<dir, made, born>>
    BY <1>0, <1>10 DEF Rotate, Rotating, Oldest, Sink
  <2>2. \A t \in Sinks : ~Rotating(t) /\ (t # s => ~Rotating(t)')
    BY <2>1 DEF Rotating
  <2>3. Settled
    BY <1>2, <1>3, <2>2
  <2>4. Steady(s)' /\ Shifting(s)'
    BY <2>1 DEF Steady, Shifting
  <2>5. ShiftedDownTo(i[s])'
    <3>1. ASSUME NEW f \in 1..made
          PROVE  /\ Age(f)' >= 1 /\ ~(Age(f)' > MaxFiles /\ Age(f)' <= MaxFiles)
                 /\ Age(f)' <= MaxFiles => dir[Age(f)' - 1] = f
      <4>1. Age(f) \in Int /\ Age(f)' = Age(f) + 1 /\ MaxFiles \in Nat
        BY <1>0, <2>1, LogAssumption DEF Age
      <4>2. Age(f) >= 0 /\ (Age(f) <= MaxFiles => dir[Age(f)] = f)
        BY <2>3 DEF Settled
      <4>3. Age(f)' - 1 = Age(f) /\ (Age(f)' <= MaxFiles => Age(f) <= MaxFiles)
            /\ Age(f)' >= 1 /\ ~(Age(f)' > MaxFiles /\ Age(f)' <= MaxFiles)
        BY <4>1, <4>2
      <4> QED BY <4>2, <4>3
    <3> QED BY <2>1, <3>1 DEF ShiftedDownTo
  <2> QED BY <1>5, <2>2, <2>4, <2>5
<1>11. ASSUME NEW s \in Sinks, Exists(s) PROVE Alone' /\ Placed'
  <2>1. /\ pc[s] = "exists" /\ Rotating(s) /\ Shifting(s) /\ i[s] \in Names /\ i[s] \in Nat
        /\ \A t \in Sinks : t # s => pc'[t] = pc[t]
        /\ UNCHANGED <<dir, made, born, turns>>
    BY <1>0, <1>11, Zero DEF Exists, Rotating, Shifting
  <2>2. ShiftedDownTo(i[s]) /\ (i[s] = MaxFiles \/ dir[i[s]] = None)
    BY <1>2, <2>1 DEF Steady
  <2>3. CASE i'[s] = i[s] /\ Shifting(s)' /\ Steady(s)'
    <3>1. ShiftedDownTo(i[s])'
      BY <2>1, <2>2, <2>3 DEF ShiftedDownTo, Age
    <3> QED BY <1>5, <1>6, <2>1, <2>3, <3>1
  <2>4. CASE i[s] = 0
    <3>1. i' = i /\ pc'[s] = "truncate"
      BY <1>0, <1>11, <2>4 DEF Exists, LoopEnds
    <3>2. dir[0] = None
      BY <2>2, <2>4, LogAssumption
    <3> QED BY <2>1, <2>3, <2>4, <3>1, <3>2 DEF Shifting, Steady
  <2>5. CASE i[s] # 0 /\ dir[i[s] - 1] # None
    <3>1. i' = i /\ pc'[s] = "remove"
      BY <1>0, <1>11, <2>5 DEF Exists, LoopEnds
    <3> QED BY <2>1, <2>3, <2>5, <3>1 DEF Shifting, Steady
  <2>6. CASE i[s] # 0 /\ dir[i[s] - 1] = None
    <3>1. i'[s] = i[s] - 1 /\ pc' = pc
      BY <1>0, <1>11, <2>6 DEF Exists, LoopEnds
    <3>2. Shifting(s)' /\ Steady(s)'
      BY <2>1, <2>6, <3>1 DEF Shifting, Steady
    <3>3. ASSUME NEW f \in 1..made
          PROVE  /\ Age(f) >= 1
                 /\ Age(f) > i[s] - 1 /\ Age(f) <= MaxFiles => dir[Age(f)] = f
                 /\ Age(f) <= i[s] - 1 => dir[Age(f) - 1] = f
      <4>1. /\ Age(f) >= 1
            /\ Age(f) > i[s] /\ Age(f) <= MaxFiles => dir[Age(f)] = f
            /\ Age(f) <= i[s] => dir[Age(f) - 1] = f
        BY <2>2 DEF ShiftedDownTo
      <4>2. Age(f) \in Int /\ MaxFiles \in Nat
        BY <1>0, LogAssumption DEF Age
      <4>3. Age(f) # i[s]
        BY <2>1, <2>6, <4>1 DEF None
      <4>4. /\ Age(f) > i[s] - 1 => Age(f) > i[s]
            /\ Age(f) <= i[s] - 1 => Age(f) <= i[s]
        BY <2>1, <4>2, <4>3
      <4> QED BY <4>1, <4>4
    <3>4. ShiftedDownTo(i[s])'
      BY <2>1, <3>1, <3>3 DEF ShiftedDownTo, Age
    <3> QED BY <1>5, <1>6, <2>1, <3>2, <3>4
  <2> QED BY <2>4, <2>5, <2>6
<1>12. ASSUME NEW s \in Sinks, RemoveTarget(s) PROVE Alone' /\ Placed'
  <2>1. /\ pc[s] = "remove" /\ Rotating(s) /\ Shifting(s) /\ dir[i[s] - 1] # None
    BY <1>2, <1>12 DEF RemoveTarget, Steady, Rotating, Shifting
  <2>2. i[s] \in Names /\ i[s] \in Nat /\ i[s] > 0 /\ i[s] - 1 \in Names
    <3>1. i[s] \in Names /\ i[s] > 0
      BY <1>0, <2>1 DEF SinkTyped, Renaming
    <3> QED BY <3>1, LogAssumption DEF Names
  <2>3. /\ pc'[s] = "rename" /\ \A t \in Sinks : t # s => pc'[t] = pc[t]
        /\ UNCHANGED <<made, born, turns, i>>
        /\ \A n \in Names : n # i[s] => dir'[n] = dir[n]
    BY <1>0, <1>12, <2>1 DEF RemoveTarget
  <2>4. Shifting(s)' /\ Steady(s)'
    BY <2>1, <2>2, <2>3 DEF Shifting, Steady
  <2>5. ShiftedDownTo(i[s])'
    <3>1. ASSUME NEW f \in 1..made
          PROVE  /\ Age(f) >= 1
                 /\ Age(f) > i[s] /\ Age(f) <= MaxFiles => dir'[Age(f)] = f
                 /\ Age(f) <= i[s] => dir'[Age(f) - 1] = f
      <4>1. /\ Age(f) >= 1
            /\ Age(f) > i[s] /\ Age(f) <= MaxFiles => dir[Age(f)] = f
            /\ Age(f) <= i[s] => dir[Age(f) - 1] = f
        BY <1>2, <2>1 DEF ShiftedDownTo
      <4>2. Age(f) \in Int
        BY <1>0 DEF Age
      <4>3. /\ Age(f) > i[s] /\ Age(f) <= MaxFiles => Age(f) \in Names /\ Age(f) # i[s]
            /\ Age(f) <= i[s] => Age(f) - 1 \in Names /\ Age(f) - 1 # i[s]
        BY <2>2, <4>1, <4>2, LogAssumption DEF Names
      <4> QED BY <2>3, <4>1, <4>3
    <3> QED BY <2>3, <3>1 DEF ShiftedDownTo, Age
  <2> QED BY <1>5, <1>6, <2>1, <2>3, <2>4, <2>5
<1>13. ASSUME NEW s \in Sinks, RenameSource(s) PROVE Alone' /\ Placed'
  <2>1. /\ i[s] \in Nat /\ i[s] > 0 /\ i[s] \in Names /\ i[s] - 1 \in Names
        /\ dir' = [n \in Names |-> IF n = i[s] - 1 THEN None
                                   ELSE IF n = i[s] THEN dir[i[s] - 1] ELSE dir[n]]
    BY <1>13, RenameEffect
  <2>2. Rotating(s) /\ Shifting(s)
    BY <1>2, <1>13 DEF RenameSource, Steady, Rotating, Shifting
  <2>3. /\ pc'[s] = "exists" /\ \A t \in Sinks : t # s => pc'[t] = pc[t]
        /\ i'[s] = i[s] - 1 /\ UNCHANGED <<made, born, turns>>
    BY <1>0, <1>13 DEF RenameSource
  <2>4. Shifting(s)' /\ Steady(s)'
    BY <2>1, <2>3 DEF Shifting, Steady
  <2>5. ShiftedDownTo(i[s])'
    <3>1. ASSUME NEW f \in 1..made
          PROVE  /\ Age(f) >= 1
                 /\ Age(f) > i[s] - 1 /\ Age(f) <= MaxFiles => dir'[Age(f)] = f
                 /\ Age(f) <= i[s] - 1 => dir'[Age(f) - 1] = f
      <4>1. /\ Age(f) >= 1
            /\ Age(f) > i[s] /\ Age(f) <= MaxFiles => dir[Age(f)] = f
            /\ Age(f) <= i[s] => dir[Age(f) - 1] = f
        BY <1>2, <2>2 DEF ShiftedDownTo
      <4>2. PICK a \in Int : a = Age(f)
        BY <1>0 DEF Age
      <4>3. ASSUME a = i[s] PROVE dir'[a] = f
        <5>1. dir[a - 1] = f
          BY <2>1, <4>1, <4>2, <4>3
        <5> QED BY <2>1, <4>3, <5>1
      <4>4. ASSUME a > i[s], a <= MaxFiles PROVE dir'[a] = f
        <5>1. a \in Names /\ a # i[s] /\ a # i[s] - 1
          BY <2>1, <4>4, LogAssumption DEF Names
        <5> QED BY <2>1, <4>1, <4>2, <4>4, <5>1
      <4>5. ASSUME a <= i[s] - 1 PROVE dir'[a - 1] = f
        <5>1. a - 1 \in Names /\ a - 1 # i[s] /\ a - 1 # i[s] - 1 /\ a <= i[s]
          BY <2>1, <4>1, <4>2, <4>5, LogAssumption DEF Names
        <5> QED BY <2>1, <4>1, <4>2, <5>1
      <4>6. a > i[s] - 1 => a = i[s] \/ a > i[s]
        BY <2>1
      <4> QED BY <4>1, <4>2, <4>3, <4>4, <4>5, <4>6
    <3> QED BY <2>3, <3>1 DEF ShiftedDownTo, Age
  <2> QED BY <1>5, <1>6, <2>2, <2>3, <2>4, <2>5
<1>14. ASSUME NEW s \in Sinks, RenameFails(s) PROVE FALSE
  BY <1>2, <1>14 DEF RenameFails, Steady
<1>15. ASSUME NEW s \in Sinks, Truncate(s) PROVE Alone' /\ Placed'
  <2>1. /\ pc[s] = "truncate" /\ Rotating(s) /\ Shifting(s) /\ i[s] = 0 /\ dir[0] = None
    BY <1>2, <1>15 DEF Truncate, Steady, Rotating, Shifting
  <2>2. /\ pc'[s] = "append" /\ \A t \in Sinks : t # s => pc'[t] = pc[t]
        /\ turns' = turns
    BY <1>0, <1>15, <2>1 DEF Truncate
  <2>3. Settled
    <3>1. ShiftedDownTo(0)
      BY <1>2, <2>1
    <3>2. ASSUME NEW f \in 1..made PROVE Age(f) >= 0 /\ (Age(f) <= MaxFiles => dir[Age(f)] = f)
      <4>1. Age(f) >= 1 /\ (Age(f) > 0 /\ Age(f) <= MaxFiles => dir[Age(f)] = f)
        BY <3>1 DEF ShiftedDownTo
      <4>2. Age(f) \in Int
        BY <1>0 DEF Age
      <4> QED BY <4>1, <4>2
    <3> QED BY <3>2 DEF Settled
  <2>4. PICK lines \in Seq(Lines) : Fopen(lines)
    BY <1>15, FopenStep
  <2>5. Settled'
    BY <1>8, <2>2, <2>3, <2>4
  <2>6. dir'[0] # None
    <3>1. dir'[0] = made' /\ DiskTyped'
      BY <1>0, <2>4, FopenEffect
    <3> QED BY <3>1 DEF DiskTyped, None
  <2>7. Steady(s)' /\ ~Shifting(s)'
    BY <2>2, <2>6 DEF Steady, Shifting
  <2> QED BY <1>5, <1>6, <2>1, <2>2, <2>5, <2>7
<1>16. ASSUME NEW s \in Sinks, Reopen(s) PROVE Alone' /\ Placed'
  <2>1. Rotating(s) /\ ~Shifting(s)
    BY <1>16 DEF Reopen, Rotating, Shifting
  <2>2. /\ pc'[s] = "idle" /\ (\A t \in Sinks : t # s => pc'[t] = pc[t])
        /\ turns' = turns
    BY <1>0, <1>16 DEF Reopen
  <2>3. \A t \in Sinks : ~Rotating(t)' /\ ~Shifting(t)
    BY <1>6, <2>1, <2>2 DEF Rotating
  <2>4. PICK lines \in Seq(Lines) : Fopen(lines)
    BY <1>16, FopenStep
  <2> QED BY <1>2, <1>4, <1>8, <2>2, <2>3, <2>4
<1>17. ASSUME NEW s \in Sinks, NEW n \in Lengths, WriteLine(s, n) \/ WriteEmpty(s, n)
       PROVE  Alone' /\ Placed'
  BY <1>7, <1>17 DEF WriteLine, WriteEmpty
<1>19. ASSUME NEW s \in Sinks, Flush(s) PROVE Alone' /\ Placed'
  BY <1>7, <1>19 DEF Flush
<1>18. ASSUME Bound \/ UNCHANGED vars PROVE Alone' /\ Placed'
  BY <1>7, <1>18 DEF Bound, vars
<1> QED
  BY <1>9, <1>10, <1>11, <1>12, <1>13, <1>14, <1>15, <1>16, <1>17, <1>18, <1>19 DEF Next

\* While the rotations of the two sinks do not overlap, a file keeps a name for
\* max_files_ rotations: no rename of rotate_ fails and none takes the name of
\* a file that is younger.
THEOREM KeptByAge == Spec => []LostByAge
<1>1. Typed /\ Unclashed => LostByAge
  <2> SUFFICES ASSUME Typed, Unclashed, ~clash, NEW f \in 1..made, Age(f) <= MaxFiles
               PROVE  \E n \in Names : dir[n] = f
    BY DEF LostByAge, Age
  <2>0. Age(f) \in Int
    BY DEF Typed, DiskTyped, Age
  <2>1. CASE \A s \in Sinks : ~Shifting(s)
    <3>1. Age(f) >= 0 /\ dir[Age(f)] = f
      BY <2>1 DEF Unclashed, Placed, Settled
    <3> QED BY <2>0, <3>1, LogAssumption DEF Names
  <2>2. ASSUME NEW s \in Sinks, Shifting(s) PROVE \E n \in Names : dir[n] = f
    <3>1. /\ Age(f) >= 1 /\ i[s] \in Int
          /\ Age(f) > i[s] => dir[Age(f)] = f
          /\ Age(f) <= i[s] => dir[Age(f) - 1] = f
      BY <2>2, Zero DEF Unclashed, Placed, ShiftedDownTo, Typed, SinkTyped
    <3>2. Age(f) \in Names /\ Age(f) - 1 \in Names
      BY <2>0, <3>1, LogAssumption DEF Names
    <3> QED BY <2>0, <3>1, <3>2
  <2> QED BY <2>1, <2>2
<1> QED BY <1>1, TypedInit, TypedStep, UnclashedInit, UnclashedStep, PTL DEF Spec

LEMMA PrefixOfLonger ==
    ASSUME NEW S, NEW s \in Seq(S), NEW t \in Seq(S) PROVE IsPrefix(s, s \o t) /\ IsPrefix(s, s)
<1>1. Len(s) <= Len(s \o t) /\ Len(s) \in Nat
  OBVIOUS
<1>2. SubSeq(s, 1, Len(s)) = SubSeq(s \o t, 1, Len(s))
  OBVIOUS
<1> QED BY <1>1, <1>2 DEF IsPrefix

\* While the rotations of the two sinks do not overlap, the "wb" of reopen(true)
\* meets a free name, and no line that has reached a file is cut from it.
THEOREM NothingCut == Spec => OnlyGrows
<1>1. Typed /\ Unclashed /\ [Next]_vars
         => (~clash => \A f \in 1..made : IsPrefix(file[f], file'[f]))
  <2> SUFFICES ASSUME Typed, Unclashed, [Next]_vars, ~clash, NEW f \in 1..made
               PROVE  IsPrefix(file[f], file'[f])
    OBVIOUS
  <2> USE DEF ghost, disk
  <2>0. DiskTyped /\ turns \in Nat /\ file[f] \in Seq(Lines) /\ \A s \in Sinks : buf[s] \in Seq(Lines)
    BY DEF Typed, DiskTyped, SinkTyped
  <2>1. ASSUME file'[f] = file[f] PROVE IsPrefix(file[f], file'[f])
    BY <2>0, <2>1, PrefixOfLonger
  <2>2. ASSUME NEW s \in Sinks, pc[s] = "idle", file' = Flushed(s) PROVE IsPrefix(file[f], file'[f])
    <3>1. file'[f] = file[f] \/ file'[f] = file[f] \o buf[s]
      BY <2>2, FlushedEffect
    <3> QED BY <2>0, <2>1, <3>1, PrefixOfLonger
  <2>3. ASSUME NEW s \in Sinks, OpenSink(s) \/ Truncate(s) \/ Reopen(s) PROVE IsPrefix(file[f], file'[f])
    <3>1. PICK lines \in Seq(Lines) : /\ Fopen(lines) /\ (OpenSink(s) \/ Reopen(s) => lines = Contents)
      BY <2>3, FopenStep
    <3>2. /\ made' = IF dir[0] = None THEN made + 1 ELSE made
          /\ file'[made'] = lines /\ (f # made' => file'[f] = file[f])
          /\ dir[0] \in {None, made} /\ made \in Nat
      BY <2>0, <3>1, FopenEffect DEF DiskTyped
    <3>3. CASE dir[0] = None
      <4>1. f # made'
        BY <3>2, <3>3
      <4> QED BY <2>1, <3>2, <4>1
    <3>4. CASE dir[0] # None
      <4>1. ~Truncate(s)
        BY <3>4 DEF Unclashed, Alone, Steady, Truncate
      <4>2. lines = file[made]
        BY <2>3, <3>1, <3>2, <3>4, <4>1 DEF Contents
      <4> QED BY <2>1, <3>2, <3>4, <4>2
    <3> QED BY <3>3, <3>4
  <2>4. ASSUME NEW s \in Sinks, Flush(s) \/ \E n \in Lengths : Rotate(s, n)
        PROVE  IsPrefix(file[f], file'[f])
    BY <2>2, <2>4 DEF Rotate, Flush, Sink
  <2>5. ASSUME NEW s \in Sinks, \/ \E n \in Lengths : WriteLine(s, n) \/ WriteEmpty(s, n)
                                \/ Exists(s) \/ RemoveTarget(s) \/ RenameSource(s) \/ RenameFails(s)
        PROVE  IsPrefix(file[f], file'[f])
    BY <2>1, <2>5 DEF WriteLine, WriteEmpty, Exists, RemoveTarget, RenameSource, RenameFails
  <2>6. ASSUME Bound \/ UNCHANGED vars PROVE IsPrefix(file[f], file'[f])
    BY <2>1, <2>6 DEF Bound, vars
  <2> QED BY <2>3, <2>4, <2>5, <2>6 DEF Next
<1> QED
  BY <1>1, TypedInit, TypedStep, UnclashedInit, UnclashedStep, PTL DEF Spec, OnlyGrows

-----------------------------------------------------------------------------
(* The size of a file. *)

LEMMA Smaller ==
    /\ \A l, n, r \in Nat : (l + n) + 0 <= l + (n + r) /\ (l + n) + (0 + r) <= l + (n + r)
    /\ \A l, p1, p2, c1, c2, m \in Nat :
          p1 <= c1 /\ p2 <= c2 /\ l + c1 + c2 <= m => l + p1 + p2 <= m
OBVIOUS

LEMMA ClaimBounded ==
    ASSUME Typed, NEW s \in Sinks, Counted(s)
    PROVE  \A f : Claim(s, f) \in Nat /\ Claim(s, f) <= Limit
<1>1. PICK n \in Nat, m \in Nat : n = Len(buf[s]) /\ m = size[s]
  BY DEF Typed, SinkTyped
<1>2. MaxSize \in Nat /\ Limit \in Nat /\ MaxSize <= Limit /\ n <= Limit /\ n <= m
  BY <1>1, Limits DEF Counted
<1>3. Len(buf[s]) + Room(s) \in Nat /\ Len(buf[s]) + Room(s) <= Limit
  BY <1>1, <1>2 DEF Room
<1> QED BY <1>2, <1>3 DEF Claim

LEMMA SizedInit == Init => Sized
<1> SUFFICES ASSUME Init PROVE Sized
  OBVIOUS
<1>1. PICK o \in Old : /\ made \in Nat /\ made = Len(o)
                       /\ \A j \in 1..made : file[j] = OldFile(o, j)
  BY OldFiles
<1>2. Limit \in Nat
  BY Limits
<1>3. \A f \in 1..made : Len(file[f]) \in Nat /\ Len(file[f]) <= 2 * Limit
  BY <1>1, OldBytes
<1>4. \A s \in Sinks : fd[s] = 0 /\ Len(buf[s]) = 0 /\ size[s] = 0 /\ pc[s] = "closed"
  BY DEF Init, None
<1>5. \A s \in Sinks : (\A f \in 1..made : Claim(s, f) = 0) /\ Counted(s) /\ ~Reopening(s)
  <2>1. \A s \in Sinks : \A f \in 1..made : Claim(s, f) = 0
    BY <1>1, <1>4 DEF Claim
  <2>2. \A s \in Sinks : Counted(s)
    BY <1>2, <1>4 DEF Counted
  <2>3. \A s \in Sinks : ~Reopening(s)
    BY <1>4 DEF Reopening
  <2> QED BY <2>1, <2>2, <2>3
<1>6. Claimed
  BY <1>2, <1>3, <1>5 DEF Claimed
<1> QED BY <1>5, <1>6 DEF Sized, Roomy

LEMMA SizedStep == Typed /\ Sized /\ [Next]_vars => Sized'
<1> SUFFICES ASSUME Typed, Sized, [Next]_vars PROVE Sized'
  OBVIOUS
<1> USE DEF ghost, disk, Goto
<1>0. /\ SinkTyped /\ DiskTyped /\ turns \in Nat /\ made \in Nat /\ MaxSize \in Nat \ {0}
      /\ Limit \in Nat \ {0} /\ MaxSize <= Limit
      /\ dir \in [Names -> 0..made] /\ dir[0] \in {None, made} /\ None = 0 /\ 0 \in Names
  BY Limits, Zero DEF Typed, DiskTyped, None
<1>1. Typed'
  BY TypedStep
<1>2. (\A s \in Sinks : Counted(s)) /\ Claimed /\ Roomy
  BY DEF Sized
<1>3. \A f \in 1..made : Len(file[f]) \in Nat
  BY <1>0 DEF DiskTyped
<1>4. \A s \in Sinks : \A f : Claim(s, f) \in Nat /\ Claim(s, f) <= Limit
  BY <1>2, ClaimBounded
<1>5. ASSUME NEW t \in Sinks, fd'[t] = fd[t], buf'[t] = buf[t], size'[t] = size[t]
      PROVE  Counted(t)' /\ \A f : Claim(t, f)' = Claim(t, f)
  BY <1>2, <1>5 DEF Counted, Claim, Room
<1>a. (\A t \in Sinks : \A f : Claim(t, f)' \in Nat) /\ \A f \in 1..made' : Len(file'[f]) \in Nat
  <2>1. ASSUME NEW t \in Sinks PROVE \A f : Claim(t, f)' \in Nat
    <3>1. Len(buf'[t]) \in Nat /\ size'[t] \in Nat
      BY <1>1 DEF Typed, SinkTyped
    <3>2. Len(buf'[t]) + Room(t)' \in Nat
      BY <1>0, <3>1 DEF Room
    <3> QED BY <3>2 DEF Claim
  <2>2. \A f \in 1..made' : Len(file'[f]) \in Nat
    BY <1>1 DEF Typed, DiskTyped
  <2> QED BY <2>1, <2>2
\* There are two sinks: s and the other one.
<1>b. ASSUME NEW s \in Sinks,
             \A t \in Sinks : t # s => \A f \in 1..made' :
                Len(file'[f]) + Claim(s, f)' + Claim(t, f)' <= 2 * Limit
      PROVE  Claimed'
  <2>1. ASSUME NEW f \in 1..made', NEW r \in Sinks, NEW t \in Sinks, r # t
        PROVE  Len(file'[f]) + Claim(r, f)' + Claim(t, f)' <= 2 * Limit
    <3>1. r = s \/ t = s
      BY <2>1 DEF Sinks
    <3>2. CASE r = s
      BY <1>b, <2>1, <3>2
    <3>3. CASE t = s
      <4>1. Len(file'[f]) + Claim(s, f)' + Claim(r, f)' <= 2 * Limit
        BY <1>b, <2>1, <3>3
      <4>2. Claim(r, f)' \in Nat /\ Claim(s, f)' \in Nat /\ Len(file'[f]) \in Nat
        BY <1>a
      <4> QED BY <3>3, <4>1, <4>2
    <3> QED BY <3>1, <3>2, <3>3
  <2> QED BY <2>1 DEF Claimed
\* A step of a sink s that was not about to reopen and is not, and whose claim
\* grows by no more than the file gives up or stays within the limit.
<1>6. ASSUME NEW s \in Sinks, Counted(s)', ~Reopening(s)', made' = made, dir' = dir,
             \A t \in Sinks : t # s => /\ fd'[t] = fd[t] /\ buf'[t] = buf[t] /\ size'[t] = size[t]
                                       /\ pc'[t] = pc[t],
             \A f \in 1..made : \/ Len(file'[f]) + Claim(s, f)' <= Len(file[f]) + Claim(s, f)
                                \/ Len(file'[f]) + Claim(s, f)' <= Limit
      PROVE  Sized'
  <2>1. \A t \in Sinks : Counted(t)'
    BY <1>5, <1>6
  <2>2. ASSUME NEW t \in Sinks, t # s, NEW f \in 1..made
        PROVE  Len(file'[f]) + Claim(s, f)' + Claim(t, f)' <= 2 * Limit
    <3>1. Claim(t, f)' = Claim(t, f)
      BY <1>5, <1>6, <2>2
    <3>2. Len(file[f]) + Claim(s, f) + Claim(t, f) <= 2 * Limit
      BY <1>2, <2>2 DEF Claimed
    <3>3. PICK l \in Nat, m \in Nat, a \in Nat, b \in Nat, c \in Nat :
             /\ l = Len(file[f]) /\ m = Len(file'[f])
             /\ a = Claim(s, f) /\ b = Claim(s, f)' /\ c = Claim(t, f)
      BY <1>3, <1>4, <1>6, <1>a
    <3>4. (m + b <= l + a \/ m + b <= Limit) /\ l + a + c <= 2 * Limit /\ c <= Limit
      BY <1>4, <1>6, <3>2, <3>3
    <3>5. m + b + c <= 2 * Limit
      BY <1>0, <3>4
    <3> QED BY <3>1, <3>3, <3>5
  <2>3. Claimed'
    BY <1>6, <1>b, <2>2
  <2>4. Roomy'
    <3>1. ASSUME NEW r \in Sinks, NEW t \in Sinks, r # t, Reopening(r)', dir[0] # None
          PROVE  /\ Len(file'[dir[0]]) + Claim(t, dir[0])' <= Limit /\ ~Reopening(t)'
      <4>1. r # s /\ t = s
        BY <1>6, <3>1 DEF Sinks
      <4>2. Reopening(r) /\ dir[0] \in 1..made
        <5>1. dir[0] \in 1..made
          BY <1>0, <3>1 DEF DiskTyped
        <5>2. pc'[r] = pc[r]
          BY <1>6, <4>1
        <5> QED BY <3>1, <5>1, <5>2 DEF Reopening
      <4>3. Len(file[dir[0]]) + Claim(s, dir[0]) <= Limit
        BY <1>2, <3>1, <4>1, <4>2 DEF Roomy
      <4>4. PICK f \in 1..made : f = dir[0]
        BY <4>2
      <4>5. /\ Len(file[f]) \in Nat /\ Claim(s, f) \in Nat
            /\ Len(file'[f]) \in Nat /\ Claim(s, f)' \in Nat
        BY <1>3, <1>4, <1>6, <1>a
      <4>6. Len(file'[f]) + Claim(s, f)' <= Limit
        BY <1>0, <1>6, <4>3, <4>4, <4>5
      <4> QED BY <1>6, <4>1, <4>4, <4>6
    <3> QED BY <1>6, <3>1 DEF Roomy
  <2> QED BY <2>1, <2>3, <2>4 DEF Sized
\* A step that writes nothing.
<1>7. ASSUME UNCHANGED <<file, made, fd, buf, size>>, dir'[0] \in {None, dir[0]},
             \A t \in Sinks : Reopening(t)' <=> Reopening(t)
      PROVE  Sized'
  <2>1. \A t \in Sinks : Counted(t)' /\ \A f : Claim(t, f)' = Claim(t, f)
    BY <1>5, <1>7
  <2>2. Claimed'
    BY <1>2, <1>7, <2>1 DEF Claimed
  <2>3. Roomy'
    BY <1>2, <1>7, <2>1 DEF Roomy
  <2> QED BY <2>1, <2>2, <2>3 DEF Sized
<1>8. ASSUME NEW s \in Sinks, NEW x \in Lengths, WriteLine(s, x) \/ WriteEmpty(s, x) PROVE Sized'
  <2>0. x \in Nat /\ x <= Limit
    BY Limits
  <2>1. /\ pc[s] = "idle" /\ size' = [size EXCEPT ![s] = size[s] + x]
        /\ buf' = [buf EXCEPT ![s] = @ \o Line(s, x)]
        /\ UNCHANGED <<file, made, dir, fd, pc>>
    BY <1>8 DEF WriteLine, WriteEmpty, Write, Sink
  <2>2. PICK n \in Nat, m \in Nat : n = Len(buf[s]) /\ m = size[s]
    BY <1>0 DEF SinkTyped
  <2>3. Len(buf'[s]) = n + x /\ size'[s] = m + x
    <3>1. Line(s, x) \in Seq(Lines) /\ Len(Line(s, x)) = x
      BY <1>0, <2>0, LineBytes
    <3>2. buf'[s] = buf[s] \o Line(s, x) /\ buf[s] \in Seq(Lines)
      BY <1>0, <2>1 DEF SinkTyped
    <3>3. Len(buf'[s]) = n + x
      BY <2>2, <3>1, <3>2, Joined
    <3> QED BY <1>0, <2>1, <2>2, <3>3 DEF SinkTyped
  <2>4. n <= Limit /\ n <= m
    BY <1>2, <2>2 DEF Counted
  <2>5. \A t \in Sinks : t # s => /\ fd'[t] = fd[t] /\ buf'[t] = buf[t] /\ size'[t] = size[t]
                                  /\ pc'[t] = pc[t]
    BY <1>0, <2>1 DEF SinkTyped
  <2>6. ~Reopening(s)'
    BY <2>1 DEF Reopening
  <2>7. CASE m + x <= MaxSize
    <3>1. Counted(s)'
      BY <1>0, <2>0, <2>3, <2>4, <2>7 DEF Counted
    <3>2. Len(buf'[s]) + Room(s)' = Len(buf[s]) + Room(s)
      <4>1. Room(s) = MaxSize - m
        <5>1. CASE m < MaxSize
          BY <2>2, <5>1 DEF Room
        <5>2. CASE m = MaxSize
          BY <1>0, <2>2, <5>2 DEF Room
        <5> QED BY <1>0, <2>0, <2>7, <5>1, <5>2
      <4>2. Room(s)' = MaxSize - (m + x)
        <5>1. CASE m + x < MaxSize
          BY <2>3, <5>1 DEF Room
        <5>2. CASE m + x = MaxSize
          BY <1>0, <2>3, <5>2 DEF Room
        <5> QED BY <1>0, <2>0, <2>7, <5>1, <5>2
      <4>3. (n + x) + (MaxSize - (m + x)) = n + (MaxSize - m)
        BY <1>0, <2>0
      <4> QED BY <2>2, <2>3, <4>1, <4>2, <4>3
    <3>3. \A f \in 1..made : Claim(s, f)' = Claim(s, f)
      BY <2>1, <3>2 DEF Claim
    <3>4. \A f \in 1..made : Len(file'[f]) + Claim(s, f)' <= Len(file[f]) + Claim(s, f)
      BY <1>3, <1>4, <2>1, <3>3
    <3> QED BY <1>6, <2>1, <2>5, <2>6, <3>1, <3>4
  <2>8. CASE m + x > MaxSize
    <3>1. file[fd[s]] \o buf[s] = <<>> /\ fd[s] \in 1..made
      <4>1. ~WriteLine(s, x)
        <5>1. size[s] + x \in Nat /\ ~(size[s] + x <= MaxSize)
          BY <1>0, <2>0, <2>2, <2>8
        <5> QED BY <5>1 DEF WriteLine
      <4>2. Flushed(s)[fd[s]] = <<>>
        BY <1>8, <4>1 DEF WriteEmpty
      <4> QED BY <2>1, <4>2, FlushedEffect
    <3>2. Len(file[fd[s]]) = 0 /\ n = 0
      <4>1. PICK l \in Nat : l = Len(file[fd[s]])
        BY <1>3, <3>1
      <4>2. file[fd[s]] \in Seq(Lines) /\ buf[s] \in Seq(Lines)
        BY <1>0, <3>1 DEF DiskTyped, SinkTyped
      <4>3. Len(file[fd[s]] \o buf[s]) = l + n
        BY <2>2, <4>1, <4>2
      <4>4. l + n = 0
        BY <3>1, <4>3
      <4> QED BY <4>1, <4>4
    <3>3. Counted(s)'
      BY <1>0, <2>0, <2>3, <2>4, <3>2 DEF Counted
    <3>4. Len(buf'[s]) + Room(s)' = x
      BY <1>0, <2>0, <2>3, <2>8, <3>2 DEF Room
    <3>5. ASSUME NEW f \in 1..made
          PROVE  \/ Len(file'[f]) + Claim(s, f)' <= Len(file[f]) + Claim(s, f)
                 \/ Len(file'[f]) + Claim(s, f)' <= Limit
      <4>1. CASE f = fd[s]
        <5>1. Claim(s, f)' = x /\ Len(file'[f]) = 0
          BY <2>1, <3>2, <3>4, <4>1 DEF Claim
        <5> QED BY <1>0, <2>0, <5>1
      <4>2. CASE f # fd[s]
        <5>1. Claim(s, f)' = Claim(s, f) /\ Len(file'[f]) = Len(file[f])
          BY <2>1, <4>2 DEF Claim
        <5> QED BY <1>3, <1>4, <5>1
      <4> QED BY <4>1, <4>2
    <3> QED BY <1>6, <2>1, <2>5, <2>6, <3>3, <3>5
  <2> QED BY <1>0, <2>0, <2>7, <2>8
<1>9. ASSUME NEW s \in Sinks, Flush(s) \/ \E n \in Lengths : Rotate(s, n) PROVE Sized'
  <2>1. /\ pc[s] = "idle" /\ file' = Flushed(s) /\ buf' = [buf EXCEPT ![s] = <<>>]
        /\ pc' = pc \/ pc' = [pc EXCEPT ![s] = "exists"]
        /\ fd' = fd \/ fd' = [fd EXCEPT ![s] = None]
        /\ UNCHANGED <<made, dir, size>>
    BY <1>9 DEF Flush, Rotate, Sink
  <2>2. /\ Len(buf'[s]) = 0 /\ fd'[s] \in {fd[s], None} /\ ~Reopening(s)'
        /\ \A t \in Sinks : t # s => /\ fd'[t] = fd[t] /\ buf'[t] = buf[t] /\ size'[t] = size[t]
                                     /\ pc'[t] = pc[t]
    BY <1>0, <2>1 DEF SinkTyped, Reopening
  <2>3. Counted(s)'
    BY <1>0, <2>1, <2>2 DEF Counted, SinkTyped
  <2>4. PICK n \in Nat, r \in Nat : n = Len(buf[s]) /\ r = Room(s) /\ r = Room(s)'
    BY <1>0, <2>1 DEF SinkTyped, Room
  <2>5. ASSUME NEW f \in 1..made PROVE Len(file'[f]) + Claim(s, f)' <= Len(file[f]) + Claim(s, f)
    <3>1. PICK l \in Nat : l = Len(file[f])
      BY <1>3
    <3>2. CASE f = fd[s]
      <4>1. file'[f] = file[f] \o buf[s]
        BY <2>1, <3>2, FlushedEffect
      <4>2. file[f] \in Seq(Lines) /\ buf[s] \in Seq(Lines)
        BY <1>0 DEF DiskTyped, SinkTyped
      <4>3. Len(file'[f]) = l + n
        BY <2>4, <3>1, <4>1, <4>2
      <4>4. Claim(s, f) = n + r /\ Claim(s, f)' \in {0, 0 + r}
        BY <2>2, <2>4, <3>2 DEF Claim
      <4>5. (l + n) + 0 <= l + (n + r) /\ (l + n) + (0 + r) <= l + (n + r)
        BY Smaller
      <4> QED BY <3>1, <4>3, <4>4, <4>5
    <3>3. CASE f # fd[s]
      <4>1. file'[f] = file[f]
        BY <2>1, <3>3, FlushedEffect
      <4>2. Claim(s, f)' = 0 /\ Claim(s, f) = 0
        BY <1>0, <2>2, <3>3 DEF Claim
      <4> QED BY <3>1, <4>1, <4>2
    <3> QED BY <3>2, <3>3
  <2> QED BY <1>6, <2>1, <2>2, <2>3, <2>5
\* fopen leaves the other sink's claim on every file as it is.
<1>10. ASSUME NEW s \in Sinks, NEW t \in Sinks, t # s, OpenSink(s) \/ Truncate(s) \/ Reopen(s)
       PROVE  /\ fd'[t] = fd[t] /\ buf'[t] = buf[t] /\ size'[t] = size[t] /\ pc'[t] = pc[t]
              /\ Counted(t)' /\ \A f : Claim(t, f)' = Claim(t, f)
  <2>1. fd'[t] = fd[t] /\ buf'[t] = buf[t] /\ size'[t] = size[t] /\ pc'[t] = pc[t]
    BY <1>0, <1>10 DEF OpenSink, Truncate, Reopen, Write, SinkTyped
  <2> QED BY <1>5, <2>1
<1>11. ASSUME NEW s \in Sinks, OpenSink(s) PROVE Sized'
  <2>1. Contents \in Seq(Lines) /\ Fopen(Contents)
    BY <1>0, <1>11, ContentsTyped DEF OpenSink
  <2>2. /\ Opened = made' /\ made' = IF dir[0] = None THEN made + 1 ELSE made
        /\ file'[made'] = Contents /\ \A f \in 1..made : f # made' => file'[f] = file[f]
    BY <1>0, <2>1, FopenEffect
  <2>3. PICK l \in Nat : l = Len(Contents)
    BY <2>1
  <2>4. Len(buf'[s]) = 0 /\ size'[s] = l /\ fd'[s] = made' /\ \A t \in Sinks : ~Reopening(t)'
    BY <1>0, <1>11, <2>2, <2>3 DEF OpenSink, SinkTyped, Sinks, Reopening
  <2>5. \A t \in Sinks : Counted(t)'
    BY <1>0, <1>10, <1>11, <2>4 DEF Counted
  <2>6. Roomy'
    BY <2>4 DEF Roomy
  <2>7. ASSUME NEW t \in Sinks, t # s, NEW f \in 1..made'
        PROVE  Len(file'[f]) + Claim(s, f)' + Claim(t, f)' <= 2 * Limit
    <3>1. PICK c \in Nat : c = Claim(t, f)' /\ c = Claim(t, f) /\ c <= Limit
      BY <1>4, <1>10, <1>11, <2>7
    <3>2. CASE f = made'
      <4>1. Len(file'[f]) = l /\ Claim(s, f)' = 0 + Room(s)'
        BY <2>2, <2>3, <2>4, <3>2 DEF Claim
      <4>2. CASE l < MaxSize
        <5>1. Room(s)' = MaxSize - l
          BY <2>4, <4>2 DEF Room
        <5> QED BY <1>0, <3>1, <4>1, <5>1
      <4>3. CASE ~(l < MaxSize)
        <5>1. Room(s)' = 0
          BY <2>4, <4>3 DEF Room
        <5>2. dir[0] # None
          <6>1. l # 0
            BY <1>0, <4>3
          <6> QED BY <2>3, <6>1 DEF Contents
        <5>3. f = made /\ Len(file[f]) = l /\ f \in 1..made
          BY <1>0, <2>2, <2>3, <3>2, <5>2 DEF Contents
        <5>4. l + Claim(s, f) + c <= 2 * Limit /\ Claim(s, f) \in Nat
          BY <1>2, <1>4, <2>7, <3>1, <5>3 DEF Claimed
        <5>5. l + 0 + c <= 2 * Limit
          BY <1>0, <5>4
        <5> QED BY <3>1, <4>1, <5>1, <5>5
      <4> QED BY <4>2, <4>3
    <3>3. CASE f # made'
      <4>1. f \in 1..made /\ file'[f] = file[f] /\ Claim(s, f)' = 0
        BY <1>0, <2>2, <2>4, <3>3 DEF Claim
      <4>2. Len(file[f]) + Claim(s, f) + c <= 2 * Limit /\ Claim(s, f) \in Nat /\ Len(file[f]) \in Nat
        BY <1>2, <1>3, <1>4, <2>7, <3>1, <4>1 DEF Claimed
      <4> QED BY <1>0, <3>1, <4>1, <4>2
    <3> QED BY <3>2, <3>3
  <2>8. Claimed'
    BY <1>b, <2>7
  <2> QED BY <2>5, <2>6, <2>8 DEF Sized
<1>12. ASSUME NEW s \in Sinks, Truncate(s) PROVE Sized'
  <2>1. PICK lines \in Seq(Lines) : lines = <<>> /\ Fopen(lines)
    BY <1>12, FopenStep
  <2>2. /\ dir'[0] = made' /\ made' = IF dir[0] = None THEN made + 1 ELSE made
        /\ Len(file'[made']) = 0 /\ \A f \in 1..made : f # made' => file'[f] = file[f]
    <3>1. /\ dir'[0] = made' /\ made' = IF dir[0] = None THEN made + 1 ELSE made
          /\ file'[made'] = lines /\ \A f \in 1..made : f # made' => file'[f] = file[f]
      BY <1>0, <2>1, FopenEffect
    <3>2. Len(lines) = 0
      BY <2>1
    <3> QED BY <3>1, <3>2
  <2>3. UNCHANGED <<fd, buf, size>>
    BY <1>12 DEF Truncate
  <2>4. \A t \in Sinks : Counted(t)' /\ \A f : Claim(t, f)' = Claim(t, f)
    BY <1>5, <2>3
  <2>5. ASSUME NEW f \in 1..made', NEW r \in Sinks, NEW t \in Sinks, r # t
        PROVE  Len(file'[f]) + Claim(r, f)' + Claim(t, f)' <= 2 * Limit
    <3>1. PICK a \in Nat, c \in Nat : /\ a = Claim(r, f) /\ c = Claim(t, f)
                                      /\ a <= Limit /\ c <= Limit
      BY <1>4
    <3>2. CASE f = made'
      BY <1>0, <2>2, <2>4, <3>1, <3>2
    <3>3. CASE f # made'
      <4>1. f \in 1..made /\ file'[f] = file[f]
        BY <1>0, <2>2, <3>3
      <4> QED BY <1>2, <2>4, <2>5, <4>1 DEF Claimed
    <3> QED BY <3>2, <3>3
  <2>6. Claimed'
    BY <2>5 DEF Claimed
  <2>7. Roomy'
    <3>1. PICK new \in Nat : new = made' /\ dir'[0] = new
      <4>1. made' \in Nat
        BY <1>1 DEF Typed, DiskTyped
      <4> QED BY <2>2, <4>1
    <3>2. \A t \in Sinks : Len(file'[new]) + Claim(t, new)' <= Limit
      <4>1. ASSUME NEW t \in Sinks PROVE Claim(t, new)' \in Nat /\ Claim(t, new)' <= Limit
        BY <1>4, <2>4
      <4> QED BY <2>2, <3>1, <4>1
    <3>3. Len(file'[new]) = 0
      BY <2>2, <3>1
    <3> QED BY <3>1, <3>2, <3>3 DEF Roomy
  <2> QED BY <2>4, <2>6, <2>7 DEF Sized
<1>13. ASSUME NEW s \in Sinks, Reopen(s) PROVE Sized'
  <2>1. Contents \in Seq(Lines) /\ Fopen(Contents)
    BY <1>0, <1>13, ContentsTyped DEF Reopen
  <2>2. /\ Opened = made' /\ dir'[0] = made' /\ made' = IF dir[0] = None THEN made + 1 ELSE made
        /\ file'[made'] = Contents /\ \A f \in 1..made : f # made' => file'[f] = file[f]
    BY <1>0, <2>1, FopenEffect
  <2>3. PICK l \in Nat : l = Len(Contents)
    BY <2>1
  <2>4. Reopening(s) /\ ~Reopening(s)' /\ fd'[s] = made'
    BY <1>0, <1>13, <2>2 DEF Reopen, SinkTyped, Reopening
  <2>5. \E n \in 0..Longest : Len(buf'[s]) = n /\ size'[s] = n
    <3>1. buf \in [Sinks -> Seq(Lines)] /\ buf[s] = <<>> /\ size \in [Sinks -> Nat] /\ len[s] \in 0..Longest
      BY <1>0, <1>13 DEF Reopen, SinkTyped
    <3>2. \/ buf' = [buf EXCEPT ![s] = @ \o Line(s, len[s])] /\ size' = [size EXCEPT ![s] = len[s]]
          \/ buf' = buf /\ size' = [size EXCEPT ![s] = 0]
      BY <1>13 DEF Reopen, Write
    <3>3. Line(s, len[s]) \in Seq(Lines) /\ Len(Line(s, len[s])) = len[s] /\ len[s] \in Nat
      BY <1>0, <3>1, LineBytes, Limits
    <3>4. Len(buf[s]) = 0 /\ buf[s] \in Seq(Lines)
      BY <3>1
    <3>5. Len(buf[s] \o Line(s, len[s])) = len[s]
      <4>1. Len(buf[s] \o Line(s, len[s])) = Len(buf[s]) + Len(Line(s, len[s]))
        BY <3>3, <3>4, Joined
      <4>2. 0 + len[s] = len[s]
        BY <3>3
      <4> QED BY <3>3, <3>4, <4>1, <4>2
    <3>6. 0 \in 0..Longest
      BY Limits
    <3> QED BY <3>1, <3>2, <3>4, <3>5, <3>6
  <2>6. /\ Counted(s)' /\ Len(buf'[s]) + Room(s)' \in Nat /\ Len(buf'[s]) + Room(s)' <= Limit
    <3>1. PICK n \in Nat : n = Len(buf'[s]) /\ n = size'[s] /\ n <= Limit
      BY <2>5, Limits
    <3>2. Counted(s)'
      BY <3>1 DEF Counted
    <3>3. CASE n < MaxSize
      <4>1. Room(s)' = MaxSize - n
        BY <3>1, <3>3 DEF Room
      <4> QED BY <1>0, <3>1, <3>2, <4>1
    <3>4. CASE ~(n < MaxSize)
      <4>1. Room(s)' = 0
        BY <3>1, <3>4 DEF Room
      <4> QED BY <3>1, <3>2, <4>1
    <3> QED BY <3>3, <3>4
  <2>7. \A t \in Sinks : Counted(t)'
    BY <1>10, <1>13, <2>6
  \* What the truncation has left, and the other sink's claim, leave room.
  <2>8. ASSUME NEW t \in Sinks, t # s, NEW f \in {made'}
        PROVE  l + Claim(t, f) <= Limit /\ (Reopening(t) => l = 0)
    <3>1. PICK c \in Nat : c = Claim(t, f) /\ c <= Limit
      BY <1>4
    <3>2. CASE dir[0] = None
      <4>1. l = 0
        BY <2>3, <3>2 DEF Contents
      <4> QED BY <1>0, <3>1, <4>1
    <3>3. CASE dir[0] # None
      <4>1. f = dir[0] /\ l = Len(file[dir[0]])
        BY <1>0, <2>2, <2>3, <3>3 DEF Contents
      <4> QED BY <1>2, <2>4, <2>8, <3>1, <3>3, <4>1 DEF Roomy
    <3> QED BY <3>2, <3>3
  <2>9. ASSUME NEW t \in Sinks, t # s, NEW f \in 1..made'
        PROVE  Len(file'[f]) + Claim(s, f)' + Claim(t, f)' <= 2 * Limit
    <3>1. PICK c \in Nat : c = Claim(t, f)' /\ c = Claim(t, f) /\ c <= Limit
      BY <1>4, <1>10, <1>13, <2>9
    <3>2. CASE f = made'
      <4>1. Len(file'[f]) = l /\ Claim(s, f)' \in Nat /\ Claim(s, f)' <= Limit
        BY <2>2, <2>3, <2>4, <2>6, <3>2 DEF Claim
      <4>2. l + c <= Limit
        BY <2>8, <2>9, <3>1, <3>2
      <4> QED BY <1>0, <3>1, <4>1, <4>2
    <3>3. CASE f # made'
      <4>1. f \in 1..made /\ file'[f] = file[f] /\ Claim(s, f)' = 0
        BY <1>0, <2>2, <2>4, <3>3 DEF Claim
      <4>2. Len(file[f]) + Claim(s, f) + c <= 2 * Limit /\ Claim(s, f) \in Nat /\ Len(file[f]) \in Nat
        BY <1>2, <1>3, <1>4, <2>9, <3>1, <4>1 DEF Claimed
      <4> QED BY <1>0, <3>1, <4>1, <4>2
    <3> QED BY <3>2, <3>3
  <2>10. Claimed'
    BY <1>b, <2>9
  <2>11. Roomy'
    <3>1. PICK new \in Nat : new = made' /\ dir'[0] = new
      <4>1. made' \in Nat
        BY <1>1 DEF Typed, DiskTyped
      <4> QED BY <2>2, <4>1
    <3>2. ASSUME NEW r \in Sinks, NEW t \in Sinks, r # t, Reopening(r)'
          PROVE  Len(file'[new]) + Claim(t, new)' <= Limit /\ ~Reopening(t)'
      <4>1. r # s /\ t = s
        BY <2>4, <3>2 DEF Sinks
      <4>2. Reopening(r)
        BY <1>10, <1>13, <3>2, <4>1 DEF Reopening
      <4>3. l = 0
        BY <2>8, <4>1, <4>2
      <4>4. Len(file'[new]) = 0 /\ Claim(s, new)' \in Nat /\ Claim(s, new)' <= Limit
        BY <2>2, <2>3, <2>4, <2>6, <3>1, <4>3 DEF Claim
      <4> QED BY <1>0, <2>4, <4>1, <4>4
    <3> QED BY <3>1, <3>2 DEF Roomy
  <2> QED BY <2>7, <2>10, <2>11 DEF Sized
<1>14. ASSUME NEW s \in Sinks, Exists(s) \/ RemoveTarget(s) \/ RenameSource(s) \/ RenameFails(s)
       PROVE  Sized'
  <2>1. UNCHANGED <<file, made, fd, buf, size>>
    BY <1>14 DEF Exists, RemoveTarget, RenameSource, RenameFails
  <2>2. \A t \in Sinks : Reopening(t)' <=> Reopening(t)
    <3>1. ~Reopening(s) /\ ~Reopening(s)'
      BY <1>0, <1>14 DEF Exists, RemoveTarget, RenameSource, RenameFails, SinkTyped, Reopening
    <3>2. \A t \in Sinks : t # s => pc'[t] = pc[t]
      BY <1>0, <1>14 DEF Exists, RemoveTarget, RenameSource, RenameFails, SinkTyped
    <3>3. ASSUME NEW t \in Sinks PROVE Reopening(t)' <=> Reopening(t)
      <4>1. CASE t = s
        BY <3>1, <4>1 DEF Reopening
      <4>2. CASE t # s
        BY <3>2, <4>2 DEF Reopening
      <4> QED BY <4>1, <4>2
    <3> QED BY <3>3
  <2>3. dir'[0] \in {None, dir[0]}
    <3>1. CASE RenameSource(s)
      BY <1>0, <3>1, RenameEffect
    <3>2. CASE RemoveTarget(s)
      BY <1>0, <3>2 DEF RemoveTarget, SinkTyped
    <3>3. CASE Exists(s) \/ RenameFails(s)
      BY <3>3 DEF Exists, RenameFails
    <3> QED BY <1>14, <3>1, <3>2, <3>3
  <2> QED BY <1>7, <2>1, <2>2, <2>3
<1>15. ASSUME Bound \/ UNCHANGED vars PROVE Sized'
  <2>1. UNCHANGED <<file, made, fd, buf, size, dir, pc>>
    BY <1>15 DEF Bound, vars
  <2> QED BY <1>7, <2>1 DEF Reopening
<1> QED
  BY <1>8, <1>9, <1>11, <1>12, <1>13, <1>14, <1>15 DEF Next

\* Two sinks on one path, each with a count of its own, make no file longer
\* than twice max_size_, or twice the longest line where that is more, however
\* their rotations overlap and whatever one of them truncates under the other.
THEOREM FilesBounded == Spec => []SizeBounded
<1>1. Typed /\ Sized => SizeBounded
  <2> SUFFICES ASSUME Typed, Sized, NEW f \in 1..made
               PROVE  Len(file[f]) + (IF fd[First] = f THEN Len(buf[First]) ELSE 0)
                         + (IF fd[Second] = f THEN Len(buf[Second]) ELSE 0) <= 2 * Limit
    BY DEF SizeBounded
  <2>1. First \in Sinks /\ Second \in Sinks /\ First # Second /\ MaxSize \in Nat /\ Limit \in Nat
    BY LogAssumption, Limits DEF Sinks
  <2>2. Len(file[f]) + Claim(First, f) + Claim(Second, f) <= 2 * Limit
    BY <2>1 DEF Sized, Claimed
  <2>3. Len(file[f]) \in Nat
    BY DEF Typed, DiskTyped
  <2>4. ASSUME NEW s \in Sinks
        PROVE  \E p, c \in Nat : /\ p = (IF fd[s] = f THEN Len(buf[s]) ELSE 0)
                                 /\ c = Claim(s, f) /\ p <= c
    <3>1. PICK n \in Nat, m \in Nat : n = Len(buf[s]) /\ m = size[s]
      BY DEF Typed, SinkTyped
    <3>2. PICK r \in Nat : r = Room(s)
      BY <2>1, <3>1 DEF Room
    <3>3. CASE fd[s] = f
      <4>1. Claim(s, f) = n + r
        BY <3>1, <3>2, <3>3 DEF Claim
      <4> QED BY <3>1, <3>3, <4>1
    <3>4. CASE fd[s] # f
      BY <3>4 DEF Claim
    <3> QED BY <3>3, <3>4
  <2>5. PICK p1 \in Nat, c1 \in Nat : /\ p1 = (IF fd[First] = f THEN Len(buf[First]) ELSE 0)
                                      /\ c1 = Claim(First, f) /\ p1 <= c1
    BY <2>1, <2>4
  <2>6. PICK p2 \in Nat, c2 \in Nat : /\ p2 = (IF fd[Second] = f THEN Len(buf[Second]) ELSE 0)
                                      /\ c2 = Claim(Second, f) /\ p2 <= c2
    BY <2>1, <2>4
  <2>7. Len(file[f]) + p1 + p2 <= 2 * Limit
    <3>1. PICK l \in Nat : l = Len(file[f])
      BY <2>3
    <3>2. l + c1 + c2 <= 2 * Limit
      BY <2>2, <2>5, <2>6, <3>1
    <3>3. l + p1 + p2 <= 2 * Limit
      <4>1. 2 * Limit \in Nat
        BY <2>1
      <4> QED BY <2>5, <2>6, <3>2, <4>1, Smaller
    <3> QED BY <3>1, <3>3
  <2> QED BY <2>5, <2>6, <2>7
<1> QED BY <1>1, TypedInit, TypedStep, SizedInit, SizedStep, PTL DEF Spec
=============================================================================
