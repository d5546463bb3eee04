---------------------------- MODULE InputProofs -----------------------------
(***************************************************************************)
(* Proofs about Input, for any number of orderly and ragged clients, any   *)
(* keep-alive and any room on the way to the server.                       *)
(***************************************************************************)
EXTENDS Input, Integers, SequenceTheorems, TLAPS

Symbols == Kinds \union {"more", "last", "body"}

Typed ==
    /\ up \subseteq Clients /\ doomed \subseteq up
    /\ pipe \in [Clients -> Seq(Symbols)] /\ rest \in [Clients -> Seq(Symbols)]
    /\ hush \in [Orderly -> 0..Late] /\ idle \in [Clients -> 0..Late] /\ lag \in 0..Late
    /\ spc \in {"poll", "slot", "length", "body"}
    /\ ready \in [Clients -> {"in", "hup", "quiet", "done"}]
    /\ \A c \in Clients : ready[c] # "done" => c \in up
    /\ spc \in {"length", "body"} => cur \in up
    /\ kind \in Symbols /\ len \in Nat

\* ServerThread has begun to read a packet of the client.
Reading(c) == spc \in {"length", "body"} /\ cur = c

\* The packets of the client that are not handled, the one being read included.
Stream(c) ==
    IF spc = "length" /\ cur = c THEN <<kind>> \o pipe[c]
    ELSE IF spc = "body" /\ cur = c THEN <<kind, "last">> \o pipe[c]
    ELSE pipe[c]

\* Whole packets, and nothing else: each packet type is followed by its bytes
\* and then by another packet or the end.
Packets(p) ==
    /\ p # <<>> => p[1] \in Kinds
    /\ \A j \in 1..Len(p) : p[j] \in Kinds =>
          /\ j + 1 + Body(p[j]) <= Len(p)
          /\ p[j + 1] = "last" /\ (Body(p[j]) = 1 => p[j + 2] = "body")
          /\ j + 2 + Body(p[j]) <= Len(p) => p[j + 2 + Body(p[j])] \in Kinds

\* One packet and no more.
Single(p) == Len(p) = 2 + Body(p[1])

\* The slots the pass has still to visit.
Slotted ==
    /\ spc = "poll" => doomed = {} /\ \A c \in Clients : ready[c] = "done"
    /\ \A c \in Clients : ready[c] # "done" => c \in up \ doomed /\ ~Reading(c)
    /\ \A c \in Clients : ready[c] = "hup" => c \in gone /\ pipe[c] = <<>>
    /\ \A c \in Clients : ready[c] = "in" => c \in gone \/ pipe[c] # <<>>
    /\ \A c \in Clients : Reading(c) => c \notin doomed /\ idle[c] = 0
    /\ spc # "length" => len = 0

\* What an orderly client has sent: whole packets, CONNECT first, DISCONNECT
\* last.
Spoken(c) ==
    /\ rest[c] = <<>> /\ Packets(Stream(c))
    /\ Reading(c) => len = 0
    /\ c \notin said => Stream(c) = <<>> /\ c \notin named
    /\ c \in said \ named => Stream(c) # <<>> /\ Stream(c)[1] = "CONNECT"
    /\ c \in bye => Len(Stream(c)) >= 2 /\ Stream(c)[Len(Stream(c)) - 1] = "DISCONNECT"
    /\ c \notin bye => \A j \in 1..Len(Stream(c)) : Stream(c)[j] # "DISCONNECT"

\* The server's clocks against the client's own: the server never takes an
\* orderly client for longer silent than it is.
Timely(c) ==
    /\ c \notin gone =>
          /\ hush[c] < Promised(c) + Grace
          /\ Stream(c) = <<>> => Plus(idle[c], lag) <= hush[c]
          /\ (ready[c] = "in" \/ Reading(c)) /\ Single(Stream(c)) => lag <= hush[c]
    /\ ready[c] = "quiet" => idle[c] < Deadline(c)

Kept == \A c \in Orderly : c \in up \ doomed => Spoken(c) /\ (c \notin slack => Timely(c))

-----------------------------------------------------------------------------
(* Types. *)

LEMMA BytesType ==
    ASSUME NEW k \in Kinds, NEW more \in Nat
    PROVE  /\ Bytes(k, more) \in Seq(Symbols) /\ Len(Bytes(k, more)) = 2 + more + Body(k)
           /\ Bytes(k, more)[1] = k /\ Bytes(k, more)[2 + more] = "last"
           /\ Body(k) = 1 => Bytes(k, more)[3 + more] = "body"
<1>1. Body(k) \in Nat
  BY DEF Body
<1> DEFINE x == <<k>>
           a == [j \in 1..more |-> "more"]
           y == <<"last">>
           b == [j \in 1..Body(k) |-> "body"]
<1>2. Bytes(k, more) = x \o a \o y \o b
  BY DEF Bytes
<1>3. x \in Seq(Symbols) /\ Len(x) = 1 /\ x[1] = k /\ y \in Seq(Symbols) /\ Len(y) = 1 /\ y[1] = "last"
  BY DEF Symbols
<1>4. a \in Seq(Symbols) /\ Len(a) = more
  BY DEF Symbols
<1>5. b \in Seq(Symbols) /\ Len(b) = Body(k) /\ (Body(k) = 1 => b[1] = "body")
  BY <1>1 DEF Symbols
<1> HIDE DEF a, b, x, y
<1>6. x \o a \in Seq(Symbols) /\ Len(x \o a) = 1 + more /\ (x \o a)[1] = k
  <2>1. x \o a \in Seq(Symbols) /\ Len(x \o a) = Len(x) + Len(a)
    BY <1>3, <1>4, ConcatProperties
  <2>2. \A j \in 1..(Len(x) + Len(a)) : (x \o a)[j] = IF j <= Len(x) THEN x[j] ELSE a[j - Len(x)]
    BY <1>3, <1>4, ConcatProperties
  <2> QED BY <1>3, <1>4, <2>1, <2>2
<1>7. /\ x \o a \o y \in Seq(Symbols) /\ Len(x \o a \o y) = 2 + more
      /\ (x \o a \o y)[1] = k /\ (x \o a \o y)[2 + more] = "last"
  <2> DEFINE u == x \o a
  <2>1. u \in Seq(Symbols) /\ Len(u) = 1 + more /\ u[1] = k
    BY <1>6
  <2> HIDE DEF u
  <2>2. u \o y \in Seq(Symbols) /\ Len(u \o y) = Len(u) + Len(y)
    BY <1>3, <2>1, ConcatProperties
  <2>3. \A j \in 1..(Len(u) + Len(y)) : (u \o y)[j] = IF j <= Len(u) THEN u[j] ELSE y[j - Len(u)]
    BY <1>3, <2>1, ConcatProperties
  <2>4. u \o y \in Seq(Symbols) /\ Len(u \o y) = 2 + more /\ (u \o y)[1] = k /\ (u \o y)[2 + more] = "last"
    BY <1>3, <2>1, <2>2, <2>3
  <2> QED BY <2>4 DEF u
<1>8. /\ x \o a \o y \o b \in Seq(Symbols) /\ Len(x \o a \o y \o b) = 2 + more + Body(k)
      /\ (x \o a \o y \o b)[1] = k /\ (x \o a \o y \o b)[2 + more] = "last"
      /\ Body(k) = 1 => (x \o a \o y \o b)[3 + more] = "body"
  <2> DEFINE v == x \o a \o y
  <2>1. v \in Seq(Symbols) /\ Len(v) = 2 + more /\ v[1] = k /\ v[2 + more] = "last"
    BY <1>7
  <2> HIDE DEF v
  <2>2. v \o b \in Seq(Symbols) /\ Len(v \o b) = Len(v) + Len(b)
    BY <1>5, <2>1, ConcatProperties
  <2>3. \A j \in 1..(Len(v) + Len(b)) : (v \o b)[j] = IF j <= Len(v) THEN v[j] ELSE b[j - Len(v)]
    BY <1>5, <2>1, ConcatProperties
  <2>4. /\ v \o b \in Seq(Symbols) /\ Len(v \o b) = 2 + more + Body(k)
        /\ (v \o b)[1] = k /\ (v \o b)[2 + more] = "last"
        /\ Body(k) = 1 => (v \o b)[3 + more] = "body"
    BY <1>1, <1>5, <2>1, <2>2, <2>3
  <2> QED BY <2>4 DEF v
<1> QED BY <1>2, <1>8

LEMMA PlusType == \A x, y \in Nat : Plus(x, y) \in 0..Late
BY InputAssumption DEF Plus, Late

LEMMA TypedInit == Init => Typed
<1> SUFFICES ASSUME Init PROVE Typed
  OBVIOUS
<1>1. <<>> \in Seq(Symbols)
  OBVIOUS
<1>2. pipe \in [Clients -> Seq(Symbols)] /\ rest \in [Clients -> Seq(Symbols)]
  BY <1>1 DEF Init
<1>3. Late \in Nat
  BY InputAssumption DEF Late
<1> QED BY <1>2, <1>3 DEF Init, Typed, Symbols, Kinds

LEMMA TypedStep == Typed /\ [Next]_vars => Typed'
<1> SUFFICES ASSUME Typed, [Next]_vars PROVE Typed'
  OBVIOUS
<1>0. /\ up \subseteq Clients /\ doomed \subseteq up
      /\ pipe \in [Clients -> Seq(Symbols)] /\ rest \in [Clients -> Seq(Symbols)]
      /\ hush \in [Orderly -> 0..Late] /\ idle \in [Clients -> 0..Late] /\ lag \in 0..Late
      /\ spc \in {"poll", "slot", "length", "body"}
      /\ ready \in [Clients -> {"in", "hup", "quiet", "done"}]
      /\ \A c \in Clients : ready[c] # "done" => c \in up
      /\ spc \in {"length", "body"} => cur \in up
      /\ kind \in Symbols /\ len \in Nat
      /\ Late \in Nat
  BY InputAssumption DEF Typed, Late
<1> USE DEF client, server, unread
<1>1. CASE UNCHANGED vars
  BY <1>0, <1>1 DEF vars, Typed
<1>2. ASSUME NEW c \in Clients, NEW k \in Kinds, NEW more \in 0..MaxLenBytes, Send(c, k, more)
      PROVE  Typed'
  <2> DEFINE bytes == Bytes(k, more)
             n == IF c \in Ragged THEN 1 ELSE Len(bytes)
  <2>1. bytes \in Seq(Symbols) /\ Len(bytes) \in Nat /\ n \in 0..Len(bytes)
    <3>1. more \in Nat /\ Body(k) \in Nat
      BY InputAssumption DEF Body
    <3>2. bytes \in Seq(Symbols) /\ Len(bytes) = 2 + more + Body(k)
      BY <3>1, BytesType
    <3>3. 1 \in 0..Len(bytes) /\ Len(bytes) \in 0..Len(bytes) /\ Len(bytes) \in Nat
      BY <3>1, <3>2
    <3> QED BY <3>2, <3>3
  <2>2. SubSeq(bytes, 1, n) \in Seq(Symbols) /\ SubSeq(bytes, n + 1, Len(bytes)) \in Seq(Symbols)
    <3> HIDE DEF bytes, n
    <3>1. /\ \A j \in 1..n : bytes[j] \in Symbols
          /\ \A j \in (n + 1)..Len(bytes) : bytes[j] \in Symbols
      BY <2>1
    <3> QED BY <2>1, <3>1, SubSeqProperties
  <2>3. /\ pipe' = [pipe EXCEPT ![c] = pipe[c] \o SubSeq(bytes, 1, n)]
        /\ rest' = [rest EXCEPT ![c] = SubSeq(bytes, n + 1, Len(bytes))]
        /\ hush' = [d \in Orderly |-> IF d = c THEN 0 ELSE hush[d]]
        /\ UNCHANGED <<up, idle, lag, spc, ready, cur, kind, len, doomed>>
    BY <1>2 DEF Send, Heard
  <2> HIDE DEF bytes, n
  <2>4. pipe' \in [Clients -> Seq(Symbols)] /\ rest' \in [Clients -> Seq(Symbols)]
    BY <1>0, <2>2, <2>3
  <2> QED BY <1>0, <2>3, <2>4 DEF Typed
<1>3. ASSUME NEW c \in Clients, SendRest(c) PROVE Typed'
  <2>1. Head(rest[c]) \in Symbols /\ Tail(rest[c]) \in Seq(Symbols)
    BY <1>0, <1>3 DEF SendRest
  <2>2. pipe' \in [Clients -> Seq(Symbols)] /\ rest' \in [Clients -> Seq(Symbols)]
    BY <1>0, <1>3, <2>1 DEF SendRest
  <2> QED BY <1>0, <1>3, <2>2 DEF SendRest, Heard, Typed
<1>4. ASSUME NEW c \in Clients, Die(c) PROVE Typed'
  <2>1. <<>> \in Seq(Symbols)
    OBVIOUS
  <2>2. rest' \in [Clients -> Seq(Symbols)]
    BY <1>0, <1>4, <2>1 DEF Die
  <2> QED BY <1>0, <1>4, <2>2 DEF Die, Typed
<1>5. CASE Tick
  <2>1. lag' \in 0..Late
    BY <1>0, <1>5, PlusType DEF Tick
  <2>2. hush' \in [Orderly -> 0..Late]
    <3>1. \A c \in Orderly : (IF c \in up \ gone THEN Plus(hush[c], 1) ELSE 0) \in 0..Late
      BY <1>0, PlusType
    <3>2. hush' = [c \in Orderly |-> IF c \in up \ gone THEN Plus(hush[c], 1) ELSE 0]
      BY <1>5 DEF Tick
    <3> QED BY <3>1, <3>2
  <2> QED BY <1>0, <1>5, <2>1, <2>2 DEF Tick, Typed
<1>6. CASE Poll
  <2>1. idle' \in [Clients -> 0..Late]
    <3>1. \A c \in Clients : (IF c \in up THEN Plus(idle[c], lag) ELSE 0) \in 0..Late
      <4>1. \A c \in Clients : idle[c] \in Nat /\ lag \in Nat
        BY <1>0
      <4>2. \A c \in Clients : Plus(idle[c], lag) \in 0..Late
        BY <4>1, PlusType
      <4> QED BY <1>0, <4>2
    <3>2. idle' = [c \in Clients |-> IF c \in up THEN Plus(idle[c], lag) ELSE 0]
      BY <1>6 DEF Poll
    <3> QED BY <3>1, <3>2
  <2>2. /\ ready' \in [Clients -> {"in", "hup", "quiet", "done"}] /\ lag' = 0
        /\ \A d \in Clients : ready'[d] # "done" => d \in up
    BY <1>6 DEF Poll, Slots
  <2> QED BY <1>0, <1>6, <2>1, <2>2 DEF Poll, Typed
<1>7. ASSUME NEW c \in up, NEW wills, Doom(c, wills)
      PROVE  doomed' \subseteq up /\ spc' = "slot"
  BY <1>0, <1>7 DEF Doom
<1>8. ASSUME NEW c \in Clients, Quiet(c) \/ HangUp(c) PROVE Typed'
  <2>1. /\ ready' \in [Clients -> {"in", "hup", "quiet", "done"}]
        /\ \A d \in Clients : ready'[d] # "done" => d \in up
    BY <1>0, <1>8 DEF Quiet, HangUp, Visited
  <2>2. c \in up
    BY <1>0, <1>8 DEF Quiet, HangUp, Visit
  <2>3. doomed' \subseteq up /\ spc' \in {"slot"}
    BY <1>0, <1>7, <1>8, <2>2 DEF Quiet, HangUp, GiveUp, Visit
  <2> QED BY <1>0, <1>8, <2>1, <2>3 DEF Quiet, HangUp, Typed
<1>9. ASSUME NEW c \in Clients, HaveData(c) PROVE Typed'
  <2>1. /\ ready' \in [Clients -> {"in", "hup", "quiet", "done"}] /\ idle' \in [Clients -> 0..Late]
        /\ \A d \in Clients : ready'[d] # "done" => d \in up
    BY <1>0, <1>9 DEF HaveData, Visited, SetPacketLastTime
  <2>2. c \in up
    BY <1>0, <1>9 DEF HaveData, Visit
  <2>3. CASE pipe[c] = <<>>
    BY <1>0, <1>7, <1>9, <2>1, <2>2, <2>3 DEF HaveData, GiveUp, Typed
  <2>4. CASE pipe[c] # <<>>
    <3>1. Head(pipe[c]) \in Symbols /\ Tail(pipe[c]) \in Seq(Symbols)
      BY <1>0, <2>4
    <3>2. /\ kind' = Head(pipe[c]) /\ pipe' = [pipe EXCEPT ![c] = Tail(pipe[c])]
          /\ cur' = c /\ spc' = "length" /\ UNCHANGED <<up, doomed, rest, hush, lag, len>>
      BY <1>9, <2>4 DEF HaveData
    <3> QED BY <1>0, <2>1, <2>2, <3>1, <3>2 DEF Typed
  <2> QED BY <2>3, <2>4
<1>10. CASE ReadLength
  <2>1. cur \in up /\ cur \in Clients
    BY <1>0, <1>10 DEF ReadLength
  <2>2. pipe' \in [Clients -> Seq(Symbols)]
    <3>1. pipe[cur] # <<>> => Tail(pipe[cur]) \in Seq(Symbols)
      BY <1>0, <2>1
    <3> QED BY <1>0, <1>10, <2>1, <3>1 DEF ReadLength
  <2>3. /\ len' \in Nat /\ doomed' \subseteq up /\ spc' \in {"slot", "length", "body"}
        /\ spc' \in {"length", "body"} => cur' = cur
    BY <1>0, <1>7, <1>10, <2>1 DEF ReadLength, GiveUp
  <2> QED BY <1>0, <1>10, <2>1, <2>2, <2>3 DEF ReadLength, Typed
<1>11. CASE ReadBody
  <2>1. cur \in up /\ cur \in Clients
    BY <1>0, <1>11 DEF ReadBody
  <2>2. pipe' \in [Clients -> Seq(Symbols)]
    <3>1. Body(kind) \in Nat /\ pipe[cur] \in Seq(Symbols) /\ Len(pipe[cur]) \in Nat
      BY <1>0, <2>1 DEF Body
    <3>2. \A j \in (Body(kind) + 1)..Len(pipe[cur]) : pipe[cur][j] \in Symbols
      BY <3>1
    <3>3. ReadData(pipe[cur], Body(kind)) \in Seq(Symbols)
      BY <3>1, <3>2, SubSeqProperties DEF ReadData
    <3> QED BY <1>0, <1>11, <2>1, <3>3 DEF ReadBody
  <2>3. doomed' \subseteq up /\ spc' = "slot"
    BY <1>0, <1>7, <1>11, <2>1 DEF ReadBody, GiveUp
  <2> QED BY <1>0, <1>11, <2>2, <2>3 DEF ReadBody, Typed, Symbols, Kinds
<1>12. CASE EndPass
  <2>1. <<>> \in Seq(Symbols)
    OBVIOUS
  <2>2. pipe' \in [Clients -> Seq(Symbols)] /\ rest' \in [Clients -> Seq(Symbols)]
    BY <1>0, <1>12, <2>1 DEF EndPass
  <2> QED BY <1>0, <1>12, <2>2 DEF EndPass, Typed
<1> QED
  BY <1>1, <1>2, <1>3, <1>4, <1>5, <1>6, <1>8, <1>9, <1>10, <1>11, <1>12
     DEF Next, Speak, ServerThread

-----------------------------------------------------------------------------
(* Streams of whole packets. *)

LEMMA ConsHead ==
    ASSUME NEW S, NEW s \in Seq(S), s # <<>>
    PROVE  <<Head(s)>> \o Tail(s) = s
BY SubSeqRecursiveFirst, SubSeqFull, TailIsSubSeq

LEMMA ConsElements ==
    ASSUME NEW S, NEW s \in Seq(S), NEW e \in S
    PROVE  /\ <<e>> \o s \in Seq(S) /\ Len(<<e>> \o s) = 1 + Len(s)
           /\ (<<e>> \o s)[1] = e
           /\ \A j \in 1..Len(s) : (<<e>> \o s)[j + 1] = s[j]
<1>1. <<e>> \in Seq(S) /\ Len(<<e>>) = 1 /\ <<e>>[1] = e
  OBVIOUS
<1> DEFINE x == <<e>>
<1> HIDE DEF x
<1>2. x \in Seq(S) /\ Len(x) = 1 /\ x[1] = e /\ Len(s) \in Nat
  BY <1>1 DEF x
<1>3. x \o s \in Seq(S) /\ Len(x \o s) = Len(x) + Len(s)
  BY <1>2, ConcatProperties
<1>4. \A j \in 1..(Len(x) + Len(s)) : (x \o s)[j] = IF j <= Len(x) THEN x[j] ELSE s[j - Len(x)]
  BY <1>2, ConcatProperties
<1>5. ASSUME NEW j \in 1..Len(s) PROVE (x \o s)[j + 1] = s[j]
  <2>1. j + 1 \in 1..(Len(x) + Len(s)) /\ ~(j + 1 <= Len(x)) /\ (j + 1) - Len(x) = j
    BY <1>2
  <2> QED BY <1>4, <2>1
<1>6. (x \o s)[1] = e
  <2>1. 1 \in 1..(Len(x) + Len(s)) /\ 1 <= Len(x)
    BY <1>2
  <2> QED BY <1>2, <1>4, <2>1
<1> QED BY <1>2, <1>3, <1>5, <1>6 DEF x

\* A packet that arrives whole is appended to the stream.
LEMMA PacketsAppend ==
    ASSUME NEW p \in Seq(Symbols), Packets(p), NEW k \in Kinds
    PROVE  /\ p \o Bytes(k, 0) \in Seq(Symbols) /\ Packets(p \o Bytes(k, 0))
           /\ Len(p \o Bytes(k, 0)) = Len(p) + 2 + Body(k)
           /\ \A j \in 1..Len(p) : (p \o Bytes(k, 0))[j] = p[j]
           /\ (p \o Bytes(k, 0))[Len(p) + 1] = k
           /\ \A j \in 2..(2 + Body(k)) : (p \o Bytes(k, 0))[Len(p) + j] \in {"last", "body"}
<1> DEFINE b == Bytes(k, 0)
           q == p \o b
<1>1. /\ b \in Seq(Symbols) /\ Len(b) = 2 + Body(k) /\ b[1] = k /\ b[2] = "last"
      /\ Body(k) = 1 => b[3] = "body"
  BY BytesType
<1>2. Body(k) \in {0, 1} /\ Len(p) \in Nat /\ \A m : Body(m) \in {0, 1}
  BY DEF Body
<1> HIDE DEF b
<1>3. q \in Seq(Symbols) /\ Len(q) = Len(p) + Len(b)
  BY <1>1, ConcatProperties
<1>4. \A j \in 1..(Len(p) + Len(b)) : q[j] = IF j <= Len(p) THEN p[j] ELSE b[j - Len(p)]
  BY <1>1, ConcatProperties
<1> HIDE DEF q
<1>5. \A j \in 1..Len(p) : q[j] = p[j]
  BY <1>1, <1>2, <1>4
<1>6. \A j \in 1..Len(b) : q[Len(p) + j] = b[j]
  BY <1>1, <1>2, <1>4
<1>7. q[Len(p) + 1] = k /\ q[Len(p) + 2] = "last" /\ (Body(k) = 1 => q[Len(p) + 3] = "body")
  BY <1>1, <1>2, <1>6
<1>8. Len(q) = Len(p) + 2 + Body(k)
  BY <1>1, <1>2, <1>3
<1>9. \A j \in 2..(2 + Body(k)) : q[Len(p) + j] \in {"last", "body"}
  BY <1>2, <1>7
<1>10. Packets(q)
  <2>1. q # <<>> => q[1] \in Kinds
    <3>1. CASE p = <<>>
      BY <1>7, <3>1
    <3>2. CASE p # <<>>
      BY <1>2, <1>5, <3>2 DEF Packets
    <3> QED BY <3>1, <3>2
  <2>2. ASSUME NEW j \in 1..Len(p), q[j] \in Kinds
        PROVE  /\ j + 1 + Body(q[j]) <= Len(q)
               /\ q[j + 1] = "last" /\ (Body(q[j]) = 1 => q[j + 2] = "body")
               /\ j + 2 + Body(q[j]) <= Len(q) => q[j + 2 + Body(q[j])] \in Kinds
    <3>1. /\ q[j] = p[j] /\ Body(p[j]) \in {0, 1} /\ j + 1 + Body(p[j]) <= Len(p)
          /\ p[j + 1] = "last" /\ (Body(p[j]) = 1 => p[j + 2] = "body")
          /\ j + 2 + Body(p[j]) <= Len(p) => p[j + 2 + Body(p[j])] \in Kinds
      BY <1>2, <1>5, <2>2 DEF Packets
    <3>2. q[j + 1] = p[j + 1] /\ (Body(p[j]) = 1 => q[j + 2] = p[j + 2])
      BY <1>2, <1>5, <3>1
    <3>3. j + 2 + Body(p[j]) <= Len(p) \/ j + 2 + Body(p[j]) = Len(p) + 1
      BY <1>2, <3>1
    <3>4. q[j + 2 + Body(p[j])] \in Kinds
      BY <1>2, <1>5, <1>7, <3>1, <3>3
    <3> QED BY <1>2, <1>8, <3>1, <3>2, <3>4
  <2>3. ASSUME NEW j \in 1..Len(q), q[j] \in Kinds, j > Len(p)
        PROVE  j = Len(p) + 1
    <3>1. j - Len(p) \in 1..(2 + Body(k)) /\ Len(p) + (j - Len(p)) = j
      BY <1>2, <1>8, <2>3
    <3>2. j - Len(p) \in 2..(2 + Body(k)) => q[j] \in {"last", "body"}
      BY <1>9, <3>1
    <3>3. j - Len(p) = 1
      BY <1>2, <2>3, <3>1, <3>2 DEF Kinds
    <3> QED BY <1>2, <3>1, <3>3
  <2>4. ASSUME NEW j \in 1..Len(q), q[j] \in Kinds
        PROVE  /\ j + 1 + Body(q[j]) <= Len(q)
               /\ q[j + 1] = "last" /\ (Body(q[j]) = 1 => q[j + 2] = "body")
               /\ j + 2 + Body(q[j]) <= Len(q) => q[j + 2 + Body(q[j])] \in Kinds
    <3>1. CASE j <= Len(p)
      BY <1>2, <2>2, <2>4, <3>1
    <3>2. CASE j > Len(p)
      BY <1>2, <1>7, <1>8, <2>3, <2>4, <3>2
    <3> QED BY <1>2, <3>1, <3>2
  <2> QED BY <2>1, <2>4 DEF Packets
<1> QED BY <1>3, <1>5, <1>7, <1>8, <1>9, <1>10 DEF q, b

\* A packet that is handled is dropped from the front.
LEMMA PacketsDrop ==
    ASSUME NEW p \in Seq(Symbols), p # <<>>, Packets(p), NEW q \in Seq(Symbols), NEW n \in Nat,
           n = 2 + Body(p[1]), Len(q) = Len(p) - n, \A j \in 1..Len(q) : q[j] = p[j + n]
    PROVE  Packets(q) /\ n <= Len(p) /\ p[1] \in Kinds /\ p[2] = "last"
           /\ (Body(p[1]) = 1 => p[3] = "body")
<1>0. \A m : Body(m) \in {0, 1}
  BY DEF Body
<1>1. Len(p) \in Nat /\ Len(p) >= 1 /\ Len(q) \in Nat
  OBVIOUS
<1>2. p[1] \in Kinds
  BY DEF Packets
<1>3. /\ n <= Len(p) /\ p[2] = "last" /\ (Body(p[1]) = 1 => p[3] = "body")
      /\ n + 1 <= Len(p) => p[n + 1] \in Kinds
  <2>1. 1 \in 1..Len(p) /\ Body(p[1]) \in {0, 1}
    BY <1>0, <1>1
  <2>2. /\ 1 + 1 + Body(p[1]) <= Len(p)
        /\ p[1 + 1] = "last" /\ (Body(p[1]) = 1 => p[1 + 2] = "body")
        /\ 1 + 2 + Body(p[1]) <= Len(p) => p[1 + 2 + Body(p[1])] \in Kinds
    BY <1>2, <2>1 DEF Packets
  <2>3. n + 1 = 1 + 2 + Body(p[1])
    BY <2>1
  <2> QED BY <1>1, <2>1, <2>2, <2>3
<1>4. q # <<>> => q[1] \in Kinds
  BY <1>1, <1>3
<1>5. ASSUME NEW j \in 1..Len(q), q[j] \in Kinds
      PROVE  /\ j + 1 + Body(q[j]) <= Len(q)
             /\ q[j + 1] = "last" /\ (Body(q[j]) = 1 => q[j + 2] = "body")
             /\ j + 2 + Body(q[j]) <= Len(q) => q[j + 2 + Body(q[j])] \in Kinds
  <2> DEFINE m == j + n
  <2>1. m \in 1..Len(p) /\ q[j] = p[m] /\ Body(p[m]) \in {0, 1}
    BY <1>0, <1>1
  <2>2. /\ m + 1 + Body(p[m]) <= Len(p)
        /\ p[m + 1] = "last" /\ (Body(p[m]) = 1 => p[m + 2] = "body")
        /\ m + 2 + Body(p[m]) <= Len(p) => p[m + 2 + Body(p[m])] \in Kinds
    BY <1>5, <2>1 DEF Packets
  <2> HIDE DEF m
  <2>6. m = j + n /\ m \in Int /\ j \in Int /\ n \in Int /\ Body(q[j]) = Body(p[m])
    BY <2>1 DEF m
  <2>7. PICK d \in Int : d = Body(p[m]) /\ d = Body(q[j])
    BY <2>1, <2>6
  <2>8. PICK x \in Int, y \in Int : x = Len(q) /\ y = Len(p) /\ x = y - n
    BY <1>1
  <2>9. /\ m + 1 + d <= y => j + 1 + d <= x
        /\ j + 2 + d <= x => m + 2 + d <= y
    <3>1. m \in Int /\ j \in Int /\ n \in Int /\ d \in Int /\ x \in Int /\ y \in Int
      BY <2>6, <2>7, <2>8
    <3>2. m = j + n /\ x = y - n
      BY <2>6, <2>8
    <3> QED BY ONLY <3>1, <3>2
  <2>3. j + 1 + Body(q[j]) <= Len(q)
    BY <2>2, <2>7, <2>8, <2>9
  <2>4. q[j + 1] = p[m + 1] /\ (Body(q[j]) = 1 => q[j + 2] = p[m + 2])
    <3>1. j + 1 \in 1..Len(q) /\ (Body(q[j]) = 1 => j + 2 \in 1..Len(q))
      BY <1>1, <2>1, <2>3
    <3>2. (j + 1) + n = m + 1 /\ (j + 2) + n = m + 2
      BY <2>6
    <3> QED BY <3>1, <3>2
  <2>5. j + 2 + Body(q[j]) <= Len(q) =>
           m + 2 + Body(p[m]) <= Len(p) /\ q[j + 2 + Body(q[j])] = p[m + 2 + Body(p[m])]
    <3> SUFFICES ASSUME j + 2 + Body(q[j]) <= Len(q)
                 PROVE  m + 2 + Body(p[m]) <= Len(p) /\ q[j + 2 + Body(q[j])] = p[m + 2 + Body(p[m])]
      OBVIOUS
    <3>1. j + 2 + Body(q[j]) \in 1..Len(q)
      BY <1>1, <2>1
    <3>2. (j + 2 + Body(q[j])) + n = m + 2 + Body(p[m])
      BY <2>6, <2>7
    <3>3. m + 2 + Body(p[m]) <= Len(p)
      BY <2>7, <2>8, <2>9
    <3> QED BY <3>1, <3>2, <3>3
  <2> QED BY <2>1, <2>2, <2>3, <2>4, <2>5
<1> QED BY <1>2, <1>3, <1>4, <1>5 DEF Packets

-----------------------------------------------------------------------------
(* The slots of a pass. *)

LEMMA SlottedStep == Typed /\ Slotted /\ [Next]_vars => Slotted'
<1> SUFFICES ASSUME Typed, Slotted, [Next]_vars PROVE Slotted'
  OBVIOUS
<1>0. /\ pipe \in [Clients -> Seq(Symbols)] /\ idle \in [Clients -> 0..Late]
      /\ ready \in [Clients -> {"in", "hup", "quiet", "done"}]
      /\ up \subseteq Clients /\ doomed \subseteq up /\ (spc \in {"length", "body"} => cur \in up)
  BY DEF Typed
<1> USE DEF client, server, unread
<1>1. ASSUME UNCHANGED <<spc, ready, cur, doomed, idle, up, len>>, gone \subseteq gone',
             \A c \in Clients : pipe'[c] = pipe[c] \/ (c \notin gone /\ pipe'[c] # <<>>)
      PROVE  Slotted'
  BY <1>1 DEF Slotted, Reading
<1>2. CASE UNCHANGED vars
  BY <1>1, <1>2 DEF vars
<1>3. ASSUME NEW c \in Clients, NEW k \in Kinds, NEW more \in 0..MaxLenBytes, Send(c, k, more)
      PROVE  Slotted'
  <2> DEFINE bytes == Bytes(k, more)
             n == IF c \in Ragged THEN 1 ELSE Len(bytes)
  <2>1. bytes \in Seq(Symbols) /\ Len(bytes) \in Nat /\ n \in 1..Len(bytes)
    <3>1. more \in Nat /\ Body(k) \in Nat
      BY InputAssumption DEF Body
    <3>2. bytes \in Seq(Symbols) /\ Len(bytes) = 2 + more + Body(k)
      BY <3>1, BytesType
    <3>3. 1 \in 1..Len(bytes) /\ Len(bytes) \in 1..Len(bytes) /\ Len(bytes) \in Nat
      BY <3>1, <3>2
    <3> QED BY <3>2, <3>3
  <2>2. c \notin gone /\ pipe' = [pipe EXCEPT ![c] = pipe[c] \o SubSeq(bytes, 1, n)]
        /\ UNCHANGED <<spc, ready, cur, doomed, idle, up, len, gone>>
    BY <1>3 DEF Send, Talks
  <2> HIDE DEF bytes, n
  <2>3. pipe[c] \o SubSeq(bytes, 1, n) # <<>>
    <3>1. \A j \in 1..n : bytes[j] \in Symbols
      BY <2>1
    <3>2. SubSeq(bytes, 1, n) \in Seq(Symbols) /\ Len(SubSeq(bytes, 1, n)) = n
      BY <2>1, <3>1, SubSeqProperties
    <3>3. SubSeq(bytes, 1, n) # <<>>
      BY <2>1, <3>2
    <3> QED BY <1>0, <3>2, <3>3, ConcatEqualIffEmpty
  <2> QED BY <1>0, <1>1, <2>2, <2>3
<1>4. ASSUME NEW c \in Clients, SendRest(c) PROVE Slotted'
  <2>1. c \notin gone /\ pipe' = [pipe EXCEPT ![c] = Append(pipe[c], Head(rest[c]))]
        /\ UNCHANGED <<spc, ready, cur, doomed, idle, up, len, gone>>
    BY <1>4 DEF SendRest
  <2>2. Append(pipe[c], Head(rest[c])) # <<>>
    BY <1>0
  <2> QED BY <1>0, <1>1, <2>1, <2>2
<1>5. ASSUME NEW c \in Clients, Die(c) PROVE Slotted'
  BY <1>1, <1>5 DEF Die
<1>6. CASE Tick
  BY <1>1, <1>6 DEF Tick
<1>7. CASE Poll
  <2>1. spc = "poll" /\ spc' = "slot" /\ doomed = {} /\ UNCHANGED <<up, doomed, gone, pipe, len>>
    BY <1>7 DEF Poll, Slotted
  <2>2. \A c \in Clients : ready'[c] \in IF c \in up THEN Revents(c) ELSE {"done"}
    BY <1>7 DEF Poll, Slots
  <2> QED BY <2>1, <2>2 DEF Slotted, Reading, Revents
\* A client is given up in the slot that is visited, or while it is read.
<1>8. ASSUME NEW c \in Clients, spc # "poll", spc' = "slot", doomed' = doomed \/ doomed' = doomed \union {c},
             ready' = [ready EXCEPT ![c] = "done"], UNCHANGED <<up, gone>>,
             len' = 0, \A d \in Clients : d # c => pipe'[d] = pipe[d]
      PROVE  Slotted'
  <2>1. ready'[c] = "done" /\ \A d \in Clients : d # c => ready'[d] = ready[d]
    BY <1>0, <1>8
  <2>2. \A d \in Clients : ~Reading(d)'
    BY <1>8 DEF Reading
  <2> QED BY <1>8, <2>1, <2>2 DEF Slotted
<1>9. ASSUME NEW c \in Clients, Quiet(c) \/ HangUp(c) PROVE Slotted'
  <2>1. /\ spc = "slot" /\ spc' = "slot" /\ ready' = [ready EXCEPT ![c] = "done"]
        /\ doomed' = doomed \/ doomed' = doomed \union {c}
        /\ len' = 0 /\ UNCHANGED <<up, gone, pipe>>
    BY <1>9 DEF Quiet, HangUp, Visit, Visited, GiveUp, Doom, Slotted
  <2> QED BY <1>8, <2>1
<1>10. ASSUME NEW c \in Clients, HaveData(c) PROVE Slotted'
  <2>1. /\ spc = "slot" /\ ready[c] = "in" /\ ready' = [ready EXCEPT ![c] = "done"]
        /\ idle' = [idle EXCEPT ![c] = 0] /\ len' = 0 /\ UNCHANGED <<up, gone>>
    BY <1>10 DEF HaveData, Visit, Visited, SetPacketLastTime, Slotted
  <2>2. CASE pipe[c] = <<>>
    <3>1. doomed' = doomed \union {c} /\ pipe' = pipe /\ spc' = "slot"
      BY <1>10, <2>2 DEF HaveData, GiveUp, Doom
    <3> QED BY <1>8, <2>1, <3>1
  <2>3. CASE pipe[c] # <<>>
    <3>1. /\ pipe' = [pipe EXCEPT ![c] = Tail(pipe[c])] /\ cur' = c /\ spc' = "length"
          /\ doomed' = doomed
      BY <1>10, <2>3 DEF HaveData
    <3>2. ready'[c] = "done" /\ \A d \in Clients : d # c => ready'[d] = ready[d]
      BY <1>0, <2>1
    <3>3. c \notin doomed /\ idle'[c] = 0
      BY <1>0, <2>1 DEF Slotted
    <3>4. \A d \in Clients : Reading(d)' <=> d = c
      BY <3>1 DEF Reading
    <3>5. \A d \in Clients : d # c => pipe'[d] = pipe[d]
      BY <1>0, <3>1
    <3> QED BY <2>1, <3>1, <3>2, <3>3, <3>4, <3>5 DEF Slotted
  <2> QED BY <2>2, <2>3
<1>11. CASE ReadLength
  <2>1. /\ spc = "length" /\ cur \in Clients /\ Reading(cur) /\ ready[cur] = "done"
        /\ UNCHANGED <<up, gone, ready, idle>>
    BY <1>0, <1>11 DEF ReadLength, Slotted, Reading
  <2>2. /\ pipe' = pipe \/ pipe' = [pipe EXCEPT ![cur] = Tail(pipe[cur])]
        /\ (spc' # "length" => len' = 0)
        /\ \/ spc' = "slot" /\ doomed' = doomed \union {cur}
           \/ spc' \in {"length", "body"} /\ cur' = cur /\ doomed' = doomed
    BY <1>11, <2>1 DEF ReadLength, GiveUp, Doom
  <2>3. ready' = [ready EXCEPT ![cur] = "done"] /\ \A d \in Clients : d # cur => pipe'[d] = pipe[d]
    BY <1>0, <2>1, <2>2
  <2>4. CASE spc' = "slot" /\ doomed' = doomed \union {cur}
    BY <1>8, <2>1, <2>2, <2>3, <2>4
  <2>5. CASE spc' \in {"length", "body"} /\ cur' = cur /\ doomed' = doomed
    BY <2>1, <2>2, <2>3, <2>5 DEF Slotted, Reading
  <2> QED BY <2>2, <2>4, <2>5
<1>12. CASE ReadBody
  <2>1. /\ spc = "body" /\ cur \in Clients /\ Reading(cur) /\ ready[cur] = "done"
        /\ len' = 0 /\ UNCHANGED <<up, gone, ready, idle>>
    BY <1>0, <1>12 DEF ReadBody, Slotted, Reading
  <2>2. /\ pipe' = [pipe EXCEPT ![cur] = ReadData(pipe[cur], Body(kind))] /\ spc' = "slot"
        /\ doomed' = doomed \/ doomed' = doomed \union {cur}
    BY <1>12 DEF ReadBody, GiveUp, Doom
  <2>3. ready' = [ready EXCEPT ![cur] = "done"] /\ \A d \in Clients : d # cur => pipe'[d] = pipe[d]
    BY <1>0, <2>1, <2>2
  <2> QED BY <1>8, <2>1, <2>2, <2>3
<1>13. CASE EndPass
  BY <1>13 DEF EndPass, Slotted, Reading
<1> QED
  BY <1>2, <1>3, <1>4, <1>5, <1>6, <1>7, <1>9, <1>10, <1>11, <1>12, <1>13
     DEF Next, Speak, ServerThread

-----------------------------------------------------------------------------
(* What the server has still to handle of a client. *)

LEMMA StreamShape ==
    ASSUME Typed, NEW c \in Clients
    PROVE  /\ Stream(c) \in Seq(Symbols)
           /\ spc = "length" /\ cur = c =>
                 /\ Stream(c) = <<kind>> \o pipe[c] /\ Len(Stream(c)) = 1 + Len(pipe[c])
                 /\ Stream(c)[1] = kind /\ \A j \in 1..Len(pipe[c]) : Stream(c)[j + 1] = pipe[c][j]
           /\ spc = "body" /\ cur = c =>
                 /\ Stream(c) = <<kind>> \o (<<"last">> \o pipe[c])
                 /\ Len(Stream(c)) = 2 + Len(pipe[c])
                 /\ Stream(c)[1] = kind /\ \A j \in 1..Len(pipe[c]) : Stream(c)[j + 2] = pipe[c][j]
           /\ ~Reading(c) => Stream(c) = pipe[c]
<1>1. /\ pipe[c] \in Seq(Symbols) /\ kind \in Symbols /\ "last" \in Symbols /\ Len(pipe[c]) \in Nat
      /\ spc \in {"poll", "slot", "length", "body"}
  BY DEF Typed, Symbols
<1>2. CASE spc = "length" /\ cur = c
  BY <1>1, <1>2, ConsElements DEF Stream, Reading
<1>3. CASE spc = "body" /\ cur = c
  <2> DEFINE t == <<"last">> \o pipe[c]
  <2>1. /\ t \in Seq(Symbols) /\ Len(t) = 1 + Len(pipe[c]) /\ t[1] = "last"
        /\ \A j \in 1..Len(pipe[c]) : t[j + 1] = pipe[c][j]
    BY <1>1, ConsElements
  <2>2. <<kind, "last">> \o pipe[c] = <<kind>> \o t
    <3>1. <<kind, "last">> = <<kind>> \o <<"last">>
      OBVIOUS
    <3>2. <<kind>> \in Seq(Symbols) /\ <<"last">> \in Seq(Symbols)
      BY <1>1
    <3> QED BY <1>1, <3>1, <3>2, ConcatAssociative
  <2> HIDE DEF t
  <2>3. /\ <<kind>> \o t \in Seq(Symbols) /\ Len(<<kind>> \o t) = 1 + Len(t)
        /\ (<<kind>> \o t)[1] = kind
        /\ \A j \in 1..Len(t) : (<<kind>> \o t)[j + 1] = t[j]
    <3>1. t \in Seq(Symbols) /\ kind \in Symbols
      BY <1>1, <2>1
    <3> QED BY <3>1, ConsElements
  <2>4. \A j \in 1..Len(pipe[c]) : (<<kind>> \o t)[j + 2] = pipe[c][j]
    <3> SUFFICES ASSUME NEW j \in 1..Len(pipe[c]) PROVE (<<kind>> \o t)[j + 2] = pipe[c][j]
      OBVIOUS
    <3>1. j + 1 \in 1..Len(t) /\ (j + 1) + 1 = j + 2
      BY <1>1, <2>1
    <3>2. (<<kind>> \o t)[(j + 1) + 1] = t[j + 1]
      BY <2>3, <3>1
    <3> QED BY <2>1, <3>1, <3>2
  <2>5. Stream(c) = <<kind>> \o t
    BY <1>3, <2>2 DEF Stream
  <2> QED BY <1>1, <1>3, <2>1, <2>3, <2>4, <2>5 DEF Reading, t
<1>4. CASE ~Reading(c)
  BY <1>1, <1>4 DEF Stream, Reading
<1> QED BY <1>1, <1>2, <1>3, <1>4 DEF Reading

\* ServerThread is inside the packet of a client that sends whole packets: the
\* rest of it is there.
LEMMA RestIsThere ==
    ASSUME Typed, NEW c \in Clients, Packets(Stream(c)), Reading(c)
    PROVE  /\ Stream(c) # <<>> /\ kind \in Kinds /\ Stream(c)[1] = kind
           /\ spc = "length" => pipe[c] # <<>> /\ Head(pipe[c]) = "last"
           /\ spc = "body" => Len(pipe[c]) >= Body(kind)
<1>1. /\ Stream(c) \in Seq(Symbols) /\ Stream(c)[1] = kind
      /\ pipe[c] \in Seq(Symbols) /\ Len(pipe[c]) \in Nat
      /\ Len(Stream(c)) = (IF spc = "length" THEN 1 ELSE 2) + Len(pipe[c])
  BY StreamShape DEF Typed, Reading
<1>2. Len(Stream(c)) >= 1 /\ Stream(c) # <<>> /\ Body(kind) \in {0, 1}
  <2>1. Len(Stream(c)) = 1 + Len(pipe[c]) \/ Len(Stream(c)) = 2 + Len(pipe[c])
    BY <1>1
  <2>5. Len(pipe[c]) \in Nat
    BY <1>1
  <2>2. Len(Stream(c)) \in Nat /\ Len(Stream(c)) >= 1
    BY <2>1, <2>5
  <2>3. Stream(c) # <<>>
    BY <2>2
  <2>4. Body(kind) \in {0, 1}
    BY DEF Body
  <2> QED BY <2>2, <2>3, <2>4
<1>3. kind \in Kinds
  BY <1>1, <1>2 DEF Packets
<1>4. 1 \in 1..Len(Stream(c))
  <2>1. Stream(c) \in Seq(Symbols)
    BY <1>1
  <2>2. Len(Stream(c)) \in Nat
    BY <2>1, LenProperties
  <2> QED BY <1>2, <2>2
<1>5. 1 + 1 + Body(kind) <= Len(Stream(c)) /\ Stream(c)[1 + 1] = "last"
  BY <1>1, <1>3, <1>4 DEF Packets
<1>6. ASSUME spc = "length" PROVE pipe[c] # <<>> /\ Head(pipe[c]) = "last"
  <2>1. Len(pipe[c]) >= 1
    BY <1>1, <1>2, <1>5, <1>6
  <2>2. 1 \in 1..Len(pipe[c]) /\ pipe[c] # <<>> /\ Head(pipe[c]) = pipe[c][1]
    BY <1>1, <2>1
  <2>3. Stream(c)[1 + 1] = pipe[c][1]
    BY <1>6, <2>2, StreamShape DEF Reading
  <2> QED BY <1>5, <2>2, <2>3
<1>7. ASSUME spc = "body" PROVE Len(pipe[c]) >= Body(kind)
  BY <1>1, <1>2, <1>5, <1>7
<1> QED BY <1>1, <1>2, <1>3, <1>6, <1>7

LEMMA PlusMonotonic ==
    ASSUME NEW x \in 0..Late, NEW y \in 0..Late, NEW z \in 0..Late
    PROVE  /\ y <= z => Plus(y, 1) <= Plus(z, 1)
           /\ Plus(x, y) <= z => Plus(x, Plus(y, 1)) <= Plus(z, 1)
           /\ Plus(x, 0) = x /\ Plus(0, x) = x /\ Plus(x, 1) <= x + 1
<1>1. Late \in Nat
  BY InputAssumption DEF Late
<1> QED BY <1>1 DEF Plus

\* A client of ours sends a packet.
LEMMA SendKept ==
    ASSUME Typed, Slotted, NEW c \in Orderly, c \in up \ doomed, Spoken(c), c \notin slack => Timely(c),
           NEW k \in Kinds, NEW more \in 0..MaxLenBytes, Send(c, k, more)
    PROVE  Spoken(c)' /\ (c \notin slack' => Timely(c)')
<1>0. /\ c \in Clients /\ c \notin Ragged /\ pipe[c] \in Seq(Symbols) /\ kind \in Symbols
      /\ spc \in {"poll", "slot", "length", "body"}
      /\ pipe \in [Clients -> Seq(Symbols)] /\ rest \in [Clients -> Seq(Symbols)]
  BY DEF Typed, Orderly
<1>1. /\ more = 0 /\ c \notin gone /\ c \notin bye /\ (k = "CONNECT" <=> c \notin said)
      /\ c \in said' /\ (c \in bye' <=> k = "DISCONNECT") /\ hush'[c] = 0
      /\ UNCHANGED <<gone, slack, named, idle, lag, spc, ready, cur, kind, len>>
  BY <1>0 DEF Send, Talks, Heard, server
<1>2. pipe'[c] = pipe[c] \o Bytes(k, 0) /\ rest'[c] = <<>>
  <2>1. Bytes(k, 0) \in Seq(Symbols) /\ Len(Bytes(k, 0)) \in Nat
    BY BytesType
  <2>2. SubSeq(Bytes(k, 0), 1, Len(Bytes(k, 0))) = Bytes(k, 0)
    BY <2>1, SubSeqFull
  <2>3. SubSeq(Bytes(k, 0), Len(Bytes(k, 0)) + 1, Len(Bytes(k, 0))) = <<>>
    BY <2>1, SubSeqEmpty
  <2>4. /\ pipe' = [pipe EXCEPT ![c] = @ \o SubSeq(Bytes(k, 0), 1, Len(Bytes(k, 0)))]
        /\ rest' = [rest EXCEPT ![c] = SubSeq(Bytes(k, 0), Len(Bytes(k, 0)) + 1, Len(Bytes(k, 0)))]
    BY <1>0, <1>1 DEF Send
  <2> QED BY <1>0, <2>2, <2>3, <2>4
<1>3. Stream(c)' = Stream(c) \o Bytes(k, 0)
  <2>1. /\ Bytes(k, 0) \in Seq(Symbols) /\ <<kind>> \in Seq(Symbols)
        /\ <<kind, "last">> \in Seq(Symbols)
    <3>1. Bytes(k, 0) \in Seq(Symbols)
      BY BytesType
    <3>2. "last" \in Symbols
      BY DEF Symbols
    <3>3. <<kind>> \in Seq(Symbols) /\ <<kind, "last">> \in Seq(Symbols)
      BY <1>0, <3>2
    <3> QED BY <3>1, <3>3
  <2>2. /\ <<kind>> \o (pipe[c] \o Bytes(k, 0)) = (<<kind>> \o pipe[c]) \o Bytes(k, 0)
        /\ <<kind, "last">> \o (pipe[c] \o Bytes(k, 0)) = (<<kind, "last">> \o pipe[c]) \o Bytes(k, 0)
    <3> DEFINE x == <<kind>>
               y == <<kind, "last">>
               b == Bytes(k, 0)
               p == pipe[c]
    <3>1. x \in Seq(Symbols) /\ y \in Seq(Symbols) /\ b \in Seq(Symbols) /\ p \in Seq(Symbols)
      BY <1>0, <2>1
    <3> HIDE DEF x, y, b, p
    <3>2. (x \o p) \o b = x \o (p \o b)
      BY <3>1, ConcatAssociative
    <3>3. (y \o p) \o b = y \o (p \o b)
      BY <3>1, ConcatAssociative
    <3> QED BY <3>2, <3>3 DEF x, y, b, p
  <2> QED BY <1>1, <1>2, <2>2 DEF Stream
<1> DEFINE s == Stream(c)
           t == Stream(c) \o Bytes(k, 0)
<1>4. s \in Seq(Symbols) /\ Len(s) \in Nat /\ Body(k) \in {0, 1} /\ Body(s[1]) \in {0, 1}
  <2>1. Stream(c) \in Seq(Symbols)
    BY <1>0, StreamShape
  <2>2. Len(Stream(c)) \in Nat
    BY <2>1, LenProperties
  <2>3. Body(k) \in {0, 1} /\ Body(s[1]) \in {0, 1}
    BY DEF Body
  <2> QED BY <2>1, <2>2, <2>3
<1>5. /\ Packets(t) /\ t \in Seq(Symbols) /\ Len(t) = Len(s) + 2 + Body(k)
      /\ \A j \in 1..Len(s) : t[j] = s[j]
      /\ t[Len(s) + 1] = k
      /\ \A j \in 2..(2 + Body(k)) : t[Len(s) + j] \in {"last", "body"}
  BY <1>4, PacketsAppend DEF Spoken
<1>6. Stream(c)' = t /\ (Reading(c)' <=> Reading(c))
  BY <1>1, <1>3 DEF Reading
<1>7. /\ Packets(s) /\ (Reading(c) => len = 0) /\ (c \notin said => s = <<>>)
      /\ (c \in said \ named => s # <<>> /\ s[1] = "CONNECT")
      /\ \A j \in 1..Len(s) : s[j] # "DISCONNECT"
  BY <1>1 DEF Spoken
<1>8. ready[c] = "in" \/ Reading(c) => s # <<>>
  <2>1. ready[c] = "in" => s # <<>>
    BY <1>0, <1>1, StreamShape DEF Slotted
  <2>2. Reading(c) => s # <<>>
    BY <1>0, <1>7, RestIsThere
  <2> QED BY <2>1, <2>2
<1> HIDE DEF s, t
<1>9. c \notin named => t[1] = "CONNECT"
  <2>1. CASE c \notin said
    BY <1>1, <1>5, <1>7, <2>1
  <2>2. CASE c \in said /\ c \notin named
    <3>1. 1 \in 1..Len(s)
      BY <1>4, <1>7, <2>2
    <3> QED BY <1>5, <1>7, <2>2, <3>1
  <2> QED BY <2>1, <2>2
<1>10. Len(t) >= 2 /\ t # <<>>
  BY <1>4, <1>5
<1>11. ASSUME k = "DISCONNECT" PROVE t[Len(t) - 1] = "DISCONNECT"
  <2>1. Body(k) = 0
    BY <1>11 DEF Body
  <2>2. Len(t) - 1 = Len(s) + 1
    BY <1>4, <1>5, <2>1
  <2> QED BY <1>5, <1>11, <2>2
<1>12. ASSUME k # "DISCONNECT", NEW j \in 1..Len(t) PROVE t[j] # "DISCONNECT"
  <2>1. CASE j <= Len(s)
    BY <1>4, <1>5, <1>7, <2>1
  <2>2. CASE j > Len(s)
    <3>1. j - Len(s) \in 1..(2 + Body(k)) /\ Len(s) + (j - Len(s)) = j
      BY <1>4, <1>5, <2>2
    <3>2. PICK m \in 1..(2 + Body(k)) : j = Len(s) + m
      BY <3>1
    <3>3. m = 1 \/ m \in 2..(2 + Body(k))
      BY <1>4
    <3> QED BY <1>5, <1>12, <3>2, <3>3
  <2> QED BY <1>4, <2>1, <2>2
<1>13. Spoken(c)'
  BY <1>1, <1>2, <1>5, <1>6, <1>7, <1>9, <1>10, <1>11, <1>12 DEF Spoken
<1>14. ASSUME s # <<>> PROVE ~Single(t)
  <2>1. t[1] = s[1] /\ 2 + Body(s[1]) <= Len(s)
    <3>1. 1 \in 1..Len(s)
      BY <1>4, <1>14
    <3>2. 1 + 1 + Body(s[1]) <= Len(s)
      BY <1>7, <1>14, <3>1 DEF Packets
    <3> QED BY <1>4, <1>5, <3>1, <3>2
  <2>2. PICK d \in {0, 1}, e \in {0, 1} : d = Body(s[1]) /\ e = Body(k)
    BY <1>4
  <2>3. Len(t) # 2 + d
    BY <1>4, <1>5, <2>1, <2>2
  <2> QED BY <2>1, <2>2, <2>3 DEF Single
<1>15. 0 < Promised(c)' + Grace
  BY InputAssumption DEF Promised
<1>16. ASSUME c \notin slack PROVE Timely(c)'
  <2>1. ready[c] = "quiet" => idle[c] < Deadline(c)
    BY <1>16 DEF Timely
  <2>2. Deadline(c)' = Deadline(c)
    BY <1>1 DEF Deadline
  <2>3. Single(Stream(c))' <=> Single(t)
    BY <1>6 DEF Single
  <2> QED BY <1>1, <1>6, <1>8, <1>10, <1>14, <1>15, <2>1, <2>2, <2>3 DEF Timely
<1> QED BY <1>1, <1>13, <1>16

\* ServerThread begins to read a packet of a client of ours.
LEMMA HaveDataKept ==
    ASSUME Typed, Slotted, NEW c \in Orderly, c \in up \ doomed, c \notin doomed', Spoken(c),
           c \notin slack => Timely(c), HaveData(c)
    PROVE  Spoken(c)' /\ (c \notin slack' => Timely(c)')
<1>0. /\ c \in Clients /\ pipe \in [Clients -> Seq(Symbols)] /\ idle \in [Clients -> 0..Late]
      /\ ready \in [Clients -> {"in", "hup", "quiet", "done"}]
  BY DEF Typed, Orderly
<1>1. /\ spc = "slot" /\ ready[c] = "in" /\ ready'[c] = "done" /\ idle'[c] = 0
      /\ UNCHANGED <<gone, rest, said, bye, hush, slack, named, lag, len>>
  BY <1>0 DEF HaveData, Visit, Visited, SetPacketLastTime, unread
<1>2. pipe[c] # <<>>
  BY DEF HaveData, GiveUp, Doom
<1>3. kind' = Head(pipe[c]) /\ pipe'[c] = Tail(pipe[c]) /\ cur' = c /\ spc' = "length"
  BY <1>0, <1>2 DEF HaveData
<1>4. Stream(c) = pipe[c] /\ len = 0 /\ Reading(c)'
  BY <1>1, <1>3 DEF Stream, Slotted, Reading
<1>5. Stream(c)' = Stream(c)
  <2>1. <<Head(pipe[c])>> \o Tail(pipe[c]) = pipe[c]
    BY <1>0, <1>2, ConsHead
  <2> QED BY <1>3, <1>4, <2>1 DEF Stream
<1>6. Spoken(c)'
  BY <1>1, <1>4, <1>5 DEF Spoken
<1>7. c \notin slack' => Timely(c)'
  BY <1>1, <1>2, <1>4, <1>5 DEF Timely, Promised, Single
<1> QED BY <1>6, <1>7

\* The length of the packet is read at once.
LEMMA ReadLengthKept ==
    ASSUME Typed, Slotted, NEW c \in Orderly, c \in up \ doomed, Spoken(c),
           c \notin slack => Timely(c), ReadLength, cur = c
    PROVE  Spoken(c)' /\ (c \notin slack' => Timely(c)')
<1>0. c \in Clients /\ pipe \in [Clients -> Seq(Symbols)] /\ kind \in Symbols /\ "last" \in Symbols
  BY DEF Typed, Orderly, Symbols
<1>1. /\ spc = "length" /\ Reading(c)
      /\ UNCHANGED <<gone, rest, said, bye, hush, slack, named, idle, lag, ready, kind>>
  BY DEF ReadLength, Reading, unread
<1>2. pipe[c] # <<>> /\ Head(pipe[c]) = "last" /\ len = 0 /\ len # MaxLenBytes
  BY <1>0, <1>1, RestIsThere, InputAssumption DEF Spoken
<1>3. pipe'[c] = Tail(pipe[c]) /\ len' = 0 /\ spc' = "body" /\ cur' = c
  BY <1>0, <1>2 DEF ReadLength
<1>4. Stream(c)' = Stream(c) /\ Reading(c)'
  <2>1. <<"last">> \o Tail(pipe[c]) = pipe[c] /\ Tail(pipe[c]) \in Seq(Symbols)
    BY <1>0, <1>2, ConsHead
  <2>2. <<kind, "last">> = <<kind>> \o <<"last">>
    OBVIOUS
  <2>3. <<kind>> \in Seq(Symbols) /\ <<"last">> \in Seq(Symbols)
    BY <1>0
  <2>4. (<<kind>> \o <<"last">>) \o Tail(pipe[c]) = <<kind>> \o (<<"last">> \o Tail(pipe[c]))
    BY <2>1, <2>3, ConcatAssociative
  <2>5. <<kind, "last">> \o Tail(pipe[c]) = <<kind>> \o pipe[c]
    BY <2>1, <2>2, <2>4
  <2> QED BY <1>1, <1>3, <2>5 DEF Stream, Reading
<1>5. Spoken(c)'
  BY <1>1, <1>3, <1>4 DEF Spoken
<1>6. c \notin slack' => Timely(c)'
  BY <1>1, <1>4 DEF Timely, Promised, Single, Deadline
<1> QED BY <1>5, <1>6

\* ServerThread handles a packet that it does not refuse.
LEMMA ReadBodyKept ==
    ASSUME Typed, Slotted, NEW c \in Orderly, c \in up \ doomed, c \notin doomed', Spoken(c),
           c \notin slack => Timely(c), ReadBody, cur = c
    PROVE  Spoken(c)' /\ (c \notin slack' => Timely(c)')
<1>0. /\ c \in Clients /\ pipe \in [Clients -> Seq(Symbols)] /\ pipe[c] \in Seq(Symbols)
      /\ lag \in 0..Late
  BY DEF Typed, Orderly
<1>1. /\ spc = "body" /\ Reading(c) /\ ready'[c] = "done" /\ idle'[c] = 0
      /\ UNCHANGED <<gone, rest, said, bye, hush, slack, lag, len>>
  BY <1>0 DEF ReadBody, Reading, unread, Slotted
<1>2. /\ Stream(c) # <<>> /\ kind \in Kinds /\ Stream(c)[1] = kind
      /\ Len(pipe[c]) >= Body(kind) /\ Len(pipe[c]) \in Nat /\ Body(kind) \in {0, 1}
  <2>1. Stream(c) # <<>> /\ kind \in Kinds /\ Stream(c)[1] = kind /\ Len(pipe[c]) >= Body(kind)
    BY <1>0, <1>1, RestIsThere DEF Spoken
  <2>2. Len(pipe[c]) \in Nat
    BY <1>0
  <2>3. Body(kind) \in {0, 1}
    BY DEF Body
  <2> QED BY <2>1, <2>2, <2>3
<1>3. ~ShortRead
  BY <1>2 DEF ShortRead
<1>4. kind # "DISCONNECT"
  BY DEF ReadBody, GiveUp, Doom
<1>5. /\ pipe'[c] = SubSeq(pipe[c], Body(kind) + 1, Len(pipe[c])) /\ spc' = "slot"
      /\ named' = IF kind = "CONNECT" THEN named \union {c} ELSE named
  BY <1>0, <1>3, <1>4 DEF ReadBody, ReadData
<1>6. Stream(c)' = pipe'[c] /\ ~Reading(c)'
  BY <1>5 DEF Stream, Reading
<1> DEFINE s == Stream(c)
           q == SubSeq(pipe[c], Body(kind) + 1, Len(pipe[c]))
           n == 2 + Body(kind)
<1>7. /\ s \in Seq(Symbols) /\ Len(s) = 2 + Len(pipe[c])
      /\ \A j \in 1..Len(pipe[c]) : s[j + 2] = pipe[c][j]
  BY <1>0, <1>1, StreamShape
<1>8. PICK b \in {0, 1} : b = Body(kind)
  BY <1>2
<1>9. /\ q \in Seq(Symbols) /\ Len(q) = Len(pipe[c]) - b
      /\ \A j \in 1..Len(q) : q[j] = pipe[c][j + b]
  <2> DEFINE p == pipe[c]
  <2>1. p \in Seq(Symbols) /\ Len(p) \in Nat /\ b <= Len(p) /\ b \in Nat
    BY <1>0, <1>2, <1>8
  <2> HIDE DEF p
  <2>2. \A j \in (b + 1)..Len(p) : p[j] \in Symbols
    BY <2>1
  <2>3. /\ SubSeq(p, b + 1, Len(p)) \in Seq(Symbols)
        /\ Len(SubSeq(p, b + 1, Len(p))) = IF b + 1 <= Len(p) THEN Len(p) - (b + 1) + 1 ELSE 0
        /\ \A j \in 1..(Len(p) - (b + 1) + 1) : SubSeq(p, b + 1, Len(p))[j] = p[b + 1 + j - 1]
    BY <2>1, <2>2, SubSeqProperties
  <2>4. Len(SubSeq(p, b + 1, Len(p))) = Len(p) - b
    BY <2>1, <2>3
  <2>5. ASSUME NEW j \in 1..(Len(p) - b) PROVE SubSeq(p, b + 1, Len(p))[j] = p[j + b]
    <3>1. j \in 1..(Len(p) - (b + 1) + 1) /\ b + 1 + j - 1 = j + b
      BY <2>1
    <3> QED BY <2>3, <3>1
  <2> QED BY <1>8, <2>3, <2>4, <2>5 DEF p
<1>10. n \in Nat /\ n = 2 + Body(s[1]) /\ n = 2 + b
  BY <1>2, <1>8
<1>11. Len(q) \in Nat /\ Len(s) \in Nat /\ Len(q) = Len(s) - n
  <2>1. Len(q) = Len(pipe[c]) - b /\ Len(s) = 2 + Len(pipe[c]) /\ n = 2 + b
    BY <1>7, <1>9, <1>10
  <2>2. Len(pipe[c]) \in Nat /\ b \in {0, 1} /\ b <= Len(pipe[c])
    BY <1>2, <1>8
  <2> HIDE DEF s, q, n
  <2> QED BY <2>1, <2>2
<1> HIDE DEF s, q, n
<1>12. \A j \in 1..Len(q) : q[j] = s[j + n]
  <2> SUFFICES ASSUME NEW j \in 1..Len(q) PROVE q[j] = s[j + n]
    OBVIOUS
  <2>1. j + b \in 1..Len(pipe[c]) /\ (j + b) + 2 = j + n
    BY <1>2, <1>9, <1>10, <1>11
  <2>2. s[(j + b) + 2] = pipe[c][j + b]
    BY <1>7, <2>1
  <2> QED BY <1>9, <2>1, <2>2
<1>13. /\ Packets(s) /\ s # <<>> /\ s[1] = kind
       /\ c \in said /\ (c \in said \ named => s[1] = "CONNECT")
       /\ c \in bye => Len(s) >= 2 /\ s[Len(s) - 1] = "DISCONNECT"
       /\ c \notin bye => \A j \in 1..Len(s) : s[j] # "DISCONNECT"
       /\ (Single(s) /\ c \notin slack \union gone => lag <= hush[c])
  BY <1>1, <1>2 DEF s, Spoken, Timely
<1>14. Packets(q) /\ n <= Len(s) /\ s[2] = "last" /\ (Body(s[1]) = 1 => s[3] = "body")
  BY <1>7, <1>9, <1>10, <1>11, <1>12, <1>13, PacketsDrop
<1>15. ASSUME c \in bye PROVE Len(q) >= 2 /\ q[Len(q) - 1] = "DISCONNECT"
  <2>1. Len(s) - 1 # 1 /\ Len(s) - 1 # 2
    BY <1>4, <1>13, <1>14, <1>15
  <2>2. b = 1 => Len(s) - 1 # 3
    BY <1>8, <1>13, <1>14, <1>15, <1>2
  <2>5. Len(s) \in Nat /\ Len(s) >= 2 /\ b \in {0, 1} /\ n = 2 + b
    BY <1>8, <1>10, <1>11, <1>13, <1>15
  <2>3. Len(s) - 1 > n
    <3>1. PICK m \in Nat : m = Len(s)
      BY <2>5
    <3>2. m >= 2 /\ m # 2 /\ m # 3 /\ (b = 1 => m # 4)
      BY <2>1, <2>2, <2>5, <3>1
    <3>3. m - 1 > 2 + b
      BY <2>5, <3>2
    <3> QED BY <2>5, <3>1, <3>3
  <2>4. Len(q) >= 2 /\ Len(q) - 1 \in 1..Len(q) /\ (Len(q) - 1) + n = Len(s) - 1
    BY <1>10, <1>11, <2>3
  <2> QED BY <1>12, <1>13, <1>15, <2>4
<1>16. ASSUME c \notin bye, NEW j \in 1..Len(q) PROVE q[j] # "DISCONNECT"
  <2>1. j + n \in 1..Len(s)
    BY <1>10, <1>11
  <2> QED BY <1>12, <1>13, <1>16, <2>1
<1>17. q = <<>> => Single(s)
  <2>1. q = <<>> => Len(q) = 0
    OBVIOUS
  <2>2. Len(q) = 0 => Len(s) = n
    BY <1>10, <1>11
  <2> QED BY <1>10, <2>1, <2>2 DEF Single
<1>18. Stream(c)' = q
  BY <1>5, <1>6 DEF q
<1>19. Spoken(c)'
  <2>1. rest'[c] = <<>>
    BY <1>1 DEF Spoken
  <2>2. c \in said'
    BY <1>1, <1>13
  <2>3. c \in named'
    BY <1>5, <1>13
  <2>4. /\ c \in bye' => Len(q) >= 2 /\ q[Len(q) - 1] = "DISCONNECT"
        /\ c \notin bye' => \A j \in 1..Len(q) : q[j] # "DISCONNECT"
    BY <1>1, <1>15, <1>16
  <2> QED BY <1>6, <1>14, <1>18, <2>1, <2>2, <2>3, <2>4 DEF Spoken
<1>20. ASSUME c \notin slack' PROVE Timely(c)'
  <2>1. c \notin gone => hush[c] < Promised(c) + Grace
    BY <1>1, <1>20 DEF Timely
  <2>2. Promised(c)' = Promised(c)
    BY <1>1 DEF Promised
  <2>3. c \notin gone /\ q = <<>> => Plus(idle'[c], lag) <= hush[c]
    <3>1. Plus(0, lag) = lag
      BY <1>0, InputAssumption DEF Plus, Late
    <3> QED BY <1>1, <1>13, <1>17, <1>20, <3>1
  <2> QED BY <1>1, <1>6, <1>18, <2>1, <2>2, <2>3 DEF Timely
<1> QED BY <1>19, <1>20

LEMMA KeptStep == Typed /\ Slotted /\ Kept /\ Typed' /\ Slotted' /\ [Next]_vars => Kept'
<1> SUFFICES ASSUME Typed, Slotted, Kept, Typed', Slotted', [Next]_vars,
                    NEW c \in Orderly, c \in up' \ doomed'
             PROVE  Spoken(c)' /\ (c \notin slack' => Timely(c)')
  BY DEF Kept
<1>0. /\ c \in Clients /\ c \notin Ragged
      /\ pipe \in [Clients -> Seq(Symbols)] /\ rest \in [Clients -> Seq(Symbols)]
      /\ hush \in [Orderly -> 0..Late] /\ idle \in [Clients -> 0..Late] /\ lag \in 0..Late
      /\ ready \in [Clients -> {"in", "hup", "quiet", "done"}]
      /\ spc \in {"length", "body"} => cur \in Clients
  BY DEF Typed, Orderly
<1> USE DEF client, server, unread
\* A step that leaves the client and its packets alone.
<1>1. ASSUME c \in up \ doomed, Stream(c)' = Stream(c), rest'[c] = rest[c],
             Reading(c)' => len' = 0, c \in said' <=> c \in said, c \in bye' <=> c \in bye,
             c \in named' <=> c \in named
      PROVE  Spoken(c)'
  BY <1>1 DEF Kept, Spoken
<1>2. ASSUME c \in up \ doomed, Stream(c)' = Stream(c), c \in said' <=> c \in said,
             c \in named' <=> c \in named, slack \subseteq slack', gone \subseteq gone',
             hush'[c] = hush[c], idle'[c] = idle[c], lag' = lag,
             ready'[c] \in {ready[c], "done"}, Reading(c)' => Reading(c)
      PROVE  c \notin slack' => Timely(c)'
  BY <1>2 DEF Kept, Timely, Promised, Deadline, Single
<1>3. ASSUME c \in up \ doomed, pipe'[c] = pipe[c], Reading(c) <=> Reading(c)',
             Reading(c) => UNCHANGED <<spc, cur, kind>>
      PROVE  Stream(c)' = Stream(c)
  BY <1>3 DEF Stream, Reading
<1>4. ASSUME c \in up \ doomed, UNCHANGED <<said, bye, spc, cur, kind, len, lag>>,
             c \in named' <=> c \in named, slack \subseteq slack', gone \subseteq gone',
             pipe'[c] = pipe[c], rest'[c] = rest[c], hush'[c] = hush[c],
             idle'[c] = idle[c], ready'[c] \in {ready[c], "done"}
      PROVE  Spoken(c)' /\ (c \notin slack' => Timely(c)')
  <2>1. Stream(c)' = Stream(c) /\ (Reading(c)' <=> Reading(c))
    BY <1>4 DEF Stream, Reading
  <2>2. Reading(c) => len = 0
    BY <1>4 DEF Kept, Spoken
  <2> QED BY <1>1, <1>2, <1>4, <2>1, <2>2
<1>5. CASE UNCHANGED vars
  BY <1>4, <1>5 DEF vars
<1>6. ASSUME NEW d \in Clients, d # c, NEW k \in Kinds, NEW more \in 0..MaxLenBytes, Send(d, k, more)
      PROVE  Spoken(c)' /\ (c \notin slack' => Timely(c)')
  <2>1. /\ c \in up \ doomed /\ UNCHANGED <<spc, cur, kind, len, lag, idle, ready, named, slack, gone>>
        /\ pipe'[c] = pipe[c] /\ rest'[c] = rest[c] /\ hush'[c] = hush[c]
        /\ (c \in said' <=> c \in said) /\ (c \in bye' <=> c \in bye)
    BY <1>0, <1>6 DEF Send, Heard
  <2>2. Stream(c)' = Stream(c) /\ (Reading(c)' <=> Reading(c))
    BY <2>1 DEF Stream, Reading
  <2>3. Reading(c) => len = 0
    BY <2>1 DEF Kept, Spoken
  <2> QED BY <1>1, <1>2, <2>1, <2>2, <2>3
<1>7. ASSUME NEW d \in Clients, SendRest(d) PROVE Spoken(c)' /\ (c \notin slack' => Timely(c)')
  <2>1. c \in up \ doomed
    BY <1>7 DEF SendRest
  <2>2. d # c
    BY <1>7, <2>1 DEF SendRest, Kept, Spoken
  <2>3. pipe'[c] = pipe[c] /\ rest'[c] = rest[c] /\ hush'[c] = hush[c]
    BY <1>0, <1>7, <2>2 DEF SendRest, Heard
  <2> QED BY <1>4, <1>7, <2>1, <2>3 DEF SendRest
<1>8. ASSUME NEW d \in Clients, Die(d) PROVE Spoken(c)' /\ (c \notin slack' => Timely(c)')
  <2>1. c \in up \ doomed
    BY <1>8 DEF Die
  <2>2. rest[c] = <<>>
    BY <2>1 DEF Kept, Spoken
  <2>3. rest'[c] = rest[c]
    BY <1>0, <1>8, <2>2 DEF Die
  <2> QED BY <1>4, <1>8, <2>1, <2>3 DEF Die
<1>9. CASE Tick
  <2>1. /\ c \in up \ doomed /\ UNCHANGED <<up, gone, pipe, rest, said, bye, named, idle, spc, ready, cur, kind, len>>
        /\ lag' = Plus(lag, 1) /\ slack \subseteq slack'
        /\ c \notin gone => hush'[c] = Plus(hush[c], 1)
    BY <1>0, <1>9 DEF Tick
  <2>2. Stream(c)' = Stream(c) /\ (Reading(c)' <=> Reading(c))
    BY <2>1 DEF Stream, Reading
  <2>3. Spoken(c) /\ (c \notin slack => Timely(c))
    BY <2>1 DEF Kept
  <2>4. Spoken(c)'
    BY <1>1, <2>1, <2>2, <2>3 DEF Spoken
  <2>5. ASSUME c \notin slack', c \notin gone PROVE hush'[c] < Promised(c)' + Grace
    <3>1. hush[c] + 1 < Promised(c) + Grace \/ ~(hush[c] + 1 >= Promised(c) + Grace)
      BY <1>0, <1>9, <2>1, <2>5 DEF Tick
    <3>2. Promised(c)' = Promised(c) /\ Promised(c) \in Nat /\ Grace \in Nat
      BY <2>1, InputAssumption DEF Promised
    <3>3. hush[c] \in 0..Late /\ Plus(hush[c], 1) <= hush[c] + 1 /\ Plus(hush[c], 1) \in 0..Late /\ Late \in Nat
      <4>1. hush[c] \in 0..Late /\ Late \in Nat
        BY <1>0, InputAssumption DEF Late
      <4> QED BY <4>1 DEF Plus
    <3> QED BY <2>1, <2>5, <3>1, <3>2, <3>3
  <2>6. ASSUME c \notin slack', c \notin gone, Stream(c)' = <<>> PROVE Plus(idle[c], lag') <= hush'[c]
    <3>1. Plus(idle[c], lag) <= hush[c] /\ idle[c] \in 0..Late /\ hush[c] \in 0..Late
      BY <1>0, <2>1, <2>2, <2>3, <2>6 DEF Timely
    <3> QED BY <1>0, <2>1, <2>6, <3>1, PlusMonotonic
  <2>7. ASSUME c \notin slack', c \notin gone, ready[c] = "in" \/ Reading(c), Single(Stream(c))
        PROVE  lag' <= hush'[c]
    <3>1. lag <= hush[c] /\ hush[c] \in 0..Late
      BY <1>0, <2>1, <2>3, <2>7 DEF Timely
    <3> QED BY <1>0, <2>1, <2>7, <3>1, PlusMonotonic
  <2>8. c \notin slack' /\ ready'[c] = "quiet" => idle'[c] < Deadline(c)'
    BY <2>1, <2>3 DEF Timely, Deadline
  <2>9. Single(Stream(c))' <=> Single(Stream(c))
    BY <2>2 DEF Single
  <2> QED BY <2>1, <2>2, <2>4, <2>5, <2>6, <2>7, <2>8, <2>9 DEF Timely
<1>10. ASSUME NEW d \in Clients, Quiet(d) \/ HangUp(d)
       PROVE  Spoken(c)' /\ (c \notin slack' => Timely(c)')
  <2>1. /\ spc = "slot" /\ spc' = "slot" /\ doomed \subseteq doomed' /\ ready' = [ready EXCEPT ![d] = "done"]
        /\ UNCHANGED <<up, gone, pipe, rest, said, bye, hush, slack, named, idle, lag>>
    BY <1>10 DEF Quiet, HangUp, Visit, Visited, GiveUp, Doom
  <2>2. c \in up \ doomed /\ ready'[c] \in {ready[c], "done"} /\ ~Reading(c) /\ ~Reading(c)'
    BY <1>0, <2>1 DEF Reading
  <2> QED BY <1>1, <1>2, <1>3, <2>1, <2>2
<1>11. CASE EndPass
  <2>1. /\ spc = "slot" /\ spc' = "poll" /\ up' = up \ doomed /\ named' = named \ doomed
        /\ UNCHANGED <<gone, said, bye, slack, idle, lag, ready>>
    BY <1>11 DEF EndPass
  <2>2. pipe'[c] = pipe[c] /\ rest'[c] = rest[c] /\ hush'[c] = hush[c] /\ c \in up \ doomed
    BY <1>0, <1>11, <2>1 DEF EndPass
  <2>3. ~Reading(c) /\ ~Reading(c)'
    BY <2>1 DEF Reading
  <2> QED BY <1>1, <1>2, <1>3, <2>1, <2>2, <2>3
<1>12. CASE Poll
  <2>1. /\ spc = "poll" /\ spc' = "slot" /\ lag' = 0 /\ c \in up \ doomed
        /\ UNCHANGED <<up, gone, pipe, rest, said, bye, hush, slack, named>>
    BY <1>12 DEF Poll
  <2>2. ~Reading(c) /\ ~Reading(c)'
    BY <2>1 DEF Reading
  <2>3. Stream(c)' = Stream(c) /\ Stream(c) = pipe[c] /\ Spoken(c) /\ (c \notin slack => Timely(c))
    BY <1>0, <1>3, <2>1, <2>2, StreamShape DEF Kept
  <2>4. Spoken(c)'
    BY <1>1, <2>1, <2>2, <2>3
  <2>5. idle'[c] = Plus(idle[c], lag) /\ idle'[c] \in 0..Late /\ hush[c] \in 0..Late
    BY <1>0, <1>12, <2>1 DEF Poll, Typed
  <2>6. c \notin slack /\ c \notin gone /\ Stream(c) = <<>> => Plus(idle'[c], lag') <= hush[c] /\ idle'[c] <= hush[c]
    BY <2>1, <2>3, <2>5, PlusMonotonic DEF Timely
  <2>7. ready'[c] = "quiet" => c \notin gone /\ pipe[c] = <<>>
    BY <1>0, <1>12, <2>1 DEF Poll, Slots, Revents
  <2>8. ASSUME c \notin slack, ready'[c] = "quiet" PROVE idle'[c] < Deadline(c)'
    <3>1. hush[c] < Promised(c) + Grace /\ idle'[c] <= hush[c]
      BY <2>3, <2>6, <2>7, <2>8 DEF Timely
    <3>2. Deadline(c)' = Promised(c) + Grace
      BY <2>1, <2>3, <2>7, <2>8 DEF Spoken, Deadline, Promised
    <3>3. Promised(c) + Grace \in Nat /\ idle'[c] \in Nat /\ hush[c] \in Nat
      BY <2>5, InputAssumption DEF Promised
    <3> QED BY <3>1, <3>2, <3>3
  <2>9. lag' <= hush'[c]
    BY <2>1, <2>5
  <2> QED BY <2>1, <2>3, <2>4, <2>6, <2>8, <2>9 DEF Timely, Promised
<1>13. ASSUME NEW d \in Clients, HaveData(d) PROVE Spoken(c)' /\ (c \notin slack' => Timely(c)')
  <2>1. /\ c \in up \ doomed /\ spc = "slot" /\ spc' \in {"slot", "length"}
        /\ UNCHANGED <<gone, rest, said, bye, hush, slack, named, lag, len>>
    BY <1>13 DEF HaveData, Visit, GiveUp, Doom, Typed
  <2>2. CASE d = c
    BY <1>13, <2>1, <2>2, HaveDataKept DEF Kept
  <2>3. CASE d # c
    <3>1. pipe'[c] = pipe[c] /\ idle'[c] = idle[c] /\ ready'[c] = ready[c]
      BY <1>0, <1>13, <2>3 DEF HaveData, Visited, SetPacketLastTime
    <3>2. ~Reading(c) /\ ~Reading(c)'
      BY <1>13, <2>1, <2>3 DEF HaveData, Reading, GiveUp, Doom
    <3> QED BY <1>1, <1>2, <1>3, <2>1, <3>1, <3>2
  <2> QED BY <2>2, <2>3
<1>14. CASE ReadLength
  <2>1. /\ c \in up \ doomed /\ spc = "length"
        /\ UNCHANGED <<gone, rest, said, bye, hush, slack, named, idle, lag, ready>>
    BY <1>14 DEF ReadLength, GiveUp, Doom
  <2>2. CASE cur = c
    BY <1>14, <2>1, <2>2, ReadLengthKept DEF Kept
  <2>3. CASE cur # c
    <3>1. pipe'[c] = pipe[c] /\ ~Reading(c) /\ ~Reading(c)'
      BY <1>0, <1>14, <2>1, <2>3 DEF ReadLength, Reading, GiveUp, Doom
    <3> QED BY <1>1, <1>2, <1>3, <2>1, <3>1
  <2> QED BY <2>2, <2>3
<1>15. CASE ReadBody
  <2>1. /\ c \in up \ doomed /\ spc = "body" /\ spc' = "slot"
        /\ UNCHANGED <<gone, rest, said, bye, hush, slack, idle, lag, ready>>
    BY <1>15 DEF ReadBody, GiveUp, Doom
  <2>2. CASE cur = c
    BY <1>15, <2>1, <2>2, ReadBodyKept DEF Kept
  <2>3. CASE cur # c
    <3>1. pipe'[c] = pipe[c] /\ ~Reading(c) /\ ~Reading(c)' /\ (c \in named' <=> c \in named)
      BY <1>0, <1>15, <2>1, <2>3 DEF ReadBody, Reading
    <3> QED BY <1>1, <1>2, <1>3, <2>1, <3>1
  <2> QED BY <2>2, <2>3
<1>16. ASSUME NEW k \in Kinds, NEW more \in 0..MaxLenBytes, Send(c, k, more)
       PROVE  Spoken(c)' /\ (c \notin slack' => Timely(c)')
  <2>1. c \in up \ doomed
    BY <1>16 DEF Send
  <2> QED BY <1>16, <2>1, SendKept DEF Kept
<1> QED
  BY <1>0, <1>5, <1>6, <1>7, <1>8, <1>9, <1>10, <1>11, <1>12, <1>13, <1>14, <1>15, <1>16
     DEF Next, Speak, ServerThread

\* When ServerThread gives up an orderly client, or publishes its will.
LEMMA EndedOnlyAs ==
    ASSUME Typed, Slotted, Kept, [Next]_vars, NEW c \in Orderly,
           c \in doomed' \ doomed \/ c \in willed' \ willed
    PROVE  /\ c \in up \ doomed /\ bye' = bye
           /\ \/ c \in slack
              \/ c \in gone /\ Stream(c) = <<>>
              \/ c \in bye /\ willed' = willed
<1>0. c \in Clients
  BY DEF Orderly
<1> USE DEF client, server, unread
<1>1. ASSUME c \in up \ doomed, ReadLength, cur = c PROVE FALSE
  <2>1. Packets(Stream(c)) /\ Reading(c) /\ len = 0
    BY <1>1 DEF Kept, Spoken, ReadLength, Reading
  <2>2. pipe[c] # <<>> /\ Head(pipe[c]) = "last" /\ len # MaxLenBytes
    BY <1>0, <1>1, <2>1, RestIsThere, InputAssumption DEF ReadLength
  <2> QED BY <1>1, <2>2 DEF ReadLength
<1>2. ASSUME c \in up \ doomed, ReadBody, cur = c PROVE c \in bye /\ willed' = willed
  <2>1. Packets(Stream(c)) /\ Reading(c)
    BY <1>2 DEF Kept, Spoken, ReadBody, Reading
  <2>2. Stream(c) # <<>> /\ Stream(c)[1] = kind /\ Len(pipe[c]) >= Body(kind)
    BY <1>0, <1>2, <2>1, RestIsThere DEF ReadBody
  <2>3. 1 \in 1..Len(Stream(c))
    BY <1>0, <2>2, StreamShape
  <2>4. ~ShortRead
    <3>1. Len(pipe[c]) \in Nat /\ Body(kind) \in Nat
      BY <1>0 DEF Typed, Body
    <3> QED BY <1>2, <2>2, <3>1 DEF ShortRead
  <2>5. kind = "DISCONNECT" /\ willed' = willed
    BY <1>2, <2>4 DEF ReadBody, GiveUp, Doom
  <2> QED BY <1>2, <2>2, <2>3, <2>5 DEF Kept, Spoken
<1>3. ASSUME NEW d \in Clients, Quiet(d) \/ HangUp(d) \/ HaveData(d)
      PROVE  /\ bye' = bye /\ d = c /\ c \in up \ doomed /\ ready[c] # "done"
             /\ Stream(c) = pipe[c]
  <2>1. d = c /\ bye' = bye /\ ready[d] # "done"
    BY <1>3 DEF Quiet, HangUp, HaveData, Visit, GiveUp, Doom
  <2>2. c \in up \ doomed /\ ~Reading(c)
    BY <1>0, <2>1 DEF Slotted
  <2> QED BY <1>0, <2>1, <2>2, StreamShape
<1>4. ASSUME NEW d \in Clients, Quiet(d) PROVE c \in slack
  <2>1. c \in up \ doomed /\ ready[c] = "quiet" /\ TimedOut(c)
    BY <1>3, <1>4 DEF Quiet, Visit
  <2>2. ASSUME c \notin slack PROVE idle[c] < Deadline(c)
    BY <2>1, <2>2 DEF Kept, Timely
  <2>3. idle[c] \in Nat /\ Deadline(c) \in Nat
    BY <1>0, InputAssumption DEF Typed, Deadline
  <2> QED BY <2>1, <2>2, <2>3 DEF TimedOut
<1>5. ASSUME NEW d \in Clients, HangUp(d) PROVE c \in gone /\ pipe[c] = <<>>
  BY <1>0, <1>3, <1>5 DEF HangUp, Visit, Slotted
<1>6. ASSUME NEW d \in Clients, HaveData(d) PROVE c \in gone /\ pipe[c] = <<>>
  <2>1. ready[c] = "in" /\ pipe[c] = <<>>
    BY <1>3, <1>6 DEF HaveData, Visit
  <2> QED BY <1>0, <2>1 DEF Slotted
<1>7. ASSUME ReadLength \/ ReadBody PROVE cur = c /\ c \in up \ doomed /\ bye' = bye
  <2>1. cur = c /\ bye' = bye
    BY <1>7 DEF ReadLength, ReadBody, GiveUp, Doom
  <2>2. Reading(c)
    BY <1>7, <2>1 DEF ReadLength, ReadBody, Reading
  <2> QED BY <1>0, <2>1, <2>2 DEF Slotted, Typed, Reading
<1>8. ASSUME UNCHANGED <<doomed, willed>> \/ (doomed' = {} /\ willed' = willed) PROVE FALSE
  BY <1>8
<1>9. ~UNCHANGED vars /\ ~Tick /\ ~Poll /\ ~EndPass
  BY <1>8 DEF vars, Tick, Poll, EndPass
<1>10. \A d \in Clients : ~Speak(d)
  BY <1>8 DEF Speak, Send, SendRest, Die
<1> QED
  BY <1>1, <1>2, <1>3, <1>4, <1>5, <1>6, <1>7, <1>9, <1>10 DEF Next, ServerThread

LEMMA OrderlyKeptStep == Typed /\ Slotted /\ Kept /\ OrderlyKept /\ [Next]_vars => OrderlyKept'
<1> SUFFICES ASSUME Typed, Slotted, Kept, OrderlyKept, [Next]_vars,
                    NEW c \in Orderly \ (slack' \union gone' \union bye')
             PROVE  c \in up' \ (doomed' \union willed')
  BY DEF OrderlyKept
<1> USE DEF client, server, unread
<1>1. slack \subseteq slack' /\ gone \subseteq gone' /\ bye \subseteq bye'
  <2>1. CASE UNCHANGED vars
    BY <2>1 DEF vars
  <2>2. CASE Tick
    BY <2>2 DEF Tick
  <2>3. ASSUME NEW d \in Clients, Speak(d) PROVE slack \subseteq slack' /\ gone \subseteq gone' /\ bye \subseteq bye'
    BY <2>3 DEF Speak, Send, SendRest, Die
  <2>4. CASE ServerThread
    BY <2>4 DEF ServerThread, Poll, Quiet, HangUp, HaveData, ReadLength, ReadBody, EndPass
  <2> QED BY <2>1, <2>2, <2>3, <2>4 DEF Next
<1>2. c \in up \ (doomed \union willed)
  BY <1>1 DEF OrderlyKept
<1>3. c \notin doomed' \union willed'
  BY <1>1, <1>2, EndedOnlyAs
<1>4. up' = up \/ up' = up \ doomed
  <2>1. CASE UNCHANGED vars
    BY <2>1 DEF vars
  <2>2. CASE Tick
    BY <2>2 DEF Tick
  <2>3. ASSUME NEW d \in Clients, Speak(d) PROVE up' = up
    BY <2>3 DEF Speak, Send, SendRest, Die
  <2>4. CASE ServerThread
    BY <2>4 DEF ServerThread, Poll, Quiet, HangUp, HaveData, ReadLength, ReadBody, EndPass
  <2> QED BY <2>1, <2>2, <2>3, <2>4 DEF Next
<1> QED BY <1>2, <1>3, <1>4

LEMMA NoWillStep ==
    Typed /\ Slotted /\ Kept /\ OrderlyKept /\ NoWillAfterDisconnect /\ [Next]_vars
        => NoWillAfterDisconnect'
<1> SUFFICES ASSUME Typed, Slotted, Kept, OrderlyKept, NoWillAfterDisconnect, [Next]_vars,
                    NEW c \in Orderly, c \in bye', c \in willed'
             PROVE  c \in slack'
  BY DEF NoWillAfterDisconnect
<1> USE DEF client, server, unread
<1>1. slack \subseteq slack'
  <2>1. CASE UNCHANGED vars
    BY <2>1 DEF vars
  <2>2. CASE Tick
    BY <2>2 DEF Tick
  <2>3. ASSUME NEW d \in Clients, Speak(d) PROVE slack \subseteq slack'
    BY <2>3 DEF Speak, Send, SendRest, Die
  <2>4. CASE ServerThread
    BY <2>4 DEF ServerThread, Poll, Quiet, HangUp, HaveData, ReadLength, ReadBody, EndPass
  <2> QED BY <2>1, <2>2, <2>3, <2>4 DEF Next
\* Only a client that is there and whose will is not published says DISCONNECT.
<1>2. CASE c \notin bye
  <2>1. PICK k \in Kinds, more \in 0..MaxLenBytes : Send(c, k, more)
    <3>1. ~UNCHANGED vars /\ ~Tick /\ ~ServerThread
      BY <1>2 DEF vars, Tick, ServerThread, Poll, Quiet, HangUp, HaveData, ReadLength, ReadBody, EndPass
    <3>2. PICK d \in Clients : Speak(d)
      BY <3>1 DEF Next
    <3>3. ~SendRest(d) /\ ~Die(d)
      BY <1>2 DEF SendRest, Die
    <3>4. PICK k \in Kinds, more \in 0..MaxLenBytes : Send(d, k, more)
      BY <3>2, <3>3 DEF Speak
    <3>5. d = c
      BY <1>2, <3>4 DEF Send
    <3> QED BY <3>4, <3>5
  <2>2. c \notin gone /\ willed' = willed
    BY <2>1 DEF Send, Talks
  <2> QED BY <1>1, <1>2, <2>2 DEF OrderlyKept
<1>3. CASE c \in bye /\ c \in willed
  BY <1>1, <1>3 DEF NoWillAfterDisconnect
<1>4. CASE c \in bye /\ c \notin willed
  <2>1. c \in up \ doomed /\ (c \in slack \/ Stream(c) = <<>>)
    BY <1>4, EndedOnlyAs
  <2>2. Len(Stream(c)) >= 2
    BY <1>4, <2>1 DEF Kept, Spoken
  <2> QED BY <1>1, <2>1, <2>2
<1> QED BY <1>2, <1>3, <1>4

LEMMA KeptInit == Init => Slotted /\ Kept /\ OrderlyKept /\ NoWillAfterDisconnect
<1> SUFFICES ASSUME Init PROVE Slotted /\ Kept /\ OrderlyKept /\ NoWillAfterDisconnect
  OBVIOUS
<1>1. \A c \in Clients : ~Reading(c) /\ Stream(c) = <<>>
  BY DEF Init, Reading, Stream
<1>2. Slotted
  BY <1>1 DEF Init, Slotted
<1>3. OrderlyKept /\ NoWillAfterDisconnect
  BY DEF Init, OrderlyKept, NoWillAfterDisconnect, Orderly
<1>4. ASSUME NEW c \in Orderly PROVE Spoken(c) /\ Timely(c)
  <2>1. c \in Clients /\ c \notin Ragged
    BY DEF Orderly
  <2>2. Packets(<<>>) /\ Len(<<>>) = 0
    BY DEF Packets
  <2>3. Spoken(c)
    BY <1>1, <2>1, <2>2 DEF Init, Spoken
  <2>4. Timely(c)
    BY <1>1, <2>1, InputAssumption DEF Init, Timely, Plus, Late, Promised
  <2> QED BY <2>3, <2>4
<1> QED BY <1>2, <1>3, <1>4 DEF Kept

-----------------------------------------------------------------------------
(* The theorems. *)

IInv == Typed /\ Slotted /\ Kept /\ OrderlyKept /\ NoWillAfterDisconnect

LEMMA InputInductive == Spec => []IInv
<1>1. Init => IInv
  BY TypedInit, KeptInit DEF IInv
<1>2. IInv /\ [Next]_vars => IInv'
  BY TypedStep, SlottedStep, KeptStep, OrderlyKeptStep, NoWillStep DEF IInv
<1> QED BY <1>1, <1>2, PTL DEF Spec

\* A client whose packets arrive whole and that speaks again within its
\* keep-alive and five seconds keeps its connection, and its will is not
\* published, whatever the other clients send and however long ReadVariableInt
\* or a long pass holds the server up: idle never runs ahead of the silence of
\* the client, since SetPacketLastTime takes the current_time of the pass.
THEOREM OrderlyClientsKept == Spec => []OrderlyKept
BY InputInductive, PTL DEF IInv

\* HandlePacket of a DISCONNECT comes before the end of the input is seen, so
\* no will of a client that said it in time is published.
THEOREM NoWillAfterFarewell == Spec => []NoWillAfterDisconnect
BY InputInductive, PTL DEF IInv
=============================================================================
