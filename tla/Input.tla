------------------------------- MODULE Input --------------------------------
(***************************************************************************)
(* How ServerThread hears its clients: the bytes of their packets, read    *)
(* with blocking reads for the fixed header and without waiting for the    *)
(* rest, and the clock of the keep-alive.                                  *)
(*                                                                         *)
(* A byte is the packet type, a length byte that announces another one     *)
(* ("more"), the last length byte ("last") or a byte of the body, whose    *)
(* number depends on the packet type.  Time is kept as differences, and no *)
(* difference above Late matters: lag is how long ago the pass took        *)
(* current_time, idle how far the client's time_last_packet is behind      *)
(* current_time, and hush how long the client has said nothing.  The       *)
(* clients are connected from the start, and have a will.  The orderly     *)
(* ones have still to send CONNECT; the ragged ones have sent it, and now  *)
(* send PUBLISH in pieces, each when the one before has been read.         *)
(***************************************************************************)
EXTENDS Naturals, Sequences

CONSTANTS
    Clients,        \* connected clients
    Ragged,         \* clients whose packets may arrive in pieces, or with a bad length
    KeepAlive,      \* the keep-alive of CONNECT
    Grace,          \* 5 seconds in the code
    MaxLenBytes,    \* 4 in the code: length bytes of a fixed header
    Room            \* bound: bytes on the way to the server

ASSUME InputAssumption ==
    /\ Ragged \subseteq Clients
    /\ KeepAlive \in Nat /\ Grace \in Nat \ {0} /\ MaxLenBytes \in Nat \ {0}
    /\ Room \in Nat

Orderly == Clients \ Ragged
Late == KeepAlive + Grace
Plus(x, y) == IF x + y > Late THEN Late ELSE x + y
NoClient == "none"

VARIABLES
    up,             \* clients with a connection
    gone,           \* clients that have closed their side
    pipe, rest,     \* bytes not read, and bytes of a packet not yet sent
    said, bye,      \* clients that have sent CONNECT, and DISCONNECT
    hush, slack,    \* silence, and clients silent for too long (of the orderly ones)
    named,          \* clients whose CONNECT has been handled
    idle, lag,      \* the clocks
    spc,            \* where ServerThread is
    ready,          \* revents of the slots the pass has still to visit
    cur, kind, len, \* the client being read, its packet type, its length
    doomed,         \* fd_to_delete
    willed          \* clients whose will has been published

client == <<gone, pipe, rest, said, bye, hush, slack>>
server == <<spc, ready, cur, kind, len>>
vars == <<up, client, named, idle, lag, server, doomed, willed>>

-----------------------------------------------------------------------------
(* Clients and time. *)

Kinds == {"CONNECT", "PUBLISH", "PINGREQ", "DISCONNECT"}
Body(k) == IF k \in {"CONNECT", "PUBLISH"} THEN 1 ELSE 0

\* The bytes of a packet, with "more" length bytes too many.
Bytes(k, more) == <<k>> \o [i \in 1..more |-> "more"] \o <<"last">>
                        \o [i \in 1..Body(k) |-> "body"]

\* The client is there and has not finished.
Talks(c) == c \in up \ (gone \union bye)

\* The silence of the client ends.
Heard(c) == hush' = [d \in Orderly |-> IF d = c THEN 0 ELSE hush[d]]

\* A packet arrives, or the first byte of one.
Send(c, k, more) ==
    LET bytes == Bytes(k, more)
        n     == IF c \in Ragged THEN 1 ELSE Len(bytes)
    IN
    /\ Talks(c) /\ rest[c] = <<>>
    /\ (k = "CONNECT") = (c \notin said)
    /\ IF c \in Ragged THEN k = "PUBLISH" /\ pipe[c] = <<>> ELSE k # "PUBLISH" /\ more = 0
    /\ Len(pipe[c]) + n <= Room
    /\ pipe' = [pipe EXCEPT ![c] = @ \o SubSeq(bytes, 1, n)]
    /\ rest' = [rest EXCEPT ![c] = SubSeq(bytes, n + 1, Len(bytes))]
    /\ said' = said \union {c}
    /\ bye' = IF k = "DISCONNECT" THEN bye \union {c} ELSE bye
    /\ Heard(c)
    /\ UNCHANGED <<up, gone, slack, named, idle, lag, server, doomed, willed>>

\* The next byte of a packet in pieces arrives.
SendRest(c) ==
    /\ c \in up \ gone /\ rest[c] # <<>> /\ Len(pipe[c]) < Room
    /\ pipe' = [pipe EXCEPT ![c] = Append(@, Head(rest[c]))]
    /\ rest' = [rest EXCEPT ![c] = Tail(@)]
    /\ Heard(c)
    /\ UNCHANGED <<up, gone, said, bye, slack, named, idle, lag, server, doomed, willed>>

\* The client closes its side, whatever it was about to send.
Die(c) ==
    /\ c \in up \ gone
    /\ gone' = gone \union {c}
    /\ rest' = [rest EXCEPT ![c] = <<>>]
    /\ UNCHANGED <<up, pipe, said, bye, hush, slack, named, idle, lag, server,
                   doomed, willed>>

\* The keep-alive the client has asked for.
Promised(c) == IF c \in said THEN KeepAlive ELSE 0

Tick ==
    /\ lag' = Plus(lag, 1)
    /\ hush' = [c \in Orderly |-> IF c \in up \ gone THEN Plus(hush[c], 1) ELSE 0]
    /\ slack' = slack \union {c \in (Orderly \cap up) \ gone :
                                  hush[c] + 1 >= Promised(c) + Grace}
    /\ UNCHANGED <<up, gone, pipe, rest, said, bye, named, idle, server, doomed, willed>>

-----------------------------------------------------------------------------
(* ServerThread, state wait. *)

\* poll returns and current_time is taken.  A peer that has closed its side
\* makes the descriptor readable, or only hung up when nothing is left to read.
Revents(c) ==
    IF pipe[c] # <<>> THEN {"in"} ELSE IF c \in gone THEN {"in", "hup"} ELSE {"quiet"}

\* The slots of the pass: one for each client.
SlotsOffByOne == up \ {CHOOSE c \in up : TRUE}
Slots == up

Poll ==
    /\ spc = "poll"
    /\ lag' = 0
    /\ idle' = [c \in Clients |-> IF c \in up THEN Plus(idle[c], lag) ELSE 0]
    /\ ready' \in {r \in [Clients -> {"in", "hup", "quiet", "done"}] :
                     \A c \in Clients : r[c] \in IF c \in Slots THEN Revents(c) ELSE {"done"}}
    /\ spc' = "slot"
    /\ UNCHANGED <<up, client, named, cur, kind, len, doomed, willed>>

\* The next slot: the order is that of an unordered_map.
Visit(c, revents) == spc = "slot" /\ ready[c] = revents
Visited(c) == ready' = [ready EXCEPT ![c] = "done"]

\* fd_to_delete, with the will published when there is one.
Doom(c, wills) ==
    /\ doomed' = doomed \union {c}
    /\ willed' = willed \union (wills \cap Orderly)
    /\ spc' = "slot" /\ cur' = NoClient
GiveUpAlwaysWill(c, publish) == Doom(c, {c} \cap named)
GiveUpNoWill(c, publish) == Doom(c, {})
GiveUp(c, publish) == Doom(c, IF publish THEN {c} \cap named ELSE {})

\* GetAlive() + 5
Deadline(c) == (IF c \in named THEN KeepAlive ELSE 0) + Grace

TimedOutNever(c) == FALSE
TimedOut(c) == idle[c] >= Deadline(c)

Quiet(c) ==
    /\ Visit(c, "quiet")
    /\ IF TimedOut(c) THEN GiveUp(c, TRUE)
       ELSE UNCHANGED <<doomed, willed, spc, cur>>
    /\ Visited(c)
    /\ UNCHANGED <<up, client, named, idle, lag, kind, len>>

HangUp(c) ==
    /\ Visit(c, "hup")
    /\ GiveUp(c, TRUE)
    /\ Visited(c)
    /\ UNCHANGED <<up, client, named, idle, lag, kind, len>>

\* SetPacketLastTime(current_time), before anything is read.
SetPacketLastTimeNever(c) == UNCHANGED idle
SetPacketLastTime(c) == idle' = [idle EXCEPT ![c] = 0]

-----------------------------------------------------------------------------
(* ReadFixedHeader, ReadData and HandlePacket. *)

unread == <<gone, rest, said, bye, hush, slack>>

\* The first byte of the header is there, or the end of the input: read_err,
\* and the will.
HaveData(c) ==
    /\ Visit(c, "in")
    /\ SetPacketLastTime(c)
    /\ IF pipe[c] = <<>>
       THEN GiveUp(c, TRUE) /\ UNCHANGED <<pipe, kind>>
       ELSE /\ kind' = Head(pipe[c]) /\ pipe' = [pipe EXCEPT ![c] = Tail(@)]
            /\ cur' = c /\ spc' = "length"
            /\ UNCHANGED <<doomed, willed>>
    /\ Visited(c)
    /\ UNCHANGED <<up, unread, named, lag, len>>

\* ReadVariableInt waits for each length byte.  At the end of the input, and
\* with one length byte too many (var_int_err), the will is published.
ReadLength ==
    /\ spc = "length"
    /\ \/ /\ pipe[cur] = <<>> /\ cur \in gone
          /\ GiveUp(cur, TRUE)
          /\ len' = 0 /\ UNCHANGED pipe
       \/ /\ pipe[cur] # <<>>
          /\ pipe' = [pipe EXCEPT ![cur] = Tail(@)]
          /\ IF len = MaxLenBytes
             THEN GiveUp(cur, TRUE) /\ len' = 0
             ELSE IF Head(pipe[cur]) = "more"
             THEN len' = len + 1 /\ UNCHANGED <<spc, cur, doomed, willed>>
             ELSE len' = 0 /\ spc' = "body" /\ UNCHANGED <<cur, doomed, willed>>
    /\ UNCHANGED <<up, unread, named, idle, lag, ready, kind>>

\* ReadData without a time-out, then the handler.  A packet of which not all
\* bytes are there ends the connection without the will; so does a DISCONNECT,
\* as does any packet the handler refuses.
ShortRead == Len(pipe[cur]) < Body(kind)
ReadData(bytes, n) == SubSeq(bytes, n + 1, Len(bytes))

ReadBody ==
    /\ spc = "body"
    /\ pipe' = [pipe EXCEPT ![cur] = ReadData(@, Body(kind))]
    /\ IF ShortRead \/ kind = "DISCONNECT"
       THEN GiveUp(cur, FALSE) /\ UNCHANGED named
       ELSE /\ named' = IF kind = "CONNECT" THEN named \union {cur} ELSE named
            /\ spc' = "slot" /\ cur' = NoClient
            /\ UNCHANGED <<doomed, willed>>
    /\ kind' = "PINGREQ"
    /\ UNCHANGED <<up, unread, idle, lag, ready, len>>

\* The connections on fd_to_delete are closed.
EndPass ==
    /\ spc = "slot" /\ \A c \in Clients : ready[c] = "done"
    /\ up' = up \ doomed /\ named' = named \ doomed
    /\ pipe' = [c \in Clients |-> IF c \in doomed THEN <<>> ELSE pipe[c]]
    /\ doomed' = {}
    /\ rest' = [c \in Clients |-> IF c \in doomed THEN <<>> ELSE rest[c]]
    /\ spc' = "poll"
    /\ hush' = [c \in Orderly |-> IF c \in doomed THEN 0 ELSE hush[c]]
    /\ UNCHANGED <<gone, said, bye, slack, idle, lag, ready, cur, kind, len, willed>>

-----------------------------------------------------------------------------
Init ==
    /\ up = Clients /\ gone = {}
    /\ pipe = [c \in Clients |-> <<>>] /\ rest = [c \in Clients |-> <<>>]
    /\ said = Ragged /\ bye = {} /\ slack = {} /\ named = Ragged
    /\ hush = [c \in Orderly |-> 0] /\ idle = [c \in Clients |-> 0] /\ lag = 0
    /\ spc = "poll" /\ ready = [c \in Clients |-> "done"]
    /\ cur = NoClient /\ kind = "PINGREQ" /\ len = 0
    /\ doomed = {} /\ willed = {}

Speak(c) ==
    \/ \E k \in Kinds, more \in 0..MaxLenBytes : Send(c, k, more)
    \/ SendRest(c)
    \/ Die(c)

ServerThread ==
    \/ Poll
    \/ \E c \in Clients : Quiet(c) \/ HangUp(c) \/ HaveData(c)
    \/ ReadLength \/ ReadBody
    \/ EndPass

Next == Tick \/ ServerThread \/ \E c \in Clients : Speak(c)

Spec == Init /\ [][Next]_vars

\* Time goes on, and ServerThread does what it can do; nothing is assumed of
\* the clients.
FairSpec == Spec /\ WF_vars(Tick) /\ WF_vars(ServerThread)

-----------------------------------------------------------------------------
(* Properties. *)

\* A client whose packets arrive whole and that speaks again within its
\* keep-alive and five seconds is not ended and its will is not published,
\* however long another client keeps the server waiting.
OrderlyKept ==
    \A c \in Orderly \ (slack \union gone \union bye) : c \in up \ (doomed \union willed)

\* A client that said DISCONNECT in time has no will published, whatever
\* it does to its socket afterwards.
NoWillAfterDisconnect == \A c \in Orderly \cap bye : c \in willed => c \in slack

\* ServerThread waits for the rest of a header.
Blocked == spc = "length" /\ pipe[cur] = <<>> /\ cur \notin gone

\* Unless the server waits for one client for ever, what an orderly client has
\* sent is read in some pass, whatever the others send and when.
OrderlyHeard ==
    <>[]Blocked \/ \A c \in Orderly : pipe[c] # <<>> ~> cur = c \/ c \notin up

\* The client has closed its side or is silent for too long.
Dead(c) == c \in gone \/ (c \in Orderly /\ hush[c] = Late)

\* Unless the server waits for one client for ever, every dead client is
\* closed, also one that dies inside a packet.
DeadDetected ==
    <>[]Blocked \/ \A c \in Clients : Dead(c) ~> c \notin up \/ ~Dead(c)

\* Unless the server waits for ever, the will of a client that dies between
\* two packets is published, also when packets of it are still unread.
WillKept ==
    <>[]Blocked \/ \A c \in Orderly :
        c \in (gone \cap said) \ (bye \union slack) ~> c \in willed
=============================================================================
