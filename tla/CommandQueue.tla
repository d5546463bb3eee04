---------------------------- MODULE CommandQueue ----------------------------
(***************************************************************************)
(* Commands: the queue between the packet handlers and the sockets.        *)
(*                                                                         *)
(* ServerThread adds commands while it handles the packets of a pass and   *)
(* calls Notify once, at the end of the pass.  Two SenderThreads take      *)
(* commands off the queue and write them.  A ServerThread that stops       *)
(* because the last client left executes one command as well, before its   *)
(* thread ends; main may start the next ServerThread while the old one     *)
(* still waits for its command.  QoSThread, the third caller of            *)
(* AddCommand, finds nothing to send (NoPostponed of Broker).              *)
(*                                                                         *)
(* com_mutex makes one step of what happens between taking and releasing   *)
(* it.  Commands are numbered in the order of their AddCommand, and so are *)
(* connections in the order main accepts them: a command names only a      *)
(* descriptor, which ServerThread may close, and main hand out again,      *)
(* before or while the command is written.                                 *)
(***************************************************************************)
EXTENDS Naturals, Sequences, FiniteSets

CONSTANTS
    Senders,        \* the SenderThreads
    Stopped,        \* bound: ServerThreads that may stop
    Fds,            \* descriptors
    Slow,           \* descriptors whose peer does not read: a write blocks
    MaxConns,       \* bound: connections of a behaviour
    MaxCmds,        \* bound: commands of a behaviour
    MaxParts,       \* bound: write() calls one command takes
    Nobody          \* no command

ASSUME QueueAssumption ==
    /\ Senders # {} /\ Senders \cap Stopped = {}
    /\ Fds # {} /\ Slow \subseteq Fds
    /\ MaxConns \in Nat /\ MaxCmds \in Nat /\ MaxParts \in Nat \ {0}
    /\ Nobody \notin Nat

Threads == Senders \union Stopped
Numbers == 1..MaxCmds

VARIABLES
    added,          \* number of AddCommand calls
    target,         \* FdWriteCommand::fd
    queue,          \* Commands::commands
    pc,             \* where each thread is in Execute
    held,           \* the command a thread has popped
    parts,          \* write() calls a thread still has to make in WriteData
    done,           \* commands whose Execute has returned
    server,         \* where the running ServerThread is
    made, conn,     \* connections made, and the one open at each descriptor (0: none)
    ended,          \* connections that were closed or whose peer is gone
    dest,           \* the connection each command is for
    astray, whole   \* commands with bytes sent to another one, and written to the last byte

commands == <<added, target, queue, dest>>
execution == <<pc, held, parts, done, astray, whole>>
sockets == <<made, conn, ended>>
vars == <<commands, execution, server, sockets>>

-----------------------------------------------------------------------------
(* ServerThread. *)

\* poll returns: a pass over the descriptors begins.
BeginPass ==
    /\ server = "poll"
    /\ server' = "pass"
    /\ UNCHANGED <<commands, execution, sockets>>

\* A handler queues a packet; cond is not notified here.
EnqueueFront == queue' = <<added + 1>> \o queue
Enqueue == queue' = Append(queue, added + 1)

AddCommand(f) ==
    /\ server = "pass" /\ added < MaxCmds /\ conn[f] # 0
    /\ Enqueue
    /\ added' = added + 1
    /\ target' = [target EXCEPT ![added + 1] = f]
    /\ dest' = [dest EXCEPT ![added + 1] = conn[f]]
    /\ UNCHANGED <<execution, server, sockets>>

\* CloseConnection, for a takeover or at the end of the pass, in both cases
\* before Notify: what the pass has queued for the client is not out yet.
CloseConnection(f) ==
    /\ server = "pass" /\ conn[f] # 0
    /\ conn' = [conn EXCEPT ![f] = 0]
    /\ ended' = ended \union {conn[f]}
    /\ UNCHANGED <<commands, execution, server, made>>

\* The error handlers write their CONNACK themselves: with a peer that does
\* not read, ServerThread stays there.
HandleError(f) ==
    /\ server = "pass" /\ conn[f] # 0 /\ f \in Slow
    /\ server' = "stuck"
    /\ UNCHANGED <<commands, execution, sockets>>

\* A client has sent the first bytes of a fixed header and sends no more:
\* ServerThread stays in read().
ReadFixedHeader(f) ==
    /\ server = "pass" /\ conn[f] # 0
    /\ server' = "stuck"
    /\ UNCHANGED <<commands, execution, sockets>>

\* Notify reads commands.empty() without com_mutex ...
NotifyNegated == server' = IF queue = <<>> THEN "signal" ELSE "poll"
NotifyCheck == server' = IF queue # <<>> THEN "signal" ELSE "poll"

Notify ==
    /\ server = "pass"
    /\ NotifyCheck
    /\ UNCHANGED <<commands, execution, sockets>>

\* ... and wakes every thread that waits.
WakeOne == pc' \in {[pc EXCEPT ![t] = "lock"] : t \in {u \in Threads : pc[u] = "waiting"}}
WakeAll == pc' = [t \in Threads |-> IF pc[t] = "waiting" THEN "lock" ELSE pc[t]]

NotifyAll ==
    /\ server = "signal"
    /\ WakeAll
    /\ server' = "poll"
    /\ UNCHANGED <<commands, held, parts, done, astray, whole, sockets>>

\* No client is left: the thread leaves the loop and calls Execute.
StopServer(t) ==
    /\ server = "poll" /\ pc[t] = "off"
    /\ \A f \in Fds : conn[f] = 0
    /\ server' = "down"
    /\ pc' = [pc EXCEPT ![t] = "lock"]
    /\ UNCHANGED <<commands, held, parts, done, astray, whole, sockets>>

-----------------------------------------------------------------------------
(* main. *)

\* accept returns a descriptor that is free.
Accept(f) ==
    /\ conn[f] = 0 /\ made < MaxConns
    /\ made' = made + 1
    /\ conn' = [conn EXCEPT ![f] = made + 1]
    /\ UNCHANGED <<commands, execution, server, ended>>

\* Start, when a client has been added and no ServerThread runs; the first
\* Start also starts the senders.
StartServer ==
    /\ server = "down" /\ \E f \in Fds : conn[f] # 0
    /\ server' = "poll"
    /\ pc' = [t \in Threads |-> IF t \in Senders /\ pc[t] = "off" THEN "lock" ELSE pc[t]]
    /\ UNCHANGED <<commands, held, parts, done, astray, whole, sockets>>

-----------------------------------------------------------------------------
(* Execute. *)

\* The thread has com_mutex: it waits on an empty queue, otherwise it pops a
\* command and releases the mutex.
PopKeeps == UNCHANGED queue
Pop == queue' = Tail(queue)

Take(t) ==
    /\ pc[t] = "lock"
    /\ IF queue = <<>>
       THEN /\ pc' = [pc EXCEPT ![t] = "waiting"]
            /\ UNCHANGED <<queue, held, parts>>
       ELSE /\ Pop
            /\ held' = [held EXCEPT ![t] = Head(queue)]
            /\ parts' \in {[parts EXCEPT ![t] = k] : k \in 1..MaxParts}
            /\ pc' = [pc EXCEPT ![t] = "writing"]
    /\ UNCHANGED <<added, target, dest, done, astray, whole, server, sockets>>

\* cond.wait may return without a notification.
SpuriousWakeup(t) ==
    /\ pc[t] = "waiting"
    /\ pc' = [pc EXCEPT ![t] = "lock"]
    /\ UNCHANGED <<commands, held, parts, done, astray, whole, server, sockets>>

\* A sender goes back to Execute, a stopped ServerThread ends.
AfterExecute(t) == IF t \in Senders THEN "lock" ELSE "ended"

Finish(t) ==
    /\ done' = done \union {held[t]}
    /\ held' = [held EXCEPT ![t] = Nobody]
    /\ parts' = [parts EXCEPT ![t] = 0]
    /\ pc' = [pc EXCEPT ![t] = AfterExecute(t)]

\* The connection behind the descriptor of the command the thread writes.
Peer(t) == conn[target[held[t]]]
Writing(t) == pc[t] = "writing" /\ Peer(t) # 0 /\ target[held[t]] \notin Slow

\* Bytes go to whoever has the descriptor now.
Deliver(t) == astray' = IF Peer(t) = dest[held[t]] THEN astray ELSE astray \union {held[t]}

\* One write() of WriteData that takes some of the bytes.  The bugs of a loop
\* that does not stop at the last one, and of a single write().
WriteTooOften(t) ==
    /\ Writing(t) /\ Deliver(t)
    /\ parts' = [parts EXCEPT ![t] = @ - 1]
    /\ UNCHANGED <<commands, pc, held, done, whole, server, sockets>>
WriteOnce(t) ==
    /\ Writing(t) /\ Deliver(t) /\ Finish(t)
    /\ whole' = IF parts[t] = 1 THEN whole \union {held[t]} ELSE whole
    /\ UNCHANGED <<commands, server, sockets>>
Write(t) ==
    /\ Writing(t) /\ Deliver(t)
    /\ IF parts[t] = 1
       THEN Finish(t) /\ whole' = whole \union {held[t]}
       ELSE parts' = [parts EXCEPT ![t] = @ - 1] /\ UNCHANGED <<pc, held, done, whole>>
    /\ UNCHANGED <<commands, server, sockets>>

\* A write() that fails because the descriptor is closed or its peer is gone:
\* the rest of the packet is dropped and nobody looks at the result.
WriteFails(t) ==
    /\ pc[t] = "writing" /\ (Peer(t) = 0 \/ Writing(t))
    /\ Finish(t)
    /\ ended' = IF Peer(t) = 0 THEN ended ELSE ended \union {Peer(t)}
    /\ UNCHANGED <<commands, astray, whole, server, made, conn>>

\* A write() to a peer that does not read does not return, even when the
\* descriptor is closed meanwhile.
Block(t) ==
    /\ pc[t] = "writing" /\ Peer(t) # 0 /\ target[held[t]] \in Slow
    /\ pc' = [pc EXCEPT ![t] = "blocked"]
    /\ UNCHANGED <<commands, held, parts, done, astray, whole, server, sockets>>

-----------------------------------------------------------------------------
Init ==
    /\ added = 0
    /\ target = [n \in Numbers |-> CHOOSE f \in Fds : TRUE]
    /\ queue = <<>> /\ done = {}
    /\ pc = [t \in Threads |-> "off"]
    /\ held = [t \in Threads |-> Nobody]
    /\ parts = [t \in Threads |-> 0]
    /\ server = "down"
    /\ made = 0 /\ conn = [f \in Fds |-> 0] /\ ended = {}
    /\ dest = [n \in Numbers |-> 0] /\ astray = {} /\ whole = {}

Main == StartServer \/ \E f \in Fds : Accept(f)

ServerThread ==
    \/ BeginPass
    \/ \E f \in Fds : AddCommand(f) \/ CloseConnection(f) \/ HandleError(f) \/ ReadFixedHeader(f)
    \/ Notify
    \/ NotifyAll
    \/ \E t \in Stopped : StopServer(t)

WriteData(t) == Write(t) \/ WriteFails(t) \/ Block(t)

Execute(t) == Take(t) \/ WriteData(t) \/ SpuriousWakeup(t)

Next == Main \/ ServerThread \/ \E t \in Threads : Execute(t)

Spec == Init /\ [][Next]_vars

\* poll returns at least once a second, and so does what a pass does, unless it
\* waits for a peer that does not read or for the rest of a header: those are
\* HandleError and ReadFixedHeader, after which Notify is not enabled.  The
\* scheduler runs every thread that can run; a write to a peer that reads, or
\* to a dead descriptor, returns.
Fairness ==
    /\ WF_vars(BeginPass) /\ WF_vars(Notify) /\ WF_vars(NotifyAll)
    /\ \A t \in Threads : WF_vars(Take(t)) /\ WF_vars(WriteData(t))

FairSpec == Spec /\ Fairness

-----------------------------------------------------------------------------
(* Properties. *)

Queued == {queue[i] : i \in DOMAIN queue}
Held   == {held[t] : t \in Threads} \ {Nobody}

TypeOK ==
    /\ added \in 0..MaxCmds
    /\ target \in [Numbers -> Fds]
    /\ queue \in Seq(Numbers) /\ done \subseteq Numbers
    /\ pc \in [Threads -> {"off", "lock", "waiting", "writing", "blocked", "ended"}]
    /\ held \in [Threads -> Numbers \union {Nobody}]
    /\ parts \in [Threads -> 0..MaxParts]
    /\ server \in {"poll", "pass", "signal", "stuck", "down"}
    /\ made \in 0..MaxConns /\ conn \in [Fds -> 0..made] /\ ended \subseteq 1..made
    /\ dest \in [Numbers -> 0..made] /\ astray \subseteq Numbers /\ whole \subseteq done

\* However the threads interleave, a command is in one place only: in the
\* queue once, or popped by one thread, or executed once.
ExactlyOnce ==
    /\ \A i, j \in DOMAIN queue : queue[i] = queue[j] => i = j
    /\ \A t, u \in Threads : held[t] = held[u] /\ held[t] # Nobody => t = u
    /\ Queued \cap Held = {} /\ Queued \cap done = {} /\ Held \cap done = {}
    /\ Queued \union Held \union done = 1..added

\* Two senders may overtake each other, and that is all that can happen to the
\* order: a command older than an executed one is executed too or is in the
\* hands of a thread, never still in the queue.
OnlyHeldOvertaken ==
    \A n \in done, m \in 1..added : m < n => m \in done \union Held

\* Although AddCommand does not notify and Notify does not lock, no command is
\* forgotten between two passes: with the server in poll, or stopped, and a
\* command in the queue, a thread is on its way to the queue, or both senders
\* wait for peers that do not read.
NoLostWakeup ==
    server \in {"poll", "down"} /\ queue # <<>> =>
        \/ \E t \in Threads : pc[t] = "lock"
        \/ \E t \in Senders : pc[t] = "writing"
        \/ \A t \in Senders : pc[t] = "blocked"

\* What was queued for a client reaches that client, to the last byte, unless
\* its connection has ended: also when connections come and go around it and
\* the packet takes several writes.
DeliveredOrEnded ==
    \A n \in done : dest[n] \in ended \/ n \in whole \ astray

\* A packet is only written to the client it was made for, as the log claims
\* when it is queued.
RightAddressee == astray = {}

\* Nobody is left to write: the server that would wake the senders waits for a
\* peer, or both senders do.
Stalled == server = "stuck" \/ \A t \in Senders : pc[t] = "blocked"

\* The queue keeps the promise of Outbox: every command is settled once, and
\* some day, unless its own peer does not read or peers have stalled the
\* server or both senders.
Box == INSTANCE Outbox WITH
          due <- Queued \union Held,
          settled <- done,
          hopeless <- IF Stalled THEN Numbers ELSE {n \in 1..added : target[n] \in Slow}
ImplementsOutbox == Box!FairSpec
=============================================================================
