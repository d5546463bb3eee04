----------------------------- MODULE ServerLoop -----------------------------
(***************************************************************************)
(* Who is polled, who is closed: main's accept loop and ServerThread,      *)
(* which share Broker::state, the table of clients, the process's file     *)
(* descriptors and the control socket.                                     *)
(*                                                                         *)
(* main accepts a connection, inserts the client, tells a polling          *)
(* ServerThread with an "ADD" on the control socket, and starts a          *)
(* ServerThread when there is none.  ServerThread copies the clients into  *)
(* vec_fds (state started), then polls and serves slot by slot (state      *)
(* wait), and rebuilds vec_fds when it hears an ADD or has closed          *)
(* connections.  Broker::state and GetClientCount are read without a lock. *)
(*                                                                         *)
(* What a handler does to the broker's data is Broker's business.  Here a  *)
(* handler leaves the connection alone, gives it up (fd_to_delete), waits  *)
(* for its peer for ever or, for a CONNECT with clean start and an id in   *)
(* use, closes another one.                                                *)
(* Connections are numbered as they are accepted, so that a descriptor     *)
(* that is closed and handed out again can be told from itself.            *)
(***************************************************************************)
EXTENDS Naturals, Sequences, FiniteSets

CONSTANTS
    Fds,            \* descriptors accept() may return
    Control,        \* the control socket
    Junk,           \* a number that is no descriptor of a client
    Garbage,        \* what memory nobody wrote may hold
    NoFd,           \* no descriptor
    CleanStart,     \* whether clients send CONNECT with clean start and an id in use
    MaxConns        \* bound: connections of a behaviour

ASSUME LoopAssumption ==
    /\ IsFiniteSet(Fds)
    /\ Control \notin Fds \union {Junk} /\ Junk \notin Fds /\ NoFd \notin Fds
    /\ Garbage \subseteq Fds \union {Control, Junk}
    /\ CleanStart \in BOOLEAN
    /\ MaxConns \in Nat

VARIABLES
    state,          \* Broker::state
    sock,           \* the connection open at each descriptor, 0 for none
    clients,        \* Broker::clients: the connection of each entry, 0 for none
    named,          \* descriptors whose client has sent CONNECT
    accepted,       \* connections accepted so far
    mpc, mfd,       \* main: where it is and the descriptor it adds
    pending,        \* ADD commands sent and not read
    spc,            \* ServerThread: where it is
    mem, size,      \* vec_fds: its memory, of which the first "size" slots are in use
    num, slot,      \* client_num and i of the current pass
    addReady,       \* poll found the control socket readable
    doomed,         \* fd_to_delete
    taker, victim,  \* the descriptor whose CONNECT closes another, and the other
    taken,          \* descriptors closed by a takeover since vec_fds was filled
    fault           \* "null" once a missing client was dereferenced

main == <<mpc, mfd, accepted>>
pass == <<num, slot, addReady>>
over == <<taker, victim, taken>>
vars == <<state, sock, clients, named, main, pending, spc, mem, size, pass,
          doomed, over, fault>>

Entries == {f \in Fds : clients[f] # 0}

-----------------------------------------------------------------------------
(* main. *)

server == <<spc, mem, size, pass, doomed, over, fault>>

WaitForClient(f) ==
    /\ fault = "none" /\ mpc = "accept"
    /\ sock[f] = 0 /\ accepted < MaxConns
    /\ accepted' = accepted + 1
    /\ sock' = [sock EXCEPT ![f] = accepted + 1]
    /\ mfd' = f /\ mpc' = "insert"
    /\ UNCHANGED <<state, clients, named, pending, server>>

\* AddClient: an entry that is still there is not overwritten.
InsertOverwrites == clients' = [clients EXCEPT ![mfd] = sock[mfd]] /\ mpc' = "tell"
Insert ==
    IF clients[mfd] = 0
    THEN clients' = [clients EXCEPT ![mfd] = sock[mfd]] /\ mpc' = "tell"
    ELSE UNCHANGED clients /\ mpc' = "refuse"

AddClient ==
    /\ fault = "none" /\ mpc = "insert"
    /\ Insert
    /\ UNCHANGED <<state, sock, named, mfd, accepted, pending, server>>

\* "Insertion error, close connection".
CloseRefused ==
    /\ fault = "none" /\ mpc = "refuse"
    /\ sock' = [sock EXCEPT ![mfd] = 0]
    /\ mpc' = "accept" /\ mfd' = NoFd
    /\ UNCHANGED <<state, clients, named, accepted, pending, server>>

\* AddClient, second half: is there a ServerThread that polls?
TestWaitState ==
    /\ fault = "none" /\ mpc = "tell"
    /\ mpc' = IF state = "wait" THEN "send" ELSE "start"
    /\ UNCHANGED <<state, sock, clients, named, mfd, accepted, pending, server>>

SendCommand ==
    /\ fault = "none" /\ mpc = "send"
    /\ pending' = pending + 1
    /\ mpc' = "start"
    /\ UNCHANGED <<state, sock, clients, named, mfd, accepted, server>>

\* main tests GetState() and calls Start, which tests it again.
StartIfInit ==
    /\ fault = "none" /\ mpc = "start"
    /\ IF state = "init"
       THEN state' = "started" /\ spc' = "top" /\ mem' = <<>> /\ size' = 0
       ELSE UNCHANGED <<state, spc, mem, size>>
    /\ mpc' = "accept" /\ mfd' = NoFd
    /\ UNCHANGED <<sock, clients, named, accepted, pending, pass, doomed, over, fault>>

-----------------------------------------------------------------------------
(* ServerThread. *)

Running(at) == fault = "none" /\ spc = at
table == <<sock, clients, named>>

\* State started: without a client the thread stops.
Count ==
    /\ Running("top") /\ state = "started"
    /\ size' = 0
    /\ spc' = IF Entries = {} THEN "stop" ELSE "fill"
    /\ UNCHANGED <<state, table, main, pending, mem, pass, doomed, over, fault>>

\* The thread leaves the loop; what it still executes touches no client.
Stop ==
    /\ Running("stop")
    /\ state' = "init"
    /\ spc' = "down"
    /\ UNCHANGED <<table, main, pending, mem, size, pass, doomed, over, fault>>

\* All orders in which the unordered_map may be walked.
Orders(S) == {o \in [1..Cardinality(S) -> S] :
                \A j, k \in 1..Cardinality(S) : o[j] = o[k] => j = k}

\* vec_fds is refilled over its old memory.
Fill ==
    /\ Running("fill")
    /\ \E o \in Orders(Entries) :
         LET new == Append(o, Control)
         IN  /\ mem' = new \o SubSeq(mem, Len(new) + 1, Len(mem))
             /\ size' = Len(new)
    /\ taken' = {}
    /\ spc' = "arm"
    /\ UNCHANGED <<state, table, main, pending, pass, doomed, taker, victim, fault>>

Arm ==
    /\ Running("arm")
    /\ state' = "wait"
    /\ spc' = "top"
    /\ UNCHANGED <<table, main, pending, mem, size, pass, doomed, over, fault>>

\* State wait: as many slots as there are clients NOW, and one more, are
\* polled; a slot vec_fds was never that long for holds whatever the memory
\* held.  After an error of poll the pass goes on, and vec_fds is rebuilt.
\* The count and the poll are one step: the pass looks at the slots later.
PollErrorStateInit == "init"
PollErrorState == "started"

Poll(error) ==
    /\ Running("top") /\ state = "wait"
    /\ num' = Cardinality(Entries) + 1
    /\ \E found \in [(Len(mem) + 1)..num' -> Garbage] :
          mem' = [k \in 1..(IF num' > Len(mem) THEN num' ELSE Len(mem)) |->
                    IF k <= Len(mem) THEN mem[k] ELSE found[k]]
    /\ slot' = 1
    /\ addReady' = (pending > 0 /\ ~error)
    /\ doomed' = <<>>
    /\ state' = IF error THEN PollErrorState ELSE state
    /\ spc' = "slot"
    /\ UNCHANGED <<table, main, pending, size, over, fault>>

AtSlot(s) == Running("slot") /\ slot <= num /\ s = mem[slot]

\* Packets are read only when poll has succeeded.
Heard == state = "wait"

\* What vec_fds is rebuilt by.
ReinitForgotten == state
Reinit == "started"

\* The control socket: an ADD ends the pass.
Hear ==
    /\ AtSlot(Control)
    /\ IF addReady
       THEN /\ pending' = pending - 1
            /\ state' = Reinit
            /\ spc' = "close"
            /\ UNCHANGED slot
       ELSE slot' = slot + 1 /\ UNCHANGED <<pending, state, spc>>
    /\ UNCHANGED <<table, main, mem, size, num, addReady, doomed, over, fault>>

\* A slot without a client: clients[fd] is a null pointer in all branches.
NullClient(s) ==
    /\ AtSlot(s) /\ s # Control /\ s \notin Entries
    /\ fault' = "null"
    /\ UNCHANGED <<state, table, main, pending, spc, mem, size, pass, doomed, over>>

\* A client that is served (CONNECT gives it an id) or has nothing to say.
Serve(s) ==
    /\ AtSlot(s) /\ s \in Entries
    /\ named' \in {named, IF Heard THEN named \union {s} ELSE named}
    /\ slot' = slot + 1
    /\ UNCHANGED <<state, sock, clients, main, pending, spc, mem, size, num, addReady,
                   doomed, over, fault>>

\* A client that has sent part of a fixed header, or that is refused and does
\* not read its CONNACK: read() or write() of ServerThread does not return.
BlockedBy(s) ==
    /\ AtSlot(s) /\ s \in Entries /\ Heard
    /\ spc' = "stuck"
    /\ UNCHANGED <<state, table, main, pending, mem, size, pass, doomed, over, fault>>

\* A client that is given up: error, hang-up, DISCONNECT or time-out.
GiveUp(s) ==
    /\ AtSlot(s) /\ s \in Entries
    /\ doomed' = Append(doomed, s)
    /\ slot' = slot + 1
    /\ UNCHANGED <<state, table, main, pending, spc, mem, size, num, addReady, over, fault>>

\* CONNECT with the id of g: CloseConnection closes the descriptor ...
TakeOver(s, g) ==
    /\ CleanStart /\ Heard
    /\ AtSlot(s) /\ s \in Entries /\ g \in named \cap Entries
    /\ sock' = [sock EXCEPT ![g] = 0]
    /\ taker' = s /\ victim' = g /\ taken' = taken \union {g}
    /\ spc' = "taken"
    /\ UNCHANGED <<state, clients, named, main, pending, mem, size, pass, doomed, fault>>

\* ... DelClient erases the entry, and the rest of the CONNECT follows.
TakenOver(late) ==
    /\ Running("taken")
    /\ clients' = [clients EXCEPT ![victim] = 0]
    /\ named' = (named \union {taker}) \ {victim}
    /\ doomed' = IF late THEN Append(doomed, taker) ELSE doomed
    /\ taker' = NoFd /\ victim' = NoFd
    /\ slot' = slot + 1
    /\ spc' = "slot"
    /\ UNCHANGED <<state, sock, main, pending, mem, size, num, addReady, taken, fault>>

EndPass ==
    /\ Running("slot") /\ slot > num
    /\ spc' = "close"
    /\ UNCHANGED <<state, table, main, pending, mem, size, pass, doomed, over, fault>>

\* After the slots: the connections on fd_to_delete are closed one by one, the
\* descriptor first and the entry after it.
Close ==
    /\ Running("close")
    /\ IF doomed = <<>>
       THEN spc' = "top" /\ UNCHANGED <<state, sock, fault>>
       ELSE /\ state' = Reinit
            /\ IF Head(doomed) \in Entries
               THEN /\ sock' = [sock EXCEPT ![Head(doomed)] = 0]
                    /\ spc' = "erase"
                    /\ UNCHANGED fault
               ELSE fault' = "null" /\ UNCHANGED <<sock, spc>>
    /\ UNCHANGED <<clients, named, main, pending, mem, size, pass, doomed, over>>

DelClient ==
    /\ Running("erase")
    /\ clients' = [clients EXCEPT ![Head(doomed)] = 0]
    /\ named' = named \ {Head(doomed)}
    /\ doomed' = Tail(doomed)
    /\ spc' = "close"
    /\ UNCHANGED <<state, sock, main, pending, mem, size, pass, over, fault>>

-----------------------------------------------------------------------------
Init ==
    /\ state = "init"
    /\ sock = [f \in Fds |-> 0]
    /\ clients = [f \in Fds |-> 0]
    /\ named = {}
    /\ accepted = 0 /\ mpc = "accept" /\ mfd = NoFd
    /\ pending = 0
    /\ spc = "down" /\ mem = <<>> /\ size = 0
    /\ num = 0 /\ slot = 0 /\ addReady = FALSE
    /\ doomed = <<>> /\ taker = NoFd /\ victim = NoFd /\ taken = {}
    /\ fault = "none"

\* main, but for the accept that may never happen.
Main == AddClient \/ CloseRefused \/ TestWaitState \/ SendCommand \/ StartIfInit

ServerThread ==
    \/ Count \/ Stop \/ Fill \/ Arm
    \/ \E error \in BOOLEAN : Poll(error)
    \/ Hear
    \/ \E s \in Fds \union {Junk} : NullClient(s)
    \/ \E s \in Fds : Serve(s)
    \/ \E s \in Fds : BlockedBy(s)
    \/ \E s \in Fds : GiveUp(s)
    \/ \E s, g \in Fds : TakeOver(s, g)
    \/ \E late \in BOOLEAN : TakenOver(late)
    \/ EndPass \/ Close \/ DelClient

Next == Main \/ ServerThread \/ \E f \in Fds : WaitForClient(f)

Spec == Init /\ [][Next]_vars

\* The scheduler runs both threads, and poll returns after a second at most.
\* The reads and writes of a pass need not return: that is BlockedBy, after
\* which ServerThread has no step left.
FairSpec == Spec /\ WF_vars(Main) /\ WF_vars(ServerThread)

-----------------------------------------------------------------------------
(* Properties. *)

TypeOK ==
    /\ state \in {"init", "started", "wait"}
    /\ sock \in [Fds -> Nat] /\ clients \in [Fds -> Nat]
    /\ named \subseteq Fds
    /\ accepted \in Nat /\ pending \in Nat
    /\ mpc \in {"accept", "insert", "refuse", "tell", "send", "start"}
    /\ mfd \in Fds \union {NoFd} /\ (mpc = "accept" <=> mfd = NoFd)
    /\ spc \in {"down", "top", "stop", "fill", "arm", "slot", "taken", "close",
               "erase", "stuck"}
    /\ mem \in Seq(Fds \union {Control, Junk}) /\ size \in Nat
    /\ num \in Nat /\ slot \in Nat /\ addReady \in BOOLEAN
    /\ doomed \in Seq(Fds) /\ (spc = "erase" => doomed # <<>>)
    /\ taker \in Fds \union {NoFd} /\ victim \in Fds \union {NoFd}
    /\ (spc = "taken" => taker # NoFd /\ victim # NoFd)
    /\ taken \subseteq Fds /\ fault \in {"none", "null"}

\* At most one ServerThread is in the loop: the state is init exactly when
\* none is, so that main never starts a second one.
OnePoller == state = "init" <=> spc = "down"

\* The descriptor ServerThread has closed and not yet erased.
Closing(f) == (spc = "erase" /\ f = Head(doomed)) \/ (spc = "taken" /\ f = victim)

\* Descriptors are closed, handed out again and erased by two threads, and
\* still no entry of the table names a connection that is gone, but for the
\* one being closed, and no open connection is without its entry, but for the
\* one main is adding.
TableMatchesSockets ==
    /\ \A f \in Entries : sock[f] = clients[f] \/ Closing(f)
    /\ \A f \in Fds : sock[f] # 0 =>
          clients[f] = sock[f] \/ (f = mfd /\ mpc \in {"insert", "refuse"})

\* A null pointer is dereferenced, here or when a connection is closed, only
\* after a takeover closed a descriptor behind the back of vec_fds, or in a
\* pass that looks at more slots than vec_fds has because main has just added
\* a client: closing and rebuilding are otherwise consistent.
NullExplained == fault = "null" => taken # {} \/ num > size

\* The client at f is in the part of vec_fds that is being polled.
Polled(f) == spc = "slot" /\ \E k \in 1..Len(mem) : k <= num /\ mem[k] = f

\* ServerThread is gone, or waits for a peer for ever.
OutOfService == fault # "none" \/ spc = "stuck"

\* A client main has sent an ADD for is polled, unless it goes before that or
\* another client has stopped the server: ADD is not lost in the closing and
\* rebuilding around it.
AddHonoured ==
    \A f \in Fds : mpc = "send" /\ mfd = f
                   ~> Polled(f) \/ clients[f] = 0 \/ OutOfService

\* Every client that has been added is polled, unless it goes before that or
\* another client has stopped the server.
EveryClientPolled ==
    \A f \in Fds : clients[f] # 0 ~> Polled(f) \/ clients[f] = 0 \/ OutOfService
=============================================================================
