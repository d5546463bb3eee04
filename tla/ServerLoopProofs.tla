-------------------------- MODULE ServerLoopProofs --------------------------
(***************************************************************************)
(* Proofs about ServerLoop, for any finite set of descriptors, any number  *)
(* of connections and any contents of unwritten memory.                    *)
(***************************************************************************)
EXTENDS ServerLoop, FiniteSetTheorems, SequenceTheorems, TLAPS

\* An ADD that poll has reported is still to be read when its slot is reached.
Typed == TypeOK /\ (spc \in {"slot", "taken"} /\ addReady => pending > 0)

\* No connection has a number that was not given out; main has still to add
\* the connection it holds; what ServerThread has closed is not erased yet.
Sockets ==
    /\ \A f \in Fds : clients[f] <= accepted /\ sock[f] <= accepted
    /\ mpc \in {"insert", "refuse"} => sock[mfd] # 0 /\ clients[mfd] # sock[mfd]
    /\ \A f \in Fds : Closing(f) => clients[f] # 0 /\ clients[f] # sock[f]
    /\ TableMatchesSockets

\* vec_fds is in use from its filling to the next rebuild.
InUse == spc \in {"arm", "slot"} \/ (spc \in {"top", "close"} /\ state = "wait")

\* As long as nothing was taken over, a vec_fds in use lists clients, each
\* once, and the control socket after them.
Filled ==
    taken = {} /\ InUse =>
        /\ size >= 1 /\ size <= Len(mem) /\ mem[size] = Control
        /\ \A k \in 1..(size - 1) : mem[k] \in Entries
        /\ \A j, k \in 1..(size - 1) : mem[j] = mem[k] => j = k

\* ... and a pass that stays within it gives up clients of slots it has seen,
\* each once.
Doomed ==
    taken = {} /\ num <= size =>
        /\ spc \in {"slot", "close", "erase"} =>
              /\ \A j \in 1..Len(doomed) : doomed[j] \in Entries
              /\ \A j, k \in 1..Len(doomed) : doomed[j] = doomed[k] => j = k
        /\ spc = "slot" =>
              \A j \in 1..Len(doomed) : \E k \in 1..(slot - 1) : doomed[j] = mem[k]

\* A pass starts at slot 1, a takeover is remembered, and closing a connection
\* asks for a rebuild.
Progress ==
    /\ spc = "slot" => slot >= 1
    /\ spc = "taken" => taken # {}
    /\ spc = "erase" => state = "started"

-----------------------------------------------------------------------------
(* Types. *)

Slots == Fds \union {Control, Junk}

LEMMA EntriesFinite ==
    IsFiniteSet(Entries) /\ Cardinality(Entries) \in Nat
<1>1. IsFiniteSet(Fds) /\ Entries \in SUBSET Fds
  BY LoopAssumption DEF Entries
<1>2. IsFiniteSet(Entries)
  BY <1>1, FS_Subset
<1> QED BY <1>2, FS_CardinalityType

\* What Fill makes of vec_fds: the clients in some order, each once, then the
\* control socket, over the memory that was there.
LEMMA FillExact ==
    ASSUME Typed, Fill
    PROVE  /\ mem' \in Seq(Slots) /\ size' \in Nat
           /\ size' >= 1 /\ size' <= Len(mem') /\ mem'[size'] = Control
           /\ \A k \in 1..(size' - 1) : mem'[k] \in Entries
           /\ \A j, k \in 1..(size' - 1) : mem'[j] = mem'[k] => j = k
<1> DEFINE c == Cardinality(Entries)
<1>0. c \in Nat
  BY EntriesFinite
<1>1. PICK o \in Orders(Entries) :
         /\ mem' = Append(o, Control) \o SubSeq(mem, Len(Append(o, Control)) + 1, Len(mem))
         /\ size' = Len(Append(o, Control))
  BY DEF Fill
<1>2. o \in [1..c -> Entries] /\ \A j, k \in 1..c : o[j] = o[k] => j = k
  BY <1>1 DEF Orders
<1> DEFINE new == Append(o, Control)
<1> DEFINE old == SubSeq(mem, Len(new) + 1, Len(mem))
<1> HIDE DEF c
<1>3. o \in Seq(Slots) /\ Len(o) = c /\ Control \in Slots
  <2>1. \A k \in 1..c : o[k] \in Slots
    BY <1>2 DEF Entries, Slots
  <2> QED BY <1>0, <1>2, <2>1 DEF Slots
<1>4. /\ new \in Seq(Slots) /\ Len(new) = c + 1 /\ new[c + 1] = Control
      /\ \A k \in 1..c : new[k] = o[k]
  BY <1>0, <1>3
<1>5. old \in Seq(Slots)
  <2>1. mem \in Seq(Slots) /\ Len(mem) \in Int
    BY DEF Typed, TypeOK, Slots
  <2>2. Len(new) + 1 \in Int /\ \A k \in (Len(new) + 1)..Len(mem) : mem[k] \in Slots
    BY <1>0, <1>4, <2>1
  <2> HIDE DEF new
  <2> QED BY <2>1, <2>2, SubSeqProperties
<1> HIDE DEF new, old
<1>6. /\ new \o old \in Seq(Slots) /\ Len(new \o old) >= Len(new)
      /\ \A k \in 1..Len(new) : (new \o old)[k] = new[k]
  BY <1>4, <1>5
<1>7. mem' = new \o old /\ size' = c + 1
  BY <1>1, <1>4 DEF new, old
<1> QED BY <1>0, <1>2, <1>4, <1>6, <1>7

\* What Poll makes of it: the memory only grows.
LEMMA PollExact ==
    ASSUME Typed, NEW error \in BOOLEAN, Poll(error)
    PROVE  /\ num' \in Nat
           /\ mem' \in Seq(Slots) /\ Len(mem') >= Len(mem)
           /\ \A k \in 1..Len(mem) : mem'[k] = mem[k]
<1>1. num' \in Nat /\ mem \in Seq(Slots) /\ Len(mem) \in Nat /\ Garbage \subseteq Slots
  BY EntriesFinite, LoopAssumption DEF Poll, Typed, TypeOK, Slots
<1> DEFINE len == IF num' > Len(mem) THEN num' ELSE Len(mem)
<1>2. PICK found \in [(Len(mem) + 1)..num' -> Garbage] :
         mem' = [k \in 1..len |-> IF k <= Len(mem) THEN mem[k] ELSE found[k]]
  BY DEF Poll
<1>3. len \in Nat /\ len >= Len(mem)
  BY <1>1
<1>4. \A k \in 1..len : (IF k <= Len(mem) THEN mem[k] ELSE found[k]) \in Slots
  BY <1>1, <1>2
<1> HIDE DEF len
<1>5. mem' \in Seq(Slots) /\ Len(mem') = len
  BY <1>2, <1>3, <1>4
<1> QED BY <1>1, <1>2, <1>3, <1>5

LEMMA TypedInit == Init => Typed
<1> SUFFICES ASSUME Init PROVE Typed
  OBVIOUS
<1>1. doomed \in Seq(Fds) /\ mem \in Seq(Fds \union {Control, Junk})
  BY DEF Init
<1>2. addReady \in BOOLEAN /\ sock \in [Fds -> Nat] /\ clients \in [Fds -> Nat]
  BY DEF Init
<1>3. /\ state = "init" /\ named = {} /\ accepted = 0 /\ pending = 0 /\ mpc = "accept"
      /\ mfd = NoFd /\ spc = "down" /\ size = 0 /\ num = 0 /\ slot = 0
      /\ taker = NoFd /\ victim = NoFd /\ taken = {} /\ fault = "none"
  BY DEF Init
<1> QED BY <1>1, <1>2, <1>3, LoopAssumption DEF Typed, TypeOK

LEMMA TypedStep == Typed /\ [Next]_vars => Typed'
<1> SUFFICES ASSUME Typed, [Next]_vars PROVE Typed'
  OBVIOUS
<1>0. TypeOK /\ (spc \in {"slot", "taken"} /\ addReady => pending > 0)
  BY DEF Typed
<1> USE LoopAssumption DEF main, pass, over, server, table, Running
<1>1. CASE UNCHANGED vars
  BY <1>0, <1>1 DEF vars, Typed, TypeOK
<1>2. ASSUME NEW f \in Fds, WaitForClient(f) PROVE Typed'
  BY <1>0, <1>2 DEF WaitForClient, Typed, TypeOK
<1>3. CASE AddClient
  BY <1>0, <1>3 DEF AddClient, Insert, Typed, TypeOK
<1>4. CASE CloseRefused
  BY <1>0, <1>4 DEF CloseRefused, Typed, TypeOK
<1>18. CASE TestWaitState
  BY <1>0, <1>18 DEF TestWaitState, Typed, TypeOK
<1>5. CASE SendCommand
  BY <1>0, <1>5 DEF SendCommand, Typed, TypeOK
<1>6. CASE StartIfInit
  <2>2. mem' = mem \/ mem' = <<>>
    BY <1>6 DEF StartIfInit
  <2>3. mem' \in Seq(Fds \union {Control, Junk})
    <3>1. <<>> \in Seq(Fds \union {Control, Junk})
      OBVIOUS
    <3>2. mem \in Seq(Fds \union {Control, Junk})
      BY <1>0 DEF TypeOK
    <3> QED BY <2>2, <3>1, <3>2, Zenon
  <2>1. /\ size' \in Nat
        /\ state' \in {"init", "started", "wait"}
        /\ spc' = spc \/ spc' = "top"
    BY <1>0, <1>6 DEF StartIfInit, TypeOK
  <2> QED BY <1>0, <1>6, <2>1, <2>3 DEF StartIfInit, Typed, TypeOK
<1>7. CASE Count
  BY <1>0, <1>7 DEF Count, Typed, TypeOK
<1>19. CASE Stop
  BY <1>0, <1>19 DEF Stop, Typed, TypeOK
<1>20. CASE Arm
  BY <1>0, <1>20 DEF Arm, Typed, TypeOK
<1>21. CASE EndPass
  BY <1>0, <1>21 DEF EndPass, Typed, TypeOK
<1>8. CASE Fill
  <2>1. mem' \in Seq(Fds \union {Control, Junk}) /\ size' \in Nat
    BY <1>8, FillExact DEF Slots
  <2> QED BY <1>0, <1>8, <2>1 DEF Fill, Typed, TypeOK
<1>9. ASSUME NEW error \in BOOLEAN, Poll(error) PROVE Typed'
  <2>1. mem' \in Seq(Fds \union {Control, Junk}) /\ num' \in Nat
    BY <1>9, PollExact DEF Slots
  <2>4. addReady' \in BOOLEAN /\ (addReady' => pending > 0)
    BY <1>9, Zenon DEF Poll
  <2>5. doomed' = <<>>
    BY <1>9 DEF Poll
  <2>2. doomed' \in Seq(Fds)
    BY <2>5
  <2>3. state' \in {"init", "started", "wait"} /\ slot' \in Nat
    BY <1>0, <1>9 DEF Poll, PollErrorState, TypeOK
  <2> QED BY <1>0, <1>9, <2>1, <2>2, <2>3, <2>4 DEF Poll, Typed, TypeOK
<1>10. CASE Hear
  BY <1>0, <1>10 DEF Hear, AtSlot, Reinit, Typed, TypeOK
<1>11. ASSUME NEW t \in Fds \union {Junk}, NullClient(t) PROVE Typed'
  BY <1>0, <1>11 DEF NullClient, AtSlot, Typed, TypeOK
<1>12. ASSUME NEW t \in Fds, Serve(t) PROVE Typed'
  BY <1>0, <1>12 DEF Serve, AtSlot, Typed, TypeOK
<1>13. ASSUME NEW t \in Fds, GiveUp(t) PROVE Typed'
  BY <1>0, <1>13 DEF GiveUp, AtSlot, Typed, TypeOK
<1>22. ASSUME NEW t \in Fds, BlockedBy(t) PROVE Typed'
  BY <1>0, <1>22 DEF BlockedBy, AtSlot, Typed, TypeOK
<1>14. ASSUME NEW t \in Fds, NEW g \in Fds, TakeOver(t, g) PROVE Typed'
  BY <1>0, <1>14 DEF TakeOver, AtSlot, Typed, TypeOK
<1>15. ASSUME NEW late \in BOOLEAN, TakenOver(late) PROVE Typed'
  <2>1. taker \in Fds /\ doomed' \in Seq(Fds)
    BY <1>0, <1>15 DEF TakenOver, TypeOK
  <2> QED BY <1>0, <1>15, <2>1 DEF TakenOver, Typed, TypeOK
<1>16. CASE Close
  <2>1. CASE doomed = <<>>
    BY <1>0, <1>16, <2>1 DEF Close, Typed, TypeOK
  <2>2. CASE doomed # <<>>
    <3>1. /\ sock' \in [Fds -> Nat] /\ spc' \in {"close", "erase"}
          /\ fault' \in {"none", "null"} /\ state' \in {"init", "started", "wait"}
      BY <1>0, <1>16, <2>2 DEF Close, Reinit, TypeOK
    <3> QED BY <1>0, <1>16, <2>2, <3>1 DEF Close, Typed, TypeOK
  <2> QED BY <2>1, <2>2
<1>17. CASE DelClient
  <2>1. doomed # <<>> /\ doomed' \in Seq(Fds)
    BY <1>0, <1>17 DEF DelClient, TypeOK
  <2> QED BY <1>0, <1>17, <2>1 DEF DelClient, Typed, TypeOK
<1> QED
  BY <1>1, <1>2, <1>3, <1>4, <1>5, <1>6, <1>7, <1>8, <1>9, <1>10, <1>11, <1>12, <1>13,
     <1>14, <1>15, <1>16, <1>17, <1>18, <1>19, <1>20, <1>21, <1>22
     DEF Next, Main, ServerThread

\* Every variable of the two threads keeps its type: ServerThread never reads
\* an ADD that was not sent, nor erases from an empty list.
THEOREM LoopTypeCorrect == Spec => []TypeOK
<1>1. Typed => TypeOK
  BY DEF Typed
<1> QED BY <1>1, TypedInit, TypedStep, PTL DEF Spec

-----------------------------------------------------------------------------
(* One ServerThread. *)

LEMMA OnePollerStep == Typed /\ OnePoller /\ [Next]_vars => OnePoller'
<1> SUFFICES ASSUME Typed, OnePoller, [Next]_vars PROVE OnePoller'
  OBVIOUS
<1> USE DEF OnePoller, main, pass, over, server, table, Running, AtSlot
<1>1. CASE UNCHANGED <<state, spc>>
  BY <1>1
<1>2. CASE StartIfInit
  BY <1>2 DEF StartIfInit
<1>3. CASE Count \/ Stop \/ Fill \/ Arm \/ EndPass \/ DelClient
  BY <1>3 DEF Count, Stop, Fill, Arm, EndPass, DelClient
<1>4. ASSUME NEW error \in BOOLEAN, Poll(error) PROVE OnePoller'
  BY <1>4 DEF Poll, PollErrorState
<1>5. CASE Hear \/ Close
  BY <1>5 DEF Hear, Close, Reinit
<1>6. ASSUME NEW t \in Fds, NEW g \in Fds, TakeOver(t, g) PROVE OnePoller'
  BY <1>6 DEF TakeOver
<1>7. ASSUME NEW late \in BOOLEAN, TakenOver(late) PROVE OnePoller'
  BY <1>7 DEF TakenOver
<1>8. ASSUME NEW t \in Fds, BlockedBy(t) PROVE OnePoller'
  BY <1>8 DEF BlockedBy
<1> QED
  BY <1>1, <1>2, <1>3, <1>4, <1>5, <1>6, <1>7, <1>8
     DEF Next, Main, ServerThread, vars, WaitForClient, AddClient, CloseRefused,
         TestWaitState, SendCommand, NullClient, Serve, GiveUp

\* main, which tests Broker::state without a lock, never starts a second
\* ServerThread beside one that runs.
THEOREM OneServerThread == Spec => []OnePoller
<1>1. Init => OnePoller
  BY DEF Init, OnePoller
<1> QED BY <1>1, TypedInit, TypedStep, OnePollerStep, PTL DEF Spec

-----------------------------------------------------------------------------
(* The table of clients and the open sockets. *)

LEMMA SocketsStep == Typed /\ OnePoller /\ Sockets /\ [Next]_vars => Sockets'
<1> SUFFICES ASSUME Typed, OnePoller, Sockets, [Next]_vars PROVE Sockets'
  OBVIOUS
<1>0. /\ sock \in [Fds -> Nat] /\ clients \in [Fds -> Nat] /\ accepted \in Nat
      /\ (mpc # "accept" => mfd \in Fds)
      /\ (spc = "taken" => victim \in Fds) /\ (spc = "erase" => Head(doomed) \in Fds)
  BY DEF Typed, TypeOK
\* The invariant, with the definitions of the module out of the way.
<1>1. /\ \A f \in Fds : clients[f] <= accepted /\ sock[f] <= accepted
      /\ mpc \in {"insert", "refuse"} => sock[mfd] # 0 /\ clients[mfd] # sock[mfd]
      /\ \A f \in Fds : Closing(f) => clients[f] # 0 /\ clients[f] # sock[f]
      /\ \A f \in Fds : clients[f] # 0 => sock[f] = clients[f] \/ Closing(f)
      /\ \A f \in Fds : sock[f] # 0 =>
            clients[f] = sock[f] \/ (f = mfd /\ mpc \in {"insert", "refuse"})
  BY DEF Sockets, TableMatchesSockets, Entries
<1>2. ASSUME /\ \A f \in Fds : clients'[f] <= accepted' /\ sock'[f] <= accepted'
             /\ mpc' \in {"insert", "refuse"} => sock'[mfd'] # 0 /\ clients'[mfd'] # sock'[mfd']
             /\ \A f \in Fds : Closing(f)' => clients'[f] # 0 /\ clients'[f] # sock'[f]
             /\ \A f \in Fds : clients'[f] # 0 => sock'[f] = clients'[f] \/ Closing(f)'
             /\ \A f \in Fds : sock'[f] # 0 =>
                   clients'[f] = sock'[f] \/ (f = mfd' /\ mpc' \in {"insert", "refuse"})
      PROVE  Sockets'
  BY <1>2 DEF Sockets, TableMatchesSockets, Entries
<1> USE DEF main, pass, over, server, table, Running, AtSlot
<1>3. ASSUME UNCHANGED <<sock, clients, accepted, mpc, mfd>>,
             \A f \in Fds : Closing(f)' <=> Closing(f)
      PROVE  Sockets'
  BY <1>1, <1>2, <1>3
<1>4. ASSUME UNCHANGED <<sock, clients, accepted>>,
             mpc \notin {"insert", "refuse"}, mpc' \notin {"insert", "refuse"},
             \A f \in Fds : Closing(f)' <=> Closing(f)
      PROVE  Sockets'
  BY <1>1, <1>2, <1>4
<1>5. ASSUME UNCHANGED <<spc, doomed, victim>> PROVE \A f \in Fds : Closing(f)' <=> Closing(f)
  BY <1>5 DEF Closing
<1>6. ASSUME spc \notin {"erase", "taken"}, spc' \notin {"erase", "taken"}
      PROVE \A f \in Fds : Closing(f)' <=> Closing(f)
  BY <1>6 DEF Closing
<1>7. CASE UNCHANGED vars
  BY <1>3, <1>5, <1>7 DEF vars
<1>8. ASSUME NEW f \in Fds, WaitForClient(f) PROVE Sockets'
  <2>1. /\ mpc = "accept" /\ mpc' = "insert" /\ mfd' = f /\ sock[f] = 0
        /\ accepted' = accepted + 1 /\ sock' = [sock EXCEPT ![f] = accepted + 1]
        /\ clients' = clients /\ \A g \in Fds : Closing(g)' <=> Closing(g)
    BY <1>5, <1>8 DEF WaitForClient
  <2> QED BY <1>0, <1>1, <1>2, <2>1
<1>9. CASE AddClient
  <2>1. /\ mpc = "insert" /\ mfd' = mfd /\ mfd \in Fds
        /\ \A g \in Fds : Closing(g)' <=> Closing(g)
        /\ UNCHANGED <<sock, accepted>>
    BY <1>0, <1>5, <1>9 DEF AddClient
  <2>2. CASE clients[mfd] = 0
    <3>1. clients' = [clients EXCEPT ![mfd] = sock[mfd]] /\ mpc' = "tell"
      BY <1>9, <2>2 DEF AddClient, Insert
    <3> QED BY <1>0, <1>1, <1>2, <2>1, <2>2, <3>1
  <2>3. CASE clients[mfd] # 0
    <3>1. clients' = clients /\ mpc' = "refuse"
      BY <1>9, <2>3 DEF AddClient, Insert
    <3> QED BY <1>1, <1>2, <2>1, <3>1
  <2> QED BY <2>2, <2>3
<1>10. CASE CloseRefused
  <2>1. /\ mpc = "refuse" /\ mpc' = "accept" /\ mfd \in Fds
        /\ sock' = [sock EXCEPT ![mfd] = 0] /\ UNCHANGED <<clients, accepted>>
        /\ \A g \in Fds : Closing(g)' <=> Closing(g)
    BY <1>0, <1>5, <1>10 DEF CloseRefused
  <2> QED BY <1>0, <1>1, <1>2, <2>1
<1>11. CASE TestWaitState \/ SendCommand
  BY <1>4, <1>5, <1>11 DEF TestWaitState, SendCommand
<1>12. CASE StartIfInit
  <2>1. spc' = spc \/ (spc = "down" /\ spc' = "top")
    BY <1>12 DEF StartIfInit, OnePoller
  <2> QED BY <1>4, <1>5, <1>6, <1>12, <2>1 DEF StartIfInit
<1>13. CASE Count \/ Stop \/ Fill \/ Arm \/ EndPass \/ Hear
  BY <1>3, <1>6, <1>13 DEF Count, Stop, Fill, Arm, EndPass, Hear
<1>14. ASSUME NEW error \in BOOLEAN, Poll(error) PROVE Sockets'
  BY <1>3, <1>6, <1>14 DEF Poll
<1>15. ASSUME NEW t \in Fds \union {Junk}, NullClient(t) PROVE Sockets'
  BY <1>3, <1>5, <1>15 DEF NullClient
<1>16. ASSUME NEW t \in Fds, Serve(t) \/ GiveUp(t) \/ BlockedBy(t) PROVE Sockets'
  BY <1>3, <1>6, <1>16 DEF Serve, GiveUp, BlockedBy
\* A descriptor is closed, and erased in a later step.
<1>17. ASSUME NEW g \in Fds, clients[g] # 0, spc \notin {"erase", "taken"},
              sock' = [sock EXCEPT ![g] = 0], UNCHANGED <<clients, accepted, mpc, mfd>>,
              \A f \in Fds : Closing(f)' <=> f = g
       PROVE  Sockets'
  <2>1. \A f \in Fds : ~Closing(f)
    BY <1>17 DEF Closing
  <2>2. mpc \in {"insert", "refuse"} => mfd # g /\ mfd \in Fds
    BY <1>0, <1>1, <1>17, <2>1
  <2> QED BY <1>0, <1>1, <1>2, <1>17, <2>1, <2>2
<1>18. ASSUME NEW g \in Fds, clients' = [clients EXCEPT ![g] = 0],
              UNCHANGED <<sock, accepted, mpc, mfd>>,
              \A f \in Fds : Closing(f) <=> f = g, \A f \in Fds : ~Closing(f)'
       PROVE  Sockets'
  BY <1>0, <1>1, <1>2, <1>18
<1>19. ASSUME NEW t \in Fds, NEW g \in Fds, TakeOver(t, g) PROVE Sockets'
  <2>1. \A f \in Fds : Closing(f)' <=> f = g
    BY <1>19 DEF TakeOver, Closing
  <2> QED BY <1>17, <1>19, <2>1 DEF TakeOver, Entries
<1>20. ASSUME NEW late \in BOOLEAN, TakenOver(late) PROVE Sockets'
  <2>1. victim \in Fds /\ \A f \in Fds : (Closing(f) <=> f = victim) /\ ~Closing(f)'
    BY <1>0, <1>20 DEF TakenOver, Closing
  <2> QED BY <1>18, <1>20, <2>1 DEF TakenOver
<1>21. CASE Close
  <2>1. CASE doomed = <<>> \/ Head(doomed) \notin Entries
    BY <1>3, <1>6, <1>21, <2>1 DEF Close
  <2>2. CASE doomed # <<>> /\ Head(doomed) \in Entries
    <3>1. \A f \in Fds : Closing(f)' <=> f = Head(doomed)
      BY <1>21, <2>2 DEF Close, Closing
    <3> QED BY <1>17, <1>21, <2>2, <3>1 DEF Close, Entries
  <2> QED BY <2>1, <2>2
<1>22. CASE DelClient
  <2>1. Head(doomed) \in Fds /\ \A f \in Fds : (Closing(f) <=> f = Head(doomed)) /\ ~Closing(f)'
    BY <1>0, <1>22 DEF DelClient, Closing
  <2> QED BY <1>18, <1>22, <2>1 DEF DelClient
<1> QED
  BY <1>7, <1>8, <1>9, <1>10, <1>11, <1>12, <1>13, <1>14, <1>15, <1>16, <1>19, <1>20,
     <1>21, <1>22 DEF Next, Main, ServerThread

\* Two threads close, hand out, insert and erase descriptors, and the table
\* names only open connections, and all of them, but for the one in the hands
\* of a thread.
THEOREM TableAgreesWithSockets == Spec => []TableMatchesSockets
<1>1. Init => OnePoller /\ Sockets
  BY DEF Init, OnePoller, Sockets, TableMatchesSockets, Closing, Entries
<1>2. Sockets => TableMatchesSockets
  BY DEF Sockets
<1> QED BY <1>1, <1>2, TypedInit, TypedStep, OnePollerStep, SocketsStep, PTL DEF Spec

-----------------------------------------------------------------------------
(* What the slots of vec_fds hold. *)

LEMMA ProgressStep == Typed /\ OnePoller /\ Progress /\ [Next]_vars => Progress'
<1> SUFFICES ASSUME Typed, OnePoller, Progress, [Next]_vars PROVE Progress'
  OBVIOUS
<1>0. slot \in Nat
  BY DEF Typed, TypeOK
<1> USE DEF Progress, main, pass, over, server, table, Running, AtSlot
<1>1. CASE UNCHANGED <<spc, slot, taken, state>>
  BY <1>1
<1>2. ASSUME spc' \notin {"slot", "taken", "erase"} PROVE Progress'
  BY <1>2
<1>3. CASE StartIfInit
  BY <1>1, <1>2, <1>3 DEF StartIfInit
<1>4. CASE Count \/ Stop \/ Fill \/ Arm \/ EndPass \/ DelClient
  BY <1>2, <1>4 DEF Count, Stop, Fill, Arm, EndPass, DelClient
<1>5. ASSUME NEW error \in BOOLEAN, Poll(error) PROVE Progress'
  BY <1>5 DEF Poll
<1>6. CASE Hear
  BY <1>0, <1>6 DEF Hear
<1>7. ASSUME NEW t \in Fds, Serve(t) \/ GiveUp(t) \/ BlockedBy(t) PROVE Progress'
  BY <1>0, <1>7 DEF Serve, GiveUp, BlockedBy
<1>8. ASSUME NEW t \in Fds, NEW g \in Fds, TakeOver(t, g) PROVE Progress'
  BY <1>8 DEF TakeOver
<1>9. ASSUME NEW late \in BOOLEAN, TakenOver(late) PROVE Progress'
  BY <1>0, <1>9 DEF TakenOver
<1>10. CASE Close
  BY <1>10 DEF Close, Reinit
<1> QED
  BY <1>1, <1>3, <1>4, <1>5, <1>6, <1>7, <1>8, <1>9, <1>10
     DEF Next, Main, ServerThread, vars, WaitForClient, AddClient, CloseRefused,
         TestWaitState, SendCommand, NullClient

\* Only the two steps that erase an entry remove one.
LEMMA EntriesGrow ==
    Typed /\ [Next]_vars =>
        Entries \subseteq Entries' \/ DelClient \/ \E late \in BOOLEAN : TakenOver(late)
<1> SUFFICES ASSUME Typed, [Next]_vars, ~DelClient, ~\E late \in BOOLEAN : TakenOver(late)
             PROVE  Entries \subseteq Entries'
  OBVIOUS
<1>1. CASE AddClient
  <2>1. mfd \in Fds /\ clients \in [Fds -> Nat]
    BY <1>1 DEF AddClient, Typed, TypeOK
  <2>2. \A f \in Fds : clients[f] # 0 => clients'[f] # 0
    BY <1>1, <2>1 DEF AddClient, Insert
  <2> QED BY <2>2 DEF Entries
<1>2. CASE clients' = clients
  BY <1>2 DEF Entries
<1> QED
  BY <1>1, <1>2
     DEF Next, Main, ServerThread, vars, table, WaitForClient, CloseRefused, TestWaitState,
         SendCommand, StartIfInit, Count, Stop, Fill, Arm, Poll, Hear, NullClient, Serve,
         GiveUp, BlockedBy, TakeOver, EndPass, Close

LEMMA FilledStep ==
    Typed /\ OnePoller /\ Progress /\ Filled /\ [Next]_vars => Filled'
<1> DEFINE Goal == /\ size' >= 1 /\ size' <= Len(mem') /\ mem'[size'] = Control
                   /\ \A k \in 1..(size' - 1) : mem'[k] \in Entries'
                   /\ \A j, k \in 1..(size' - 1) : mem'[j] = mem'[k] => j = k
<1> SUFFICES ASSUME Typed, OnePoller, Progress, Filled, [Next]_vars, taken' = {}, InUse'
             PROVE  Goal
  BY DEF Filled
<1>0. size \in Nat /\ mem \in Seq(Slots) /\ Len(mem) \in Nat
  BY DEF Typed, TypeOK, Slots
\* A step that writes only unused memory.
<1>1. ASSUME InUse, taken = {}, size' = size, Len(mem') \in Nat, Len(mem') >= Len(mem),
             \A k \in 1..Len(mem) : mem'[k] = mem[k], Entries \subseteq Entries'
      PROVE  Goal
  <2>1. /\ size >= 1 /\ size <= Len(mem) /\ mem[size] = Control
        /\ \A k \in 1..(size - 1) : mem[k] \in Entries
        /\ \A j, k \in 1..(size - 1) : mem[j] = mem[k] => j = k
    BY <1>1 DEF Filled
  <2>2. /\ size \in 1..Len(mem) /\ size' <= Len(mem')
        /\ \A k \in 1..(size - 1) : k \in 1..Len(mem)
    BY <1>0, <1>1, <2>1
  <2> QED BY <1>1, <2>1, <2>2
<1>2. ASSUME InUse, UNCHANGED <<taken, size, mem>>, Entries \subseteq Entries' PROVE Goal
  BY <1>0, <1>1, <1>2
<1> USE DEF InUse, main, pass, over, server, table, Running, AtSlot
<1> HIDE DEF Goal
<1>3. CASE Fill
  <2>1. UNCHANGED clients
    BY <1>3 DEF Fill
  <2> QED BY <1>3, <2>1, FillExact DEF Goal, Entries
<1>4. ASSUME NEW error \in BOOLEAN, Poll(error) PROVE Goal
  <2>1. InUse /\ taken = {} /\ size' = size /\ clients' = clients
    BY <1>4 DEF Poll
  <2>2. Len(mem') \in Nat /\ Len(mem') >= Len(mem) /\ \A k \in 1..Len(mem) : mem'[k] = mem[k]
    BY <1>4, PollExact
  <2> QED BY <1>1, <2>1, <2>2 DEF Entries
<1>5. ASSUME NEW late \in BOOLEAN, TakenOver(late) PROVE Goal
  BY <1>5 DEF TakenOver, Progress
<1>6. CASE DelClient
  BY <1>6 DEF DelClient, Progress
<1>7. CASE StartIfInit
  <2>1. state # "init"
    BY <1>7 DEF StartIfInit, OnePoller
  <2>2. InUse /\ UNCHANGED <<taken, size, mem, clients>>
    BY <1>7, <2>1 DEF StartIfInit
  <2> QED BY <1>2, <2>2 DEF Entries
<1>8. ASSUME NEW t \in Fds, NEW g \in Fds, TakeOver(t, g) PROVE Goal
  BY <1>8 DEF TakeOver
<1>9. CASE Count \/ Stop
  BY <1>9, OnePollerStep DEF Count, Stop
<1>10. CASE Arm \/ Hear \/ EndPass \/ Close
  <2>1. InUse /\ UNCHANGED <<taken, size, mem, clients>>
    BY <1>10 DEF Arm, Hear, EndPass, Close, Reinit
  <2> QED BY <1>2, <2>1 DEF Entries
<1>11. CASE UNCHANGED <<taken, size, mem, spc, state>> /\ Entries \subseteq Entries'
  BY <1>2, <1>11
<1>12. ASSUME NEW t \in Fds, BlockedBy(t) PROVE Goal
  <2>1. InUse /\ UNCHANGED <<taken, size, mem, clients>>
    BY <1>12 DEF BlockedBy
  <2> QED BY <1>2, <2>1 DEF Entries
<1> QED
  BY <1>3, <1>4, <1>5, <1>6, <1>7, <1>8, <1>9, <1>10, <1>11, <1>12, EntriesGrow
     DEF Next, Main, ServerThread, vars, WaitForClient, AddClient, CloseRefused,
         TestWaitState, SendCommand, NullClient, Serve, GiveUp

\* Appending to and taking from a list without repetitions.
LEMMA AppendDistinct ==
    ASSUME NEW S, NEW q \in Seq(S), NEW e \in S,
           \A j, k \in 1..Len(q) : q[j] = q[k] => j = k, \A j \in 1..Len(q) : q[j] # e
    PROVE  \A j, k \in 1..Len(Append(q, e)) : Append(q, e)[j] = Append(q, e)[k] => j = k
<1>1. /\ Len(q) \in Nat /\ Len(Append(q, e)) = Len(q) + 1 /\ Append(q, e)[Len(q) + 1] = e
      /\ \A j \in 1..Len(q) : Append(q, e)[j] = q[j]
  OBVIOUS
<1> QED BY <1>1

LEMMA TailDistinct ==
    ASSUME NEW S, NEW q \in Seq(S), q # <<>>,
           \A j, k \in 1..Len(q) : q[j] = q[k] => j = k
    PROVE  /\ \A j, k \in 1..Len(Tail(q)) : Tail(q)[j] = Tail(q)[k] => j = k
           /\ \A j \in 1..Len(Tail(q)) : Tail(q)[j] # Head(q)
           /\ \A j \in 1..Len(Tail(q)) : \E k \in 1..Len(q) : Tail(q)[j] = q[k]
<1>1. /\ Len(q) \in Nat \ {0} /\ Len(Tail(q)) = Len(q) - 1 /\ Head(q) = q[1]
      /\ \A j \in 1..Len(Tail(q)) : Tail(q)[j] = q[j + 1]
  OBVIOUS
<1> QED BY <1>1

LEMMA RangeGrows ==
    ASSUME NEW m \in Nat, NEW n \in Nat, m <= n
    PROVE  \A k \in 1..(m - 1) : k \in 1..(n - 1)
OBVIOUS

LEMMA DoomedStep ==
    Typed /\ Progress /\ Filled /\ Doomed /\ [Next]_vars => Doomed'
<1> DEFINE Goal1 == /\ \A j \in 1..Len(doomed') : doomed'[j] \in Entries'
                    /\ \A j, k \in 1..Len(doomed') : doomed'[j] = doomed'[k] => j = k
           Goal2 == \A j \in 1..Len(doomed') : \E k \in 1..(slot' - 1) : doomed'[j] = mem'[k]
<1> SUFFICES ASSUME Typed, Progress, Filled, Doomed, [Next]_vars, taken' = {}, num' <= size',
                    spc' \in {"slot", "close", "erase"}
             PROVE  Goal1 /\ (spc' = "slot" => Goal2)
  BY DEF Doomed
<1>0. /\ doomed \in Seq(Fds) /\ mem \in Seq(Slots) /\ size \in Nat /\ num \in Nat
      /\ slot \in Nat /\ Len(doomed) \in Nat /\ (spc = "erase" => doomed # <<>>)
      /\ clients \in [Fds -> Nat]
  BY DEF Typed, TypeOK, Slots
<1> DEFINE Same == UNCHANGED <<taken, num, size, mem>> /\ spc \in {"slot", "close", "erase"}
<1>1. ASSUME Same
      PROVE  /\ \A j \in 1..Len(doomed) : doomed[j] \in Entries
             /\ \A j, k \in 1..Len(doomed) : doomed[j] = doomed[k] => j = k
             /\ spc = "slot" => \A j \in 1..Len(doomed) : \E k \in 1..(slot - 1) : doomed[j] = mem[k]
  BY <1>1 DEF Doomed
<1> USE DEF main, pass, over, server, table, Running, AtSlot
\* A step of ServerThread or main that gives nobody up and erases nothing.
<1>2. ASSUME Same, doomed' = doomed, Entries \subseteq Entries', slot' \in Nat, slot' >= slot,
             spc' = "slot" => spc = "slot"
      PROVE  Goal1 /\ (spc' = "slot" => Goal2)
  <2>1. Goal1
    BY <1>1, <1>2
  <2>2. ASSUME spc' = "slot" PROVE Goal2
    <3>0. slot \in Nat /\ slot' \in Nat /\ slot <= slot'
      BY <1>0, <1>2
    <3>1. \A k \in 1..(slot - 1) : k \in 1..(slot' - 1)
      BY <3>0, RangeGrows
    <3> QED BY <1>1, <1>2, <2>2, <3>1
  <2> QED BY <2>1, <2>2
<1> HIDE DEF Same
<1>3. ASSUME NEW error \in BOOLEAN, Poll(error) PROVE Goal1 /\ (spc' = "slot" => Goal2)
  <2>1. doomed' = <<>>
    BY <1>3 DEF Poll
  <2>2. Len(doomed') = 0
    BY <2>1
  <2> QED BY <2>2
<1>4. ASSUME NEW t \in Fds, GiveUp(t) PROVE Goal1 /\ (spc' = "slot" => Goal2)
  <2>1. /\ spc = "slot" /\ Same /\ slot <= num /\ t = mem[slot] /\ t \in Entries
        /\ doomed' = Append(doomed, t) /\ slot' = slot + 1 /\ UNCHANGED clients
        /\ taken = {} /\ num <= size /\ mem' = mem /\ slot >= 1
    BY <1>4 DEF GiveUp, Same, Progress
  <2>2. /\ size >= 1 /\ mem[size] = Control
        /\ \A j, k \in 1..(size - 1) : mem[j] = mem[k] => j = k
    BY <2>1 DEF Filled, InUse
  <2>3. slot # size
    BY <2>1, <2>2, LoopAssumption
  <2>4. \A k \in 1..(slot - 1) : mem[k] # t
    BY <1>0, <2>1, <2>2, <2>3
  <2>5. \A j \in 1..Len(doomed) : doomed[j] # t
    BY <1>1, <2>1, <2>4
  <2>6. /\ Len(doomed') = Len(doomed) + 1 /\ doomed'[Len(doomed) + 1] = t
        /\ \A j \in 1..Len(doomed) : doomed'[j] = doomed[j]
    BY <1>0, <2>1
  <2>7. \A j \in 1..Len(doomed') : doomed'[j] \in Entries'
    BY <1>0, <1>1, <2>1, <2>6 DEF Entries
  <2>8. \A j, k \in 1..Len(doomed') : doomed'[j] = doomed'[k] => j = k
    BY <1>0, <1>1, <2>1, <2>5, AppendDistinct
  <2>9. Goal2
    <3>1. \A j \in 1..Len(doomed) : \E k \in 1..slot : doomed[j] = mem[k]
      <4>1. 1..(slot - 1) \subseteq 1..slot
        BY <1>0
      <4> QED BY <1>1, <2>1, <4>1
    <3>2. slot \in 1..slot /\ slot' - 1 = slot
      BY <1>0, <2>1
    <3>3. \A j \in 1..Len(doomed') : j \in 1..Len(doomed) \/ j = Len(doomed) + 1
      BY <1>0, <2>6
    <3> QED BY <2>1, <2>6, <3>1, <3>2, <3>3
  <2> QED BY <2>7, <2>8, <2>9
<1>5. CASE DelClient
  <2>1. /\ Same /\ spc' = "close" /\ doomed # <<>> /\ doomed' = Tail(doomed)
        /\ clients' = [clients EXCEPT ![Head(doomed)] = 0]
    BY <1>0, <1>5 DEF DelClient, Same
  <2>2. /\ \A j, k \in 1..Len(doomed') : doomed'[j] = doomed'[k] => j = k
        /\ \A j \in 1..Len(doomed') : doomed'[j] # Head(doomed)
        /\ \A j \in 1..Len(doomed') : \E k \in 1..Len(doomed) : doomed'[j] = doomed[k]
    BY <1>0, <1>1, <2>1, TailDistinct
  <2>3. \A f \in Entries : f # Head(doomed) => f \in Entries'
    BY <1>0, <2>1 DEF Entries
  <2> QED BY <1>1, <2>1, <2>2, <2>3
<1>6. ASSUME NEW late \in BOOLEAN, TakenOver(late) PROVE Goal1 /\ (spc' = "slot" => Goal2)
  BY <1>6 DEF TakenOver, Progress
<1>7. CASE Hear \/ EndPass \/ Close
  <2>1. /\ Same /\ doomed' = doomed /\ slot' \in Nat /\ slot' >= slot
        /\ (spc' = "slot" => spc = "slot") /\ clients' = clients
    BY <1>0, <1>7 DEF Hear, EndPass, Close, Same
  <2> QED BY <1>2, <2>1 DEF Entries
<1>8. ASSUME NEW t \in Fds, Serve(t) PROVE Goal1 /\ (spc' = "slot" => Goal2)
  <2>1. /\ Same /\ doomed' = doomed /\ slot' \in Nat /\ slot' >= slot
        /\ spc = "slot" /\ clients' = clients
    BY <1>0, <1>8 DEF Serve, Same
  <2> QED BY <1>2, <2>1 DEF Entries
<1>9. CASE UNCHANGED <<taken, num, size, mem, spc, doomed, slot>> /\ Entries \subseteq Entries'
  BY <1>0, <1>2, <1>9 DEF Same
<1>10. CASE Count \/ Stop \/ Fill \/ Arm
  BY <1>10 DEF Count, Stop, Fill, Arm
<1>11. ASSUME NEW t \in Fds, NEW g \in Fds, TakeOver(t, g) PROVE FALSE
  BY <1>11 DEF TakeOver
<1>12. CASE StartIfInit
  <2>1. UNCHANGED <<taken, num, size, mem, spc, doomed, slot, clients>>
    BY <1>12 DEF StartIfInit
  <2> QED BY <1>9, <2>1 DEF Entries
<1>13. ASSUME NEW t \in Fds, BlockedBy(t) PROVE FALSE
  BY <1>13 DEF BlockedBy
<1> QED
  BY <1>3, <1>4, <1>5, <1>6, <1>7, <1>8, <1>9, <1>10, <1>11, <1>12, <1>13, EntriesGrow
     DEF Next, Main, ServerThread, vars, WaitForClient, AddClient, CloseRefused,
         TestWaitState, SendCommand, NullClient

LEMMA NullStep ==
    Typed /\ Progress /\ Filled /\ Doomed /\ NullExplained /\ [Next]_vars => NullExplained'
<1> SUFFICES ASSUME Typed, Progress, Filled, Doomed, NullExplained, [Next]_vars
             PROVE  NullExplained'
  OBVIOUS
<1>0. /\ size \in Nat /\ num \in Nat /\ slot \in Nat /\ doomed \in Seq(Fds)
  BY DEF Typed, TypeOK
<1> USE DEF NullExplained, main, pass, over, server, table, Running, AtSlot
<1>1. CASE UNCHANGED vars
  BY <1>1 DEF vars
<1>2. ASSUME NEW t \in Fds \union {Junk}, NullClient(t) PROVE NullExplained'
  <2>1. /\ spc = "slot" /\ slot >= 1 /\ slot <= num /\ mem[slot] # Control
        /\ mem[slot] \notin Entries /\ UNCHANGED <<taken, num, size>>
    BY <1>2 DEF NullClient, Progress
  <2> SUFFICES ASSUME taken = {}, num <= size PROVE FALSE
    BY <1>0, <2>1
  <2>2. mem[size] = Control /\ \A k \in 1..(size - 1) : mem[k] \in Entries
    BY <2>1 DEF Filled, InUse
  <2>3. slot = size \/ slot \in 1..(size - 1)
    BY <1>0, <2>1
  <2> QED BY <2>1, <2>2, <2>3
<1>3. CASE Close
  <2> SUFFICES ASSUME doomed # <<>>, Head(doomed) \notin Entries, taken = {}, num <= size
               PROVE  FALSE
    BY <1>0, <1>3 DEF Close
  <2>1. Len(doomed) >= 1 /\ Len(doomed) \in Nat /\ Head(doomed) = doomed[1]
    BY <1>0
  <2>2. doomed[1] \in Entries
    BY <1>3, <2>1 DEF Close, Doomed
  <2> QED BY <2>1, <2>2
<1>4. CASE fault = "none" /\ fault' = "none"
  BY <1>4
<1> QED
  BY <1>1, <1>2, <1>3, <1>4
     DEF Next, Main, ServerThread, WaitForClient, AddClient, CloseRefused, TestWaitState,
         SendCommand, StartIfInit, Count, Stop, Fill, Arm, Poll, Hear, Serve, GiveUp,
         BlockedBy, TakeOver, TakenOver, EndPass, DelClient

\* Whatever main adds and unwritten memory holds: a missing client is
\* dereferenced only in a pass that has more slots than vec_fds, or after a
\* takeover; closing, erasing and rebuilding alone never lead there.
THEOREM NullOnlyAsExplained == Spec => []NullExplained
<1>1. Init => OnePoller /\ Progress /\ Filled /\ Doomed /\ NullExplained
  BY DEF Init, OnePoller, Progress, Filled, InUse, Doomed, NullExplained
<1> QED
  BY <1>1, TypedInit, TypedStep, OnePollerStep, ProgressStep, FilledStep, DoomedStep,
     NullStep, PTL DEF Spec
=============================================================================
