------------------------- MODULE CommandQueueProofs -------------------------
(***************************************************************************)
(* Proofs about CommandQueue, for any number of senders, stopped threads,  *)
(* descriptors, connections, commands and writes.                          *)
(***************************************************************************)
EXTENDS CommandQueue, Integers, TLAPS

\* The commands taken off the queue so far.
Popped == added - Len(queue)

\* A thread holds a command exactly while it writes it, and then has at least
\* one write() to make.
Writers ==
    \A t \in Threads : /\ held[t] # Nobody <=> pc[t] \in {"writing", "blocked"}
                       /\ held[t] # Nobody => parts[t] >= 1

Typed == TypeOK /\ Writers

\* Where each command is: the queue holds the newest ones, in order, and what
\* was taken off it is in the hands of one thread or executed.
Places ==
    /\ Len(queue) <= added
    /\ \A k \in 1..Len(queue) : queue[k] = Popped + k
    /\ \A n \in 1..Popped : n \in done \/ \E t \in Threads : held[t] = n
    /\ \A n \in done : n <= Popped
    /\ \A t \in Threads : held[t] # Nobody => held[t] <= Popped /\ held[t] \notin done
    /\ \A t, u \in Threads : held[t] = held[u] /\ held[t] # Nobody => t = u

\* A thread waits on a queue that is not empty only until the end of the pass,
\* and a sender is started before the first command.
Awake ==
    /\ server \in {"poll", "down"} /\ queue # <<>> =>
          \A t \in Threads : pc[t] # "waiting"
    /\ \A t \in Senders : pc[t] # "ended"
    /\ server # "down" \/ added > 0 => \A t \in Senders : pc[t] # "off"

\* A command's descriptor still belongs to the connection it is for, or that
\* connection has ended; it has if bytes of the command went astray.
Addressed ==
    /\ \A n \in 1..added : /\ dest[n] # 0
                           /\ conn[target[n]] = dest[n] \/ dest[n] \in ended
    /\ \A n \in astray : n <= added /\ dest[n] \in ended

-----------------------------------------------------------------------------
(* Types, and who holds a command. *)

LEMMA TypedInit == Init => Typed
<1> SUFFICES ASSUME Init PROVE Typed
  OBVIOUS
<1>1. (CHOOSE f \in Fds : TRUE) \in Fds
  BY QueueAssumption
<1> QED BY <1>1, QueueAssumption DEF Init, Typed, TypeOK, Writers, Numbers

\* A thread that has finished a command holds none and is not writing.
LEMMA FinishTyped ==
    ASSUME Typed, NEW t \in Threads, pc[t] = "writing", Finish(t)
    PROVE  /\ held[t] \in Numbers
           /\ done' = done \union {held[t]} /\ done' \subseteq Numbers
           /\ pc' \in [Threads -> {"off", "lock", "waiting", "writing", "blocked", "ended"}]
           /\ held' \in [Threads -> Numbers \union {Nobody}]
           /\ parts' \in [Threads -> 0..MaxParts]
           /\ Writers'
BY QueueAssumption DEF Finish, AfterExecute, Typed, TypeOK, Writers

LEMMA TypedStep == Typed /\ [Next]_vars => Typed'
<1> SUFFICES ASSUME Typed, [Next]_vars PROVE Typed'
  OBVIOUS
<1>0. TypeOK /\ Writers
  BY DEF Typed
<1> USE QueueAssumption DEF commands, execution, sockets
<1>1. CASE UNCHANGED vars
  BY <1>0, <1>1 DEF vars, Typed, TypeOK, Writers
<1>2. CASE BeginPass
  BY <1>0, <1>2 DEF BeginPass, Typed, TypeOK, Writers
<1>3. ASSUME NEW f \in Fds, AddCommand(f) PROVE Typed'
  <2>1. added + 1 \in Numbers
    BY <1>0, <1>3 DEF AddCommand, TypeOK, Numbers
  <2>2. queue' \in Seq(Numbers)
    BY <1>0, <1>3, <2>1 DEF AddCommand, Enqueue, TypeOK
  <2>3. target' \in [Numbers -> Fds] /\ dest' \in [Numbers -> 0..made]
    BY <1>0, <1>3, <2>1 DEF AddCommand, TypeOK
  <2>4. added' \in 0..MaxCmds
    BY <1>0, <1>3 DEF AddCommand, TypeOK
  <2> QED BY <1>0, <1>3, <2>2, <2>3, <2>4 DEF AddCommand, Typed, TypeOK, Writers
<1>4. ASSUME NEW f \in Fds, CloseConnection(f) PROVE Typed'
  <2>1. conn[f] \in 1..made /\ made \in Nat
    BY <1>0, <1>4 DEF CloseConnection, TypeOK
  <2>2. ended' = ended \union {conn[f]} /\ ended \subseteq 1..made
    BY <1>0, <1>4 DEF CloseConnection, TypeOK
  <2>3. ended' \subseteq 1..made
    BY <2>1, <2>2, Zenon
  <2>4. conn' \in [Fds -> 0..made]
    BY <1>0, <1>4, <2>1 DEF CloseConnection, TypeOK
  <2> QED BY <1>0, <1>4, <2>3, <2>4 DEF CloseConnection, Typed, TypeOK, Writers
<1>5. ASSUME NEW f \in Fds, HandleError(f) \/ ReadFixedHeader(f) PROVE Typed'
  BY <1>0, <1>5 DEF HandleError, ReadFixedHeader, Typed, TypeOK, Writers
<1>6. CASE Notify
  BY <1>0, <1>6 DEF Notify, NotifyCheck, Typed, TypeOK, Writers
<1>7. CASE NotifyAll
  BY <1>0, <1>7 DEF NotifyAll, WakeAll, Typed, TypeOK, Writers
<1>8. ASSUME NEW t \in Stopped, StopServer(t) PROVE Typed'
  BY <1>0, <1>8 DEF StopServer, Typed, TypeOK, Writers, Threads
<1>9. ASSUME NEW f \in Fds, Accept(f) PROVE Typed'
  <2>1. made' \in 0..MaxConns /\ made' = made + 1 /\ made \in Nat
    BY <1>0, <1>9 DEF Accept, TypeOK
  <2>2. conn' \in [Fds -> 0..made'] /\ dest' \in [Numbers -> 0..made']
    BY <1>0, <1>9, <2>1 DEF Accept, TypeOK
  <2>3. ended' \subseteq 1..made'
    BY <1>0, <1>9, <2>1 DEF Accept, TypeOK
  <2> QED BY <1>0, <1>9, <2>1, <2>2, <2>3 DEF Accept, Typed, TypeOK, Writers
<1>10. CASE StartServer
  BY <1>0, <1>10 DEF StartServer, Typed, TypeOK, Writers
<1>11. ASSUME NEW t \in Threads, Take(t) PROVE Typed'
  <2>1. CASE queue = <<>>
    BY <1>0, <1>11, <2>1 DEF Take, Typed, TypeOK, Writers
  <2>2. CASE queue # <<>>
    <3>1. Head(queue) \in Numbers /\ Tail(queue) \in Seq(Numbers)
      BY <1>0, <2>2 DEF TypeOK
    <3>2. PICK k \in 1..MaxParts : parts' = [parts EXCEPT ![t] = k]
      BY <1>11, <2>2 DEF Take
    <3>3. /\ queue' = Tail(queue) /\ held' = [held EXCEPT ![t] = Head(queue)]
          /\ pc' = [pc EXCEPT ![t] = "writing"]
          /\ UNCHANGED <<added, target, dest, done, astray, whole, server, sockets>>
      BY <1>11, <2>2 DEF Take, Pop
    <3>5. /\ held \in [Threads -> Numbers \union {Nobody}]
          /\ parts \in [Threads -> 0..MaxParts] /\ MaxParts \in Nat
          /\ pc \in [Threads -> {"off", "lock", "waiting", "writing", "blocked", "ended"}]
      BY <1>0, QueueAssumption DEF TypeOK
    <3>6. /\ held' \in [Threads -> Numbers \union {Nobody}]
          /\ parts' \in [Threads -> 0..MaxParts]
          /\ pc' \in [Threads -> {"off", "lock", "waiting", "writing", "blocked", "ended"}]
      BY <3>1, <3>2, <3>3, <3>5
    <3>4. Writers'
      BY <1>0, <3>1, <3>2, <3>3, <3>5 DEF Writers, Numbers
    <3>7. TypeOK'
      BY <1>0, <3>1, <3>3, <3>6 DEF TypeOK, sockets
    <3> QED BY <3>4, <3>7 DEF Typed
  <2> QED BY <2>1, <2>2
<1>12. ASSUME NEW t \in Threads, Write(t) PROVE Typed'
  <2>1. pc[t] = "writing" /\ held[t] \in Numbers /\ astray' \subseteq Numbers
    BY <1>0, <1>12 DEF Write, Writing, Deliver, TypeOK, Writers
  <2>2. CASE parts[t] = 1
    BY <1>0, <1>12, <2>1, <2>2, FinishTyped DEF Write, Typed, TypeOK
  <2>3. CASE parts[t] # 1
    <3>1. parts[t] \in 0..MaxParts /\ parts[t] >= 1
      BY <1>0, <2>1 DEF TypeOK, Writers, Numbers
    <3>2. parts' = [parts EXCEPT ![t] = parts[t] - 1] /\ parts[t] - 1 \in 1..MaxParts
      BY <1>12, <2>3, <3>1 DEF Write
    <3> QED BY <1>0, <1>12, <2>1, <2>3, <3>2 DEF Write, Typed, TypeOK, Writers
  <2> QED BY <2>2, <2>3
<1>13. ASSUME NEW t \in Threads, WriteFails(t) PROVE Typed'
  <2>1. pc[t] = "writing" /\ held[t] \in Numbers
    BY <1>0, <1>13 DEF WriteFails, Writing, TypeOK, Writers
  <2>2. Peer(t) \in 0..made /\ made \in Nat
    BY <1>0, <2>1 DEF Peer, TypeOK, Numbers
  <2>3. ended' \subseteq 1..made
    <3>1. ended' = ended \/ (ended' = ended \union {Peer(t)} /\ Peer(t) \in 1..made)
      BY <1>13, <2>2 DEF WriteFails
    <3>2. ended \subseteq 1..made
      BY <1>0 DEF TypeOK
    <3> QED BY <3>1, <3>2, Zenon
  <2> QED BY <1>0, <1>13, <2>1, <2>3, FinishTyped DEF WriteFails, Typed, TypeOK
<1>14. ASSUME NEW t \in Threads, Block(t) PROVE Typed'
  BY <1>0, <1>14 DEF Block, Typed, TypeOK, Writers
<1>15. ASSUME NEW t \in Threads, SpuriousWakeup(t) PROVE Typed'
  BY <1>0, <1>15 DEF SpuriousWakeup, Typed, TypeOK, Writers
<1> QED
  BY <1>1, <1>2, <1>3, <1>4, <1>5, <1>6, <1>7, <1>8, <1>9, <1>10, <1>11, <1>12, <1>13,
     <1>14, <1>15 DEF Next, Main, ServerThread, Execute, WriteData

\* Every variable of the queue keeps its type, for all numbers of threads,
\* connections and commands: no thread writes a command it does not hold, nor
\* more often than the command takes, and only added commands are executed.
THEOREM QueueTypeCorrect == Spec => []TypeOK
<1>1. Typed => TypeOK
  BY DEF Typed
<1> QED BY <1>1, TypedInit, TypedStep, PTL DEF Spec

-----------------------------------------------------------------------------
(* Where the commands are. *)

\* Executing a command moves it from its thread's hands to the executed ones.
LEMMA FinishPlaces ==
    ASSUME Typed, Places, NEW t \in Threads, held[t] # Nobody, Finish(t),
           UNCHANGED <<added, queue>>
    PROVE  Places'
<1>1. /\ done' = done \union {held[t]} /\ held' = [held EXCEPT ![t] = Nobody]
      /\ held \in [Threads -> Numbers \union {Nobody}] /\ held[t] \in Numbers
      /\ Len(queue') = Len(queue) /\ Popped' = Popped
  BY DEF Finish, Typed, TypeOK, Popped
<1>2. /\ Len(queue') <= added'
      /\ \A k \in 1..Len(queue') : queue'[k] = Popped' + k
  BY <1>1 DEF Places
<1>3. \A n \in 1..Popped : n \in done' \/ \E u \in Threads : held'[u] = n
  BY <1>1 DEF Places
<1>4. \A n \in done' : n <= Popped
  BY <1>1 DEF Places
<1>5. \A u \in Threads : held'[u] # Nobody => held'[u] <= Popped /\ held'[u] \notin done'
  BY <1>1 DEF Places
<1>6. \A u, v \in Threads : held'[u] = held'[v] /\ held'[u] # Nobody => u = v
  BY <1>1 DEF Places
<1> QED BY <1>1, <1>2, <1>3, <1>4, <1>5, <1>6 DEF Places

\* Taking a command off the queue gives it to one thread.
LEMMA TakePlaces ==
    ASSUME Typed, Places, NEW t \in Threads, Take(t)
    PROVE  Places'
<1> USE QueueAssumption
<1>0. /\ added \in Nat /\ queue \in Seq(Numbers) /\ Len(queue) \in Nat
      /\ held \in [Threads -> Numbers \union {Nobody}] /\ done \subseteq Numbers
  BY DEF Typed, TypeOK
<1>1. CASE queue = <<>>
  BY <1>1 DEF Take, Places, Popped
<1>2. CASE queue # <<>>
  <2>1. /\ queue' = Tail(queue) /\ held' = [held EXCEPT ![t] = Head(queue)]
        /\ added' = added /\ done' = done
    BY <1>2 DEF Take, Pop
  <2>2. held[t] = Nobody
    BY DEF Take, Typed, Writers
  <2>3. /\ Len(queue') = Len(queue) - 1 /\ Len(queue) >= 1 /\ Head(queue) = queue[1]
        /\ \A k \in 1..Len(queue') : queue'[k] = queue[k + 1]
    BY <1>0, <1>2, <2>1
  <2>4. /\ Popped' = Popped + 1 /\ Popped \in Nat /\ Head(queue) = Popped'
        /\ Len(queue') <= added'
    <3>1. Len(queue) <= added /\ queue[1] = Popped + 1
      BY <1>0, <2>3 DEF Places
    <3>2. Popped = added - Len(queue) /\ Popped' = added' - Len(queue')
      BY DEF Popped
    <3> QED BY <1>0, <2>1, <2>3, <3>1, <3>2
  <2>5. \A k \in 1..Len(queue') : queue'[k] = Popped' + k
    BY <1>0, <2>3, <2>4 DEF Places
  <2>6. \A n \in 1..Popped' : n \in done' \/ \E u \in Threads : held'[u] = n
    <3> SUFFICES ASSUME NEW n \in 1..Popped', n \notin done
                 PROVE  \E u \in Threads : held'[u] = n
      BY <2>1
    <3>1. CASE n = Popped'
      BY <1>0, <2>1, <2>4, <3>1
    <3>2. CASE n # Popped'
      <4>1. PICK u \in Threads : held[u] = n
        BY <2>4, <3>2 DEF Places
      <4>2. n # Nobody /\ u # t
        BY <2>2, <2>4, <4>1
      <4> QED BY <1>0, <2>1, <4>1, <4>2
    <3> QED BY <3>1, <3>2
  <2>7. \A n \in done' : n <= Popped'
    BY <1>0, <2>1, <2>4 DEF Places, Numbers
  <2>8. \A u \in Threads : held'[u] # Nobody => held'[u] <= Popped' /\ held'[u] \notin done'
    BY <1>0, <2>1, <2>4 DEF Places, Numbers
  <2>9. \A u, v \in Threads : held'[u] = held'[v] /\ held'[u] # Nobody => u = v
    BY <1>0, <2>1, <2>4 DEF Places, Numbers
  <2> QED BY <2>4, <2>5, <2>6, <2>7, <2>8, <2>9 DEF Places
<1> QED BY <1>1, <1>2

LEMMA PlacesStep == Typed /\ Places /\ [Next]_vars => Places'
<1> SUFFICES ASSUME Typed, Places, [Next]_vars PROVE Places'
  OBVIOUS
<1>1. CASE UNCHANGED <<added, queue, held, done>>
  BY <1>1 DEF Places, Popped
<1>2. ASSUME NEW f \in Fds, AddCommand(f) PROVE Places'
  <2>1. /\ added \in Nat /\ queue \in Seq(Numbers) /\ Len(queue) \in Nat
        /\ added + 1 \in Numbers
    BY <1>2, QueueAssumption DEF AddCommand, Typed, TypeOK, Numbers
  <2>2. /\ queue' = Append(queue, added + 1) /\ added' = added + 1
        /\ UNCHANGED <<held, done>>
    BY <1>2 DEF AddCommand, Enqueue, execution
  <2>3. /\ Len(queue') = Len(queue) + 1 /\ queue'[Len(queue) + 1] = added + 1
        /\ \A k \in 1..Len(queue) : queue'[k] = queue[k]
    BY <2>1, <2>2
  <2>4. Popped' = Popped /\ Len(queue') <= added'
    BY <2>1, <2>2, <2>3 DEF Popped, Places
  <2>5. \A k \in 1..Len(queue') : queue'[k] = Popped' + k
    <3>1. Popped = added - Len(queue)
      BY DEF Popped
    <3>2. \A k \in 1..Len(queue) : queue'[k] = Popped + k
      BY <2>3 DEF Places
    <3> QED BY <2>1, <2>3, <2>4, <3>1, <3>2
  <2> QED BY <2>2, <2>4, <2>5 DEF Places
<1>3. ASSUME NEW t \in Threads, Take(t) PROVE Places'
  BY <1>3, TakePlaces
<1>4. ASSUME NEW t \in Threads, Write(t) PROVE Places'
  <2>1. held[t] # Nobody /\ UNCHANGED <<added, queue>>
    BY <1>4 DEF Write, Writing, Typed, Writers, commands
  <2>2. CASE parts[t] = 1
    BY <1>4, <2>1, <2>2, FinishPlaces DEF Write
  <2>3. CASE parts[t] # 1
    BY <1>1, <1>4, <2>1, <2>3 DEF Write
  <2> QED BY <2>2, <2>3
<1>5. ASSUME NEW t \in Threads, WriteFails(t) PROVE Places'
  <2>1. held[t] # Nobody /\ UNCHANGED <<added, queue>> /\ Finish(t)
    BY <1>5 DEF WriteFails, Typed, Writers, commands
  <2> QED BY <2>1, FinishPlaces
<1> QED
  BY <1>1, <1>2, <1>3, <1>4, <1>5
     DEF Next, Main, ServerThread, Execute, WriteData, vars, commands, execution, BeginPass,
         CloseConnection, HandleError, ReadFixedHeader, Notify, NotifyAll, StopServer,
         Accept, StartServer,
         SpuriousWakeup, Block

LEMMA PlacesInit == Init => Places
<1> SUFFICES ASSUME Init PROVE Places
  OBVIOUS
<1>1. added = 0 /\ queue = <<>> /\ done = {} /\ held = [t \in Threads |-> Nobody]
  BY DEF Init
<1>2. Len(queue) = 0
  BY <1>1
<1>3. Popped = 0
  <2>1. added = 0
    BY <1>1
  <2> QED BY <1>2, <2>1 DEF Popped
<1> QED BY <1>1, <1>2, <1>3 DEF Places

LEMMA PlacesExact == Typed /\ Places => ExactlyOnce
<1> SUFFICES ASSUME Typed, Places PROVE ExactlyOnce
  OBVIOUS
<1>1. /\ added \in Nat /\ Len(queue) \in Nat /\ DOMAIN queue = 1..Len(queue)
      /\ Popped \in Nat /\ added = Popped + Len(queue)
      /\ \A n \in 1..Popped : n # Nobody
  BY QueueAssumption DEF Typed, TypeOK, Places, Popped
<1>2. \A j, k \in DOMAIN queue : queue[j] = queue[k] => j = k
  BY <1>1 DEF Places
<1>3. \A n : n \in Queued <=> n \in (Popped + 1)..added
  <2>1. \A k \in 1..Len(queue) : queue[k] = Popped + k
    BY DEF Places
  <2>2. ASSUME NEW n \in (Popped + 1)..added PROVE n \in Queued
    <3>1. n - Popped \in 1..Len(queue) /\ Popped + (n - Popped) = n
      BY <1>1
    <3> QED BY <1>1, <2>1, <3>1 DEF Queued
  <2> QED BY <1>1, <2>1, <2>2 DEF Queued
<1>4. \A n : n \in Held <=> n # Nobody /\ \E t \in Threads : held[t] = n
  BY DEF Held
<1>5. \A n : n \in Held \union done <=> n \in 1..Popped
  <2>1. done \subseteq Nat \ {0} /\ \A t \in Threads : held[t] # Nobody => held[t] \in Nat \ {0}
    BY DEF Typed, TypeOK, Numbers
  <2>2. \A n \in done : n \in 1..Popped
    BY <1>1, <2>1 DEF Places
  <2>3. \A t \in Threads : held[t] # Nobody => held[t] \in 1..Popped
    BY <1>1, <2>1 DEF Places
  <2>4. \A n \in 1..Popped : n # Nobody /\ (n \in done \/ \E t \in Threads : held[t] = n)
    BY <1>1 DEF Places
  <2> QED BY <1>4, <2>2, <2>3, <2>4, Zenon
<1>6. Held \cap done = {}
  BY <1>4 DEF Places
<1>7. Queued \cap Held = {} /\ Queued \cap done = {}
  BY <1>1, <1>3, <1>5
<1>8. Queued \union Held \union done = 1..added
  BY <1>1, <1>3, <1>5
<1> QED BY <1>2, <1>6, <1>7, <1>8 DEF ExactlyOnce, Places

\* However many threads pop, write, fail and stop: each command that was added
\* is in the queue once, or in the hands of one thread, or executed once.
THEOREM CommandsExactlyOnce == Spec => []ExactlyOnce
<1> QED BY PlacesExact, TypedInit, TypedStep, PlacesInit, PlacesStep, PTL DEF Spec

\* A command is overtaken only while a thread has it in its hands.
THEOREM OvertakingBounded == Spec => []OnlyHeldOvertaken
<1>1. Typed /\ Places => OnlyHeldOvertaken
  <2> SUFFICES ASSUME Typed, Places, NEW n \in done, NEW m \in 1..added, m < n
               PROVE  m \in done \union Held
    BY DEF OnlyHeldOvertaken
  <2>1. n \in Nat /\ n <= Popped /\ Popped \in Int /\ m # Nobody
    <3>1. queue \in Seq(Numbers) /\ added \in 0..MaxCmds /\ done \subseteq Numbers
      BY DEF Typed, TypeOK
    <3>2. n \in Nat /\ m \in Nat /\ m \in Numbers
      BY <3>1, QueueAssumption DEF Numbers
    <3>3. Popped \in Int
      BY <3>1, QueueAssumption DEF Popped
    <3>4. n <= Popped
      BY DEF Places
    <3>5. m # Nobody
      BY <3>2, QueueAssumption
    <3> QED BY <3>2, <3>3, <3>4, <3>5
  <2>2. m \in 1..Popped
    BY <2>1
  <2> QED BY <2>1, <2>2 DEF Places, Held
<1> QED BY <1>1, TypedInit, TypedStep, PlacesInit, PlacesStep, PTL DEF Spec

-----------------------------------------------------------------------------
(* Wake-ups. *)

LEMMA AwakeStep == Typed /\ Awake /\ [Next]_vars => Awake'
<1> SUFFICES ASSUME Typed, Awake, [Next]_vars PROVE Awake'
  OBVIOUS
<1>0. /\ pc \in [Threads -> {"off", "lock", "waiting", "writing", "blocked", "ended"}]
      /\ Senders \subseteq Threads /\ added \in Nat
      /\ \A t \in Stopped : t \in Threads /\ t \notin Senders
  BY QueueAssumption DEF Typed, TypeOK, Threads
<1> USE DEF commands, execution, sockets
<1>1. CASE UNCHANGED <<added, queue, pc, server>>
  BY <1>1 DEF Awake
<1>2. CASE BeginPass
  BY <1>2 DEF BeginPass, Awake
<1>3. ASSUME NEW f \in Fds, AddCommand(f) PROVE Awake'
  BY <1>3 DEF AddCommand, Awake
<1>4. ASSUME NEW f \in Fds, HandleError(f) \/ ReadFixedHeader(f) PROVE Awake'
  BY <1>4 DEF HandleError, ReadFixedHeader, Awake
<1>5. CASE Notify
  BY <1>5 DEF Notify, NotifyCheck, Awake
<1>6. CASE NotifyAll
  BY <1>0, <1>6 DEF NotifyAll, WakeAll, Awake
<1>7. ASSUME NEW t \in Stopped, StopServer(t) PROVE Awake'
  BY <1>0, <1>7 DEF StopServer, Awake
<1>8. CASE StartServer
  BY <1>0, <1>8 DEF StartServer, Awake
<1>9. ASSUME NEW t \in Threads, Take(t) PROVE Awake'
  BY <1>0, <1>9 DEF Take, Awake
<1>10. ASSUME NEW t \in Threads, pc[t] # "off", UNCHANGED <<added, queue, server>>,
              \/ pc' = [pc EXCEPT ![t] = AfterExecute(t)]
              \/ pc' = [pc EXCEPT ![t] = "lock"]
              \/ pc' = [pc EXCEPT ![t] = "blocked"]
       PROVE  Awake'
  BY <1>0, <1>10 DEF AfterExecute, Awake
<1>11. ASSUME NEW t \in Threads, WriteData(t) \/ SpuriousWakeup(t) PROVE Awake'
  BY <1>1, <1>10, <1>11
     DEF WriteData, Write, WriteFails, Block, SpuriousWakeup, Writing, Finish
<1> QED
  BY <1>1, <1>2, <1>3, <1>4, <1>5, <1>6, <1>7, <1>8, <1>9, <1>11
     DEF Next, Main, ServerThread, Execute, vars, CloseConnection, Accept

\* No interleaving of AddCommand, the unlocked test of Notify and the senders
\* leaves a command in the queue with nobody on the way to it, unless every
\* sender waits for a peer that does not read.
THEOREM WakeupNotLost == Spec => []NoLostWakeup
<1>1. Init => Awake
  BY QueueAssumption DEF Init, Awake, Threads
<1>2. Typed /\ Places /\ Awake => NoLostWakeup
  <2> SUFFICES ASSUME Typed, Places, Awake, server \in {"poll", "down"}, queue # <<>>
               PROVE  \/ \E t \in Threads : pc[t] = "lock"
                      \/ \E t \in Senders : pc[t] = "writing"
                      \/ \A t \in Senders : pc[t] = "blocked"
    BY DEF NoLostWakeup
  <2>1. added > 0
    <3>1. Len(queue) \in Nat \ {0} /\ added \in Nat
      BY DEF Typed, TypeOK
    <3> QED BY <3>1 DEF Places
  <2>2. \A t \in Senders : t \in Threads /\ pc[t] \in {"lock", "writing", "blocked"}
    BY <2>1 DEF Typed, TypeOK, Awake, Threads
  <2> QED BY <2>2
<1> QED
  BY <1>1, <1>2, TypedInit, TypedStep, PlacesInit, PlacesStep, AwakeStep, PTL DEF Spec

-----------------------------------------------------------------------------
(* Which connection a command reaches. *)

LEMMA AddressedStep ==
    Typed /\ Places /\ Addressed /\ [Next]_vars => Addressed'
<1> SUFFICES ASSUME Typed, Places, Addressed, [Next]_vars PROVE Addressed'
  OBVIOUS
<1>0. /\ added \in Nat /\ made \in Nat /\ 1..added \subseteq Numbers
      /\ target \in [Numbers -> Fds] /\ dest \in [Numbers -> 0..made]
      /\ conn \in [Fds -> 0..made] /\ astray \subseteq Numbers
  BY QueueAssumption DEF Typed, TypeOK, Numbers
<1>1. /\ \A n \in 1..added : /\ dest[n] # 0
                             /\ conn[target[n]] = dest[n] \/ dest[n] \in ended
      /\ \A n \in astray : n \in 1..added /\ dest[n] \in ended
  BY <1>0 DEF Addressed, Numbers
<1> USE DEF commands, execution, sockets
<1>2. CASE UNCHANGED <<added, target, dest, conn, ended, astray>>
  BY <1>2 DEF Addressed
<1>3. ASSUME NEW f \in Fds, AddCommand(f) PROVE Addressed'
  <2>1. /\ added + 1 \in Numbers /\ added' = added + 1 /\ conn[f] # 0
        /\ target' = [target EXCEPT ![added + 1] = f]
        /\ dest' = [dest EXCEPT ![added + 1] = conn[f]]
        /\ UNCHANGED <<conn, ended, astray>>
    BY <1>0, <1>3, QueueAssumption DEF AddCommand, Numbers
  <2>2. \A n \in 1..added : target'[n] = target[n] /\ dest'[n] = dest[n]
    BY <1>0, <2>1
  <2>3. target'[added + 1] = f /\ dest'[added + 1] = conn[f]
    BY <1>0, <2>1
  <2>4. \A n \in 1..added' : n \in 1..added \/ n = added + 1
    BY <1>0, <2>1
  <2>5. \A n \in 1..added' : /\ dest'[n] # 0
                             /\ conn'[target'[n]] = dest'[n] \/ dest'[n] \in ended'
    BY <1>1, <2>1, <2>2, <2>3, <2>4
  <2>6. \A n \in astray' : n <= added' /\ dest'[n] \in ended'
    BY <1>0, <1>1, <2>1, <2>2
  <2> QED BY <2>5, <2>6 DEF Addressed
<1>4. ASSUME NEW f \in Fds, CloseConnection(f) PROVE Addressed'
  <2>1. /\ conn' = [conn EXCEPT ![f] = 0] /\ ended' = ended \union {conn[f]}
        /\ UNCHANGED <<added, target, dest, astray>>
    BY <1>4 DEF CloseConnection
  <2> QED BY <1>0, <1>1, <2>1 DEF Addressed
<1>5. ASSUME NEW f \in Fds, Accept(f) PROVE Addressed'
  <2>1. /\ conn[f] = 0 /\ conn' = [conn EXCEPT ![f] = made + 1]
        /\ UNCHANGED <<added, target, dest, ended, astray>>
    BY <1>5 DEF Accept
  <2> QED BY <1>0, <1>1, <2>1 DEF Addressed
<1>6. ASSUME NEW t \in Threads, Write(t) PROVE Addressed'
  <2>1. /\ Peer(t) = conn[target[held[t]]]
        /\ astray' = (IF Peer(t) = dest[held[t]] THEN astray ELSE astray \union {held[t]})
        /\ UNCHANGED <<added, target, dest, conn, ended>>
    BY <1>6 DEF Write, Deliver, Peer
  <2>2. held[t] \in 1..added
    <3>1. pc[t] = "writing"
      BY <1>6 DEF Write, Writing
    <3>2. held[t] \in Numbers /\ held[t] # Nobody
      BY <3>1 DEF Typed, TypeOK, Writers
    <3>3. held[t] <= Popped /\ Popped = added - Len(queue) /\ Len(queue) \in Nat
      BY <3>2 DEF Places, Popped, Typed, TypeOK
    <3> QED BY <1>0, <3>2, <3>3 DEF Numbers
  <2>3. \A n \in astray' : n \in 1..added /\ dest[n] \in ended
    BY <1>1, <2>1, <2>2
  <2> QED BY <1>0, <1>1, <2>1, <2>3 DEF Addressed
<1>7. ASSUME NEW t \in Threads, WriteFails(t) PROVE Addressed'
  <2>1. ended \subseteq ended' /\ UNCHANGED <<added, target, dest, conn, astray>>
    BY <1>7 DEF WriteFails
  <2> QED BY <1>1, <2>1 DEF Addressed
<1> QED
  BY <1>2, <1>3, <1>4, <1>5, <1>6, <1>7
     DEF Next, Main, ServerThread, Execute, WriteData, vars, BeginPass, HandleError,
         ReadFixedHeader, Notify,
         NotifyAll, StopServer, StartServer, Take, SpuriousWakeup, Block

LEMMA DeliveredStep ==
    Typed /\ Places /\ Addressed /\ DeliveredOrEnded /\ [Next]_vars => DeliveredOrEnded'
<1> SUFFICES ASSUME Typed, Places, Addressed, DeliveredOrEnded, [Next]_vars
             PROVE  DeliveredOrEnded'
  OBVIOUS
<1>0. /\ added \in Nat /\ Len(queue) \in Nat /\ Popped = added - Len(queue)
      /\ dest \in [Numbers -> 0..made] /\ done \subseteq Numbers
  BY DEF Typed, TypeOK, Popped
<1>1. /\ \A n \in done : n \in 1..added
      /\ \A t \in Threads : held[t] # Nobody => held[t] \in 1..added /\ held[t] \notin done
  BY <1>0 DEF Typed, TypeOK, Places, Numbers
<1>2. \A n \in 1..added : /\ dest[n] # 0
                          /\ conn[target[n]] = dest[n] \/ dest[n] \in ended
                          /\ n \in astray => dest[n] \in ended
  BY DEF Addressed
<1> USE DEF commands, execution, sockets
<1>3. CASE ended \subseteq ended' /\ UNCHANGED <<dest, done, astray, whole>>
  BY <1>3 DEF DeliveredOrEnded
<1>4. ASSUME NEW f \in Fds, AddCommand(f) PROVE DeliveredOrEnded'
  <2>1. \A n \in done : n # added + 1
    BY <1>0, <1>1
  <2>2. dest' = [dest EXCEPT ![added + 1] = conn[f]] /\ UNCHANGED <<ended, done, astray, whole>>
    BY <1>4 DEF AddCommand
  <2>3. \A n \in done : dest'[n] = dest[n]
    BY <1>0, <2>1, <2>2
  <2> QED BY <2>2, <2>3 DEF DeliveredOrEnded
<1>5. ASSUME NEW t \in Threads, Write(t) PROVE DeliveredOrEnded'
  <2>1. held[t] \in 1..added /\ held[t] \notin done
    BY <1>1, <1>5 DEF Write, Writing, Typed, Writers
  <2>2. /\ astray' = astray \/ (astray' = astray \union {held[t]} /\ Peer(t) # dest[held[t]])
        /\ Peer(t) = conn[target[held[t]]] /\ UNCHANGED <<dest, ended>>
    BY <1>5 DEF Write, Deliver, Peer
  <2>3. /\ \A n \in done : n \in whole => n \in whole'
        /\ \A n \in done' : n \in done \/ (n = held[t] /\ n \in whole')
    BY <1>5 DEF Write, Finish
  <2>4. \A n \in done : dest[n] \in ended \/ n \in whole' \ astray'
    BY <2>1, <2>2, <2>3 DEF DeliveredOrEnded
  <2>5. held[t] \in astray' => dest[held[t]] \in ended
    BY <1>2, <2>1, <2>2
  <2> QED BY <2>2, <2>3, <2>4, <2>5 DEF DeliveredOrEnded
<1>6. ASSUME NEW t \in Threads, WriteFails(t) PROVE DeliveredOrEnded'
  <2>1. held[t] \in 1..added
    BY <1>1, <1>6 DEF WriteFails, Typed, Writers
  <2>2. /\ done' = done \union {held[t]} /\ ended \subseteq ended'
        /\ Peer(t) = 0 \/ Peer(t) \in ended'
        /\ Peer(t) = conn[target[held[t]]] /\ UNCHANGED <<dest, astray, whole>>
    BY <1>6 DEF WriteFails, Finish, Peer
  <2>3. dest[held[t]] \in ended'
    BY <1>2, <2>1, <2>2
  <2> QED BY <2>2, <2>3 DEF DeliveredOrEnded
<1> QED
  BY <1>3, <1>4, <1>5, <1>6
     DEF Next, Main, ServerThread, Execute, WriteData, vars, BeginPass, CloseConnection,
         HandleError, ReadFixedHeader, Notify, NotifyAll, StopServer, Accept, StartServer, Take,
         SpuriousWakeup, Block

\* An executed command was written to its own client to the last byte, or that
\* client's connection has ended: also when the descriptor was closed and
\* handed out again before or between the writes.
THEOREM QueuedPacketsDelivered == Spec => []DeliveredOrEnded
<1>1. Init => Addressed /\ DeliveredOrEnded
  BY DEF Init, Addressed, DeliveredOrEnded
<1> QED
  BY <1>1, TypedInit, TypedStep, PlacesInit, PlacesStep, AddressedStep, DeliveredStep, PTL
     DEF Spec

-----------------------------------------------------------------------------
(* The queue implements the safety part of Outbox. *)

Due == Queued \union Held
Hopeless == IF Stalled THEN Numbers ELSE {n \in 1..added : target[n] \in Slow}

\* A command is due from its AddCommand to the end of its Execute.
DueUntilDone == Due = (1..added) \ done

LEMMA DueExact == Typed /\ Places => DueUntilDone
<1> SUFFICES ASSUME Typed, Places PROVE Due = (1..added) \ done
  BY DEF DueUntilDone
<1>1. /\ Queued \cap done = {} /\ Held \cap done = {}
      /\ Queued \union Held \union done = 1..added
  BY PlacesExact DEF ExactlyOnce
<1> QED BY <1>1, Zenon DEF Due

\* A sender that waits for a peer never comes back, nor does a server that
\* does, and a command keeps its descriptor: hope that is lost stays lost.
LEMMA HopeNeverReturns == Typed /\ [Next]_vars => Hopeless \subseteq Hopeless'
<1> SUFFICES ASSUME Typed, [Next]_vars PROVE Hopeless \subseteq Hopeless'
  OBVIOUS
<1>0. /\ added \in Nat /\ 1..added \subseteq Numbers /\ Senders \subseteq Threads
      /\ target \in [Numbers -> Fds]
      /\ pc \in [Threads -> {"off", "lock", "waiting", "writing", "blocked", "ended"}]
  BY QueueAssumption DEF Typed, TypeOK, Numbers, Threads
<1> USE DEF commands, execution, sockets
<1>1. server = "stuck" => server' = "stuck"
  BY DEF Next, Main, ServerThread, Execute, WriteData, vars, BeginPass, AddCommand,
         CloseConnection, HandleError, ReadFixedHeader, Notify, NotifyAll, StopServer,
         Accept, StartServer,
         Take, SpuriousWakeup, Write, WriteFails, Block
<1>2. ASSUME NEW t \in Senders, pc[t] = "blocked" PROVE pc'[t] = "blocked"
  <2>1. CASE UNCHANGED pc
    BY <1>2, <2>1
  <2>2. CASE NotifyAll \/ StartServer
    BY <1>0, <1>2, <2>2 DEF NotifyAll, WakeAll, StartServer
  <2>3. ASSUME NEW u \in Threads, pc[u] # "blocked", UNCHANGED pc \/ \E v : pc' = [pc EXCEPT ![u] = v]
        PROVE  pc'[t] = "blocked"
    BY <1>0, <1>2, <2>3
  <2>4. ASSUME NEW u \in Stopped, StopServer(u) PROVE pc'[t] = "blocked"
    BY <2>3, <2>4 DEF StopServer, Threads
  <2>5. ASSUME NEW u \in Threads, Execute(u) PROVE pc'[t] = "blocked"
    BY <2>3, <2>5 DEF Execute, WriteData, Take, SpuriousWakeup, Write, WriteFails, Block,
                      Writing, Finish
  <2> QED
    BY <2>1, <2>2, <2>4, <2>5
       DEF Next, Main, ServerThread, vars, BeginPass, AddCommand, CloseConnection,
           HandleError, ReadFixedHeader, Notify, Accept
<1>3. Stalled => Stalled'
  BY <1>1, <1>2 DEF Stalled
<1>4. \A n \in 1..added : n \in 1..added' /\ target'[n] = target[n]
  <2>1. ASSUME NEW f \in Fds, AddCommand(f) PROVE \A n \in 1..added : n \in 1..added' /\ target'[n] = target[n]
    BY <1>0, <2>1 DEF AddCommand
  <2>2. CASE UNCHANGED <<added, target>>
    BY <2>2
  <2> QED
    BY <2>1, <2>2
       DEF Next, Main, ServerThread, Execute, WriteData, vars, BeginPass, CloseConnection,
           HandleError, ReadFixedHeader, Notify, NotifyAll, StopServer, Accept, StartServer, Take,
           SpuriousWakeup, Write, WriteFails, Block
<1> QED BY <1>0, <1>3, <1>4 DEF Hopeless

\* Seen as the commands that are due, settled and hopeless, every behaviour of
\* the queue is one Outbox allows: a command is posted once and settled once,
\* from wherever it is, and nothing else changes.
THEOREM QueueImplementsOutbox == Spec => Box!Spec
<1>1. Init => Box!Init
  <2> SUFFICES ASSUME Init PROVE Due = {} /\ done = {} /\ Hopeless = {}
    BY DEF Box!Init, Due, Hopeless
  <2>1. /\ added = 0 /\ done = {} /\ queue = <<>> /\ server = "down"
        /\ held = [t \in Threads |-> Nobody] /\ pc = [t \in Threads |-> "off"]
    BY DEF Init
  <2>2. Queued = {} /\ Held = {}
    BY <2>1 DEF Queued, Held
  <2>3. ~Stalled
    BY <2>1, QueueAssumption DEF Stalled, Threads
  <2>4. 1..added = {}
    BY <2>1
  <2> QED BY <2>1, <2>2, <2>3, <2>4 DEF Due, Hopeless
<1>2. Typed /\ Places /\ DueUntilDone /\ DueUntilDone' /\ [Next]_vars => [Box!Next]_(Box!vars)
  <2> SUFFICES ASSUME Typed, Places, DueUntilDone, DueUntilDone', [Next]_vars
               PROVE  [Box!Next]_(Box!vars)
    OBVIOUS
  <2>1. Due = (1..added) \ done /\ Due' = (1..added') \ done'
    BY DEF DueUntilDone
  <2>2. Hopeless \subseteq Hopeless'
    BY HopeNeverReturns
  <2>3. CASE UNCHANGED <<added, done>>
    <3>1. Box!GiveUpHope
      BY <2>1, <2>2, <2>3 DEF Box!GiveUpHope, Box!Worsen, Due, Hopeless
    <3> QED BY <3>1 DEF Box!Next
  <2>4. ASSUME NEW f \in Fds, AddCommand(f) PROVE Box!Next
    <3>1. /\ added \in Nat /\ added' = added + 1 /\ added + 1 \in 1..MaxCmds /\ done' = done
          /\ \A n \in done : n <= added
      BY <2>4, QueueAssumption DEF AddCommand, execution, Typed, TypeOK, Places, Popped, Numbers
    <3>2. added + 1 \notin 1..added /\ added + 1 \notin done /\ 1..added' = (1..added) \union {added + 1}
      BY <3>1
    <3>3. Box!Post(added + 1)
      BY <2>1, <2>2, <3>1, <3>2 DEF Box!Post, Box!Worsen, Due, Hopeless
    <3> QED BY <3>1, <3>3 DEF Box!Next
  <2>5. ASSUME NEW t \in Threads, pc[t] = "writing", Finish(t), UNCHANGED <<added, target, server>>
        PROVE  Box!Next
    <3>1. held[t] \in Numbers /\ held[t] \notin done /\ held[t] \in Held /\ done' = done \union {held[t]}
      BY <2>5 DEF Finish, Typed, TypeOK, Writers, Places, Held
    <3>2. Stalled' <=> Stalled
      BY <2>5, QueueAssumption DEF Stalled, Finish, AfterExecute, Typed, TypeOK, Threads
    <3>3. Hopeless' = Hopeless
      BY <2>5, <3>2 DEF Hopeless
    <3>4. Box!Settle(held[t])
      BY <2>1, <2>5, <3>1, <3>3 DEF Box!Settle, Due, Hopeless
    <3> QED BY <3>1, <3>4 DEF Box!Next, Numbers
  <2>6. ASSUME NEW t \in Threads, WriteData(t) PROVE [Box!Next]_(Box!vars)
    BY <2>3, <2>5, <2>6
       DEF WriteData, Write, Writing, WriteFails, Block, commands
  <2> QED
    BY <2>3, <2>4, <2>6
       DEF Next, Main, ServerThread, Execute, vars, commands, execution, BeginPass,
           CloseConnection, HandleError, ReadFixedHeader, Notify, NotifyAll, StopServer,
         Accept, StartServer,
           Take, SpuriousWakeup
<1> QED
  BY <1>1, <1>2, DueExact, TypedInit, TypedStep, PlacesInit, PlacesStep, PTL DEF Spec, Box!Spec
=============================================================================
