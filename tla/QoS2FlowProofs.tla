--------------------------- MODULE QoS2FlowProofs ---------------------------
(***************************************************************************)
(* Proofs about QoS2Flow, for any publisher and stranger, any number of    *)
(* messages, packet ids and lost connections.                              *)
(***************************************************************************)
EXTENDS QoS2Flow, BrokerProofs

FlowTyped ==
    /\ session \in {"off", "dialed", "on"}
    /\ stage \in [Own -> {"new", "sent", "rec", "rel", "done", "dropped"}]
    /\ pid \in [Own -> PacketIds \union {0}]
    /\ \A m \in Own : stage[m] # "new" => pid[m] \in PacketIds
    /\ owed \subseteq Own
    /\ handled \in [Msgs -> Nat] /\ forwarded \in [Msgs -> Nat] /\ disturbed \subseteq Msgs

\* Who is at the other end of the two descriptors.
Linked ==
    /\ session = "off" => link = NoFd
    /\ session # "off" => link \in clients
    /\ session = "dialed" => cid[link] = NoId
    /\ session = "on" => cid[link] = Publisher
    /\ stranger # NoFd => stranger \in clients /\ cid[stranger] = NoId /\ stranger # link

\* What the store can hold of the publisher's messages.
Key(m) == [cid |-> Publisher, pid |-> pid[m], pub |-> Message(m)]

OwnStored ==
    \A e \in Stored : qos2[e] > 0 /\ e.pub.msg \in Own =>
        e = Key(e.pub.msg) /\ stage[e.pub.msg] # "new"

\* An undisturbed message is stored once or has been forwarded once; while it is
\* stored nothing else has its packet id.
Alone(m) ==
    /\ stage[m] = "new" => forwarded[m] = 0
    /\ stage[m] # "new" => forwarded[m] + qos2[Key(m)] = 1
    /\ stage[m] \in {"sent", "rec"} => forwarded[m] = 0
    /\ stage[m] \in {"rel", "done"} => forwarded[m] = 1
    /\ stage[m] # "new" /\ qos2[Key(m)] = 1 =>
          /\ \A n \in InFlight : pid[n] = pid[m] => n = m
          /\ \A e \in Stored : qos2[e] > 0 /\ e.cid = Publisher /\ e.pid = pid[m] => e = Key(m)

Undisturbed == \A m \in Own \ disturbed : Alone(m)

\* Each message, counted.
Counted ==
    /\ \A e \in Stored : qos2[e] <= MaxCopies
    /\ \A m \in Msgs : /\ IsFiniteSet(StoredCopies(m))
                       /\ handled[m] = forwarded[m] + Cardinality(StoredCopies(m))

-----------------------------------------------------------------------------
(* The composition runs Broker. *)

LEMMA KnownConstants ==
    /\ Publisher \in Ids /\ NoId \in Ids /\ Publisher # NoId
    /\ \A m \in Msgs : Message(m) \in Publication /\ Message(m).msg = m
    /\ Own \subseteq Msgs /\ NoFd \notin Fds
<1>1. AnyTopic \in Topics
  BY FlowAssumption DEF AnyTopic
<1> QED BY <1>1, FlowAssumption, BrokerAssumption DEF Ids, Message, Publication

\* Every step of the composition is one of Broker, or leaves Broker alone.
LEMMA FlowSteps == FlowTyped /\ Typed /\ [FlowNext]_flowVars => [Next]_vars
<1> SUFFICES ASSUME FlowTyped, Typed, [FlowNext]_flowVars PROVE [Next]_vars
  OBVIOUS
<1>0. clients \subseteq Fds
  BY DEF Typed, TypeOK
<1>1. ASSUME NEW f \in Fds, Handle(f) PROVE Next
  BY <1>1 DEF Next
<1>2. CASE UNCHANGED flowVars
  BY <1>2 DEF flowVars
<1>3. ASSUME NEW f \in Fds, Dial(f) \/ StrangerDials(f) PROVE Next
  BY <1>1, <1>3 DEF Dial, StrangerDials, Handle
<1>4. ASSUME NEW clean \in BOOLEAN, SayConnect(clean) PROVE Next
  <2>1. ConnectRefused(link) \/ Connect(link, NoPublication, FALSE)
    BY <1>4 DEF SayConnect
  <2>2. link \in Fds
    BY <1>0, <2>1 DEF ConnectRefused, Connect, Serves
  <2>3. Handle(link)
    BY <2>1 DEF Handle
  <2> QED BY <1>1, <2>2, <2>3
<1>5. ASSUME Break \/ Deliver PROVE UNCHANGED vars
  BY <1>5 DEF Break, Deliver, Receive
<1>6. CASE Close
  BY <1>6 DEF Close, Next
<1>7. ASSUME NEW f \in Fds, Notice(f) PROVE Next
  BY <1>1, <1>7 DEF Notice, Handle
<1>8. ASSUME NEW f, NEW m \in Msgs, NEW k \in PacketIds, Store(f, m, k) PROVE Next
  <2>1. PublishQoS2(f, Message(m), k, FALSE)
    BY <1>8 DEF Store
  <2>2. f \in Fds
    BY <1>0, <2>1 DEF PublishQoS2, Serves
  <2>3. Handle(f)
    <3>1. \E p \in Publication, n \in PacketIds, retain \in BOOLEAN : PublishQoS2(f, p, n, retain)
      BY <2>1, KnownConstants
    <3> QED BY <3>1 DEF Handle
  <2> QED BY <1>1, <2>2, <2>3
<1>9. ASSUME NEW f, NEW k \in PacketIds, PubRel(f, k) PROVE Next
  <2>1. f \in Fds
    BY <1>0, <1>9 DEF PubRel, Serves
  <2>2. Handle(f)
    BY <1>9 DEF Handle
  <2> QED BY <1>1, <2>1, <2>2
<1>10. ASSUME NEW m \in Own, Proceed(m) PROVE Next
  <2>1. m \in Msgs
    BY KnownConstants
  <2>2. ASSUME NEW k \in PacketIds, SendPublish(m, k) PROVE Next
    BY <1>8, <2>1, <2>2 DEF SendPublish
  <2>3. CASE RepeatPublish(m)
    <3>1. pid[m] \in PacketIds
      BY <2>3 DEF RepeatPublish, FlowTyped
    <3> QED BY <1>8, <2>1, <2>3, <3>1 DEF RepeatPublish
  <2>4. CASE SendPubRel(m)
    <3>1. pid[m] \in PacketIds
      BY <2>4 DEF SendPubRel, FlowTyped
    <3> QED BY <1>9, <2>4, <3>1 DEF SendPubRel
  <2> QED BY <1>10, <2>2, <2>3, <2>4 DEF Proceed
<1>11. CASE Stranger
  BY <1>3, <1>8, <1>9, <1>11 DEF Stranger, StrangerPublishes, StrangerReleases
<1> QED BY <1>2, <1>3, <1>4, <1>5, <1>6, <1>7, <1>10, <1>11 DEF FlowNext, Reconnect

-----------------------------------------------------------------------------
(* Types, and the two connections. *)

LEMMA FlowTypedInit == FlowInit => FlowTyped
<1> SUFFICES ASSUME FlowInit PROVE FlowTyped
  OBVIOUS
<1> QED BY DEF FlowInit, FlowTyped

LEMMA StoreTyped ==
    ASSUME FlowTyped, NEW f, NEW m \in Msgs, NEW k, Store(f, m, k)
    PROVE  handled' \in [Msgs -> Nat] /\ forwarded' \in [Msgs -> Nat] /\ disturbed' \subseteq Msgs
<1>1. handled' = [handled EXCEPT ![m] = @ + 1] /\ forwarded' = forwarded
  BY DEF Store
<1>2. \A e \in Stored : e.pub.msg \in Msgs
  BY DEF Stored, Publication
<1>3. disturbed' \subseteq Msgs
  BY <1>2 DEF Store, FlowTyped
<1> QED BY <1>1, <1>3 DEF FlowTyped

LEMMA ForwardTyped ==
    ASSUME FlowTyped, Forward
    PROVE  handled' \in [Msgs -> Nat] /\ forwarded' \in [Msgs -> Nat] /\ disturbed' \subseteq Msgs
<1>1. forwarded' = forwarded \/ \E n : forwarded' = [forwarded EXCEPT ![n] = @ + 1]
  BY DEF Forward
<1>2. ASSUME NEW n, forwarded' = [forwarded EXCEPT ![n] = @ + 1] PROVE forwarded' \in [Msgs -> Nat]
  <2>1. forwarded \in [Msgs -> Nat]
    BY DEF FlowTyped
  <2>2. \A m \in Msgs : (IF m = n THEN forwarded[n] + 1 ELSE forwarded[m]) \in Nat
    BY <2>1
  <2>3. forwarded' = [m \in Msgs |-> IF m = n THEN forwarded[n] + 1 ELSE forwarded[m]]
    BY <1>2, <2>1
  <2> QED BY <2>2, <2>3
<1> QED BY <1>1, <1>2 DEF Forward, FlowTyped

LEMMA FlowTypedStep == FlowTyped /\ [FlowNext]_flowVars => FlowTyped'
<1> SUFFICES ASSUME FlowTyped, [FlowNext]_flowVars PROVE FlowTyped'
  OBVIOUS
<1> USE DEF flow, client, history
<1>0. InFlight \subseteq Own
  BY DEF InFlight
<1>1. CASE UNCHANGED flowVars
  BY <1>1 DEF flowVars, FlowTyped
<1>2. ASSUME NEW f \in Fds, Dial(f) \/ StrangerDials(f) PROVE FlowTyped'
  BY <1>2 DEF Dial, StrangerDials, FlowTyped
<1>3. ASSUME NEW clean \in BOOLEAN, SayConnect(clean) PROVE FlowTyped'
  <2>1. CASE ConnectRefused(link) /\ session' = "off" /\ UNCHANGED <<stage, owed>>
    BY <1>3, <2>1 DEF SayConnect, FlowTyped
  <2>2. CASE /\ session' = "on"
             /\ stage' = [m \in Own |-> IF clean /\ m \in InFlight THEN "dropped" ELSE stage[m]]
             /\ owed' = IF clean THEN {} ELSE InFlight
    <3>1. \A m \in Own : stage'[m] # "new" => stage[m] # "new"
      BY <2>2 DEF InFlight
    <3>2. /\ stage' \in [Own -> {"new", "sent", "rec", "rel", "done", "dropped"}]
          /\ owed' \subseteq Own
      BY <1>0, <2>2 DEF FlowTyped
    <3> QED BY <1>3, <2>2, <3>1, <3>2 DEF SayConnect, FlowTyped
  <2> QED BY <1>3, <2>1, <2>2 DEF SayConnect
<1>4. CASE Break
  BY <1>4 DEF Break, Unlink, FlowTyped
<1>5. CASE Close
  BY <1>5 DEF Close, Unlink, FlowTyped
<1>6. ASSUME NEW f \in Fds, Notice(f) PROVE FlowTyped'
  BY <1>6 DEF Notice, FlowTyped
<1>7. ASSUME NEW a \in inbox, Receive(a) PROVE FlowTyped'
  <2>1. \A m \in Own : /\ stage'[m] \in {stage[m], "rec", "done"}
                       /\ stage'[m] # "new" => stage[m] # "new"
    BY <1>7 DEF Receive
  <2>2. stage' \in [Own -> {"new", "sent", "rec", "rel", "done", "dropped"}]
    BY <1>7, <2>1 DEF Receive, FlowTyped
  <2> QED BY <1>7, <2>1, <2>2 DEF Receive, FlowTyped
<1>8. ASSUME NEW m \in Own, NEW k \in PacketIds, SendPublish(m, k) PROVE FlowTyped'
  <2>1. handled' \in [Msgs -> Nat] /\ forwarded' \in [Msgs -> Nat] /\ disturbed' \subseteq Msgs
    BY <1>8, StoreTyped, KnownConstants DEF SendPublish
  <2> QED BY <1>8, <2>1 DEF SendPublish, FlowTyped
<1>9. ASSUME NEW m \in Own, RepeatPublish(m) PROVE FlowTyped'
  <2>1. handled' \in [Msgs -> Nat] /\ forwarded' \in [Msgs -> Nat] /\ disturbed' \subseteq Msgs
    BY <1>9, StoreTyped, KnownConstants DEF RepeatPublish
  <2> QED BY <1>9, <2>1 DEF RepeatPublish, FlowTyped
<1>10. ASSUME NEW m \in Own, SendPubRel(m) PROVE FlowTyped'
  <2>1. handled' \in [Msgs -> Nat] /\ forwarded' \in [Msgs -> Nat] /\ disturbed' \subseteq Msgs
    BY <1>10, ForwardTyped DEF SendPubRel
  <2> QED BY <1>10, <2>1 DEF SendPubRel, FlowTyped
<1>11. ASSUME NEW m \in Msgs, NEW k \in PacketIds, StrangerPublishes(m, k) PROVE FlowTyped'
  <2>1. handled' \in [Msgs -> Nat] /\ forwarded' \in [Msgs -> Nat] /\ disturbed' \subseteq Msgs
    BY <1>11, StoreTyped DEF StrangerPublishes
  <2> QED BY <1>11, <2>1 DEF StrangerPublishes, FlowTyped
<1>12. ASSUME NEW k \in PacketIds, StrangerReleases(k) PROVE FlowTyped'
  <2>1. handled' \in [Msgs -> Nat] /\ forwarded' \in [Msgs -> Nat] /\ disturbed' \subseteq Msgs
    BY <1>12, ForwardTyped DEF StrangerReleases
  <2> QED BY <1>12, <2>1 DEF StrangerReleases, FlowTyped
<1> QED
  BY <1>1, <1>2, <1>3, <1>4, <1>5, <1>6, <1>7, <1>8, <1>9, <1>10, <1>11, <1>12
     DEF FlowNext, Reconnect, Deliver, Stranger, Proceed

\* CONNECT of the publisher closes only connections that have its client id.
LEMMA ConnectEffect ==
    ASSUME Typed, link \in clients, cid[link] = NoId, Connect(link, NoPublication, FALSE),
           cid'[link] = Publisher
    PROVE  \E closed \in SUBSET clients :
              /\ \A g \in closed : cid[g] = Publisher
              /\ clients' = clients \ closed /\ qos2' = qos2
              /\ \A g \in Fds : g # link /\ g \notin closed => cid'[g] = cid[g]
<1>1. PICK id \in ClientIds \union RandomIds, closed \in SUBSET clients :
        /\ closed = {} \/ closed \in {{g} : g \in GetClientFd(id)}
        /\ CloseConnection(closed)
        /\ cid' = [g \in Fds |-> IF g \in closed THEN NoId ELSE IF g = link THEN id ELSE cid[g]]
  BY DEF Connect
<1>2. link \in Fds
  BY DEF Typed, TypeOK
<1>3. id = Publisher
  BY <1>1, <1>2, KnownConstants
<1>4. qos2' = qos2
  BY DEF Connect
<1> QED BY <1>1, <1>3, <1>4 DEF GetClientFd, CloseConnection

LEMMA LinkedStep == FlowTyped /\ Typed /\ Linked /\ [FlowNext]_flowVars => Linked'
<1> SUFFICES ASSUME FlowTyped, Typed, Linked, [FlowNext]_flowVars PROVE Linked'
  OBVIOUS
<1> USE DEF flow, client, history, conn
<1>0. clients \subseteq Fds /\ cid \in [Fds -> Ids] /\ NoFd \notin Fds /\ Publisher # NoId
  BY KnownConstants DEF Typed, TypeOK
<1>1. ASSUME UNCHANGED <<clients, cid, link, session, stranger>> PROVE Linked'
  BY <1>1 DEF Linked
<1>2. CASE UNCHANGED flowVars
  BY <1>1, <1>2 DEF flowVars, vars
<1>3. ASSUME NEW f \in Fds, AddClient(f)
      PROVE  /\ f \notin clients /\ clients' = clients \union {f} /\ cid'[f] = NoId
             /\ \A g \in clients : cid'[g] = cid[g]
  BY <1>0, <1>3 DEF AddClient
<1>4. ASSUME NEW f \in Fds, Dial(f) PROVE Linked'
  BY <1>0, <1>3, <1>4 DEF Dial, Linked
<1>5. ASSUME NEW f \in Fds, StrangerDials(f) PROVE Linked'
  BY <1>0, <1>3, <1>5 DEF StrangerDials, Linked
<1>6. ASSUME NEW clean \in BOOLEAN, SayConnect(clean) PROVE Linked'
  <2>1. CASE ConnectRefused(link) /\ link' = NoFd /\ session' = "off"
    BY <1>0, <1>6, <2>1 DEF SayConnect, ConnectRefused, GiveUp, Linked
  <2>2. CASE /\ Connect(link, NoPublication, FALSE) /\ cid'[link] = Publisher
             /\ session' = "on" /\ link' = link
    <3>1. link \in clients /\ cid[link] = NoId /\ stranger' = stranger
      BY <1>6 DEF SayConnect, Linked
    <3>2. PICK closed \in SUBSET clients :
              /\ \A g \in closed : cid[g] = Publisher
              /\ clients' = clients \ closed /\ qos2' = qos2
              /\ \A g \in Fds : g # link /\ g \notin closed => cid'[g] = cid[g]
      BY <2>2, <3>1, ConnectEffect
    <3> QED BY <1>0, <2>2, <3>1, <3>2 DEF Linked
  <2> QED BY <1>6, <2>1, <2>2 DEF SayConnect
<1>7. CASE Break
  BY <1>0, <1>7 DEF Break, Unlink, Linked, vars
<1>8. CASE Close
  <2>1. \A g \in clients \ doomed : g \in clients' /\ cid'[g] = cid[g]
    BY <1>0, <1>8 DEF Close, ClosePass, CloseConnection
  <2> QED BY <1>8, <2>1 DEF Close, Unlink, Linked
<1>9. ASSUME NEW f \in Fds, Notice(f) PROVE Linked'
  BY <1>1, <1>9 DEF Notice, Lost
<1>10. ASSUME NEW a, Receive(a) PROVE Linked'
  BY <1>1, <1>10 DEF Receive, vars
<1>11. ASSUME NEW m, NEW k, SendPublish(m, k) \/ StrangerPublishes(m, k) \/ RepeatPublish(m)
       PROVE  Linked'
  BY <1>1, <1>11 DEF SendPublish, StrangerPublishes, RepeatPublish, Store, PublishQoS2
<1>12. ASSUME NEW m, NEW k, SendPubRel(m) \/ StrangerReleases(k) PROVE Linked'
  BY <1>1, <1>12 DEF SendPubRel, StrangerReleases, PubRel
<1> QED
  BY <1>2, <1>4, <1>5, <1>6, <1>7, <1>8, <1>9, <1>10, <1>11, <1>12
     DEF FlowNext, Reconnect, Deliver, Stranger, Proceed

-----------------------------------------------------------------------------
(* What a PUBLISH and a PUBREL do to the store. *)

LEMMA StoreEffect ==
    ASSUME Typed, NEW f, NEW m \in Msgs, NEW k \in PacketIds, Store(f, m, k)
    PROVE  LET e == [cid |-> cid[f], pid |-> k, pub |-> Message(m)]
           IN  /\ f \in Fds /\ e \in Stored /\ qos2[e] < MaxCopies
               /\ qos2' = [qos2 EXCEPT ![e] = @ + 1]
               /\ handled' = [handled EXCEPT ![m] = @ + 1] /\ forwarded' = forwarded
               /\ disturbed \subseteq disturbed'
               /\ \A d \in Stored : d.cid = cid[f] /\ d.pid = k /\ qos2[d] > 0 =>
                      m \in disturbed' /\ d.pub.msg \in disturbed'
<1> DEFINE there == {e \in Stored : e.cid = cid[f] /\ e.pid = k /\ qos2[e] > 0}
<1>1. PublishQoS2(f, Message(m), k, FALSE)
  BY DEF Store
<1>2. f \in Fds /\ cid[f] \in Ids
  BY <1>1 DEF PublishQoS2, Serves, Typed, TypeOK
<1>3. [cid |-> cid[f], pid |-> k, pub |-> Message(m)] \in Stored
  BY <1>2, KnownConstants DEF Stored
<1>4. /\ qos2[[cid |-> cid[f], pid |-> k, pub |-> Message(m)]] < MaxCopies
      /\ qos2' = [qos2 EXCEPT ![[cid |-> cid[f], pid |-> k, pub |-> Message(m)]] = @ + 1]
  BY <1>1 DEF PublishQoS2
<1>5. /\ handled' = [handled EXCEPT ![m] = @ + 1] /\ forwarded' = forwarded
      /\ disturbed' = IF there = {} THEN disturbed
                      ELSE disturbed \union {m} \union {e.pub.msg : e \in there}
  BY DEF Store
<1>6. \A d \in Stored : d.cid = cid[f] /\ d.pid = k /\ qos2[d] > 0 =>
          m \in disturbed' /\ d.pub.msg \in disturbed'
  BY <1>5
<1> QED BY <1>2, <1>3, <1>4, <1>5, <1>6

LEMMA ReleaseEffect ==
    ASSUME Typed, NEW f, NEW k \in PacketIds, PubRel(f, k), Forward
    PROVE  /\ f \in Fds /\ UNCHANGED <<handled, disturbed>>
           /\ \/ /\ GetQoSTopic(cid[f], k) = {}
                 /\ UNCHANGED <<qos2, forwarded>>
              \/ \E e \in GetQoSTopic(cid[f], k) :
                    /\ e \in Stored /\ qos2[e] > 0 /\ e.cid = cid[f] /\ e.pid = k
                    /\ qos2' = [qos2 EXCEPT ![e] = @ - 1]
                    /\ forwarded' = [forwarded EXCEPT ![e.pub.msg] = @ + 1]
<1>1. f \in Fds
  BY DEF PubRel, Serves, Typed, TypeOK
<1>2. CASE GetQoSTopic(cid[f], k) = {}
  <2>1. NoNotify /\ qos2' = qos2
    BY <1>2 DEF PubRel
  <2> QED BY <1>1, <1>2, <2>1 DEF NoNotify, Forward
<1>3. CASE GetQoSTopic(cid[f], k) # {}
  <2>1. PICK e \in GetQoSTopic(cid[f], k) : notified' = e.pub /\ qos2' = [qos2 EXCEPT ![e] = @ - 1]
    BY <1>3 DEF PubRel, NotifyClients, DelQoSTopic
  <2>2. e \in Stored /\ qos2[e] > 0 /\ e.cid = cid[f] /\ e.pid = k
    BY DEF GetQoSTopic
  <2>3. e.pub # NoPublication
    BY <2>2, BrokerAssumption DEF Stored, Publication, NoPublication
  <2> QED BY <1>1, <2>1, <2>2, <2>3 DEF Forward
<1> QED BY <1>2, <1>3

\* A copy of e more, ...
LEMMA CopyAdded ==
    ASSUME Typed, NEW e \in Stored, qos2[e] < MaxCopies, qos2' = [qos2 EXCEPT ![e] = @ + 1]
    PROVE  \A m \in Msgs : IsFiniteSet(StoredCopies(m)) =>
              /\ IsFiniteSet(StoredCopies(m)')
              /\ Cardinality(StoredCopies(m)') =
                    Cardinality(StoredCopies(m)) + (IF m = e.pub.msg THEN 1 ELSE 0)
<1> SUFFICES ASSUME NEW m \in Msgs, IsFiniteSet(StoredCopies(m))
             PROVE  /\ IsFiniteSet(StoredCopies(m)')
                    /\ Cardinality(StoredCopies(m)') =
                          Cardinality(StoredCopies(m)) + (IF m = e.pub.msg THEN 1 ELSE 0)
  OBVIOUS
<1>0. qos2 \in [Stored -> Nat] /\ MaxCopies \in Nat /\ Cardinality(StoredCopies(m)) \in Nat
  BY FlowAssumption, FS_CardinalityType DEF Typed, TypeOK
<1> DEFINE c == <<e, qos2[e] + 1>>
<1>1. qos2[e] + 1 \in 1..MaxCopies /\ qos2'[e] = qos2[e] + 1
      /\ \A d \in Stored : d # e => qos2'[d] = qos2[d]
  BY <1>0
<1>2. CASE m = e.pub.msg
  <2>1. StoredCopies(m)' = StoredCopies(m) \union {c}
    <3>1. ASSUME NEW d \in Stored, NEW j \in 1..MaxCopies, d.pub.msg = m
          PROVE  j <= qos2'[d] <=> (j <= qos2[d] \/ <<d, j>> = c)
      BY <1>0, <1>1
    <3> QED BY <1>1, <1>2, <3>1 DEF StoredCopies
  <2>2. c \notin StoredCopies(m)
    BY <1>0 DEF StoredCopies
  <2> HIDE DEF c
  <2> QED BY <1>0, <1>2, <2>1, <2>2, FS_AddElement
<1>3. CASE m # e.pub.msg
  <2>1. StoredCopies(m)' = StoredCopies(m)
    BY <1>1, <1>3 DEF StoredCopies
  <2> QED BY <1>0, <1>3, <2>1
<1> QED BY <1>2, <1>3

\* ... or less.
LEMMA CopyRemoved ==
    ASSUME Typed, NEW e \in Stored, qos2[e] \in 1..MaxCopies, qos2' = [qos2 EXCEPT ![e] = @ - 1]
    PROVE  \A m \in Msgs : IsFiniteSet(StoredCopies(m)) =>
              /\ IsFiniteSet(StoredCopies(m)')
              /\ Cardinality(StoredCopies(m)') =
                    Cardinality(StoredCopies(m)) - (IF m = e.pub.msg THEN 1 ELSE 0)
<1> SUFFICES ASSUME NEW m \in Msgs, IsFiniteSet(StoredCopies(m))
             PROVE  /\ IsFiniteSet(StoredCopies(m)')
                    /\ Cardinality(StoredCopies(m)') =
                          Cardinality(StoredCopies(m)) - (IF m = e.pub.msg THEN 1 ELSE 0)
  OBVIOUS
<1>0. qos2 \in [Stored -> Nat] /\ MaxCopies \in Nat /\ Cardinality(StoredCopies(m)) \in Nat
  BY FlowAssumption, FS_CardinalityType DEF Typed, TypeOK
<1> DEFINE c == <<e, qos2[e]>>
<1>1. qos2'[e] = qos2[e] - 1 /\ \A d \in Stored : d # e => qos2'[d] = qos2[d]
  BY <1>0
<1>2. CASE m = e.pub.msg
  <2>1. StoredCopies(m)' = StoredCopies(m) \ {c}
    <3>1. ASSUME NEW d \in Stored, NEW j \in 1..MaxCopies, d.pub.msg = m
          PROVE  j <= qos2'[d] <=> (j <= qos2[d] /\ <<d, j>> # c)
      BY <1>0, <1>1
    <3> QED BY <1>2, <3>1 DEF StoredCopies
  <2>2. c \in StoredCopies(m)
    BY <1>0, <1>2 DEF StoredCopies
  <2> HIDE DEF c
  <2> QED BY <1>0, <1>2, <2>1, <2>2, FS_RemoveElement
<1>3. CASE m # e.pub.msg
  <2>1. StoredCopies(m)' = StoredCopies(m)
    BY <1>1, <1>3 DEF StoredCopies
  <2> QED BY <1>0, <1>3, <2>1
<1> QED BY <1>2, <1>3

-----------------------------------------------------------------------------
(* No message is lost or made up. *)

LEMMA CountedStored ==
    ASSUME Typed, FlowTyped, Counted, NEW f, NEW m \in Msgs, NEW k \in PacketIds, Store(f, m, k)
    PROVE  Counted'
<1> DEFINE e == [cid |-> cid[f], pid |-> k, pub |-> Message(m)]
<1>1. /\ e \in Stored /\ qos2[e] < MaxCopies
      /\ qos2' = [qos2 EXCEPT ![e] = @ + 1]
      /\ handled' = [handled EXCEPT ![m] = @ + 1] /\ forwarded' = forwarded
  BY StoreEffect
<1>2. e.pub.msg = m
  BY KnownConstants
<1> HIDE DEF e
<1>3. qos2 \in [Stored -> Nat] /\ MaxCopies \in Nat /\ handled \in [Msgs -> Nat]
      /\ forwarded \in [Msgs -> Nat]
  BY FlowAssumption DEF Typed, TypeOK, FlowTyped
<1>4. \A d \in Stored : qos2'[d] <= MaxCopies
  BY <1>1, <1>3 DEF Counted
<1>5. ASSUME NEW n \in Msgs
      PROVE  IsFiniteSet(StoredCopies(n)') /\ handled'[n] = forwarded'[n] + Cardinality(StoredCopies(n)')
  <2>1. IsFiniteSet(StoredCopies(n)) /\ handled[n] = forwarded[n] + Cardinality(StoredCopies(n))
    BY DEF Counted
  <2>2. Cardinality(StoredCopies(n)) \in Nat
    BY <2>1, FS_CardinalityType
  <2>3. /\ IsFiniteSet(StoredCopies(n)')
        /\ Cardinality(StoredCopies(n)') = Cardinality(StoredCopies(n)) + (IF n = m THEN 1 ELSE 0)
    BY <1>1, <1>2, <2>1, CopyAdded
  <2>4. handled'[n] = handled[n] + (IF n = m THEN 1 ELSE 0) /\ forwarded'[n] = forwarded[n]
    BY <1>1, <1>3
  <2> QED BY <1>3, <2>1, <2>2, <2>3, <2>4
<1> QED BY <1>4, <1>5 DEF Counted

LEMMA CountedReleased ==
    ASSUME Typed, FlowTyped, Counted, NEW f, NEW k \in PacketIds, PubRel(f, k), Forward
    PROVE  Counted'
<1>1. UNCHANGED <<handled, disturbed>>
  BY ReleaseEffect
<1>2. CASE UNCHANGED <<qos2, forwarded>>
  <2>1. \A n \in Msgs : StoredCopies(n)' = StoredCopies(n)
    BY <1>2 DEF StoredCopies
  <2> QED BY <1>1, <1>2, <2>1 DEF Counted
<1>3. ASSUME NEW e \in Stored, qos2[e] > 0, qos2' = [qos2 EXCEPT ![e] = @ - 1],
             forwarded' = [forwarded EXCEPT ![e.pub.msg] = @ + 1]
      PROVE  Counted'
  <2>1. qos2 \in [Stored -> Nat] /\ MaxCopies \in Nat /\ handled \in [Msgs -> Nat]
        /\ forwarded \in [Msgs -> Nat]
    BY FlowAssumption DEF Typed, TypeOK, FlowTyped
  <2>2. qos2[e] \in 1..MaxCopies /\ e.pub.msg \in Msgs
    <3>1. qos2[e] <= MaxCopies
      BY DEF Counted
    <3>2. e.pub.msg \in Msgs
      BY DEF Stored, Publication
    <3> QED BY <1>3, <2>1, <3>1, <3>2
  <2>3. \A d \in Stored : qos2'[d] <= MaxCopies
    BY <1>3, <2>1 DEF Counted
  <2>4. ASSUME NEW n \in Msgs
        PROVE  IsFiniteSet(StoredCopies(n)') /\ handled'[n] = forwarded'[n] + Cardinality(StoredCopies(n)')
    <3>1. IsFiniteSet(StoredCopies(n)) /\ handled[n] = forwarded[n] + Cardinality(StoredCopies(n))
      BY DEF Counted
    <3>2. Cardinality(StoredCopies(n)) \in Nat
      BY <3>1, FS_CardinalityType
    <3>3. /\ IsFiniteSet(StoredCopies(n)')
          /\ Cardinality(StoredCopies(n)') =
                Cardinality(StoredCopies(n)) - (IF n = e.pub.msg THEN 1 ELSE 0)
      BY <1>3, <2>2, <3>1, CopyRemoved
    <3>4. forwarded'[n] = forwarded[n] + (IF n = e.pub.msg THEN 1 ELSE 0)
      BY <1>3, <2>1, <2>2
    <3>5. handled'[n] = handled[n]
      BY <1>1
    <3> QED BY <2>1, <3>1, <3>2, <3>3, <3>4, <3>5
  <2> QED BY <2>3, <2>4 DEF Counted
<1> QED BY <1>2, <1>3, ReleaseEffect

\* The steps that leave the store alone.
StoreAlone == UNCHANGED <<qos2, handled, forwarded, disturbed, pid>>

LEMMA AloneSteps ==
    /\ \A f \in Fds : Dial(f) \/ StrangerDials(f) \/ Notice(f) => StoreAlone
    /\ \A clean \in BOOLEAN : SayConnect(clean) => StoreAlone
    /\ \A a : Receive(a) => StoreAlone
    /\ Break \/ Close \/ UNCHANGED flowVars => StoreAlone
<1> USE DEF StoreAlone, flow, client, history
<1>1. \A f \in Fds : Dial(f) \/ StrangerDials(f) \/ Notice(f) => StoreAlone
  BY DEF Dial, StrangerDials, Notice, AddClient, Lost
<1>2. ASSUME NEW clean \in BOOLEAN, SayConnect(clean) PROVE StoreAlone
  BY <1>2 DEF SayConnect, Connect, ConnectRefused, GiveUp
<1>3. \A a : Receive(a) => StoreAlone
  BY DEF Receive, vars
<1>4. Break \/ Close \/ UNCHANGED flowVars => StoreAlone
  BY DEF Break, Close, ClosePass, flowVars, vars
<1> QED BY <1>1, <1>2, <1>3, <1>4

LEMMA CountedStep == FlowTyped /\ Typed /\ Counted /\ [FlowNext]_flowVars => Counted'
<1> SUFFICES ASSUME FlowTyped, Typed, Counted, [FlowNext]_flowVars PROVE Counted'
  OBVIOUS
<1>1. ASSUME StoreAlone PROVE Counted'
  <2>1. \A n \in Msgs : StoredCopies(n)' = StoredCopies(n)
    BY <1>1 DEF StoreAlone, StoredCopies
  <2> QED BY <1>1, <2>1 DEF StoreAlone, Counted
<1>2. ASSUME NEW m \in Own, Proceed(m) PROVE Counted'
  <2>0. m \in Msgs
    BY KnownConstants
  <2>1. ASSUME NEW k \in PacketIds, SendPublish(m, k) PROVE Counted'
    BY <2>0, <2>1, CountedStored DEF SendPublish
  <2>2. CASE RepeatPublish(m)
    <3>1. pid[m] \in PacketIds
      BY <2>2 DEF RepeatPublish, FlowTyped
    <3> QED BY <2>0, <2>2, <3>1, CountedStored DEF RepeatPublish
  <2>3. CASE SendPubRel(m)
    <3>1. pid[m] \in PacketIds
      BY <2>3 DEF SendPubRel, FlowTyped
    <3> QED BY <2>3, <3>1, CountedReleased DEF SendPubRel
  <2> QED BY <1>2, <2>1, <2>2, <2>3 DEF Proceed
<1>3. CASE Stranger
  <2>1. ASSUME NEW m \in Msgs, NEW k \in PacketIds, StrangerPublishes(m, k) PROVE Counted'
    BY <2>1, CountedStored DEF StrangerPublishes
  <2>2. ASSUME NEW k \in PacketIds, StrangerReleases(k) PROVE Counted'
    BY <2>2, CountedReleased DEF StrangerReleases
  <2> QED BY <1>1, <1>3, <2>1, <2>2, AloneSteps DEF Stranger
<1> QED BY <1>1, <1>2, <1>3, AloneSteps DEF FlowNext, Reconnect, Deliver

-----------------------------------------------------------------------------
(* The publisher's messages in the store. *)

\* The steps that leave the store alone do not take a message back or on
\* beyond what its stage already says of the store.
StageKept(m) ==
    /\ stage'[m] = "new" <=> stage[m] = "new"
    /\ stage'[m] \in {"sent", "rec"} => stage[m] \in {"sent", "rec"}
    /\ stage'[m] \in {"rel", "done"} => stage[m] \in {"rel", "done"}
    /\ stage'[m] \in {"sent", "rec", "rel"} => stage[m] \in {"sent", "rec", "rel"}

LEMMA StagesKept ==
    ASSUME FlowTyped, NEW m \in Own
    PROVE  /\ \A f \in Fds : Dial(f) \/ StrangerDials(f) \/ Notice(f) => StageKept(m)
           /\ \A clean \in BOOLEAN : SayConnect(clean) => StageKept(m)
           /\ \A a : Receive(a) => StageKept(m)
           /\ Break \/ Close \/ UNCHANGED flowVars => StageKept(m)
<1> USE DEF flow, client, history
<1>0. ASSUME UNCHANGED stage PROVE StageKept(m)
  BY <1>0 DEF StageKept
<1>1. \A f \in Fds : Dial(f) \/ StrangerDials(f) \/ Notice(f) => StageKept(m)
  BY <1>0 DEF Dial, StrangerDials, Notice
<1>2. ASSUME NEW clean \in BOOLEAN, SayConnect(clean) PROVE StageKept(m)
  <2>1. stage'[m] = stage[m] \/ (stage'[m] = "dropped" /\ m \in InFlight)
    BY <1>2 DEF SayConnect
  <2> QED BY <2>1 DEF StageKept, InFlight
<1>3. ASSUME NEW a, Receive(a) PROVE StageKept(m)
  <2>1. \/ stage'[m] = stage[m]
        \/ stage[m] = "sent" /\ stage'[m] = "rec"
        \/ stage[m] = "rel" /\ stage'[m] = "done"
    BY <1>3 DEF Receive
  <2> QED BY <2>1 DEF StageKept
<1>4. Break \/ Close \/ UNCHANGED flowVars => StageKept(m)
  BY <1>0 DEF Break, Close, flowVars
<1> QED BY <1>1, <1>2, <1>3, <1>4

LEMMA KeyStored ==
    ASSUME FlowTyped, NEW m \in Own
    PROVE  /\ Key(m).cid = Publisher /\ Key(m).pid = pid[m] /\ Key(m).pub.msg = m
           /\ stage[m] # "new" => Key(m) \in Stored
<1>1. m \in Msgs /\ Message(m) \in Publication /\ Message(m).msg = m /\ Publisher \in Ids
  BY KnownConstants
<1>2. stage[m] # "new" => pid[m] \in PacketIds
  BY DEF FlowTyped
<1> QED BY <1>1, <1>2 DEF Key, Stored

\* What has to hold of a step for it not to disturb message n.
LEMMA AloneFrame ==
    ASSUME NEW n \in Own, Alone(n), StageKept(n),
           pid'[n] = pid[n], forwarded'[n] = forwarded[n],
           stage[n] # "new" => qos2'[Key(n)] = qos2[Key(n)],
           stage[n] # "new" /\ qos2[Key(n)] = 1 =>
              /\ \A o \in InFlight' : pid'[o] = pid[n] => o = n
              /\ \A d \in Stored : qos2'[d] > 0 /\ d.cid = Publisher /\ d.pid = pid[n] => d = Key(n)
    PROVE  Alone(n)'
<1>1. Key(n)' = Key(n)
  BY DEF Key
<1>2. /\ stage'[n] = "new" => forwarded'[n] = 0
      /\ stage'[n] \in {"sent", "rec"} => forwarded'[n] = 0
      /\ stage'[n] \in {"rel", "done"} => forwarded'[n] = 1
  BY DEF Alone, StageKept
<1>3. stage'[n] # "new" => forwarded'[n] + qos2'[Key(n)'] = 1
  BY <1>1 DEF Alone, StageKept
<1>4. stage'[n] # "new" /\ qos2'[Key(n)'] = 1 => stage[n] # "new" /\ qos2[Key(n)] = 1
  BY <1>1 DEF StageKept
<1> QED BY <1>1, <1>2, <1>3, <1>4 DEF Alone

LEMMA OwnStoredAlone ==
    ASSUME FlowTyped, OwnStored, Undisturbed, StoreAlone, \A m \in Own : StageKept(m)
    PROVE  OwnStored' /\ Undisturbed'
<1>1. OwnStored'
  BY DEF OwnStored, Key, StoreAlone, StageKept
<1>2. InFlight' \subseteq InFlight
  BY DEF InFlight, StageKept
<1>3. ASSUME NEW n \in Own \ disturbed' PROVE Alone(n)'
  <2>1. Alone(n) /\ StageKept(n)
    BY <1>3 DEF Undisturbed, StoreAlone
  <2>2. stage[n] # "new" /\ qos2[Key(n)] = 1 =>
              /\ \A o \in InFlight' : pid'[o] = pid[n] => o = n
              /\ \A d \in Stored : qos2'[d] > 0 /\ d.cid = Publisher /\ d.pid = pid[n] => d = Key(n)
    BY <1>2, <2>1 DEF Alone, StoreAlone
  <2> QED BY <2>1, <2>2, AloneFrame DEF StoreAlone
<1> QED BY <1>1, <1>3 DEF Undisturbed

\* A PUBREL takes out of the store one message e that another client or another
\* message of the publisher left there.
LEMMA ReleasedOther ==
    ASSUME Typed, FlowTyped, NEW n \in Own, Alone(n), StageKept(n), NEW e \in Stored,
           e # Key(n), e.pub.msg # n, qos2' = [qos2 EXCEPT ![e] = @ - 1],
           forwarded' = [forwarded EXCEPT ![e.pub.msg] = @ + 1],
           UNCHANGED pid, InFlight' \subseteq InFlight
    PROVE  Alone(n)'
<1>1. qos2 \in [Stored -> Nat] /\ forwarded \in [Msgs -> Nat] /\ n \in Msgs
  BY KnownConstants DEF Typed, TypeOK, FlowTyped
<1>2. forwarded'[n] = forwarded[n]
  BY <1>1
<1>3. stage[n] # "new" => qos2'[Key(n)] = qos2[Key(n)]
  BY <1>1, KeyStored
<1>4. \A d \in Stored : qos2'[d] > 0 => qos2[d] > 0
  BY <1>1
<1>5. stage[n] # "new" /\ qos2[Key(n)] = 1 =>
              /\ \A o \in InFlight' : pid'[o] = pid[n] => o = n
              /\ \A d \in Stored : qos2'[d] > 0 /\ d.cid = Publisher /\ d.pid = pid[n] => d = Key(n)
  BY <1>4 DEF Alone
<1> QED BY <1>2, <1>3, <1>5, AloneFrame

LEMMA SendKeeps ==
    ASSUME Typed, FlowTyped, Linked, OwnStored, Undisturbed,
           NEW m \in Own, NEW k \in PacketIds, SendPublish(m, k)
    PROVE  OwnStored' /\ Undisturbed'
<1> DEFINE e == [cid |-> Publisher, pid |-> k, pub |-> Message(m)]
<1>0. m \in Msgs /\ cid[link] = Publisher /\ Store(link, m, k)
  BY KnownConstants DEF SendPublish, Linked
<1>1. /\ e \in Stored
      /\ qos2' = [qos2 EXCEPT ![e] = @ + 1] /\ forwarded' = forwarded
      /\ disturbed \subseteq disturbed'
      /\ \A d \in Stored : d.cid = Publisher /\ d.pid = k /\ qos2[d] > 0 =>
            m \in disturbed' /\ d.pub.msg \in disturbed'
  BY <1>0, StoreEffect
<1>2. e.cid = Publisher /\ e.pid = k /\ e.pub.msg = m
  BY <1>0, KnownConstants
<1>3. /\ stage[m] = "new" /\ stage'[m] = "sent" /\ pid'[m] = k
      /\ \A n \in Own : n # m => stage'[n] = stage[n] /\ pid'[n] = pid[n]
      /\ \A n \in InFlight : pid[n] # k
  BY DEF SendPublish, FlowTyped
<1>4. Key(m)' = e /\ \A n \in Own : n # m => Key(n)' = Key(n)
  BY <1>3 DEF Key
<1> HIDE DEF e
<1>5. /\ qos2 \in [Stored -> Nat] /\ qos2'[e] = qos2[e] + 1
      /\ \A d \in Stored : d # e => qos2'[d] = qos2[d]
  BY <1>1 DEF Typed, TypeOK
<1>6. OwnStored'
  <2> SUFFICES ASSUME NEW d \in Stored, qos2'[d] > 0, d.pub.msg \in Own
               PROVE  d = Key(d.pub.msg)' /\ stage'[d.pub.msg] # "new"
    BY DEF OwnStored
  <2>1. CASE d = e
    BY <1>2, <1>3, <1>4, <2>1
  <2>2. CASE d # e
    <3>1. d = Key(d.pub.msg) /\ stage[d.pub.msg] # "new"
      BY <1>5, <2>2 DEF OwnStored
    <3> QED BY <1>3, <1>4, <3>1
  <2> QED BY <2>1, <2>2
<1>7. InFlight' \subseteq InFlight \union {m}
  BY <1>3 DEF InFlight
<1>8. ASSUME m \notin disturbed' PROVE Alone(m)'
  <2>1. forwarded[m] = 0 /\ forwarded'[m] = 0
    BY <1>1, <1>3, <1>8 DEF Undisturbed, Alone
  <2>2. \A d \in Stored : qos2[d] > 0 /\ d.cid = Publisher => d.pid # k
    BY <1>1, <1>8
  <2>3. qos2[e] = 0 /\ qos2'[e] = 1
    BY <1>1, <1>2, <1>5, <2>2
  <2>4. \A n \in InFlight' : pid'[n] = k => n = m
    BY <1>3, <1>7 DEF InFlight
  <2>5. \A d \in Stored : qos2'[d] > 0 /\ d.cid = Publisher /\ d.pid = k => d = e
    BY <1>5, <2>2
  <2> QED BY <1>3, <1>4, <2>1, <2>3, <2>4, <2>5 DEF Alone
<1>9. ASSUME NEW n \in Own \ disturbed', n # m PROVE Alone(n)'
  <2>1. Alone(n) /\ StageKept(n) /\ pid'[n] = pid[n] /\ forwarded'[n] = forwarded[n]
    BY <1>1, <1>3, <1>9 DEF Undisturbed, StageKept
  <2>2. stage[n] # "new" => Key(n) \in Stored /\ Key(n) # e /\ qos2'[Key(n)] = qos2[Key(n)]
    BY <1>2, <1>5, <1>9, KeyStored
  <2>3. stage[n] # "new" /\ qos2[Key(n)] = 1 => pid[n] # k
    BY <1>1, <1>9, <2>2, KeyStored
  <2>4. stage[n] # "new" /\ qos2[Key(n)] = 1 =>
              /\ \A o \in InFlight' : pid'[o] = pid[n] => o = n
              /\ \A d \in Stored : qos2'[d] > 0 /\ d.cid = Publisher /\ d.pid = pid[n] => d = Key(n)
    <3> SUFFICES ASSUME stage[n] # "new", qos2[Key(n)] = 1
                 PROVE  /\ \A o \in InFlight' : pid'[o] = pid[n] => o = n
                        /\ \A d \in Stored : qos2'[d] > 0 /\ d.cid = Publisher /\ d.pid = pid[n]
                              => d = Key(n)
      OBVIOUS
    <3>1. \A o \in InFlight' : pid'[o] = pid[n] => o = n
      BY <1>3, <1>7, <2>1, <2>3 DEF Alone, InFlight
    <3>2. \A d \in Stored : qos2'[d] > 0 /\ d.cid = Publisher /\ d.pid = pid[n] => d = Key(n)
      BY <1>2, <1>5, <2>1, <2>3 DEF Alone
    <3> QED BY <3>1, <3>2
  <2> QED BY <2>1, <2>2, <2>4, AloneFrame
<1> QED BY <1>6, <1>8, <1>9 DEF Undisturbed

LEMMA RepeatKeeps ==
    ASSUME Typed, FlowTyped, Linked, OwnStored, Undisturbed, NEW m \in Own, RepeatPublish(m)
    PROVE  OwnStored' /\ Undisturbed'
<1>0. /\ m \in Msgs /\ cid[link] = Publisher /\ Store(link, m, pid[m]) /\ stage[m] = "sent"
      /\ UNCHANGED <<stage, pid>>
  BY KnownConstants DEF RepeatPublish, Linked
<1>1. pid[m] \in PacketIds /\ m \in InFlight
  BY <1>0 DEF FlowTyped, InFlight
<1>2. /\ Key(m) \in Stored
      /\ qos2' = [qos2 EXCEPT ![Key(m)] = @ + 1] /\ forwarded' = forwarded
      /\ disturbed \subseteq disturbed'
      /\ \A d \in Stored : d.cid = Publisher /\ d.pid = pid[m] /\ qos2[d] > 0 =>
            m \in disturbed' /\ d.pub.msg \in disturbed'
  <2> DEFINE e == [cid |-> cid[link], pid |-> pid[m], pub |-> Message(m)]
  <2>1. /\ e \in Stored
        /\ qos2' = [qos2 EXCEPT ![e] = @ + 1] /\ forwarded' = forwarded
        /\ disturbed \subseteq disturbed'
        /\ \A d \in Stored : d.cid = cid[link] /\ d.pid = pid[m] /\ qos2[d] > 0 =>
              m \in disturbed' /\ d.pub.msg \in disturbed'
    <3>1. m \in Msgs /\ pid[m] \in PacketIds /\ Store(link, m, pid[m])
      BY <1>0, <1>1
    <3>2. ASSUME NEW k \in PacketIds, k = pid[m]
          PROVE  LET d == [cid |-> cid[link], pid |-> k, pub |-> Message(m)]
                 IN  /\ d \in Stored
                     /\ qos2' = [qos2 EXCEPT ![d] = @ + 1] /\ forwarded' = forwarded
                     /\ disturbed \subseteq disturbed'
                     /\ \A b \in Stored : b.cid = cid[link] /\ b.pid = k /\ qos2[b] > 0 =>
                            m \in disturbed' /\ b.pub.msg \in disturbed'
      <4>1. Store(link, m, k)
        BY <3>1, <3>2
      <4> QED BY <3>1, <4>1, StoreEffect
    <3> QED BY <3>1, <3>2
  <2>2. e = Key(m)
    BY <1>0 DEF Key
  <2> HIDE DEF e
  <2> QED BY <1>0, <2>1, <2>2
<1>3. /\ qos2 \in [Stored -> Nat]
      /\ \A d \in Stored : d # Key(m) => qos2'[d] = qos2[d]
  BY <1>2 DEF Typed, TypeOK
<1>4. \A n : Key(n)' = Key(n)
  BY <1>0 DEF Key
<1>5. OwnStored'
  <2> SUFFICES ASSUME NEW d \in Stored, qos2'[d] > 0, d.pub.msg \in Own
               PROVE  d = Key(d.pub.msg) /\ stage[d.pub.msg] # "new"
    BY <1>0, <1>4 DEF OwnStored
  <2>1. CASE d = Key(m)
    BY <1>0, <2>1, KeyStored
  <2>2. CASE d # Key(m)
    BY <1>3, <2>2 DEF OwnStored
  <2> QED BY <2>1, <2>2
<1>6. m \in disturbed'
  <2>1. SUFFICES ASSUME m \notin disturbed' PROVE FALSE
    OBVIOUS
  <2>2. Alone(m)
    BY <1>2, <2>1 DEF Undisturbed
  <2>3. forwarded[m] = 0 /\ forwarded[m] + qos2[Key(m)] = 1
    BY <1>0, <2>2 DEF Alone
  <2>4. qos2[Key(m)] > 0
    BY <1>2, <1>3, <2>3
  <2>5. Key(m).cid = Publisher /\ Key(m).pid = pid[m]
    BY KeyStored
  <2> QED BY <1>2, <2>1, <2>4, <2>5
<1>7. ASSUME NEW n \in Own \ disturbed' PROVE Alone(n)'
  <2>1. n # m /\ Alone(n) /\ StageKept(n) /\ forwarded'[n] = forwarded[n]
    BY <1>0, <1>2, <1>6, <1>7 DEF Undisturbed, StageKept
  <2>2. stage[n] # "new" => Key(n) \in Stored /\ Key(n) # Key(m) /\ qos2'[Key(n)] = qos2[Key(n)]
    BY <1>3, <2>1, KeyStored
  <2>3. InFlight' = InFlight
    BY <1>0 DEF InFlight
  <2>4. stage[n] # "new" /\ qos2[Key(n)] = 1 =>
              /\ \A o \in InFlight' : pid'[o] = pid[n] => o = n
              /\ \A d \in Stored : qos2'[d] > 0 /\ d.cid = Publisher /\ d.pid = pid[n] => d = Key(n)
    <3> SUFFICES ASSUME stage[n] # "new", qos2[Key(n)] = 1
                 PROVE  /\ \A o \in InFlight' : pid'[o] = pid[n] => o = n
                        /\ \A d \in Stored : qos2'[d] > 0 /\ d.cid = Publisher /\ d.pid = pid[n]
                              => d = Key(n)
      OBVIOUS
    <3>1. \A o \in InFlight' : pid'[o] = pid[n] => o = n
      BY <1>0, <2>1, <2>3 DEF Alone
    <3>2. Key(m).pid # pid[n]
      BY <1>1, <2>1, KeyStored DEF Alone
    <3>3. \A d \in Stored : qos2'[d] > 0 /\ d.cid = Publisher /\ d.pid = pid[n] => d = Key(n)
      BY <1>3, <2>1, <3>2 DEF Alone
    <3> QED BY <3>1, <3>3
  <2> QED BY <1>0, <2>1, <2>2, <2>4, AloneFrame
<1> QED BY <1>5, <1>7 DEF Undisturbed

LEMMA StrangerStores ==
    ASSUME Typed, FlowTyped, Linked, OwnStored, Undisturbed,
           NEW m \in Msgs, NEW k \in PacketIds, StrangerPublishes(m, k)
    PROVE  OwnStored' /\ Undisturbed'
<1> DEFINE e == [cid |-> cid[stranger], pid |-> k, pub |-> Message(m)]
<1>0. cid[stranger] = NoId /\ Store(stranger, m, k) /\ m \notin Own /\ UNCHANGED <<stage, pid>>
  BY DEF StrangerPublishes, Linked, client
<1>1. /\ e \in Stored
      /\ qos2' = [qos2 EXCEPT ![e] = @ + 1] /\ forwarded' = forwarded
      /\ disturbed \subseteq disturbed'
  BY <1>0, StoreEffect
<1>2. e.cid # Publisher /\ e.pub.msg = m
  BY <1>0, KnownConstants
<1> HIDE DEF e
<1>3. qos2 \in [Stored -> Nat] /\ \A d \in Stored : d # e => qos2'[d] = qos2[d]
  BY <1>1 DEF Typed, TypeOK
<1>4. (\A n : Key(n)' = Key(n)) /\ InFlight' = InFlight
  BY <1>0 DEF Key, InFlight
<1>5. OwnStored'
  BY <1>0, <1>2, <1>3, <1>4 DEF OwnStored
<1>6. ASSUME NEW n \in Own \ disturbed' PROVE Alone(n)'
  <2>1. Alone(n) /\ StageKept(n) /\ forwarded'[n] = forwarded[n] /\ pid'[n] = pid[n]
    BY <1>0, <1>1, <1>6 DEF Undisturbed, StageKept
  <2>2. stage[n] # "new" => qos2'[Key(n)] = qos2[Key(n)]
    BY <1>2, <1>3, KeyStored
  <2>3. stage[n] # "new" /\ qos2[Key(n)] = 1 =>
              /\ \A o \in InFlight' : pid'[o] = pid[n] => o = n
              /\ \A d \in Stored : qos2'[d] > 0 /\ d.cid = Publisher /\ d.pid = pid[n] => d = Key(n)
    BY <1>0, <1>2, <1>3, <1>4, <2>1 DEF Alone
  <2> QED BY <2>1, <2>2, <2>3, AloneFrame
<1> QED BY <1>5, <1>6 DEF Undisturbed

\* What a PUBREL leaves of the store.
LEMMA OwnStoredReleased ==
    ASSUME Typed, OwnStored, NEW e \in Stored, qos2' = [qos2 EXCEPT ![e] = @ - 1], UNCHANGED pid,
           \A m \in Own : stage[m] # "new" => stage'[m] # "new"
    PROVE  OwnStored'
<1>1. \A d \in Stored : qos2'[d] > 0 => qos2[d] > 0
  BY DEF Typed, TypeOK
<1>2. \A n : Key(n)' = Key(n)
  BY DEF Key
<1> QED BY <1>1, <1>2 DEF OwnStored

LEMMA PubRelKeeps ==
    ASSUME Typed, FlowTyped, Linked, OwnStored, Undisturbed, NEW m \in Own, SendPubRel(m)
    PROVE  OwnStored' /\ Undisturbed'
<1>0. /\ cid[link] = Publisher /\ PubRel(link, pid[m]) /\ Forward /\ UNCHANGED pid
      /\ stage[m] \in {"rec", "rel"} /\ stage'[m] = "rel"
      /\ \A n \in Own : n # m => stage'[n] = stage[n]
  BY DEF SendPubRel, Linked, FlowTyped
<1>1. pid[m] \in PacketIds /\ m \in InFlight
  BY <1>0 DEF FlowTyped, InFlight
<1>2. InFlight' = InFlight /\ \A n : Key(n)' = Key(n)
  BY <1>0 DEF InFlight, Key
<1>3. /\ disturbed' = disturbed
      /\ \/ GetQoSTopic(Publisher, pid[m]) = {} /\ UNCHANGED <<qos2, forwarded>>
         \/ \E e \in Stored :
               /\ qos2[e] > 0 /\ e.cid = Publisher /\ e.pid = pid[m]
               /\ qos2' = [qos2 EXCEPT ![e] = @ - 1]
               /\ forwarded' = [forwarded EXCEPT ![e.pub.msg] = @ + 1]
  BY <1>0, <1>1, ReleaseEffect
<1>4. qos2 \in [Stored -> Nat] /\ forwarded \in [Msgs -> Nat] /\ Own \subseteq Msgs
  BY KnownConstants DEF Typed, TypeOK, FlowTyped
<1>5. stage[m] = "rec" /\ m \notin disturbed => forwarded[m] = 0 /\ qos2[Key(m)] = 1
  <2>1. m \notin disturbed => Alone(m)
    BY DEF Undisturbed
  <2>2. stage[m] = "rec" /\ Alone(m) => forwarded[m] = 0 /\ forwarded[m] + qos2[Key(m)] = 1
    BY DEF Alone
  <2>3. stage[m] = "rec" => Key(m) \in Stored
    BY KeyStored
  <2> QED BY <1>4, <2>1, <2>2, <2>3
<1>6. \A n \in Own : n # m => StageKept(n)
  BY <1>0 DEF StageKept
<1>7. stage[m] = "rel" => StageKept(m)
  BY <1>0 DEF StageKept
<1>8. CASE GetQoSTopic(Publisher, pid[m]) = {} /\ UNCHANGED <<qos2, forwarded>>
  <2>1. OwnStored'
    BY <1>0, <1>2, <1>8 DEF OwnStored
  <2>2. stage[m] = "rec" => m \in disturbed
    BY <1>5, <1>8, KeyStored DEF GetQoSTopic
  <2>3. ASSUME NEW n \in Own \ disturbed PROVE Alone(n)'
    <3>1. StageKept(n) /\ Alone(n)
      BY <1>0, <1>6, <1>7, <2>2, <2>3 DEF Undisturbed
    <3>2. stage[n] # "new" /\ qos2[Key(n)] = 1 =>
              /\ \A o \in InFlight' : pid'[o] = pid[n] => o = n
              /\ \A d \in Stored : qos2'[d] > 0 /\ d.cid = Publisher /\ d.pid = pid[n] => d = Key(n)
      BY <1>0, <1>2, <1>8, <3>1 DEF Alone
    <3> QED BY <1>0, <1>8, <3>1, <3>2, AloneFrame
  <2> QED BY <1>3, <2>1, <2>3 DEF Undisturbed
<1>9. ASSUME NEW e \in Stored, qos2[e] > 0, e.cid = Publisher, e.pid = pid[m],
             qos2' = [qos2 EXCEPT ![e] = @ - 1],
             forwarded' = [forwarded EXCEPT ![e.pub.msg] = @ + 1]
      PROVE  OwnStored' /\ Undisturbed'
  <2>1. OwnStored'
    BY <1>0, <1>9, OwnStoredReleased
  <2>2. ASSUME NEW n \in Own \ disturbed, e = Key(n) PROVE Alone(n)'
    <3>1. n = m
      <4>1. Alone(n) /\ stage[n] # "new" /\ pid[n] = pid[m] /\ Key(n) \in Stored
        BY <1>9, <2>2, KeyStored DEF Undisturbed, OwnStored
      <4>2. forwarded[n] + qos2[Key(n)] = 1 /\ forwarded[n] \in Nat /\ qos2[Key(n)] \in Nat
        BY <1>4, <4>1 DEF Alone
      <4>3. qos2[Key(n)] = 1
        BY <1>9, <2>2, <4>2
      <4> QED BY <1>1, <4>1, <4>3 DEF Alone
    <3>2. forwarded[m] + qos2[Key(m)] = 1 /\ forwarded[m] \in Nat
      BY <1>0, <1>4, <2>2, <3>1 DEF Undisturbed, Alone
    <3>3. qos2[Key(m)] = 1 /\ forwarded[m] = 0
      BY <1>4, <1>9, <2>2, <3>1, <3>2
    <3>4. qos2'[Key(m)] = 0
      BY <1>4, <1>9, <2>2, <3>1, <3>3
    <3>5. e.pub.msg = m
      BY <2>2, <3>1, KeyStored
    <3>6. forwarded'[m] = 1
      BY <1>4, <1>9, <3>3, <3>5
    <3> QED BY <1>0, <1>2, <3>1, <3>4, <3>6 DEF Alone
  <2>3. ASSUME NEW n \in Own \ disturbed, e # Key(n) PROVE Alone(n)'
    <3>1. e.pub.msg # n
      BY <1>9, <2>3 DEF OwnStored
    <3>2. Alone(n) /\ StageKept(n)
      <4>1. CASE n # m
        BY <1>6, <4>1 DEF Undisturbed
      <4>2. CASE n = m /\ stage[m] = "rel"
        BY <1>7, <4>2 DEF Undisturbed
      <4>3. CASE n = m /\ stage[m] = "rec"
        <5>1. qos2[Key(m)] = 1 /\ Alone(m)
          BY <1>5, <4>3 DEF Undisturbed
        <5> QED BY <1>0, <1>9, <2>3, <4>3, <5>1 DEF Alone
      <4> QED BY <1>0, <4>1, <4>2, <4>3
    <3> QED BY <1>0, <1>2, <1>9, <2>3, <3>1, <3>2, ReleasedOther
  <2> QED BY <1>3, <2>1, <2>2, <2>3 DEF Undisturbed
<1> QED BY <1>3, <1>8, <1>9

LEMMA StrangerKeeps ==
    ASSUME Typed, FlowTyped, Linked, OwnStored, Undisturbed,
           NEW k \in PacketIds, StrangerReleases(k)
    PROVE  OwnStored' /\ Undisturbed'
<1>0. /\ cid[stranger] = NoId /\ NoId # Publisher /\ PubRel(stranger, k) /\ Forward
      /\ UNCHANGED <<stage, pid>>
  BY KnownConstants DEF StrangerReleases, Linked, client
<1>1. \A n \in Own : StageKept(n)
  BY <1>0 DEF StageKept
<1>2. InFlight' = InFlight
  BY <1>0 DEF InFlight
<1>3. /\ UNCHANGED <<handled, disturbed>>
      /\ \/ UNCHANGED <<qos2, forwarded>>
         \/ \E e \in Stored :
               /\ qos2[e] > 0 /\ e.cid = NoId
               /\ qos2' = [qos2 EXCEPT ![e] = @ - 1]
               /\ forwarded' = [forwarded EXCEPT ![e.pub.msg] = @ + 1]
  BY <1>0, ReleaseEffect
<1>4. CASE UNCHANGED <<qos2, forwarded>>
  BY <1>0, <1>1, <1>3, <1>4, OwnStoredAlone DEF StoreAlone
<1>5. ASSUME NEW e \in Stored, qos2[e] > 0, e.cid = NoId,
             qos2' = [qos2 EXCEPT ![e] = @ - 1],
             forwarded' = [forwarded EXCEPT ![e.pub.msg] = @ + 1]
      PROVE  OwnStored' /\ Undisturbed'
  <2>1. OwnStored'
    BY <1>0, <1>5, OwnStoredReleased
  <2>2. ASSUME NEW n \in Own \ disturbed' PROVE Alone(n)'
    <3>1. e # Key(n) /\ e.pub.msg # n
      BY <1>0, <1>5, KeyStored DEF OwnStored
    <3>2. Alone(n)
      BY <1>3, <2>2 DEF Undisturbed
    <3> QED BY <1>0, <1>1, <1>2, <1>5, <2>2, <3>1, <3>2, ReleasedOther
  <2> QED BY <2>1, <2>2 DEF Undisturbed
<1> QED BY <1>3, <1>4, <1>5

LEMMA UndisturbedStep ==
    FlowTyped /\ Typed /\ Linked /\ OwnStored /\ Undisturbed /\ [FlowNext]_flowVars
        => OwnStored' /\ Undisturbed'
<1> SUFFICES ASSUME FlowTyped, Typed, Linked, OwnStored, Undisturbed, [FlowNext]_flowVars
             PROVE  OwnStored' /\ Undisturbed'
  OBVIOUS
<1>1. ASSUME NEW f \in Fds, Dial(f) \/ StrangerDials(f) \/ Notice(f) PROVE OwnStored' /\ Undisturbed'
  BY <1>1, AloneSteps, StagesKept, OwnStoredAlone
<1>2. ASSUME NEW clean \in BOOLEAN, SayConnect(clean) PROVE OwnStored' /\ Undisturbed'
  BY <1>2, AloneSteps, StagesKept, OwnStoredAlone
<1>3. ASSUME NEW a, Receive(a) PROVE OwnStored' /\ Undisturbed'
  BY <1>3, AloneSteps, StagesKept, OwnStoredAlone
<1>4. CASE Break \/ Close \/ UNCHANGED flowVars
  BY <1>4, AloneSteps, StagesKept, OwnStoredAlone
<1>5. ASSUME NEW m \in Own, Proceed(m) PROVE OwnStored' /\ Undisturbed'
  BY <1>5, SendKeeps, RepeatKeeps, PubRelKeeps DEF Proceed
<1>6. CASE Stranger
  BY <1>1, <1>6, StrangerStores, StrangerKeeps DEF Stranger
<1> QED BY <1>1, <1>2, <1>3, <1>4, <1>5, <1>6 DEF FlowNext, Reconnect, Deliver

-----------------------------------------------------------------------------
(* The theorems. *)

FlowInv == FlowTyped /\ Linked /\ OwnStored /\ Undisturbed /\ Counted

LEMMA FlowInvInit == FlowInit => FlowInv
<1> SUFFICES ASSUME FlowInit PROVE FlowInv
  OBVIOUS
<1>1. FlowTyped
  BY FlowTypedInit
<1>2. Linked
  BY DEF FlowInit, Linked
<1>3. \A e \in Stored : qos2[e] = 0
  BY DEF FlowInit, Init
<1>4. OwnStored
  BY <1>3 DEF OwnStored
<1>5. Undisturbed
  BY KnownConstants DEF FlowInit, Undisturbed, Alone
<1>6. Counted
  <2>1. MaxCopies \in Nat
    BY FlowAssumption
  <2>2. \A m \in Msgs : StoredCopies(m) = {}
    BY <1>3, <2>1 DEF StoredCopies
  <2>3. \A m \in Msgs : handled[m] = 0 /\ forwarded[m] = 0
    BY DEF FlowInit
  <2>4. \A e \in Stored : qos2[e] <= MaxCopies
    BY <1>3, <2>1
  <2> QED BY <2>2, <2>3, <2>4, FS_EmptySet DEF Counted
<1> QED BY <1>1, <1>2, <1>4, <1>5, <1>6 DEF FlowInv

\* Whatever the publisher and the stranger do, what the broker does meanwhile is
\* a behaviour of Broker: what is proved of the packet handlers holds here too.
THEOREM FlowRunsBroker == FlowSpec => Spec
<1>1. FlowInit => Init /\ Typed /\ FlowTyped
  BY TypedInit, FlowTypedInit DEF FlowInit
<1>2. FlowTyped /\ Typed /\ [FlowNext]_flowVars => [Next]_vars /\ FlowTyped'
  BY FlowSteps, FlowTypedStep
<1>3. Typed /\ [Next]_vars => Typed'
  BY TypedStep
<1> QED BY <1>1, <1>2, <1>3, PTL DEF FlowSpec, Spec

\* The inductive invariant: types, who is at the end of the two connections, what
\* qos_2_topics can hold of the publisher's messages, and each message counted.
THEOREM FlowInvariant == FlowSpec => [](FlowInv /\ Typed)
<1>1. FlowInit => FlowInv /\ Typed
  BY FlowInvInit, TypedInit DEF FlowInit
<1>2. FlowInv /\ Typed /\ [FlowNext]_flowVars => FlowInv'
  BY FlowTypedStep, LinkedStep, UndisturbedStep, CountedStep DEF FlowInv
<1>3. FlowInv /\ Typed /\ [FlowNext]_flowVars => Typed'
  BY FlowSteps, TypedStep DEF FlowInv
<1> QED BY <1>1, <1>2, <1>3, PTL DEF FlowSpec

\* No message is lost or made up between PUBLISH and NotifyClients: every PUBLISH
\* that HandlePublish stored has been forwarded by HandlePubRel or is in
\* qos_2_topics still, whoever connected, broke off or repeated in between.
THEOREM MessagesConserved == FlowSpec => []Conserved
<1>1. FlowInv => Conserved
  BY DEF FlowInv, Counted, Conserved
<1> QED BY <1>1, FlowInvariant, PTL

\* Exactly once: HandlePubRel forwards a message whose client id and packet id
\* nothing else in qos_2_topics had once, after its own PUBREL, and never again.
THEOREM ForwardedOnce == FlowSpec => []OnceUndisturbed
<1>1. ASSUME FlowInv, Typed PROVE OnceUndisturbed
  <2> SUFFICES ASSUME NEW m \in Own \ disturbed
               PROVE  /\ forwarded[m] <= 1
                      /\ forwarded[m] = 1 => stage[m] \in {"rel", "done", "dropped"}
                      /\ stage[m] = "done" => forwarded[m] = 1
    BY DEF OnceUndisturbed
  <2>1. Alone(m) /\ forwarded[m] \in Nat
        /\ stage[m] \in {"new", "sent", "rec", "rel", "done", "dropped"}
    BY <1>1, KnownConstants DEF FlowInv, Undisturbed, FlowTyped
  <2>2. stage[m] # "new" => qos2[Key(m)] \in Nat
    BY <1>1, KeyStored DEF FlowInv, Typed, TypeOK
  <2>3. forwarded[m] <= 1
    BY <2>1, <2>2 DEF Alone
  <2> QED BY <2>1, <2>3 DEF Alone
<1> QED BY <1>1, FlowInvariant, PTL
=============================================================================
