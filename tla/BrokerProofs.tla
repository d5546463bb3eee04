---------------------------- MODULE BrokerProofs ----------------------------
(***************************************************************************)
(* Proofs about Broker, for every set of descriptors, ids, topics, filters *)
(* and options.                                                            *)
(***************************************************************************)
EXTENDS Broker, TLAPS, FiniteSetTheorems, SequenceTheorems

\* The part of the induction that needs nothing else: types, and that no
\* packet is ever postponed.
Typed == TypeOK /\ NoPostponed

-----------------------------------------------------------------------------
(* Lemmas about the operators. *)

\* An answer is a packet.
LEMMA AnswerType ==
    ASSUME NEW t \in {"CONNACK", "PUBACK", "PUBREC", "PUBREL", "PUBCOMP", "SUBACK",
                      "UNSUBACK", "PINGRESP", "DISCONNECT"},
           NEW pid \in Nat
    PROVE  Answer(t, pid) \in Packet
BY DEF Answer, Packet

\* A queued publication is a packet.
LEMMA PublishType ==
    ASSUME NEW t \in {"PUBLISH", "PUBCOMP", "UNSUBACK", "AUTH"}, NEW p \in Publication,
           NEW q \in 0..3, NEW pid \in Nat, NEW d \in BOOLEAN
    PROVE  PublishPacket(t, p, q, pid, d) \in Packet
BY DEF PublishPacket, Packet

\* The QoS bits of an option byte are between 0 and 3.
LEMMA HeaderQoSType ==
    ASSUME NEW byte \in Options
    PROVE  HeaderQoS(byte) \in 0..3
<1>1. byte \in Nat
  BY BrokerAssumption
<1> QED BY <1>1 DEF HeaderQoS

\* The type of the header NotifyClient builds.
LEMMA HeaderTypeType ==
    ASSUME NEW byte \in Options
    PROVE  HeaderType(byte) \in {"PUBLISH", "PUBCOMP", "UNSUBACK", "AUTH"}
<1> DEFINE n == 1 + ((byte \div 32) % 4)
<1>1. byte \in Nat
  BY BrokerAssumption
<1>2. n \in 1..4
  BY <1>1
<1> HIDE DEF n
<1>3. <<"PUBLISH", "PUBCOMP", "UNSUBACK", "AUTH">>[n] \in
          {"PUBLISH", "PUBCOMP", "UNSUBACK", "AUTH"}
  BY <1>2
<1> QED BY <1>3 DEF HeaderType, n

\* Commands queued for one descriptor.
LEMMA QueueType ==
    ASSUME NEW f \in Fds, NEW packets \in Seq(Packet)
    PROVE  /\ Quiet \in [Fds -> Seq(Packet)]
           /\ Queue(f, packets) \in [Fds -> Seq(Packet)]
<1>1. Quiet \in [Fds -> Seq(Packet)]
  <2>1. <<>> \in Seq(Packet)
    OBVIOUS
  <2> QED BY <2>1, Zenon DEF Quiet
<1>2. Queue(f, packets) \in [Fds -> Seq(Packet)]
  BY <1>1 DEF Queue
<1> QED BY <1>1, <1>2

\* With nothing postponed, DelQosEvent changes nothing and GetPacket finds
\* nothing.
LEMMA NothingPostponed ==
    ASSUME Typed, NEW c \in Ids, NEW pid
    PROVE  /\ DelQosEvent(c, pid) = postponed
           /\ ~CheckIfMoreMessages(postponed, c)
           /\ GetPacket(postponed, c) = <<>>
BY DEF Typed, NoPostponed, DelQosEvent, CheckIfMoreMessages, GetPacket

\* NotifyClients keeps the types and postpones nothing.
LEMMA NotifyClientsTyped ==
    ASSUME Typed, NEW p \in Publication, NEW first \in [Fds -> Seq(Packet)],
           NotifyClients(p, first, postponed)
    PROVE  /\ postponed' = postponed
           /\ gen' \in [Fds -> 0..(PacketIdMod - 1)]
           /\ fault' \in {"none", "assert", "oob"}
           /\ cmds' \in [Fds -> Seq(Packet)]
           /\ notified' = p
<1> DEFINE qos(o, f) == HeaderQoS(o[f])
           got(o) == {f \in Fds : o[f] # NoSub}
           pub(o, f, dup) == PublishPacket("PUBLISH", p, qos(o, f),
                                IF qos(o, f) = 0 THEN 0 ELSE gen[f], dup)
           kept(o) == {f \in got(o) : qos(o, f) > 0 /\ CheckIfMoreMessages(postponed, cid[f])}
           Nothing(reason) == /\ fault' = reason /\ cmds' = first
                              /\ postponed' = postponed /\ gen' = gen
           Effect(o) ==
             IF \E f \in got(o) : ~SizeMatches(qos(o, f), pub(o, f, FALSE).pid)
             THEN Nothing("assert")
             ELSE /\ fault' = "none"
                  /\ gen' = [f \in Fds |-> IF f \in got(o) /\ qos(o, f) > 0
                                           THEN (gen[f] + 1) % PacketIdMod ELSE gen[f]]
                  /\ cmds' = [f \in Fds |-> IF f \in got(o) \ kept(o)
                                 THEN Append(first[f], pub(o, f, FALSE)) ELSE first[f]]
                  /\ kept(o) = {} => postponed' = postponed
<1>1. gen \in [Fds -> 0..(PacketIdMod - 1)] /\ cid \in [Fds -> Ids]
  BY DEF Typed, TypeOK
<1>2. /\ notified' = p
      /\ Nothing("oob") \/ \E o \in [Fds -> Options \union {NoSub}] : Effect(o)
  BY DEF NotifyClients
<1>3. CASE Nothing("oob")
  BY <1>1, <1>2, <1>3
<1>4. ASSUME NEW o \in [Fds -> Options \union {NoSub}], Effect(o)
      PROVE  /\ postponed' = postponed
             /\ gen' \in [Fds -> 0..(PacketIdMod - 1)]
             /\ fault' \in {"none", "assert", "oob"}
             /\ cmds' \in [Fds -> Seq(Packet)]
  <2>1. kept(o) = {}
    BY <1>1, NothingPostponed
  <2>2. \A f \in got(o) : Append(first[f], pub(o, f, FALSE)) \in Seq(Packet)
    <3> SUFFICES ASSUME NEW f \in got(o)
                 PROVE  Append(first[f], pub(o, f, FALSE)) \in Seq(Packet)
      OBVIOUS
    <3>1. qos(o, f) \in 0..3
      BY HeaderQoSType
    <3>2. (IF qos(o, f) = 0 THEN 0 ELSE gen[f]) \in Nat
      BY <1>1, BrokerAssumption
    <3>3. pub(o, f, FALSE) \in Packet
      <4> HIDE DEF qos
      <4> QED BY <3>1, <3>2, PublishType
    <3>4. first[f] \in Seq(Packet)
      OBVIOUS
    <3> HIDE DEF pub
    <3> QED BY <3>3, <3>4, AppendProperties
  <2>3. \A f \in Fds : (gen[f] + 1) % PacketIdMod \in 0..(PacketIdMod - 1)
    BY <1>1, BrokerAssumption
  <2> HIDE DEF qos, pub, kept
  <2>4. CASE Nothing("assert")
    BY <1>1, <2>4
  <2>5. CASE ~Nothing("assert")
    <3>1. /\ fault' = "none"
          /\ gen' = [f \in Fds |-> IF f \in got(o) /\ qos(o, f) > 0
                                   THEN (gen[f] + 1) % PacketIdMod ELSE gen[f]]
          /\ cmds' = [f \in Fds |-> IF f \in got(o) \ kept(o)
                         THEN Append(first[f], pub(o, f, FALSE)) ELSE first[f]]
          /\ postponed' = postponed
      BY <1>4, <2>1, <2>5
    <3>2. gen' \in [Fds -> 0..(PacketIdMod - 1)]
      BY <1>1, <2>3, <3>1
    <3>3. \A f \in Fds : (IF f \in got(o) \ kept(o) THEN Append(first[f], pub(o, f, FALSE))
                          ELSE first[f]) \in Seq(Packet)
      BY <2>2
    <3>4. cmds' \in [Fds -> Seq(Packet)]
      BY <3>1, <3>3, Zenon
    <3> QED BY <3>1, <3>2, <3>4
  <2> QED BY <2>4, <2>5
<1> QED BY <1>2, <1>3, <1>4

\* An order of a finite set of topics is a sequence of them.
LEMMA OrdersType ==
    ASSUME NEW S \in SUBSET Topics, NEW order \in Orders(S)
    PROVE  /\ order \in Seq(S)
           /\ Len(order) = Cardinality(S)
           /\ DOMAIN order = 1..Len(order)
<1>1. IsFiniteSet(S)
  BY FS_Subset, BrokerAssumption
<1>2. Cardinality(S) \in Nat
  BY <1>1, FS_CardinalityType
<1>3. order \in [1..Cardinality(S) -> S]
  BY DEF Orders
<1> QED BY <1>2, <1>3

\* NotifyClient keeps the types and postpones nothing.
LEMMA NotifyClientTyped ==
    ASSUME Typed, NEW f \in Fds, NEW byte \in Options,
           NEW S \in SUBSET {t \in Topics : retained[t] # NoMsg},
           NEW order \in Orders(S),
           NotifyClient(f, order, byte)
    PROVE  /\ postponed' = postponed
           /\ gen' \in [Fds -> 0..(PacketIdMod - 1)]
           /\ fault' \in {"none", "assert"}
           /\ cmds' \in [Fds -> Seq(Packet)]
<1> DEFINE pid(i) == IF byte = 0 THEN 0 ELSE (gen[f] + i - 1) % PacketIdMod
           pub(i) == PublishPacket(HeaderType(byte),
                        [topic |-> order[i], msg |-> retained[order[i]]],
                        HeaderQoS(byte), pid(i), FALSE \/ HeaderDup(byte))
           all == [i \in DOMAIN order |-> pub(i)]
           ack == <<Answer("SUBACK", 0)>>
<1>1. /\ gen \in [Fds -> 0..(PacketIdMod - 1)] /\ cid[f] \in Ids
      /\ retained \in [Topics -> Msgs \union {NoMsg}]
      /\ postponed \in [Ids -> Seq(Packet)]
  BY DEF Typed, TypeOK
<1>2. order \in Seq(S) /\ DOMAIN order = 1..Len(order) /\ Len(order) \in Nat
  <2>1. S \in SUBSET Topics
    OBVIOUS
  <2> QED BY <2>1, OrdersType
<1>3. \A i \in 1..Len(order) : pub(i) \in Packet
  <2> SUFFICES ASSUME NEW i \in 1..Len(order) PROVE pub(i) \in Packet
    OBVIOUS
  <2>1. order[i] \in S
    BY <1>2
  <2>2. [topic |-> order[i], msg |-> retained[order[i]]] \in Publication
    BY <1>1, <2>1 DEF Publication
  <2>3. pid(i) \in Nat
    BY <1>1, BrokerAssumption
  <2>4. (FALSE \/ HeaderDup(byte)) \in BOOLEAN
    BY DEF HeaderDup
  <2> HIDE DEF pid
  <2> QED BY <2>2, <2>3, <2>4, HeaderTypeType, HeaderQoSType, PublishType
<1>4. ack \in Seq(Packet)
  BY AnswerType
<1>5. ack \o all \in Seq(Packet)
  <2> HIDE DEF pub
  <2>1. all \in Seq(Packet)
    BY <1>2, <1>3
  <2> HIDE DEF ack, all
  <2> QED BY <1>4, <2>1, ConcatProperties
<1>6. ~CheckIfMoreMessages(postponed, cid[f])
  BY <1>1, NothingPostponed
<1>7. \/ fault' = "assert" /\ cmds' = Queue(f, ack) /\ gen' = gen /\ postponed' = postponed
      \/ /\ fault' = "none" /\ cmds' = Queue(f, ack \o all) /\ postponed' = postponed
         /\ gen' = IF byte = 0 THEN gen
                   ELSE [gen EXCEPT ![f] = (@ + Len(order)) % PacketIdMod]
  BY <1>6 DEF NotifyClient
<1>8. (gen[f] + Len(order)) % PacketIdMod \in 0..(PacketIdMod - 1)
  BY <1>1, <1>2, BrokerAssumption
<1>9. gen' \in [Fds -> 0..(PacketIdMod - 1)]
  BY <1>1, <1>7, <1>8
<1> HIDE DEF ack, all
<1> QED BY <1>4, <1>5, <1>7, <1>9, QueueType

-----------------------------------------------------------------------------
(* Types, and nothing postponed. *)

\* The broker starts well typed and with nothing postponed.
LEMMA TypedInit == Init => Typed
<1> SUFFICES ASSUME Init PROVE Typed
  OBVIOUS
<1>1. 1 \in 0..(PacketIdMod - 1)
  BY BrokerAssumption
<1>2. \A S : <<>> \in Seq(S)
  OBVIOUS
<1>3. NoSubs \in [Filters -> Options \union {NoSub}]
  BY DEF NoSubs
<1>4. /\ postponed \in [Ids -> Seq(Packet)] /\ NoPostponed
  BY <1>2, Zenon DEF Init, NoPostponed
<1>5. cmds \in [Fds -> Seq(Packet)]
  BY <1>2, Zenon DEF Init, Quiet
<1>6. /\ cid \in [Fds -> Ids] /\ subs \in [Fds -> [Filters -> Options \union {NoSub}]]
      /\ will \in [Fds -> Publication \union {NoPublication}]
  BY <1>3 DEF Init, Ids
<1>7. /\ gen \in [Fds -> 0..(PacketIdMod - 1)]
      /\ subscribed \in [Fds -> {"none", "live", "expired"}]
      /\ retained \in [Topics -> Msgs \union {NoMsg}]
      /\ qos2 \in [Stored -> Nat]
  BY <1>1 DEF Init, FirstPacketId
<1>8. /\ clients \subseteq Fds /\ doomed \subseteq Fds /\ randomised \subseteq RandomIds
      /\ fault = "none" /\ notified = NoPublication
  BY DEF Init
<1> QED BY <1>4, <1>5, <1>6, <1>7, <1>8 DEF Typed, TypeOK

\* Every step keeps the types and postpones nothing.
LEMMA TypedStep == Typed /\ [Next]_vars => Typed'
<1> SUFFICES ASSUME Typed, [Next]_vars PROVE Typed'
  OBVIOUS
<1> USE DEF Typed, NoNotify
<1>0. /\ NoSubs \in [Filters -> Options \union {NoSub}]
      /\ FirstPacketId \in 0..(PacketIdMod - 1)
      /\ Quiet \in [Fds -> Seq(Packet)]
      /\ NoId \in Ids /\ ClientIds \union RandomIds \subseteq Ids
  <2>1. Quiet \in [Fds -> Seq(Packet)]
    <3>1. <<>> \in Seq(Packet)
      OBVIOUS
    <3> QED BY <3>1, Zenon DEF Quiet
  <2> QED BY <2>1, BrokerAssumption DEF NoSubs, FirstPacketId, Ids
<1>1. CASE UNCHANGED vars
  BY <1>1 DEF vars, TypeOK, NoPostponed
<1>2. CASE ClosePass
  <2>1. CASE doomed \subseteq clients
    <3>1. /\ cid' \in [Fds -> Ids] /\ will' \in [Fds -> Publication \union {NoPublication}]
          /\ clients' \subseteq Fds /\ subscribed' \in [Fds -> {"none", "live", "expired"}]
      BY <1>0, <1>2, <2>1 DEF ClosePass, CloseConnection, TypeOK
    <3>2. /\ subs' \in [Fds -> [Filters -> Options \union {NoSub}]]
          /\ gen' \in [Fds -> 0..(PacketIdMod - 1)]
      BY <1>0, <1>2, <2>1 DEF ClosePass, TypeOK
    <3> QED BY <1>0, <1>2, <2>1, <3>1, <3>2 DEF ClosePass, TypeOK, NoPostponed
  <2>2. CASE ~(doomed \subseteq clients)
    BY <1>0, <1>2, <2>2 DEF ClosePass, TypeOK, NoPostponed
  <2> QED BY <2>1, <2>2
<1>3. ASSUME NEW f \in Fds, AddClient(f) PROVE Typed'
  BY <1>0, <1>3 DEF AddClient, TypeOK, NoPostponed
<1>4. ASSUME NEW f \in Fds, ConnectRefused(f) \/ Leave(f) PROVE Typed'
  BY <1>0, <1>4 DEF ConnectRefused, Leave, GiveUp, TypeOK, NoPostponed, conn
<1>5. ASSUME NEW f \in Fds, NEW w \in Publication \union {NoPublication},
             NEW late \in BOOLEAN, Connect(f, w, late)
      PROVE  Typed'
  <2>1. cmds' \in [Fds -> Seq(Packet)]
    <3>1. <<Answer("CONNACK", 0)>> \in Seq(Packet)
      BY AnswerType
    <3> QED BY <1>0, <1>5, <3>1, QueueType DEF Connect
  <2>2. PICK id \in ClientIds \union RandomIds, closed \in SUBSET clients :
          /\ randomised' \subseteq RandomIds
          /\ CloseConnection(closed)
          /\ cid' = [g \in Fds |-> IF g \in closed THEN NoId
                                   ELSE IF g = f THEN id ELSE cid[g]]
          /\ will' = [g \in Fds |-> IF g \in closed THEN NoPublication
                                    ELSE IF g = f THEN w ELSE will[g]]
          /\ subs' = [g \in Fds |-> IF g \in closed THEN NoSubs ELSE subs[g]]
          /\ gen' = [g \in Fds |-> IF g \in closed THEN FirstPacketId ELSE gen[g]]
    BY <1>5 DEF Connect, TypeOK
  <2>3. /\ cid' \in [Fds -> Ids] /\ will' \in [Fds -> Publication \union {NoPublication}]
    BY <1>0, <2>2 DEF TypeOK
  <2>4. /\ subs' \in [Fds -> [Filters -> Options \union {NoSub}]]
        /\ gen' \in [Fds -> 0..(PacketIdMod - 1)]
    BY <1>0, <2>2 DEF TypeOK
  <2>5. clients' \subseteq Fds /\ subscribed' \in [Fds -> {"none", "live", "expired"}]
    BY <2>2 DEF CloseConnection, TypeOK
  <2> QED BY <1>5, <2>1, <2>2, <2>3, <2>4, <2>5 DEF Connect, TypeOK, NoPostponed
<1>6. ASSUME NEW f \in Fds, NEW timeout \in BOOLEAN, Lost(f, timeout) PROVE Typed'
  <2> DEFINE first == IF timeout THEN Queue(f, <<Answer("DISCONNECT", 0)>>) ELSE Quiet
  <2>1. first \in [Fds -> Seq(Packet)]
    <3>1. <<Answer("DISCONNECT", 0)>> \in Seq(Packet)
      BY AnswerType
    <3> QED BY <1>0, <3>1, QueueType
  <2> HIDE DEF first
  <2>2. CASE will[f] = NoPublication
    <3>1. /\ cmds' = first /\ UNCHANGED <<conn, gen, retained, qos2, postponed>>
          /\ doomed' = doomed \union {f} /\ notified' = NoPublication /\ fault' = "none"
      BY <1>6, <2>2 DEF Lost, first
    <3> QED BY <2>1, <3>1 DEF TypeOK, NoPostponed, conn
  <2>3. CASE will[f] # NoPublication
    <3>1. will[f] \in Publication /\ NotifyClients(will[f], first, postponed)
      BY <1>6, <2>3 DEF Lost, TypeOK, first
    <3> QED BY <1>6, <2>1, <3>1, NotifyClientsTyped DEF Lost, TypeOK, NoPostponed, conn
  <2> QED BY <2>2, <2>3
<1>7. ASSUME NEW f \in Fds, NEW p \in Publication, NEW qos \in 0..1,
             NEW pid \in PacketIds, NEW retain \in BOOLEAN, Publish(f, p, qos, pid, retain)
      PROVE  Typed'
  <2> DEFINE first == IF qos = 1 THEN Queue(f, <<Answer("PUBACK", pid)>>) ELSE Quiet
  <2>1. first \in [Fds -> Seq(Packet)]
    <3>1. <<Answer("PUBACK", pid)>> \in Seq(Packet)
      BY AnswerType, BrokerAssumption
    <3> QED BY <1>0, <3>1, QueueType
  <2> HIDE DEF first
  <2>2. NotifyClients(p, first, postponed)
    BY <1>7 DEF Publish, first
  <2>3. retained' \in [Topics -> Msgs \union {NoMsg}]
    BY <1>7 DEF Publish, StoreTopicValue, TypeOK, Publication
  <2> QED BY <1>7, <2>1, <2>2, <2>3, NotifyClientsTyped
          DEF Publish, TypeOK, NoPostponed, conn
<1>8. ASSUME NEW f \in Fds, NEW p \in Publication,
             NEW pid \in PacketIds, NEW retain \in BOOLEAN, PublishQoS2(f, p, pid, retain)
      PROVE  Typed'
  <2>1. /\ postponed' = postponed
        /\ cmds' = Queue(f, <<Answer("PUBREC", pid)>>)
    BY <1>8, NothingPostponed DEF PublishQoS2, TypeOK
  <2>2. cmds' \in [Fds -> Seq(Packet)]
    <3>1. <<Answer("PUBREC", pid)>> \in Seq(Packet)
      BY AnswerType, BrokerAssumption
    <3> QED BY <2>1, <3>1, QueueType
  <2>3. retained' \in [Topics -> Msgs \union {NoMsg}]
    BY <1>8 DEF PublishQoS2, StoreTopicValue, TypeOK, Publication
  <2>4. qos2' \in [Stored -> Nat]
    <3>1. [cid |-> cid[f], pid |-> pid, pub |-> p] \in Stored
      BY DEF TypeOK, Stored
    <3>2. qos2[[cid |-> cid[f], pid |-> pid, pub |-> p]] \in Nat
      BY <3>1 DEF TypeOK
    <3> QED BY <1>8, <3>1, <3>2 DEF PublishQoS2, TypeOK
  <2> QED BY <1>8, <2>1, <2>2, <2>3, <2>4 DEF PublishQoS2, TypeOK, NoPostponed, conn
<1>9. ASSUME NEW f \in Fds, NEW pid \in PacketIds, PubRel(f, pid) PROVE Typed'
  <2> DEFINE first == Queue(f, <<Answer("PUBCOMP", pid)>> \o <<>>)
  <2>1. first \in [Fds -> Seq(Packet)]
    <3>1. <<Answer("PUBCOMP", pid)>> \o <<>> \in Seq(Packet)
      <4>1. <<Answer("PUBCOMP", pid)>> \in Seq(Packet)
        BY AnswerType, BrokerAssumption
      <4> HIDE DEF Answer
      <4> QED BY <4>1, EmptySeq, ConcatProperties
    <3> QED BY <3>1, QueueType
  <2> HIDE DEF first
  <2>2. /\ DelQosEvent(cid[f], pid) = postponed
        /\ GetPacket(postponed, cid[f]) = <<>>
    BY NothingPostponed DEF TypeOK
  <2>3. CASE GetQoSTopic(cid[f], pid) = {}
    <3>1. /\ cmds' = first /\ postponed' = postponed /\ UNCHANGED <<gen, qos2>>
          /\ notified' = NoPublication /\ fault' = "none"
      BY <1>9, <2>2, <2>3 DEF PubRel, DelQoSTopic, first
    <3> QED BY <1>9, <2>1, <3>1 DEF PubRel, DelQoSTopic, TypeOK, NoPostponed, conn
  <2>4. CASE GetQoSTopic(cid[f], pid) # {}
    <3>1. PICK e \in GetQoSTopic(cid[f], pid) :
             /\ NotifyClients(e.pub, first, postponed)
             /\ qos2' = [qos2 EXCEPT ![e] = @ - 1]
      BY <1>9, <2>2, <2>4 DEF PubRel, DelQoSTopic, first
    <3>2. e \in Stored /\ e.pub \in Publication /\ qos2[e] > 0
      BY DEF GetQoSTopic, Stored
    <3>3. qos2' \in [Stored -> Nat]
      BY <3>1, <3>2 DEF TypeOK
    <3> QED BY <1>9, <2>1, <3>1, <3>2, <3>3, NotifyClientsTyped
            DEF PubRel, DelQoSTopic, TypeOK, NoPostponed, conn
  <2> QED BY <2>3, <2>4
<1>10. ASSUME NEW f \in Fds, NEW pid \in Nat,
              PubAck(f, pid) \/ PubRec(f, pid) \/ PubComp(f) \/ PingReq(f)
       PROVE  Typed'
  <2>1. /\ DelQosEvent(cid[f], pid) = postponed
        /\ GetPacket(postponed, cid[f]) = <<>>
    BY NothingPostponed DEF TypeOK
  <2>2. /\ <<>> \in Seq(Packet)
        /\ <<Answer("PUBREL", pid)>> \in Seq(Packet)
        /\ <<Answer("PINGRESP", 0)>> \in Seq(Packet)
    BY AnswerType
  <2>3. PICK packets \in Seq(Packet) : Reply(f, packets, postponed) /\ UNCHANGED conn
    BY <1>10, <2>1, <2>2, Zenon DEF PubAck, PubRec, PubComp, PingReq
  <2> QED BY <2>3, QueueType DEF Reply, TypeOK, NoPostponed, conn
<1>11. ASSUME NEW f \in Fds, NEW x \in Filters, NEW byte \in Options, Subscribe(f, x, byte)
       PROVE  Typed'
  <2>1. subs' \in [Fds -> [Filters -> Options \union {NoSub}]]
    BY <1>11 DEF Subscribe, TypeOK
  <2>2. subscribed' \in [Fds -> {"none", "live", "expired"}]
    BY <1>11 DEF Subscribe, AddSubscribedClient, TypeOK
  <2>3. /\ postponed' = postponed
        /\ gen' \in [Fds -> 0..(PacketIdMod - 1)]
        /\ fault' \in {"none", "assert", "oob"}
        /\ cmds' \in [Fds -> Seq(Packet)]
    <3> DEFINE matched == {t \in {u \in Topics : retained[u] # NoMsg} :
                             GetMatched(x, t).matched}
    <3>1. CASE /\ fault' = "oob" /\ cmds' = Queue(f, <<Answer("SUBACK", 0)>>)
               /\ UNCHANGED <<gen, postponed>>
      <4>1. <<Answer("SUBACK", 0)>> \in Seq(Packet)
        BY AnswerType
      <4> QED BY <3>1, <4>1, QueueType DEF TypeOK
    <3>2. ASSUME NEW order \in Orders(matched), NotifyClient(f, order, byte)
          PROVE  /\ postponed' = postponed
                 /\ gen' \in [Fds -> 0..(PacketIdMod - 1)]
                 /\ fault' \in {"none", "assert"}
                 /\ cmds' \in [Fds -> Seq(Packet)]
      <4>1. matched \in SUBSET {t \in Topics : retained[t] # NoMsg}
        OBVIOUS
      <4> HIDE DEF matched, Typed
      <4> QED BY <3>2, <4>1, NotifyClientTyped
    <3> QED BY <1>11, <3>1, <3>2 DEF Subscribe
  <2> QED BY <1>11, <2>1, <2>2, <2>3 DEF Subscribe, TypeOK, NoPostponed
<1>12. ASSUME NEW f \in Fds, NEW x \in Filters, Unsubscribe(f, x) PROVE Typed'
  <2>1. cmds' \in [Fds -> Seq(Packet)]
    <3>1. <<Answer("UNSUBACK", 0)>> \in Seq(Packet)
      BY AnswerType
    <3> QED BY <1>12, <3>1, QueueType DEF Unsubscribe, Reply
  <2>2. subs' \in [Fds -> [Filters -> Options \union {NoSub}]]
    BY <1>12 DEF Unsubscribe, TypeOK
  <2> QED BY <1>12, <2>1, <2>2 DEF Unsubscribe, Reply, TypeOK, NoPostponed
<1>13. ASSUME NEW f \in Fds,
              PubComp(f) \/ PingReq(f) \/ \E pid \in PacketIds : PubAck(f, pid) \/ PubRec(f, pid)
       PROVE  Typed'
  <2>1. PacketIds \subseteq Nat /\ 0 \in Nat
    BY BrokerAssumption
  <2> HIDE DEF Typed
  <2> QED BY <1>10, <1>13, <2>1
<1> HIDE DEF Typed, NoNotify
<1> QED
  BY <1>1, <1>2, <1>3, <1>4, <1>5, <1>6, <1>7, <1>8, <1>9, <1>11, <1>12, <1>13
     DEF Next, Handle

\* In every reachable state the variables have their types, for all values of
\* the constants: packet ids stay within their width, multiplicities of stored
\* QoS 2 messages never become negative, queued packets are well formed.
THEOREM TypeCorrect == Spec => []TypeOK
<1>1. Typed => TypeOK
  BY DEF Typed
<1> QED BY <1>1, TypedInit, TypedStep, PTL DEF Spec

\* postponed_events stays empty for ever: AddQosEvent is only called behind a
\* check that it is not, so nothing the broker sends is ever sent again.
THEOREM NothingEverPostponed == Spec => []NoPostponed
<1>1. Typed => NoPostponed
  BY DEF Typed
<1> QED BY <1>1, TypedInit, TypedStep, PTL DEF Spec

-----------------------------------------------------------------------------
(* The index of subscribed clients. *)

\* Every step keeps the index exact: closing removes the entry with the client,
\* subscribing creates it, and a new client on an old descriptor has neither.
LEMMA IndexStep == TypeOK /\ SubscribedIndex /\ [Next]_vars => SubscribedIndex'
<1> SUFFICES ASSUME TypeOK, SubscribedIndex, [Next]_vars PROVE SubscribedIndex'
  OBVIOUS
<1> USE DEF SubscribedIndex
<1>1. CASE UNCHANGED vars
  BY <1>1 DEF vars
<1>2. CASE ClosePass
  <2>1. CASE doomed \subseteq clients
    <3>1. /\ clients' = clients \ doomed
          /\ subscribed' = [f \in Fds |-> IF f \in doomed THEN "none" ELSE subscribed[f]]
          /\ subs' = [f \in Fds |-> IF f \in doomed THEN NoSubs ELSE subs[f]]
      BY <1>2, <2>1 DEF ClosePass, CloseConnection
    <3> QED BY <3>1 DEF TypeOK
  <2>2. CASE ~(doomed \subseteq clients)
    BY <1>2, <2>2 DEF ClosePass
  <2> QED BY <2>1, <2>2
<1>3. ASSUME NEW f \in Fds, AddClient(f) PROVE SubscribedIndex'
  BY <1>3 DEF AddClient, TypeOK
<1>4. ASSUME NEW f \in Fds, NEW w, NEW late, Connect(f, w, late) PROVE SubscribedIndex'
  <2>1. PICK closed \in SUBSET clients :
          /\ CloseConnection(closed)
          /\ subs' = [g \in Fds |-> IF g \in closed THEN NoSubs ELSE subs[g]]
    BY <1>4 DEF Connect
  <2> QED BY <2>1 DEF CloseConnection, TypeOK
<1>5. ASSUME NEW f \in Fds, NEW x \in Filters, NEW byte, Subscribe(f, x, byte)
      PROVE  SubscribedIndex'
  BY <1>5 DEF Subscribe, AddSubscribedClient, Serves, TypeOK
<1>6. ASSUME NEW f \in Fds, NEW x \in Filters, Unsubscribe(f, x) PROVE SubscribedIndex'
  <2>1. f \in clients /\ UNCHANGED <<clients, subscribed>>
        /\ subs' = [subs EXCEPT ![f][x] = NoSub]
    BY <1>6 DEF Unsubscribe, Reply, Serves
  <2>2. subs[f] = NoSubs => subs'[f] = NoSubs
    BY <2>1 DEF NoSubs, TypeOK
  <2> QED BY <2>1, <2>2 DEF TypeOK
<1>7. CASE UNCHANGED conn
  BY <1>7 DEF conn
<1>8. ASSUME NEW f \in Fds, Handle(f) PROVE SubscribedIndex'
  BY <1>3, <1>4, <1>5, <1>6, <1>7, <1>8
     DEF Handle, ConnectRefused, Leave, GiveUp, Lost, Publish, PublishQoS2, PubRel, DelQoSTopic, PubAck,
         PubRec, PubComp, PingReq
<1> QED BY <1>1, <1>2, <1>8 DEF Next

\* subscribed_clients is exact for ever: the weak_ptr of an entry never
\* dangles and every client with a subscription has one, whatever descriptors
\* are closed, taken over and reused.
THEOREM IndexExact == Spec => []SubscribedIndex
<1>1. Init => SubscribedIndex
  BY DEF Init, SubscribedIndex
<1> QED BY <1>1, IndexStep, TypeCorrect, PTL DEF Spec

-----------------------------------------------------------------------------
(* Client ids. *)

\* Uniqueness is inductive together with this: an id of GenRandom that a
\* client has was really handed out by this run of the broker.
IdInv ==
    /\ UniqueClientId
    /\ \A f \in clients : cid[f] \in RandomIds => cid[f] \in randomised

\* Every step keeps IdInv: CONNECT either closes the one client with the id or
\* gives an id nobody has been given before.
LEMMA IdStep ==
    ASSUME PriorIds = {}
    PROVE  TypeOK /\ IdInv /\ [Next]_vars => IdInv'
<1> SUFFICES ASSUME TypeOK, IdInv, [Next]_vars PROVE IdInv'
  OBVIOUS
<1> USE DEF IdInv, UniqueClientId
<1>1. CASE UNCHANGED vars
  BY <1>1 DEF vars
<1>2. CASE ClosePass
  <2>1. CASE doomed \subseteq clients
    BY <1>2, <2>1 DEF ClosePass, CloseConnection, TypeOK
  <2>2. CASE ~(doomed \subseteq clients)
    BY <1>2, <2>2 DEF ClosePass
  <2> QED BY <2>1, <2>2
<1>3. ASSUME NEW f \in Fds, AddClient(f) PROVE IdInv'
  BY <1>3, BrokerAssumption DEF AddClient, TypeOK
<1>4. ASSUME NEW f \in Fds, NEW w, NEW late, Connect(f, w, late) PROVE IdInv'
  <2>1. PICK id \in ClientIds \union RandomIds, closed \in SUBSET clients :
          /\ \/ /\ id \in ClientIds \union randomised \union PriorIds
                /\ closed \in IF GetClientFd(id) = {} THEN {{}}
                              ELSE {{g} : g \in GetClientFd(id)}
                /\ UNCHANGED randomised
             \/ /\ id \in RandomIds \ randomised
                /\ closed = {}
                /\ randomised' = randomised \union {id}
          /\ clients' = clients \ closed
          /\ cid' = [g \in Fds |-> IF g \in closed THEN NoId
                                   ELSE IF g = f THEN id ELSE cid[g]]
    BY <1>4 DEF Connect, CloseConnection
  <2>2. id # NoId
    BY BrokerAssumption
  <2>3. \A g \in clients' : cid[g] # id
    <3>1. CASE id \in RandomIds \ randomised
      BY <2>1, <3>1
    <3>2. CASE id \notin RandomIds \ randomised
      <4>1. closed \in IF GetClientFd(id) = {} THEN {{}} ELSE {{g} : g \in GetClientFd(id)}
        BY <2>1, <3>2
      <4> QED BY <2>1, <2>2, <4>1 DEF GetClientFd
    <3> QED BY <3>1, <3>2
  <2>4. id \in RandomIds => id \in randomised'
    <3>1. ClientIds \cap RandomIds = {}
      BY BrokerAssumption
    <3> QED BY <2>1, <3>1
  <2>5. randomised \subseteq randomised'
    BY <2>1
  <2> QED BY <2>1, <2>3, <2>4, <2>5 DEF TypeOK
<1>5. CASE UNCHANGED <<clients, cid, randomised>>
  BY <1>5
<1>6. ASSUME NEW f \in Fds, Handle(f) PROVE IdInv'
  BY <1>3, <1>4, <1>5, <1>6
     DEF Handle, ConnectRefused, Leave, GiveUp, Lost, Publish, PublishQoS2, PubRel, DelQoSTopic, PubAck,
         PubRec, PubComp, PingReq, Subscribe, Unsubscribe, conn
<1> QED BY <1>1, <1>2, <1>6 DEF Next

\* As long as no client presents an id that an earlier run of the broker
\* generated, no two connected clients ever have the same id.
THEOREM IdsUnique ==
    ASSUME PriorIds = {}
    PROVE  Spec => []UniqueClientId
<1>1. Init => IdInv
  BY DEF Init, IdInv, UniqueClientId
<1>2. IdInv => UniqueClientId
  BY DEF IdInv
<1> QED BY <1>1, <1>2, IdStep, TypeCorrect, PTL DEF Spec

-----------------------------------------------------------------------------
(* Who receives a publication. *)

\* Commands queued before NotifyClients: answers only.
Answers == {first \in [Fds -> Seq(Packet)] :
              \A f \in Fds : \A i \in DOMAIN first[f] : first[f][i].type # "PUBLISH"}

\* A handler that has queued nothing before NotifyClients.
LEMMA QuietAnswers == Quiet \in Answers
<1>1. Quiet \in [Fds -> Seq(Packet)]
  <2>1. <<>> \in Seq(Packet)
    OBVIOUS
  <2> QED BY <2>1, Zenon DEF Quiet
<1>2. \A f \in Fds : DOMAIN Quiet[f] = {}
  BY DEF Quiet
<1> QED BY <1>1, <1>2 DEF Answers

\* A handler that has queued one answer before NotifyClients.
LEMMA QueueAnswers ==
    ASSUME NEW f \in Fds, NEW pid \in Nat,
           NEW t \in {"PUBACK", "PUBCOMP", "DISCONNECT"}
    PROVE  Queue(f, <<Answer(t, pid)>>) \in Answers
<1>1. <<Answer(t, pid)>> \in Seq(Packet)
  BY AnswerType
<1>2. Queue(f, <<Answer(t, pid)>>) \in [Fds -> Seq(Packet)]
  BY <1>1, QueueType
<1>3. ASSUME NEW g \in Fds, NEW i \in DOMAIN Queue(f, <<Answer(t, pid)>>)[g]
      PROVE  Queue(f, <<Answer(t, pid)>>)[g][i].type # "PUBLISH"
  <2>1. g # f => Queue(f, <<Answer(t, pid)>>)[g] = <<>>
    BY DEF Queue, Quiet
  <2>2. g = f => Queue(f, <<Answer(t, pid)>>)[g] = <<Answer(t, pid)>>
    BY DEF Queue, Quiet
  <2>3. g = f /\ i = 1
    BY <1>3, <2>1, <2>2
  <2> QED BY <2>2, <2>3 DEF Answer
<1> QED BY <1>2, <1>3 DEF Answers

\* NotifyClients queues one PUBLISH for each client that wants the topic.
LEMMA NotifyReaches ==
    ASSUME Typed, SubscribedIndex, NEW p \in Publication, NEW first \in Answers,
           NotifyClients(p, first, postponed), UNCHANGED <<clients, subs>>
    PROVE  EverySubscriberNotified'
<1> SUFFICES ASSUME fault' = "none", NEW g \in Fds
             PROVE  /\ Cardinality(Copies(g, p)') <= 1
                    /\ Copies(g, p)' # {} <=> g \in clients /\ Wants(g, p.topic)
  <2>1. notified' = p
    BY DEF NotifyClients
  <2>2. \A f : Wants(f, p.topic)' = Wants(f, p.topic)
    BY DEF Wants
  <2> QED BY <2>1, <2>2 DEF EverySubscriberNotified, Copies
<1> DEFINE qos(o, f) == HeaderQoS(o[f])
           got(o) == {f \in Fds : o[f] # NoSub}
           pub(o, f, dup) == PublishPacket("PUBLISH", p, qos(o, f),
                                IF qos(o, f) = 0 THEN 0 ELSE gen[f], dup)
           kept(o) == {f \in got(o) : qos(o, f) > 0 /\ CheckIfMoreMessages(postponed, cid[f])}
<1>1. PICK o \in [Fds -> Options \union {NoSub}] :
        /\ \A f \in Fds : o[f] \in IF subscribed[f] = "live"
                                   THEN MyTopic(f, p.topic) ELSE {NoSub}
        /\ cmds' = [f \in Fds |-> IF f \in got(o) \ kept(o)
                                  THEN Append(first[f], pub(o, f, FALSE)) ELSE first[f]]
  BY DEF NotifyClients
<1>2. kept(o) = {}
  BY NothingPostponed DEF Typed, TypeOK
<1>3. g \in got(o) <=> g \in clients /\ Wants(g, p.topic)
  <2>1. subs[g] \in [Filters -> Options \union {NoSub}]
    BY DEF Typed, TypeOK
  <2>2. NoSub \notin Hits(g, p.topic)
    BY DEF Hits
  <2>3. Hits(g, p.topic) # {} <=> Wants(g, p.topic)
    BY DEF Hits, Wants
  <2>4. CASE subscribed[g] = "live"
    BY <1>1, <2>2, <2>3, <2>4 DEF MyTopic, SubscribedIndex
  <2>5. CASE subscribed[g] # "live"
    <3>1. g \notin got(o)
      BY <1>1, <2>5
    <3>2. g \in clients => ~Wants(g, p.topic)
      BY <2>5 DEF SubscribedIndex, NoSubs, Wants
    <3> QED BY <3>1, <3>2
  <2> QED BY <2>4, <2>5
<1>4. first[g] \in Seq(Packet) /\ \A i \in DOMAIN first[g] : first[g][i].type # "PUBLISH"
  BY DEF Answers
<1>5. Copies(g, p)' = {i \in DOMAIN cmds'[g] : cmds'[g][i].type = "PUBLISH" /\ cmds'[g][i].pub = p}
  BY DEF Copies
<1>6. CASE g \in got(o)
  <2> DEFINE n == Len(first[g]) + 1
  <2>1. cmds'[g] = Append(first[g], pub(o, g, FALSE))
    BY <1>1, <1>2, <1>6
  <2>2. pub(o, g, FALSE).type = "PUBLISH" /\ pub(o, g, FALSE).pub = p
    BY DEF PublishPacket
  <2>3. pub(o, g, FALSE) \in Packet
    <3>1. o[g] \in Options
      BY <1>6 DEF got
    <3>2. qos(o, g) \in 0..3
      BY <3>1, HeaderQoSType
    <3>3. gen[g] \in Nat
      BY BrokerAssumption DEF Typed, TypeOK
    <3> QED BY <3>2, <3>3, PublishType
  <2> DEFINE new == pub(o, g, FALSE)
  <2> HIDE DEF pub, qos, new
  <2>4. /\ Len(first[g]) \in Nat
        /\ DOMAIN first[g] = 1..Len(first[g])
    BY <1>4, LenProperties
  <2>5. /\ Len(cmds'[g]) = n
        /\ \A i \in 1..Len(first[g]) : cmds'[g][i] = first[g][i]
        /\ cmds'[g][n] = new
        /\ cmds'[g] \in Seq(Packet)
    <3>1. cmds'[g] = Append(first[g], new) /\ new \in Packet
      BY <2>1, <2>3 DEF new
    <3>2. /\ Append(first[g], new) \in Seq(Packet)
          /\ Len(Append(first[g], new)) = Len(first[g]) + 1
          /\ \A i \in 1..Len(first[g]) : Append(first[g], new)[i] = first[g][i]
          /\ Append(first[g], new)[Len(first[g]) + 1] = new
      BY <1>4, <3>1, AppendProperties
    <3> QED BY <3>1, <3>2
  <2>6. DOMAIN cmds'[g] = 1..n
    BY <2>5, LenProperties
  <2>7. n \in Copies(g, p)'
    <3>1. n \in DOMAIN cmds'[g]
      BY <2>4, <2>6
    <3>2. cmds'[g][n].type = "PUBLISH" /\ cmds'[g][n].pub = p
      BY <2>2, <2>5 DEF new
    <3> QED BY <1>5, <3>1, <3>2
  <2>8. ASSUME NEW i \in Copies(g, p)' PROVE i = n
    <3>1. i \in 1..n /\ cmds'[g][i].type = "PUBLISH"
      BY <1>5, <2>6, <2>8
    <3>2. i \notin 1..Len(first[g])
      BY <1>4, <2>4, <2>5, <3>1
    <3> QED BY <2>4, <3>1, <3>2
  <2>9. Copies(g, p)' = {n}
    BY <2>7, <2>8
  <2>10. Cardinality({n}) = 1
    BY FS_Singleton
  <2> QED BY <1>3, <1>6, <2>9, <2>10
<1>7. CASE g \notin got(o)
  <2>1. cmds'[g] = first[g]
    BY <1>1, <1>7
  <2>2. Copies(g, p)' = {}
    BY <1>4, <1>5, <2>1
  <2>3. Cardinality({}) = 0
    BY FS_EmptySet
  <2> QED BY <1>3, <1>7, <2>2, <2>3
<1> QED BY <1>6, <1>7

\* Every step that forwards a publication (PUBLISH, PUBREL, a lost client)
\* reaches exactly its subscribers; the others forward nothing.
LEMMA NotifiedStep ==
    Typed /\ SubscribedIndex /\ EverySubscriberNotified /\ [Next]_vars => EverySubscriberNotified'
<1> SUFFICES ASSUME Typed, SubscribedIndex, EverySubscriberNotified, [Next]_vars
             PROVE  EverySubscriberNotified'
  OBVIOUS
<1>1. CASE UNCHANGED vars
  BY <1>1 DEF vars, EverySubscriberNotified, Copies, Wants
<1>2. CASE notified' = NoPublication
  BY <1>2 DEF EverySubscriberNotified
<1>3. ASSUME NEW f \in Fds, NEW timeout \in BOOLEAN, Lost(f, timeout)
      PROVE  EverySubscriberNotified'
  <2> DEFINE first == IF timeout THEN Queue(f, <<Answer("DISCONNECT", 0)>>) ELSE Quiet
  <2>1. first \in Answers
    BY QuietAnswers, QueueAnswers
  <2> HIDE DEF first
  <2>2. CASE will[f] = NoPublication
    BY <1>2, <1>3, <2>2 DEF Lost, NoNotify
  <2>3. CASE will[f] # NoPublication
    <3>1. will[f] \in Publication /\ NotifyClients(will[f], first, postponed)
          /\ UNCHANGED <<clients, subs>>
      BY <1>3, <2>3 DEF Lost, Typed, TypeOK, conn, first
    <3> QED BY <2>1, <3>1, NotifyReaches
  <2> QED BY <2>2, <2>3
<1>4. ASSUME NEW f \in Fds, NEW p \in Publication, NEW qos \in 0..1,
             NEW pid \in PacketIds, NEW retain \in BOOLEAN, Publish(f, p, qos, pid, retain)
      PROVE  EverySubscriberNotified'
  <2> DEFINE first == IF qos = 1 THEN Queue(f, <<Answer("PUBACK", pid)>>) ELSE Quiet
  <2>1. first \in Answers
    BY QuietAnswers, QueueAnswers, BrokerAssumption
  <2> HIDE DEF first
  <2>2. NotifyClients(p, first, postponed) /\ UNCHANGED <<clients, subs>>
    BY <1>4 DEF Publish, conn, first
  <2> QED BY <2>1, <2>2, NotifyReaches
<1>5. ASSUME NEW f \in Fds, NEW pid \in PacketIds, PubRel(f, pid)
      PROVE  EverySubscriberNotified'
  <2> DEFINE first == Queue(f, <<Answer("PUBCOMP", pid)>>)
  <2>1. first \in Answers
    BY QueueAnswers, BrokerAssumption
  <2>2. /\ DelQosEvent(cid[f], pid) = postponed
        /\ <<Answer("PUBCOMP", pid)>> \o GetPacket(postponed, cid[f]) = <<Answer("PUBCOMP", pid)>>
    <3>1. cid[f] \in Ids
      BY DEF Typed, TypeOK
    <3>2. GetPacket(postponed, cid[f]) = <<>>
      BY <3>1, NothingPostponed
    <3> QED BY <3>1, <3>2, NothingPostponed
  <2> HIDE DEF first
  <2>3. CASE GetQoSTopic(cid[f], pid) = {}
    BY <1>2, <1>5, <2>3 DEF PubRel, DelQoSTopic, NoNotify
  <2>4. CASE GetQoSTopic(cid[f], pid) # {}
    <3>1. PICK e \in GetQoSTopic(cid[f], pid) : NotifyClients(e.pub, first, postponed)
      BY <1>5, <2>2, <2>4 DEF PubRel, DelQoSTopic, first
    <3>2. e.pub \in Publication
      BY DEF GetQoSTopic, Stored
    <3>3. UNCHANGED <<clients, subs>>
      BY <1>5 DEF PubRel, DelQoSTopic, conn
    <3> QED BY <2>1, <3>1, <3>2, <3>3, NotifyReaches
  <2> QED BY <2>3, <2>4
<1>6. ASSUME NEW f \in Fds, Handle(f) PROVE EverySubscriberNotified'
  BY <1>2, <1>3, <1>4, <1>5, <1>6
     DEF Handle, AddClient, Connect, ConnectRefused, Leave, GiveUp, PublishQoS2, PubAck,
         PubRec, PubComp, PingReq, Subscribe, Unsubscribe, Reply, NoNotify
<1>7. CASE ClosePass
  BY <1>2, <1>7 DEF ClosePass
<1> QED BY <1>1, <1>6, <1>7 DEF Next

\* Every forwarded publication is queued exactly once for each connected client
\* with a matching filter and for no other, for all sets of clients, filters
\* and topics and after any history of connections.
THEOREM EverySubscriberReached == Spec => []EverySubscriberNotified
<1>1. Init => EverySubscriberNotified
  BY DEF Init, EverySubscriberNotified
<1>2. Typed /\ SubscribedIndex /\ [Next]_vars => SubscribedIndex'
  BY IndexStep DEF Typed
<1>3. Init => SubscribedIndex
  BY DEF Init, SubscribedIndex
<1> QED BY <1>1, <1>2, <1>3, TypedInit, TypedStep, NotifiedStep, PTL DEF Spec

-----------------------------------------------------------------------------
(* The size of a packet and the packet id in it. *)

\* The clients behave, and the packet ids of a connection do not run out: option
\* bytes have a QoS unless they are 0, and packet_id_gen does not come round.
Tame ==
    /\ \A byte \in Options : byte # 0 => HeaderQoS(byte) # 0
    /\ MaxGen \in Nat \ {0} /\ MaxGen + Cardinality(Topics) + 1 < PacketIdMod

\* packet_id_gen has not come round.
Numbered == \A f \in Fds : gen[f] \in 1..MaxGen

LEMMA NotifyClientsAsserts ==
    ASSUME Tame, Typed, Numbered, NEW p \in Publication, NEW first,
           NotifyClients(p, first, postponed)
    PROVE  fault' # "assert" /\ Numbered'
<1>1. gen \in [Fds -> 0..(PacketIdMod - 1)]
  BY DEF Typed, TypeOK
<1>2. ASSUME NEW opt, NEW f \in Fds
      PROVE  SizeMatches(HeaderQoS(opt[f]),
                         PublishPacket("PUBLISH", p, HeaderQoS(opt[f]),
                             IF HeaderQoS(opt[f]) = 0 THEN 0 ELSE gen[f], FALSE).pid)
  <2>1. gen[f] # 0
    BY DEF Numbered
  <2> QED BY <2>1 DEF SizeMatches, PublishPacket
<1>3. /\ fault' \in {"none", "oob"}
      /\ \A f \in Fds : gen'[f] \in {gen[f], (gen[f] + 1) % PacketIdMod}
      /\ gen' # gen => \A f \in Fds : gen'[f] <= MaxGen
  BY <1>1, <1>2 DEF NotifyClients
<1>4. ASSUME NEW f \in Fds PROVE gen'[f] \in 1..MaxGen
  <2>1. gen[f] \in 1..MaxGen /\ MaxGen \in Nat
    BY DEF Numbered, Tame
  <2>2. (gen[f] + 1) % PacketIdMod = gen[f] + 1
    <3>1. Cardinality(Topics) \in Nat /\ PacketIdMod \in Nat
      BY BrokerAssumption, FS_CardinalityType
    <3>2. gen[f] + 1 \in 0..(PacketIdMod - 1)
      BY <2>1, <3>1 DEF Tame
    <3> QED BY <3>1, <3>2
  <2>3. CASE gen' = gen
    BY <2>1, <2>3
  <2>4. CASE gen' # gen
    BY <1>3, <2>1, <2>2, <2>4
  <2> QED BY <2>3, <2>4
<1> QED BY <1>3, <1>4 DEF Numbered

LEMMA NotifyClientAsserts ==
    ASSUME Tame, Typed, Numbered, NEW f \in Fds, NEW byte \in Options,
           NEW S \in SUBSET {t \in Topics : retained[t] # NoMsg},
           NEW order \in Orders(S), NotifyClient(f, order, byte)
    PROVE  fault' # "assert" /\ Numbered'
<1>1. gen \in [Fds -> 0..(PacketIdMod - 1)]
  BY DEF Typed, TypeOK
<1>2. /\ DOMAIN order = 1..Len(order) /\ Len(order) \in Nat
      /\ Len(order) <= Cardinality(Topics) /\ Cardinality(Topics) \in Nat /\ PacketIdMod \in Nat
  <2>1. S \in SUBSET Topics
    OBVIOUS
  <2>2. Cardinality(S) <= Cardinality(Topics) /\ Cardinality(Topics) \in Nat
    BY <2>1, BrokerAssumption, FS_Subset, FS_CardinalityType
  <2> QED BY <2>1, <2>2, OrdersType, BrokerAssumption
<1>3. gen[f] \in 1..MaxGen /\ MaxGen \in Nat
  BY DEF Numbered, Tame
<1>4. ASSUME NEW i \in 1..Len(order) PROVE (gen[f] + i - 1) % PacketIdMod # 0
  <2>1. gen[f] + i - 1 \in 1..(PacketIdMod - 1)
    BY <1>2, <1>3 DEF Tame
  <2> QED BY <1>2, <2>1
<1>5. (gen[f] + Len(order)) % PacketIdMod = gen[f] + Len(order) /\ gen[f] + Len(order) \in Nat \ {0}
  <2>1. gen[f] + Len(order) \in 1..(PacketIdMod - 1)
    BY <1>2, <1>3 DEF Tame
  <2> QED BY <1>2, <2>1
<1>6. \A i \in DOMAIN order :
        SizeMatches(HeaderQoS(byte), IF byte = 0 THEN 0 ELSE (gen[f] + i - 1) % PacketIdMod)
  <2>1. byte = 0 => HeaderQoS(byte) = 0
    BY DEF HeaderQoS
  <2>2. byte # 0 => HeaderQoS(byte) # 0
    BY DEF Tame
  <2> QED BY <1>2, <1>4, <2>1, <2>2 DEF SizeMatches
<1>7. /\ fault' = "none" /\ gen'[f] <= MaxGen
      /\ gen' = IF byte = 0 THEN gen ELSE [gen EXCEPT ![f] = (@ + Len(order)) % PacketIdMod]
  BY <1>6 DEF NotifyClient
<1>8. gen'[f] \in 1..MaxGen
  BY <1>1, <1>3, <1>5, <1>7
<1>9. \A g \in Fds : g # f => gen'[g] = gen[g]
  BY <1>1, <1>7
<1> QED BY <1>7, <1>8, <1>9 DEF Numbered

LEMMA NumberedStep ==
    ASSUME Tame
    PROVE  Typed /\ Numbered /\ NoAssertFailure /\ [Next]_vars => Numbered' /\ NoAssertFailure'
<1> SUFFICES ASSUME Typed, Numbered, NoAssertFailure, [Next]_vars
             PROVE  Numbered' /\ fault' # "assert"
  BY DEF NoAssertFailure
<1>0. gen \in [Fds -> 0..(PacketIdMod - 1)] /\ FirstPacketId \in 1..MaxGen
  BY DEF Typed, TypeOK, Tame, FirstPacketId
<1>1. ASSUME \A f \in Fds : gen'[f] = gen[f] \/ gen'[f] = FirstPacketId PROVE Numbered'
  BY <1>0, <1>1 DEF Numbered
<1>2. ASSUME gen' = gen, fault' = "none" \/ fault' = fault PROVE Numbered' /\ fault' # "assert"
  BY <1>1, <1>2 DEF NoAssertFailure
<1>3. CASE UNCHANGED vars
  BY <1>2, <1>3 DEF vars
<1>4. CASE ClosePass
  <2>1. \A f \in Fds : gen'[f] = gen[f] \/ gen'[f] = FirstPacketId
    BY <1>4 DEF ClosePass
  <2> QED BY <1>1, <1>4, <2>1 DEF ClosePass
<1>5. ASSUME NEW f \in Fds, AddClient(f) PROVE Numbered' /\ fault' # "assert"
  <2>1. \A g \in Fds : gen'[g] = gen[g] \/ gen'[g] = FirstPacketId
    BY <1>0, <1>5 DEF AddClient
  <2> QED BY <1>1, <1>5, <2>1 DEF AddClient
<1>6. ASSUME NEW f \in Fds, NEW w, NEW late, Connect(f, w, late) PROVE Numbered' /\ fault' # "assert"
  <2>1. \A g \in Fds : gen'[g] = gen[g] \/ gen'[g] = FirstPacketId
    BY <1>6 DEF Connect
  <2> QED BY <1>1, <1>6, <2>1 DEF Connect, NoNotify
<1>7. ASSUME NEW f \in Fds, NEW timeout \in BOOLEAN, Lost(f, timeout)
      PROVE  Numbered' /\ fault' # "assert"
  <2> DEFINE first == IF timeout THEN Queue(f, <<Answer("DISCONNECT", 0)>>) ELSE Quiet
  <2>1. CASE will[f] = NoPublication
    BY <1>2, <1>7, <2>1 DEF Lost, NoNotify
  <2>2. CASE will[f] # NoPublication
    <3>1. will[f] \in Publication /\ NotifyClients(will[f], first, postponed)
      BY <1>7, <2>2 DEF Lost, Typed, TypeOK
    <3> HIDE DEF first
    <3> QED BY <3>1, NotifyClientsAsserts
  <2> QED BY <2>1, <2>2
<1>8. ASSUME NEW f \in Fds, NEW p \in Publication, NEW qos \in 0..1,
             NEW pid \in PacketIds, NEW retain \in BOOLEAN, Publish(f, p, qos, pid, retain)
      PROVE  Numbered' /\ fault' # "assert"
  <2> DEFINE first == IF qos = 1 THEN Queue(f, <<Answer("PUBACK", pid)>>) ELSE Quiet
  <2>1. NotifyClients(p, first, postponed)
    BY <1>8 DEF Publish
  <2> HIDE DEF first
  <2> QED BY <2>1, NotifyClientsAsserts
<1>9. ASSUME NEW f \in Fds, NEW pid \in PacketIds, PubRel(f, pid)
      PROVE  Numbered' /\ fault' # "assert"
  <2> DEFINE first == Queue(f, <<Answer("PUBCOMP", pid)>> \o GetPacket(postponed, cid[f]))
  <2>1. DelQosEvent(cid[f], pid) = postponed
    BY NothingPostponed DEF Typed, TypeOK
  <2>2. CASE GetQoSTopic(cid[f], pid) = {}
    BY <1>2, <1>9, <2>2 DEF PubRel, NoNotify
  <2>3. CASE GetQoSTopic(cid[f], pid) # {}
    <3>1. PICK e \in GetQoSTopic(cid[f], pid) : NotifyClients(e.pub, first, postponed)
      BY <1>9, <2>1, <2>3 DEF PubRel
    <3>2. e.pub \in Publication
      BY DEF GetQoSTopic, Stored
    <3> HIDE DEF first
    <3> QED BY <3>1, <3>2, NotifyClientsAsserts
  <2> QED BY <2>2, <2>3
<1>10. ASSUME NEW f \in Fds, NEW x \in Filters, NEW byte \in Options, Subscribe(f, x, byte)
       PROVE  Numbered' /\ fault' # "assert"
  <2> DEFINE matched == {t \in {u \in Topics : retained[u] # NoMsg} : GetMatched(x, t).matched}
  <2>1. CASE gen' = gen /\ fault' = "oob"
    BY <1>1, <2>1
  <2>2. CASE \E order \in Orders(matched) : NotifyClient(f, order, byte)
    <3>1. PICK order \in Orders(matched) : NotifyClient(f, order, byte)
      BY <2>2
    <3>2. matched \in SUBSET {t \in Topics : retained[t] # NoMsg}
      OBVIOUS
    <3> HIDE DEF matched
    <3> QED BY <3>1, <3>2, NotifyClientAsserts
  <2> QED BY <1>10, <2>1, <2>2 DEF Subscribe
<1>11. ASSUME NEW f \in Fds, Handle(f) PROVE Numbered' /\ fault' # "assert"
  BY <1>2, <1>5, <1>6, <1>7, <1>8, <1>9, <1>10, <1>11
     DEF Handle, ConnectRefused, Leave, GiveUp, PublishQoS2, PubAck, PubRec, PubComp, PingReq,
         Unsubscribe, Reply, NoNotify
<1> QED BY <1>3, <1>4, <1>11 DEF Next

\* assert(size == offset) of CreateMqttPacket holds for every packet the broker
\* builds, as long as the option bytes of subscriptions are 0 or have a QoS and
\* no connection lasts until packet_id_gen comes round to 0.
THEOREM NoAssertWhenTame ==
    ASSUME Tame
    PROVE  Spec => []NoAssertFailure
<1>1. Init => Numbered /\ NoAssertFailure
  BY DEF Init, Numbered, NoAssertFailure, FirstPacketId, Tame
<1> QED BY <1>1, NumberedStep, TypedInit, TypedStep, PTL DEF Spec
=============================================================================
