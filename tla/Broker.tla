------------------------------- MODULE Broker -------------------------------
(***************************************************************************)
(* The broker as its packet handlers see it: the table of clients, their   *)
(* ids, wills and subscriptions, the retained topics, the QoS 2 messages   *)
(* waiting for PUBREL and the packets postponed for retransmission.        *)
(*                                                                         *)
(* ServerThread runs the handlers one after the other, so one handler is   *)
(* one action.  A handler whose packet ends the connection only puts the   *)
(* descriptor on fd_to_delete ("doomed"); the connections on that list are *)
(* closed at the end of the pass over the ready descriptors, after the     *)
(* handlers of the other descriptors of the pass.  Main's AddClient may    *)
(* come between any two of them.  Which descriptors a pass visits is the   *)
(* business of ServerLoop, how a queued command reaches the wire that of   *)
(* CommandQueue: here any connected client may be the next to be heard,    *)
(* and "cmds" holds the AddCommand calls of the last handler.              *)
(***************************************************************************)
EXTENDS Integers, Sequences, FiniteSets, TopicMatch

CONSTANTS
    Fds,            \* file descriptors accept() may return
    ClientIds,      \* ids clients choose for themselves
    RandomIds,      \* ids GenRandom produces (a fixed sequence: rand() is unseeded)
    PriorIds,       \* ids a previous run of the broker assigned, still in use by clients
    NoId,           \* the empty id of a client that has not sent CONNECT
    Topics,         \* topic names, as sequences of words and separators
    Filters,        \* topic filters, likewise
    Msgs,           \* payloads
    NoMsg,          \* no payload stored
    Options,        \* subscription option bytes clients send
    PacketIds,      \* packet ids clients choose
    PacketIdMod,    \* 2^16 in the code: the range of packet_id_gen
    MaxGen,         \* bound: packet ids generated per connection
    MaxCopies,      \* bound: copies of one QoS 2 message stored at the same time
    MaxStored       \* bound: different QoS 2 messages stored at the same time

NoSub == -1

Ids == ClientIds \union RandomIds \union {NoId}

Publication == [topic : Topics, msg : Msgs]
NoPublication == [topic |-> <<>>, msg |-> NoMsg]

ASSUME BrokerAssumption ==
    /\ IsFiniteSet(Fds) /\ IsFiniteSet(Topics)
    /\ NoId \notin ClientIds \union RandomIds
    /\ ClientIds \cap RandomIds = {}
    /\ PriorIds \subseteq RandomIds
    /\ NoMsg \notin Msgs
    /\ Options \subseteq 0..255
    /\ PacketIdMod \in Nat \ {0, 1}
    /\ PacketIds \subseteq Nat \ {0}

VARIABLES
    clients,        \* keys of Broker::clients
    doomed,         \* fd_to_delete of the current pass
    cid,            \* Client::client_id
    will,           \* Client::will_topic, NoPublication without the will flag
    subs,           \* Client::subscribed_topics
    gen,            \* Client::packet_id_gen
    subscribed,     \* Broker::subscribed_clients: the state of the weak_ptr
    retained,       \* CTopicStorage::topics
    qos2,           \* CTopicStorage::qos_2_topics, as multiplicities
    postponed,      \* Broker::postponed_events
    randomised,     \* ids GenRandom has returned so far
    fault,          \* what ended the process
    cmds,           \* commands the last handler queued, by descriptor
    notified        \* what the last handler passed to NotifyClients

conn == <<clients, cid, will, subs, subscribed, randomised>>
vars == <<clients, doomed, cid, will, subs, gen, subscribed, retained, qos2,
          postponed, randomised, fault, cmds, notified>>

-----------------------------------------------------------------------------
(* Packets the broker queues. *)

Answer(type, pid) == [type |-> type, pid |-> pid]
PublishPacket(type, p, qos, pid, dup) ==
    [type |-> type, pub |-> p, qos |-> qos, pid |-> pid, dup |-> dup]

Packet ==
    [type : {"CONNACK", "PUBACK", "PUBREC", "PUBREL", "PUBCOMP", "SUBACK",
             "UNSUBACK", "PINGRESP", "DISCONNECT"}, pid : Nat]
    \union [type : {"PUBLISH", "PUBCOMP", "UNSUBACK", "AUTH"}, pub : Publication,
            qos : 0..3, pid : Nat, dup : BOOLEAN]

\* CreateMqttPacket: the size leaves room for the packet id unless the QoS
\* bits of the header are 0, and Serialize writes the id unless it is 0.
\* assert(size == offset) holds when the two agree.
SizeMatches(qos, pid) == (qos = 0) <=> (pid = 0)

\* FHBuilder::WithQoS shifts the whole byte it is given into the header: the
\* low two bits are the QoS, the third lands on DUP, the sixth and the seventh
\* on the type, where they turn PUBLISH (3) into 7, 11 or 15.
HeaderQoS(byte) == byte % 4
HeaderDup(byte) == (byte \div 4) % 2 = 1
HeaderType(byte) ==
    <<"PUBLISH", "PUBCOMP", "UNSUBACK", "AUTH">>[1 + ((byte \div 32) % 4)]

Quiet == [f \in Fds |-> <<>>]
Queue(f, packets) == [Quiet EXCEPT ![f] = packets]

-----------------------------------------------------------------------------
(* Helpers of Broker, Client and CTopicStorage. *)

\* All orders in which an unordered container may be walked.
Orders(S) == {o \in [1..Cardinality(S) -> S] :
                \A i, j \in 1..Cardinality(S) : o[i] = o[j] => i = j}

FirstPacketId == 1

CheckIfMoreMessagesNegated(events, c) == events[c] = <<>>
CheckIfMoreMessages(events, c) == events[c] # <<>>

\* postponed_events after DelQosEvent.
DelQosEvent(c, pid) ==
    IF postponed[c] = <<>> THEN postponed
    ELSE [postponed EXCEPT ![c] = SelectSeq(@, LAMBDA p : p.pid # pid)]

\* The front of the client's postponed packets, which GetPacket hands to the
\* handlers that go on with the next one.
GetPacket(events, c) ==
    IF CheckIfMoreMessages(events, c) THEN <<events[c][1]>> ELSE <<>>

\* Clients GetClientFd can return for an id.
GetClientFdUnchecked(id) == {}
GetClientFd(id) == {f \in clients : cid[f] = id}

\* The verdicts of checkWildCards on the filters and topics at hand.
LiveVerdict == [x \in Filters |-> [t \in Topics |-> checkWildCards(x, t)]]

\* Options checkWildCards can report for a publication: those of the first
\* matching filter in the order of an unordered_map.
Hits(f, topic) ==
    {subs[f][x] : x \in {y \in Filters :
        subs[f][y] # NoSub /\ LiveVerdict[y][topic].matched}}
MyTopic(f, topic) == IF Hits(f, topic) = {} THEN {NoSub} ELSE Hits(f, topic)
Overruns(f, topic) ==
    \E y \in Filters : subs[f][y] # NoSub /\ LiveVerdict[y][topic].oob

\* The clients of S cease to exist: CloseConnection and DelClient, which also
\* take their entry out of subscribed_clients.
CloseConnectionKeepIndex(S) ==
    /\ clients' = clients \ S
    /\ subscribed' = [f \in Fds |->
                        IF f \in S /\ subscribed[f] = "live" THEN "expired"
                        ELSE subscribed[f]]
CloseConnectionKeepClient(S) ==
    /\ UNCHANGED clients
    /\ subscribed' = [f \in Fds |-> IF f \in S THEN "none" ELSE subscribed[f]]
CloseConnection(S) ==
    /\ clients' = clients \ S
    /\ subscribed' = [f \in Fds |-> IF f \in S THEN "none" ELSE subscribed[f]]

NoSubs == [x \in Filters |-> NoSub]

\* NotifyClients: one PUBLISH for every live entry of subscribed_clients whose
\* client wants the topic, behind the commands "first" the handler has queued.
\* A client with postponed packets in "events" has the PUBLISH postponed too.
NotifyClients(p, first, events) ==
    /\ notified' = p
    /\ \/ \* a filter shorter than the topic is read past its end
          /\ \E f \in Fds : subscribed[f] = "live" /\ Overruns(f, p.topic)
          /\ fault' = "oob"
          /\ cmds' = first
          /\ postponed' = events
          /\ UNCHANGED gen
       \/ \E opt \in [Fds -> Options \union {NoSub}] :
          LET qos(f)  == HeaderQoS(opt[f])
              got     == {f \in Fds : opt[f] # NoSub}
              pub(f, dup) == PublishPacket("PUBLISH", p, qos(f),
                                IF qos(f) = 0 THEN 0 ELSE gen[f], dup)
              kept    == {f \in got : qos(f) > 0 /\ CheckIfMoreMessages(events, cid[f])}
          IN
          /\ \A f \in Fds : opt[f] \in IF subscribed[f] = "live"
                                       THEN MyTopic(f, p.topic) ELSE {NoSub}
          /\ IF \E f \in got : ~SizeMatches(qos(f), pub(f, FALSE).pid)
             THEN /\ fault' = "assert"
                  /\ cmds' = first
                  /\ postponed' = events
                  /\ UNCHANGED gen
             ELSE /\ fault' = "none"
                  /\ gen' = [f \in Fds |->
                               IF f \in got /\ qos(f) > 0
                               THEN (gen[f] + 1) % PacketIdMod ELSE gen[f]]
                  /\ \A f \in Fds : gen'[f] <= MaxGen
                  /\ cmds' = [f \in Fds |->
                               IF f \in got \ kept
                               THEN Append(first[f], pub(f, FALSE)) ELSE first[f]]
                  /\ IF kept = {} THEN postponed' = events
                     ELSE \E order \in Orders(kept) : postponed' =
                            [c \in Ids |-> events[c] \o
                               LET own == SelectSeq(order, LAMBDA f : cid[f] = c)
                               IN [i \in 1..Len(own) |-> pub(own[i], TRUE)]]

\* A handler that does not call NotifyClients.
NoNotify == notified' = NoPublication /\ fault' = "none"

\* A handler that ends the connection without publishing the will.
GiveUp(f) ==
    /\ doomed' = doomed \union {f}
    /\ cmds' = Quiet
    /\ NoNotify
    /\ UNCHANGED <<conn, gen, retained, qos2, postponed>>

-----------------------------------------------------------------------------
(* Connections. *)

\* Main thread: accept and AddClient.
AddClient(f) ==
    /\ fault = "none"
    /\ f \notin clients
    /\ clients' = clients \union {f}
    /\ cid' = [cid EXCEPT ![f] = NoId]
    /\ will' = [will EXCEPT ![f] = NoPublication]
    /\ subs' = [subs EXCEPT ![f] = NoSubs]
    /\ gen' = [gen EXCEPT ![f] = FirstPacketId]
    /\ cmds' = Quiet
    /\ notified' = NoPublication
    /\ UNCHANGED <<doomed, subscribed, retained, qos2, postponed, randomised, fault>>

\* The process is alive and the pass still serves this client.
Serves(f) == fault = "none" /\ f \in clients \ doomed

\* CONNECT of an unsupported version, with unreadable properties, or with the
\* id of an existing client and without clean start: the connection is given
\* up before the client gets its id.  Its flags and keep-alive are set by then,
\* but nothing looks at a client on fd_to_delete again.  The CONNACK of the
\* error handlers is written directly, not queued.
ConnectRefused(f) == Serves(f) /\ GiveUp(f)

\* CONNECT that gets as far as SetID.  With an id in use, clean start closes
\* the connection that has it, possibly this very one; without an id one is
\* generated.  A will, a user name or a password that cannot be read ends the
\* connection after that ("late").
Connect(f, w, late) ==
    /\ Serves(f)
    /\ \E id \in ClientIds \union RandomIds, closed \in SUBSET clients :
       /\ \/ \* the id of the packet
             /\ id \in ClientIds \union randomised \union PriorIds
             /\ closed \in IF GetClientFd(id) = {} THEN {{}}
                           ELSE {{g} : g \in GetClientFd(id)}
             /\ UNCHANGED randomised
          \/ \* an empty id: GenRandom
             /\ id \in RandomIds \ randomised
             /\ closed = {}
             /\ randomised' = randomised \union {id}
       /\ CloseConnection(closed)
       /\ cid' = [g \in Fds |-> IF g \in closed THEN NoId
                                ELSE IF g = f THEN id ELSE cid[g]]
       /\ will' = [g \in Fds |-> IF g \in closed THEN NoPublication
                                 ELSE IF g = f THEN w ELSE will[g]]
       /\ subs' = [g \in Fds |-> IF g \in closed THEN NoSubs ELSE subs[g]]
       /\ gen' = [g \in Fds |-> IF g \in closed THEN FirstPacketId ELSE gen[g]]
    /\ doomed' = IF late THEN doomed \union {f} ELSE doomed
    /\ cmds' = IF late THEN Quiet ELSE Queue(f, <<Answer("CONNACK", 0)>>)
    /\ NoNotify
    /\ UNCHANGED <<retained, qos2, postponed>>

\* DISCONNECT, an unsupported packet type or a short read: no will.
Leave(f) == Serves(f) /\ GiveUp(f)

\* The fixed header cannot be read, the peer hung up, or the keep-alive
\* interval is over (then a DISCONNECT is queued first): the will is published.
Lost(f, timeout) ==
    /\ Serves(f)
    /\ doomed' = doomed \union {f}
    /\ LET first == IF timeout THEN Queue(f, <<Answer("DISCONNECT", 0)>>) ELSE Quiet
       IN  IF will[f] = NoPublication
           THEN NoNotify /\ cmds' = first /\ UNCHANGED <<gen, postponed>>
           ELSE NotifyClients(will[f], first, postponed)
    /\ UNCHANGED <<conn, retained, qos2>>

\* End of a pass: every connection on fd_to_delete is closed.  A client that
\* a takeover has already removed is a null pointer there.
ClosePass ==
    /\ fault = "none" /\ doomed # {}
    /\ doomed' = {}
    /\ cmds' = Quiet
    /\ notified' = NoPublication
    /\ IF doomed \subseteq clients
       THEN /\ CloseConnection(doomed)
            /\ cid' = [f \in Fds |-> IF f \in doomed THEN NoId ELSE cid[f]]
            /\ will' = [f \in Fds |-> IF f \in doomed THEN NoPublication ELSE will[f]]
            /\ subs' = [f \in Fds |-> IF f \in doomed THEN NoSubs ELSE subs[f]]
            /\ gen' = [f \in Fds |-> IF f \in doomed THEN FirstPacketId ELSE gen[f]]
            /\ fault' = "none"
       ELSE fault' = "null" /\ UNCHANGED <<clients, cid, will, subs, gen, subscribed>>
    /\ UNCHANGED <<retained, qos2, postponed, randomised>>

-----------------------------------------------------------------------------
(* Publications from clients. *)

StoreTopicValue(p, retain) ==
    retained' = IF retain THEN [retained EXCEPT ![p.topic] = p.msg] ELSE retained

\* PUBLISH with QoS 0 or 1.
Publish(f, p, qos, pid, retain) ==
    /\ Serves(f)
    /\ StoreTopicValue(p, retain)
    /\ NotifyClients(p, IF qos = 1 THEN Queue(f, <<Answer("PUBACK", pid)>>) ELSE Quiet,
                     postponed)
    /\ UNCHANGED <<conn, doomed, qos2>>

Stored == [cid : Ids, pid : PacketIds, pub : Publication]

\* PUBLISH with QoS 2: answered with PUBREC and stored under the client's id
\* until PUBREL, once more for every repetition (a multimap); a retained copy
\* is stored at once.
PublishQoS2(f, p, pid, retain) ==
    /\ Serves(f)
    /\ qos2[[cid |-> cid[f], pid |-> pid, pub |-> p]] < MaxCopies
    /\ Cardinality({e \in Stored : qos2[e] > 0}
                     \union {[cid |-> cid[f], pid |-> pid, pub |-> p]}) <= MaxStored
    /\ StoreTopicValue(p, retain)
    /\ IF CheckIfMoreMessages(postponed, cid[f])
       THEN /\ postponed' = [postponed EXCEPT ![cid[f]] =
                                Append(@, Answer("PUBREC", pid))]
            /\ cmds' = Quiet
       ELSE /\ cmds' = Queue(f, <<Answer("PUBREC", pid)>>)
            /\ UNCHANGED postponed
    /\ qos2' = [qos2 EXCEPT ![[cid |-> cid[f], pid |-> pid, pub |-> p]] = @ + 1]
    /\ NoNotify
    /\ UNCHANGED <<conn, gen, doomed>>

\* Stored messages GetQoSTopic may find for a PUBREL.
GetQoSTopicReleased(c, pid) == {e \in Stored : e.cid = c /\ e.pid = pid}
GetQoSTopicOfAnyone(c, pid) == {e \in Stored : e.pid = pid /\ qos2[e] > 0}
GetQoSTopic(c, pid) == {e \in Stored : e.cid = c /\ e.pid = pid /\ qos2[e] > 0}

DelQoSTopicForgotten(e) == UNCHANGED qos2
DelQoSTopic(e) == qos2' = [qos2 EXCEPT ![e] = @ - 1]

\* PUBREL: PUBCOMP, then the stored message with that packet id, if there is
\* one, goes to the subscribers and out of the store.
PubRel(f, pid) ==
    /\ Serves(f)
    /\ LET events == DelQosEvent(cid[f], pid)
           first  == Queue(f, <<Answer("PUBCOMP", pid)>> \o GetPacket(events, cid[f]))
           found  == GetQoSTopic(cid[f], pid)
       IN  IF found = {}
           THEN NoNotify /\ cmds' = first /\ postponed' = events /\ UNCHANGED <<gen, qos2>>
           ELSE \E e \in found : /\ NotifyClients(e.pub, first, events)
                                 /\ DelQoSTopic(e)
    /\ UNCHANGED <<conn, doomed, retained>>

-----------------------------------------------------------------------------
(* Acknowledgements from clients. *)

\* A handler that only answers, and possibly forgets a postponed packet.
Reply(f, packets, events) ==
    /\ Serves(f)
    /\ cmds' = Queue(f, packets)
    /\ postponed' = events
    /\ NoNotify
    /\ UNCHANGED <<doomed, gen, retained, qos2>>

PubAck(f, pid) ==
    LET events == DelQosEvent(cid[f], pid)
    IN  Reply(f, GetPacket(events, cid[f]), events) /\ UNCHANGED conn

PubRec(f, pid) ==
    Reply(f, <<Answer("PUBREL", pid)>>, DelQosEvent(cid[f], pid)) /\ UNCHANGED conn

PubComp(f) == Reply(f, GetPacket(postponed, cid[f]), postponed) /\ UNCHANGED conn

PingReq(f) == Reply(f, <<Answer("PINGRESP", 0)>>, postponed) /\ UNCHANGED conn

-----------------------------------------------------------------------------
(* Subscriptions.  A packet carries one filter here. *)

AddSubscribedClientNever(f) == UNCHANGED subscribed
AddSubscribedClient(f) ==
    subscribed' = IF subscribed[f] = "none"
                  THEN [subscribed EXCEPT ![f] = "live"] ELSE subscribed

\* NotifyClient for each of the retained topics in "order": here the QoS of
\* the message is the whole option byte of the subscription.
NotifyClient(f, order, byte) ==
    LET pid(i) == IF byte = 0 THEN 0 ELSE (gen[f] + i - 1) % PacketIdMod
        pub(i, dup) == PublishPacket(HeaderType(byte),
                          [topic |-> order[i], msg |-> retained[order[i]]],
                          HeaderQoS(byte), pid(i), dup \/ HeaderDup(byte))
        kept   == byte > 0 /\ CheckIfMoreMessages(postponed, cid[f])
        all(dup) == [i \in DOMAIN order |-> pub(i, dup)]
        ack    == <<Answer("SUBACK", 0)>>
    IN  IF \E i \in DOMAIN order : ~SizeMatches(HeaderQoS(byte), pid(i))
        THEN /\ fault' = "assert"
             /\ cmds' = Queue(f, ack)
             /\ UNCHANGED <<gen, postponed>>
        ELSE /\ fault' = "none"
             /\ gen' = IF byte = 0 THEN gen
                       ELSE [gen EXCEPT ![f] = (@ + Len(order)) % PacketIdMod]
             /\ gen'[f] <= MaxGen
             /\ cmds' = Queue(f, IF kept THEN ack ELSE ack \o all(FALSE))
             /\ postponed' = IF kept THEN [postponed EXCEPT ![cid[f]] = @ \o all(TRUE)]
                             ELSE postponed

\* SUBSCRIBE: the first options a filter was subscribed with are kept
\* (unordered_map::insert); SUBACK and the matching retained topics are queued
\* before the client is entered into subscribed_clients.
Subscribe(f, x, byte) ==
    /\ Serves(f)
    /\ subs' = IF subs[f][x] = NoSub THEN [subs EXCEPT ![f][x] = byte] ELSE subs
    /\ LET there   == {t \in Topics : retained[t] # NoMsg}
           matched == {t \in there : GetMatched(x, t).matched}
       IN \/ /\ \E t \in there : GetMatched(x, t).oob
             /\ fault' = "oob"
             /\ cmds' = Queue(f, <<Answer("SUBACK", 0)>>)
             /\ UNCHANGED <<gen, postponed>>
          \/ \E order \in Orders(matched) : NotifyClient(f, order, byte)
    /\ AddSubscribedClient(f)
    /\ notified' = NoPublication
    /\ UNCHANGED <<clients, cid, will, randomised, doomed, retained, qos2>>

Unsubscribe(f, x) ==
    /\ Reply(f, <<Answer("UNSUBACK", 0)>>, postponed)
    /\ subs' = [subs EXCEPT ![f][x] = NoSub]
    /\ UNCHANGED <<clients, cid, will, subscribed, randomised>>

-----------------------------------------------------------------------------
Init ==
    /\ clients = {} /\ doomed = {}
    /\ cid = [f \in Fds |-> NoId]
    /\ will = [f \in Fds |-> NoPublication]
    /\ subs = [f \in Fds |-> NoSubs]
    /\ gen = [f \in Fds |-> FirstPacketId]
    /\ subscribed = [f \in Fds |-> "none"]
    /\ retained = [t \in Topics |-> NoMsg]
    /\ qos2 = [e \in Stored |-> 0]
    /\ postponed = [c \in Ids |-> <<>>]
    /\ randomised = {}
    /\ fault = "none"
    /\ cmds = Quiet /\ notified = NoPublication

Handle(f) ==
    \/ AddClient(f)
    \/ ConnectRefused(f)
    \/ \E w \in Publication \union {NoPublication}, late \in BOOLEAN : Connect(f, w, late)
    \/ Leave(f)
    \/ \E timeout \in BOOLEAN : Lost(f, timeout)
    \/ \E p \in Publication, qos \in 0..1, pid \in PacketIds, retain \in BOOLEAN :
          Publish(f, p, qos, pid, retain)
    \/ \E p \in Publication, pid \in PacketIds, retain \in BOOLEAN :
          PublishQoS2(f, p, pid, retain)
    \/ \E pid \in PacketIds : PubRel(f, pid)
    \/ \E pid \in PacketIds : PubAck(f, pid)
    \/ \E pid \in PacketIds : PubRec(f, pid)
    \/ PubComp(f)
    \/ PingReq(f)
    \/ \E x \in Filters, byte \in Options : Subscribe(f, x, byte)
    \/ \E x \in Filters : Unsubscribe(f, x)

Next == ClosePass \/ \E f \in Fds : Handle(f)

Spec == Init /\ [][Next]_vars

-----------------------------------------------------------------------------
(* Properties. *)

TypeOK ==
    /\ clients \subseteq Fds /\ doomed \subseteq Fds
    /\ cid \in [Fds -> Ids]
    /\ will \in [Fds -> Publication \union {NoPublication}]
    /\ subs \in [Fds -> [Filters -> Options \union {NoSub}]]
    /\ gen \in [Fds -> 0..(PacketIdMod - 1)]
    /\ subscribed \in [Fds -> {"none", "live", "expired"}]
    /\ retained \in [Topics -> Msgs \union {NoMsg}]
    /\ qos2 \in [Stored -> Nat]
    /\ postponed \in [Ids -> Seq(Packet)]
    /\ randomised \subseteq RandomIds
    /\ fault \in {"none", "assert", "oob", "null"}
    /\ cmds \in [Fds -> Seq(Packet)]
    /\ notified \in Publication \union {NoPublication}

\* Whatever CONNECTs, takeovers, closes and reused descriptors come together,
\* no two connected clients have the same non-empty id: GetClientFd finds the
\* other one first.
UniqueClientId ==
    \A f, g \in clients : cid[f] = cid[g] /\ cid[f] # NoId => f = g

\* subscribed_clients is an index of clients: an entry always points at the
\* client that has the descriptor now, and no client with a subscription is
\* missing, also after a descriptor was closed and used again.
SubscribedIndex ==
    /\ \A f \in Fds : subscribed[f] = "live" => f \in clients
    /\ \A f \in Fds : subscribed[f] # "expired"
    /\ \A f \in clients : subs[f] # NoSubs => subscribed[f] = "live"

\* The client has a filter checkWildCards accepts for the topic.
Wants(f, topic) ==
    \E x \in Filters : subs[f][x] # NoSub /\ LiveVerdict[x][topic].matched

\* The PUBLISH packets of p among the commands queued for f.
Copies(f, p) ==
    {i \in DOMAIN cmds[f] : cmds[f][i].type = "PUBLISH" /\ cmds[f][i].pub = p}

\* A publication the broker forwards (QoS 0 and 1 at once, QoS 2 on PUBREL, a
\* will when its client is lost) is queued once for every connected client
\* that wants it and for nobody else, whatever happened to the descriptor and
\* to the index before.
EverySubscriberNotified ==
    fault = "none" /\ notified # NoPublication =>
        \A f \in Fds :
            /\ Cardinality(Copies(f, notified)) <= 1
            /\ Copies(f, notified) # {} <=> f \in clients /\ Wants(f, notified.topic)

\* No packet is ever postponed for retransmission: a packet is only added
\* behind one that is already there, so that the resend branches of PUBACK,
\* PUBREL and PUBCOMP and the whole of QoSThread never find anything to do.
NoPostponed == \A c \in Ids : postponed[c] = <<>>

\* assert(size == offset) of CreateMqttPacket never fails, whatever options a
\* client subscribes with and however many packet ids its connection has used.
NoAssertFailure == fault # "assert"

\* "retain doesn't work with wildcard subscription": a client whose filters all
\* have wildcards is given no retained message behind its SUBACK.
RetainNeedsExactFilter ==
    \A f \in Fds :
        (\E i \in DOMAIN cmds[f] :
            cmds[f][1].type = "SUBACK" /\ cmds[f][i].type = "PUBLISH")
        => \E x \in Filters : subs[f][x] # NoSub /\ IsTopic(tokenize(x))
=============================================================================
