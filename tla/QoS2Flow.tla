------------------------------ MODULE QoS2Flow ------------------------------
(***************************************************************************)
(* PUBLISH with QoS 2 from end to end: a publisher that follows MQTT, the  *)
(* connections it loses, and Broker, which stores its messages under its   *)
(* client id and packet id from PUBLISH to PUBREL.                         *)
(*                                                                         *)
(* The publisher numbers each message with a packet id not in use, sends   *)
(* PUBLISH, waits for PUBREC, sends PUBREL, waits for PUBCOMP.  When its   *)
(* connection breaks the answers on their way are lost; it connects again  *)
(* and, if it keeps its session (the broker's CONNACK says "session        *)
(* present" whenever clean start is not set), repeats what was not         *)
(* answered.  A stranger that never sends CONNECT shares the packet ids.   *)
(* A packet the broker never reads is one that was not yet sent, so that   *)
(* sending and handling are one step.  Everything the publisher does is    *)
(* external to the repository; what the broker does is Broker.             *)
(***************************************************************************)
EXTENDS Broker

CONSTANTS
    Publisher,      \* the client id of the publisher
    Own,            \* the messages it publishes; the others are the stranger's
    NoFd,           \* no descriptor
    MaxBreaks       \* bound: connections the publisher loses

ASSUME FlowAssumption ==
    /\ Publisher \in ClientIds
    /\ Own \subseteq Msgs /\ NoFd \notin Fds /\ Topics # {}
    /\ MaxBreaks \in Nat /\ MaxCopies \in Nat

VARIABLES
    link, session,  \* the publisher's descriptor, and whether it may publish there
    inbox,          \* answers on their way to the publisher
    stage, pid,     \* how far each message is, and its packet id (0: none yet)
    owed,           \* messages to repeat on this connection
    breaks,         \* connections lost
    stranger,       \* the stranger's descriptor
    handled,        \* times each message was stored by a PUBLISH
    forwarded,      \* times it was passed to NotifyClients
    disturbed       \* messages that shared client id and packet id with a stored one

client == <<link, session, inbox, stage, pid, owed, breaks>>
history == <<handled, forwarded, disturbed>>
flow == <<client, stranger, history>>
flowVars == <<vars, flow>>

InFlight == {m \in Own : stage[m] \in {"sent", "rec", "rel"}}
AnyTopic == CHOOSE t \in Topics : TRUE
Message(m) == [topic |-> AnyTopic, msg |-> m]

\* The copies of a message in the store, numbered.
StoredCopies(m) ==
    {c \in Stored \X (1..MaxCopies) : c[1].pub.msg = m /\ c[2] <= qos2[c[1]]}

-----------------------------------------------------------------------------
(* Connections. *)

Dial(f) ==
    /\ link = NoFd /\ AddClient(f)
    /\ link' = f /\ session' = "dialed"
    /\ UNCHANGED <<inbox, stage, pid, owed, breaks, stranger, history>>

\* CONNECT.  Without clean start it is refused as long as the broker has not
\* noticed that the old connection is gone.  With clean start the publisher
\* forgets what was in flight.
SayConnect(clean) ==
    /\ link # NoFd /\ session = "dialed"
    /\ IF GetClientFd(Publisher) # {} /\ ~clean
       THEN /\ ConnectRefused(link)
            /\ link' = NoFd /\ session' = "off"
            /\ UNCHANGED <<inbox, stage, owed>>
       ELSE /\ Connect(link, NoPublication, FALSE) /\ cid'[link] = Publisher
            /\ session' = "on"
            /\ stage' = [m \in Own |-> IF clean /\ m \in InFlight THEN "dropped" ELSE stage[m]]
            /\ owed' = IF clean THEN {} ELSE InFlight
            /\ UNCHANGED <<link, inbox>>
    /\ UNCHANGED <<pid, breaks, stranger, history>>

\* The publisher has no connection, and what was on its way is lost.
Unlink == link' = NoFd /\ session' = "off" /\ inbox' = {} /\ owed' = {}

\* The connection breaks; the broker does not know it yet.
Break ==
    /\ fault = "none" /\ link # NoFd /\ breaks < MaxBreaks
    /\ breaks' = breaks + 1
    /\ Unlink
    /\ UNCHANGED <<vars, stage, pid, stranger, history>>

\* The broker finds that nobody is at the other end.
Notice(f) ==
    /\ f \notin {link, stranger}
    /\ \E timeout \in BOOLEAN : Lost(f, timeout)
    /\ UNCHANGED flow

\* The end of a pass.  A descriptor that a takeover freed and accept handed out
\* again is still on fd_to_delete: then it is the new connection that is closed.
Close ==
    /\ ClosePass
    /\ IF link \in doomed THEN Unlink ELSE UNCHANGED <<link, session, inbox, owed>>
    /\ stranger' = IF stranger \in doomed THEN NoFd ELSE stranger
    /\ UNCHANGED <<stage, pid, breaks, history>>

-----------------------------------------------------------------------------
(* Messages. *)

\* The broker stores message m for the client at f, which has the packet id i.
Store(f, m, i) ==
    LET there == {e \in Stored : e.cid = cid[f] /\ e.pid = i /\ qos2[e] > 0}
    IN  /\ PublishQoS2(f, Message(m), i, FALSE)
        /\ handled' = [handled EXCEPT ![m] = @ + 1]
        /\ disturbed' = IF there = {} THEN disturbed
                        ELSE disturbed \union {m} \union {e.pub.msg : e \in there}
        /\ UNCHANGED forwarded

Forward ==
    /\ forwarded' = IF notified' = NoPublication THEN forwarded
                    ELSE [forwarded EXCEPT ![notified'.msg] = @ + 1]
    /\ UNCHANGED <<handled, disturbed>>

\* The answers a handler has queued for the publisher.
Answered == inbox' = inbox \union {cmds'[link][k] : k \in DOMAIN cmds'[link]}

\* A new message, with a packet id that is not in use, ...
SendPublish(m, i) ==
    /\ session = "on" /\ stage[m] = "new"
    /\ \A n \in InFlight : pid[n] # i
    /\ Store(link, m, i) /\ Answered
    /\ stage' = [stage EXCEPT ![m] = "sent"]
    /\ pid' = [pid EXCEPT ![m] = i]
    /\ UNCHANGED <<link, session, owed, breaks, stranger>>

\* ... or one whose PUBREC was lost.
RepeatPublish(m) ==
    /\ session = "on" /\ m \in owed /\ stage[m] = "sent"
    /\ Store(link, m, pid[m]) /\ Answered
    /\ owed' = owed \ {m}
    /\ UNCHANGED <<link, session, stage, pid, breaks, stranger>>

\* PUBREL, once PUBREC is there, or again when PUBCOMP was lost.
SendPubRel(m) ==
    /\ session = "on"
    /\ stage[m] = "rec" \/ (stage[m] = "rel" /\ m \in owed)
    /\ PubRel(link, pid[m]) /\ Forward /\ Answered
    /\ stage' = [stage EXCEPT ![m] = "rel"]
    /\ owed' = owed \ {m}
    /\ UNCHANGED <<link, session, pid, breaks, stranger>>

\* An answer arrives; the senders may have changed the order.
Receive(a) ==
    LET about == {m \in InFlight : pid[m] = a.pid}
    IN
    /\ fault = "none" /\ a \in inbox
    /\ inbox' = inbox \ {a}
    /\ stage' = [m \in Own |->
         IF m \in about /\ a.type = "PUBREC" /\ stage[m] = "sent" THEN "rec"
         ELSE IF m \in about /\ a.type = "PUBCOMP" /\ stage[m] = "rel" THEN "done"
         ELSE stage[m]]
    /\ UNCHANGED <<vars, link, session, pid, owed, breaks, stranger, history>>

\* The stranger, who uses packet ids of the publisher under the empty client
\* id, and publishes each message once.
StrangerDials(f) ==
    /\ stranger = NoFd /\ AddClient(f)
    /\ stranger' = f
    /\ UNCHANGED <<client, history>>

StrangerPublishes(m, i) ==
    /\ stranger # NoFd /\ m \notin Own /\ handled[m] = 0
    /\ Store(stranger, m, i)
    /\ UNCHANGED <<client, stranger>>

StrangerReleases(i) ==
    /\ stranger # NoFd
    /\ PubRel(stranger, i) /\ Forward
    /\ UNCHANGED <<client, stranger>>

-----------------------------------------------------------------------------
FlowInit ==
    /\ Init
    /\ link = NoFd /\ session = "off" /\ inbox = {}
    /\ stage = [m \in Own |-> "new"] /\ pid = [m \in Own |-> 0]
    /\ owed = {} /\ breaks = 0 /\ stranger = NoFd
    /\ handled = [m \in Msgs |-> 0] /\ forwarded = [m \in Msgs |-> 0] /\ disturbed = {}

Reconnect == (\E f \in Fds : Dial(f)) \/ \E clean \in BOOLEAN : SayConnect(clean)

Proceed(m) ==
    \/ \E i \in PacketIds : SendPublish(m, i)
    \/ RepeatPublish(m)
    \/ SendPubRel(m)

Deliver == \E a \in inbox : Receive(a)

Stranger ==
    \/ \E f \in Fds : StrangerDials(f)
    \/ \E m \in Msgs, i \in PacketIds : StrangerPublishes(m, i)
    \/ \E i \in PacketIds : StrangerReleases(i)

FlowNext ==
    \/ Reconnect \/ Break \/ Close \/ Deliver \/ Stranger
    \/ \E f \in Fds : Notice(f)
    \/ \E m \in Own : Proceed(m)

FlowSpec == FlowInit /\ [][FlowNext]_flowVars

\* The broker goes on with its passes and notices dead connections, answers
\* arrive, and the publisher connects again and goes on with each message.
FairFlowSpec ==
    /\ FlowSpec
    /\ WF_flowVars(Reconnect) /\ WF_flowVars(Close) /\ WF_flowVars(Deliver)
    /\ \A f \in Fds : WF_flowVars(Notice(f))
    /\ \A m \in Own : WF_flowVars(Proceed(m))

-----------------------------------------------------------------------------
(* Properties. *)

\* No message is lost or made up: each PUBLISH that was handled has been
\* forwarded or is still in the store, whatever connections broke in between
\* and whoever sent a PUBREL.
Conserved ==
    fault = "none" =>
        \A m \in Msgs : handled[m] = forwarded[m] + Cardinality(StoredCopies(m))

\* Exactly once: a message whose client id and packet id nothing else in the
\* store shares is not forwarded before its own PUBREL, nor by anyone else's,
\* never twice however often PUBREL is repeated, and has been forwarded when
\* the publisher has its PUBCOMP.
OnceUndisturbed ==
    \A m \in Own \ disturbed :
        /\ forwarded[m] <= 1
        /\ forwarded[m] = 1 => stage[m] \in {"rel", "done", "dropped"}
        /\ stage[m] = "done" => forwarded[m] = 1

\* A message that was sent is completed, whatever breaks, unless the publisher
\* gives its session up.
Completed ==
    \A m \in Own : stage[m] = "sent" ~> stage[m] \in {"done", "dropped"} \/ fault # "none"
=============================================================================
