------------------------------ MODULE MCCodec ------------------------------
(***************************************************************************)
(* Well-formed packets of a client, written by the rules of the protocol,  *)
(* through the broker's handlers, and the broker's own packets, read by    *)
(* the rules of the protocol.  Lengths are taken around the values where   *)
(* the code's uint8_t and uint16_t sizes wrap.                             *)
(***************************************************************************)
EXTENDS Codec

CONSTANTS Rests,       \* bytes that may lie behind a packet in memory
          MaxInt       \* bound on the integers coded and decoded

ASSUME MCAssumption == Rests \subseteq 0..(Byte - 1) /\ MaxInt \in Nat

VARIABLES packet,      \* the packet under way
          rest         \* the byte behind it

vars == <<packet, rest>>

-----------------------------------------------------------------------------
(* The protocol's encoding. *)

\* The integers of one, two, three and four bytes are below these.
Limits == <<Radix, Radix * Radix, Radix * Radix * Radix, Radix * Radix * Radix * Radix>>

IntBytes(n) ==
    LET k == Min({j \in 1..4 : n < Limits[j]})
        Digit(i) == (IF i = 1 THEN n ELSE n \div Limits[i - 1]) % Radix
    IN  [i \in 1..k |-> Digit(i) + (IF i < k THEN Radix ELSE 0)]

StringBytes(s) == <<Len(s) \div Byte, Len(s) % Byte>> \o s

PropertyBytes(p) ==
    <<p.id>> \o
    CASE DataType[p.id] = "byte" -> <<p.value>>
      [] DataType[p.id] = "two_byte" -> <<p.value \div Byte, p.value % Byte>>
      [] DataType[p.id] = "four_byte" ->
             <<(p.value \div Word) \div Byte, (p.value \div Word) % Byte,
               (p.value % Word) \div Byte, p.value % Byte>>
      [] DataType[p.id] \in {"mqtt_string", "binary_data"} -> StringBytes(p.value)
      [] DataType[p.id] = "mqtt_string_pair" ->
             StringBytes(p.value[1]) \o StringBytes(p.value[2])
      [] DataType[p.id] = "variable_int" -> IntBytes(p.value)

ChainBytes(ps) ==
    LET all == FlattenSeq([i \in 1..Len(ps) |-> PropertyBytes(ps[i])])
    IN  IntBytes(Len(all)) \o all

PublishBytes(p) ==
    StringBytes(p.topic) \o (IF p.qos > 0 THEN <<0, p.packet_id>> ELSE <<>>)
        \o ChainBytes(p.props) \o p.message

SubscribeBytes(p) ==
    <<0, p.packet_id>> \o ChainBytes(p.props)
        \o FlattenSeq([i \in 1..Len(p.topics) |->
               StringBytes(p.topics[i].name)
                   \o IF p.kind = "SUBSCRIBE" THEN <<p.topics[i].options>> ELSE <<>>])

ConnectBytes(p) ==
    ChainBytes(p.props) \o StringBytes(p.id)
        \o (IF p.flags.will
            THEN ChainBytes(p.will[1]) \o StringBytes(p.will[2]) \o StringBytes(p.will[3])
            ELSE <<>>)
        \o (IF p.flags.name THEN StringBytes(p.name) ELSE <<>>)
        \o (IF p.flags.pwd THEN StringBytes(p.pwd) ELSE <<>>)

\* What the chain of a packet comes to: the first property of each identifier.
FirstOfEach(ps) ==
    [id \in {ps[i].id : i \in 1..Len(ps)} |->
        ps[Min({i \in 1..Len(ps) : ps[i].id = id})].value]

\* Properties of an earlier packet stay when the new one has none.
After(old, ps) == IF ps = <<>> THEN old ELSE FirstOfEach(ps)

-----------------------------------------------------------------------------
(* Inputs. *)

Text(n, k) == [i \in 1..n |-> (3 * i + k) % Byte]

\* A string property wraps a uint8_t from seven bytes on.
Properties ==
    {[id |-> retain_available, value |-> 7], [id |-> maximum_packet_size, value |-> 4321],
     [id |-> topic_alias, value |-> 57]}
    \union {[id |-> assigned_client_identifier, value |-> Text(n, 2)] : n \in {0, 6, 7, 9}}
    \union {[id |-> correlation_data, value |-> Text(n, 4)] : n \in {1, 6, 8}}
    \union {[id |-> user_property, value |-> pair] :
               pair \in {<<Text(2, 1), Text(1, 5)>>, <<Text(1, 3), <<>>>>, <<Text(3, 0), Text(3, 1)>>}}
    \union {[id |-> subscription_identifier, value |-> n] : n \in {0, 4, 5, 624}}

\* Only a user property may come twice.
Chains(n) ==
    {ps \in BoundedSeq(Properties, n) :
        \A i, j \in 1..Len(ps) : i # j /\ ps[i].id = ps[j].id => ps[i].id = user_property}

FewChains ==
    {<<>>} \union {<<[id |-> subscription_identifier, value |-> 624]>>,
                   <<[id |-> correlation_data, value |-> Text(6, 4)],
                     [id |-> retain_available, value |-> 7]>>,
                   <<[id |-> assigned_client_identifier, value |-> Text(8, 2)]>>}

\* A password may come without a user name.
Flags == [will : BOOLEAN, name : BOOLEAN, pwd : BOOLEAN]

NoPacket == [kind |-> "none"]

Init == packet = NoPacket /\ rest = 0

Take(p) == packet' = p /\ rest' \in Rests

Connect ==
    /\ packet = NoPacket
    /\ \E f \in Flags, ps \in FewChains, ws \in FewChains, i \in {0, 7, 8, 12},
          t \in {1, 11}, n \in {0, 2, 7, 8}, w \in {0, 9} :
           Take([kind |-> "CONNECT", flags |-> f, props |-> ps, id |-> Text(i, 1),
                 will |-> <<ws, Text(t, 6), Text(t + 1, 5)>>, name |-> Text(n, 7),
                 pwd |-> Text(w, 8)])

Publish ==
    /\ packet = NoPacket
    /\ \E ps \in Chains(2), q \in 0..2, t \in {1, 13}, m \in {0, 3, Word - 1, Word, Word + 2} :
           Take([kind |-> "PUBLISH", qos |-> q, packet_id |-> 6, props |-> ps,
                 topic |-> Text(t, 3), message |-> Text(m, 2)])

Subscribe ==
    /\ packet = NoPacket
    /\ \E k \in {"SUBSCRIBE", "UNSUBSCRIBE"}, ps \in Chains(1),
          ts \in SeqOf({[name |-> Text(n, 4), options |-> o] : n \in {1, 12}, o \in {0, 1}}, 2) :
           Take([kind |-> k, packet_id |-> 7, props |-> ps, topics |-> ts])

\* The packets the broker answers with.
Headers ==
    {Connack(f, r, Text(n, 1)) : f \in 0..1, r \in BOOLEAN, n \in {1, 4, 11}}
    \union {[kind |-> "Disconnect", code |-> c, chain |-> NoProperties] : c \in {1, 4}}
    \union {[kind |-> "Typical", packet_id |-> i, code |-> 0, chain |-> NoProperties] :
               i \in {0, 9, 10, Word - 1}}
    \union {[kind |-> "Suback", packet_id |-> i, codes |-> Text(n, 2), chain |-> NoProperties] :
               i \in {0, 9, 10}, n \in {1, 5, 30}}

Answer ==
    /\ packet = NoPacket
    /\ \E vh \in Headers : Take([kind |-> "ANSWER", vh |-> vh])

Integer ==
    /\ packet = NoPacket
    /\ \E n \in 0..MaxInt : Take([kind |-> "INTEGER", value |-> n])

Done == packet # NoPacket /\ packet' = NoPacket /\ rest' = 0

Next == Connect \/ Publish \/ Subscribe \/ Answer \/ Integer \/ Done

Spec == Init /\ [][Next]_vars

Mem(bytes) == [data |-> bytes, rest |-> rest]

-----------------------------------------------------------------------------
(* What must hold. *)

\* A property whose bytes a uint8_t can count, and a chain of such ones.
Counted(ps) == \A i \in 1..Len(ps) : Len(PropertyBytes(ps[i])) < Byte
CountedString(s) == Len(s) + 2 < Byte

\* CodeVarInt writes what the protocol prescribes, GetVarIntSize knows its
\* size, and DeCodeVarInt (and ReadVariableInt) gives the number back, up to
\* the largest the protocol has; what is larger is an error.
IntegerExact ==
    packet.kind = "INTEGER" =>
        LET bytes == CodeVarInt(packet.value)
            back  == DeCodeVarInt(Mem(bytes), 0)
        IN  /\ GetVarIntSize(packet.value) = Len(bytes)
            /\ IF packet.value < Limits[4]
               THEN /\ bytes = IntBytes(packet.value)
                    /\ back = [ok |-> TRUE, value |-> packet.value, size |-> Len(bytes)]
               ELSE ~back.ok

\* A CONNECT is understood field by field, whatever of will, user name and
\* password it carries, while every property and every string that is
\* followed by another field fits the uint8_t that counts it; an empty user
\* name or password is refused, and a password that comes without a user name
\* is ignored.
ConnectHeard ==
    packet.kind = "CONNECT" =>
        \A old \in {NoProperties, AddProperty(NoProperties, topic_alias, 1)} :
            LET f     == packet.flags
                kept  == [conn |-> old, will |-> old]
                heard == HandleMqttConnect(f, kept, Mem(ConnectBytes(packet)))
            IN  /\ Counted(packet.props)
                /\ f.will => Counted(packet.will[1])
                /\ f.will \/ f.name => CountedString(packet.id)
                /\ f.name /\ f.pwd => CountedString(packet.name)
                => heard = [st    |-> IF f.name /\ packet.name = <<>> THEN "user_name_err"
                                     ELSE IF f.name /\ f.pwd /\ packet.pwd = <<>> THEN "auth_fail" ELSE "ok",
                            chain |-> After(old, packet.props),
                            id    |-> packet.id,
                            will  |-> IF f.will THEN <<After(old, packet.will[1]), packet.will[2],
                                                       packet.will[3]>> ELSE <<>>,
                            name  |-> IF f.name THEN packet.name ELSE <<>>,
                            pwd   |-> IF f.name /\ f.pwd /\ packet.name # <<>> THEN packet.pwd ELSE <<>>]

\* What a subscriber reads from a PUBLISH by the rules of the protocol.
ReadPublish(qos, out) ==
    LET len == out.body[1] * Byte + out.body[2]
        at  == 2 + len + (IF qos > 0 THEN 2 ELSE 0)
    IN  [topic   |-> SubSeq(out.body, 3, 2 + len),
         id      |-> IF qos > 0 THEN out.body[3 + len] * Byte + out.body[4 + len] ELSE 0,
         props   |-> out.body[at + 1],
         message |-> SubSeq(out.body, at + 2, Len(out.body))]

\* A message goes through the broker unharmed: with every property counted by
\* a uint8_t, a subscriber of any QoS reads the topic and the payload the
\* publisher sent, as far as the uint16_t length of the payload goes.  A
\* client that keeps to the maximum packet size of CONNACK loses nothing.
PublishRelayed ==
    packet.kind = "PUBLISH" /\ Counted(packet.props) =>
        LET heard == HandleMqttPublish(packet.qos, Mem(PublishBytes(packet)))
        IN  /\ heard.st = "ok"
            /\ \A q \in 0..2, i \in {1, Byte, Word - 1} :
                   ReadPublish(q, Relay(heard.topic, q, i, heard.message))
                   = [topic |-> packet.topic, id |-> IF q > 0 THEN i ELSE 0, props |-> 0,
                      message |-> SubSeq(packet.message, 1, Len(packet.message) % Word)]
            /\ Len(PublishBytes(packet)) <= Word - 1 => heard.message = packet.message

\* The copy of a chain is the chain, but for binary data, which grows by two
\* bytes that are not its own.
CopyExact ==
    packet.kind = "PUBLISH" /\ Counted(packet.props) =>
        LET chain == HandleMqttPublish(packet.qos, Mem(PublishBytes(packet))).chain
            sent  == FirstOfEach(packet.props)
        IN  /\ DOMAIN chain = DOMAIN sent
            /\ \A id \in DOMAIN sent :
                   IF DataType[id] = "binary_data"
                   THEN Len(chain[id]) = Len(sent[id]) + 2 /\ IsPrefix(sent[id], chain[id])
                   ELSE chain[id] = sent[id]

\* Every topic of a SUBSCRIBE or an UNSUBSCRIBE is heard, in order, with its
\* options, and no other.
TopicsHeard ==
    /\ packet.kind = "SUBSCRIBE" /\ Counted(packet.props) =>
           HandleMqttSubscribe(Mem(SubscribeBytes(packet)))
           = [packet_id |-> packet.packet_id, st |-> "ok", topics |-> packet.topics]
    /\ packet.kind = "UNSUBSCRIBE" /\ Counted(packet.props) =>
           HandleMqttUnsubscribe(Mem(SubscribeBytes(packet)))
           = [packet_id |-> packet.packet_id, st |-> "ok",
              topics |-> [i \in 1..Len(packet.topics) |-> [packet.topics[i] EXCEPT !.options = 0]]]

\* Framed: the length a packet announces is the number of bytes that follow,
\* and all of it fills the buffer allocated for it (the assertions at the end
\* of CreateMqttPacket).
Framed(out) ==
    /\ out.len = IntBytes(Len(out.body))
    /\ out.size = 1 + Len(out.len) + Len(out.body)

\* Every packet the broker writes is framed, that of a relayed message for
\* every QoS, payload length and packet id the protocol allows.  (Packet id 0,
\* which GenPacketID gives when it wraps, fails the assertion: MCBroker_wrap.)
AnswersFramed ==
    /\ packet.kind = "ANSWER" => Framed(CreateMqttPacket(packet.vh))
    /\ packet.kind = "PUBLISH" =>
           \A q \in 0..2, i \in {1, Byte, Word - 1} :
               Framed(Relay(packet.topic, q, i, packet.message))
=============================================================================
