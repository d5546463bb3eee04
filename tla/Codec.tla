------------------------------- MODULE Codec -------------------------------
(***************************************************************************)
(* What the broker reads from a packet's bytes and the bytes it writes:    *)
(* variable-length integers, strings and binary data, property chains,     *)
(* variable headers, whole packets (mqtt_protocol.cpp,                     *)
(* mqtt_variable_header.cpp, mqtt_fixed_header.cpp, handlers.cpp).         *)
(*                                                                         *)
(* A byte has 2 * Radix values, half of them with the continuation bit of  *)
(* a variable-length integer, so that the counters of the code that are a  *)
(* uint8_t or a uint16_t wrap at Byte and at Word.  A packet in memory is  *)
(* a record mem: its bytes, and the byte that lies everywhere behind them. *)
(* Offsets start at 0.  Fields at fixed places that only select a branch   *)
(* (the type and flags of the fixed header, version and flags of CONNECT)  *)
(* are arguments instead of bytes.                                         *)
(***************************************************************************)
EXTENDS Integers, Sequences, SequencesExt

CONSTANT Radix      \* 128 in the code

ASSUME RadixAssumption == Radix \in Nat /\ Radix >= 5

Byte == 2 * Radix
Word == Byte * Byte

At(mem, o) == IF o < Len(mem.data) THEN mem.data[o + 1] ELSE mem.rest
Read(mem, o, n) == [i \in 1..n |-> At(mem, o + i - 1)]

\* Network byte order: htons, htonl and back.
Big2(v) == <<(v \div Byte) % Byte, v % Byte>>
Big4(v) == Big2(v \div Word) \o Big2(v)
ConvertToHost2Bytes(mem, o) == At(mem, o) * Byte + At(mem, o + 1)
ConvertToHost4Bytes(mem, o) ==
    ConvertToHost2Bytes(mem, o) * Word + ConvertToHost2Bytes(mem, o + 2)

-----------------------------------------------------------------------------
(* Variable-length integers: the low digit first. *)

CodeVarIntBigFirst(value) ==
    LET digits[v \in 0..value] ==
            IF v < Radix THEN <<v>> ELSE digits[v \div Radix] \o <<(v % Radix) + Radix>>
    IN  digits[value]
CodeVarInt(value) ==
    LET digits[v \in 0..value] ==
            IF v < Radix THEN <<v>> ELSE <<(v % Radix) + Radix>> \o digits[v \div Radix]
    IN  digits[value]

GetVarIntSizeLoose(value) == IF value <= Radix THEN 1 ELSE Len(CodeVarInt(value))
GetVarIntSize(value) ==
    LET count[v \in 0..value] == IF v = 0 THEN 0 ELSE 1 + count[v \div Radix]
    IN  IF value = 0 THEN 1 ELSE count[value]

\* A fifth byte is an error.
DeCodeVarInt(mem, o) ==
    LET last     == {i \in 0..3 : At(mem, o + i) < Radix}
        n        == Min(last)
        Digit(i) == IF i <= n THEN At(mem, o + i) % Radix ELSE 0
    IN  IF last = {} THEN [ok |-> FALSE, value |-> 0, size |-> 0]
        ELSE [ok    |-> TRUE,
              value |-> Digit(0) + Radix * (Digit(1) + Radix * (Digit(2) + Radix * Digit(3))),
              size  |-> n + 1]

-----------------------------------------------------------------------------
(* Entities and properties.  One identifier for each the broker announces  *)
(* in CONNACK, and one for each other type of data.                        *)

retain_available                == 1
wildcard_subscription_available == 2
shared_subscription_available   == 3
maximum_packet_size             == 4
assigned_client_identifier      == 5
topic_alias                     == 6
correlation_data                == 7
user_property                   == 8
subscription_identifier         == 9

DataType == <<"byte", "byte", "byte", "four_byte", "mqtt_string", "two_byte",
              "binary_data", "mqtt_string_pair", "variable_int">>

Size(id, v) ==
    CASE DataType[id] = "byte" -> 1
      [] DataType[id] = "two_byte" -> 2
      [] DataType[id] = "four_byte" -> 4
      [] DataType[id] \in {"mqtt_string", "binary_data"} -> 2 + Len(v)
      [] DataType[id] = "mqtt_string_pair" -> 2 + Len(v[1]) + 2 + Len(v[2])
      [] DataType[id] = "variable_int" -> GetVarIntSize(v)

SerializeString(s) == Big2(Len(s) % Word) \o s
Serialize(id, v) ==
    CASE DataType[id] = "byte" -> <<v>>
      [] DataType[id] = "two_byte" -> Big2(v)
      [] DataType[id] = "four_byte" -> Big4(v)
      [] DataType[id] \in {"mqtt_string", "binary_data"} -> SerializeString(v)
      [] DataType[id] = "mqtt_string_pair" -> SerializeString(v[1]) \o SerializeString(v[2])
      [] DataType[id] = "variable_int" -> CodeVarInt(v)

\* A length and the bytes it counts.
ReadString(mem, o) == Read(mem, o + 2, ConvertToHost2Bytes(mem, o))

\* CreateMqttStringEntity, and CreateMqttBinaryDataEntity for the password: an
\* empty one is a null pointer with size 0; the size is a uint8_t.
CreateMqttStringEntityBare(mem, o) ==
    LET len == ConvertToHost2Bytes(mem, o)
    IN  [value |-> Read(mem, o + 2, len), size |-> IF len = 0 THEN 0 ELSE len % Byte]
CreateMqttStringEntity(mem, o) ==
    LET len == ConvertToHost2Bytes(mem, o)
    IN  [value |-> Read(mem, o + 2, len), size |-> IF len = 0 THEN 0 ELSE (2 + len) % Byte]

\* The property at offset o and the bytes it takes, a uint8_t.
Property(mem, o, v, n) == [ok |-> TRUE, id |-> At(mem, o), value |-> v, size |-> n % Byte]
NoProperty == [ok |-> FALSE, id |-> 0, value |-> 0, size |-> 0]

CreateProperty(mem, o) ==
    LET String(len) == Property(mem, o, Read(mem, o + 3, len), 3 + len)
        StringPair(len, len2) ==
            Property(mem, o, <<Read(mem, o + 3, len), Read(mem, o + 5 + len, len2)>>, 5 + len + len2)
        VInt(int) == IF int.ok THEN Property(mem, o, int.value, 1 + int.size) ELSE NoProperty
        OfType(type, len) ==
            CASE type = "byte" -> Property(mem, o, At(mem, o + 1), 2)
              [] type = "two_byte" -> Property(mem, o, len, 3)
              [] type = "four_byte" -> Property(mem, o, ConvertToHost4Bytes(mem, o + 1), 5)
              [] type \in {"mqtt_string", "binary_data"} -> String(len)
              [] type = "mqtt_string_pair" ->
                     StringPair(len, ConvertToHost2Bytes(mem, o + 3 + len))
              [] type = "variable_int" -> VInt(DeCodeVarInt(mem, o + 1))
    IN  IF At(mem, o) \in DOMAIN DataType
        THEN OfType(DataType[At(mem, o)], ConvertToHost2Bytes(mem, o + 1))
        ELSE NoProperty

-----------------------------------------------------------------------------
(* Property chains: a map from identifiers, in their order. *)

NoProperties == <<>>

\* An identifier that is there keeps its value.
AddPropertyLast(chain, id, v) ==
    [i \in DOMAIN chain \union {id} |-> IF i = id THEN v ELSE chain[i]]
AddProperty(chain, id, v) ==
    [i \in DOMAIN chain \union {id} |-> IF i \in DOMAIN chain THEN chain[i] ELSE v]

\* The loop of Create over len bytes from offset o: how it ends, the bytes left
\* then, and the properties it has added.  A property of size 0 keeps the loop
\* where it is for ever, and one longer than what is left makes p_len, a
\* uint32_t, wrap: "astray".
Walk(mem, o, len) ==
    LET Meet(s, property) ==
            IF ~property.ok THEN [s EXCEPT !.st = "mqtt_property_err"]
            ELSE IF property.size \notin 1..s.left THEN [s EXCEPT !.st = "astray"]
            ELSE [s EXCEPT !.left = @ - property.size,
                           !.chain = AddProperty(@, property.id, property.value)]
        Turn(s) == IF s.st # "ok" \/ s.left = 0 THEN s
                   ELSE Meet(s, CreateProperty(mem, o + len - s.left))
        after[k \in 0..len] ==
            IF k = 0 THEN [st |-> "ok", left |-> len, chain |-> NoProperties]
            ELSE Turn(after[k - 1])
    IN  after[len]

\* Create, on a chain that may hold properties from before: they stay when the
\* packet has none.
Create(chain, mem, o) ==
    LET Filled(len, walk) ==
            [st |-> walk.st, chain |-> walk.chain, size |-> len.size + len.value - walk.left]
        OfLength(len) ==
            IF ~len.ok THEN [st |-> "var_int_err", chain |-> chain, size |-> 0]
            ELSE IF len.value = 0 THEN [st |-> "ok", chain |-> chain, size |-> len.size]
            ELSE Filled(len, Walk(mem, o + len.size, len.value))
    IN  OfLength(DeCodeVarInt(mem, o))

\* The copy constructor and the copy assignment: binary data is copied with
\* its Size(), which counts the two bytes of its length too.
CopyProperty(id, v, rest) ==
    IF DataType[id] = "binary_data" THEN v \o <<rest, rest>> ELSE v
Copy(chain, rest) == [id \in DOMAIN chain |-> CopyProperty(id, chain[id], rest)]

\* GetSize is a uint16_t.
GetSize(chain) ==
    LET upTo[id \in 0..Len(DataType)] ==
            IF id = 0 THEN 0
            ELSE upTo[id - 1] + (IF id \in DOMAIN chain THEN Size(id, chain[id]) + 1 ELSE 0)
    IN  upTo[Len(DataType)] % Word

SerializeChain(chain) ==
    CodeVarInt(GetSize(chain))
        \o FlattenSeq([id \in 1..Len(DataType) |->
                          IF id \in DOMAIN chain THEN <<id>> \o Serialize(id, chain[id]) ELSE <<>>])

-----------------------------------------------------------------------------
(* Variable headers and packets. *)

\* What a header takes without its chain.
FixedSize(vh) ==
    CASE vh.kind = "Connack" -> 2
      [] vh.kind = "Disconnect" -> 1
      [] vh.kind = "Typical" -> 3
      [] vh.kind = "Suback" -> 2 + Len(vh.codes)
      [] vh.kind = "Publish" -> 2 + Len(vh.topic) + 2
HeaderSize(vh) == FixedSize(vh) + GetVarIntSize(GetSize(vh.chain)) + GetSize(vh.chain)

\* "Typical" stands for PUBACK, PUBREC, PUBREL and PUBCOMP, "Suback" for
\* SUBACK and UNSUBACK.
SerializeHeader(vh) ==
    LET chain == SerializeChain(vh.chain)
    IN  CASE vh.kind = "Connack" -> <<vh.flags, vh.code>> \o chain
          [] vh.kind = "Disconnect" -> <<vh.code>> \o chain
          [] vh.kind = "Typical" -> Big2(vh.packet_id) \o <<vh.code>> \o chain
          [] vh.kind = "Suback" -> Big2(vh.packet_id) \o chain \o vh.codes
          [] vh.kind = "Publish" ->
                 SerializeString(vh.topic)
                     \o (IF vh.packet_id # 0 THEN Big2(vh.packet_id) ELSE <<>>) \o chain

\* The fixed header, behind its first byte, and the bytes it announces; the
\* size of the allocated buffer.
CreateMqttPacket(vh) ==
    LET remaining_len == HeaderSize(vh)
    IN  [len  |-> CodeVarInt(remaining_len), body |-> SerializeHeader(vh),
         size |-> remaining_len + GetVarIntSize(remaining_len) + 1]

CreatePublish(vh, qos, message) ==
    LET remaining_len == HeaderSize(vh) + Len(message) - (IF qos = 0 THEN 2 ELSE 0)
    IN  [len  |-> CodeVarInt(remaining_len), body |-> SerializeHeader(vh) \o message,
         size |-> remaining_len + GetVarIntSize(remaining_len) + 1]

\* CONNACK of an accepted CONNECT: the client id when the broker chose it.
Connack(flags, random, id) ==
    LET retain   == AddProperty(NoProperties, retain_available, 1)
        size     == AddProperty(retain, maximum_packet_size, Word - 1)
        wildcard == AddProperty(size, wildcard_subscription_available, 1)
        shared   == AddProperty(wildcard, shared_subscription_available, 0)
    IN  [kind |-> "Connack", flags |-> flags, code |-> 0,
         chain |-> IF random THEN AddProperty(shared, assigned_client_identifier, id) ELSE shared]

\* PUBLISH to a subscriber: no properties, packet id 0 with QoS 0.
Relay(topic, qos, packet_id, message) ==
    CreatePublish([kind |-> "Publish", topic |-> topic,
                   packet_id |-> IF qos = 0 THEN 0 ELSE packet_id,
                   chain |-> NoProperties], qos, message)

-----------------------------------------------------------------------------
(* Packets from clients. *)

\* The payload: what follows the variable header, its length a uint16_t.
PayloadLengthOfAll(mem, offset) == Len(mem.data) % Word
PayloadLength(mem, offset) == (Len(mem.data) - offset) % Word

\* The result of Create is not looked at.
HandleMqttPublish(qos, mem) ==
    LET Payload(topic, at, chain) ==
            [topic     |-> topic,
             packet_id |-> IF qos > 0 THEN ConvertToHost2Bytes(mem, at - 2) ELSE 0,
             st        |-> chain.st,
             chain     |-> Copy(chain.chain, mem.rest),
             message   |-> Read(mem, at + chain.size, PayloadLength(mem, at + chain.size))]
        Properties(topic, at) == Payload(topic, at, Create(NoProperties, mem, at))
        Topic(topic) == Properties(topic, 2 + Len(topic) + (IF qos > 0 THEN 2 ELSE 0))
    IN  Topic(ReadString(mem, 0))

\* The topics of SUBSCRIBE, each with its options, and of UNSUBSCRIBE.
Topics(mem, chain, options) ==
    LET Hear(s, len) ==
            [offset |-> s.offset + 2 + len + options,
             topics |-> Append(s.topics,
                 [name    |-> Read(mem, s.offset + 2, len),
                  options |-> IF options = 1 THEN At(mem, s.offset + 2 + len) ELSE 0])]
        Turn(s) == IF s.offset >= Len(mem.data) THEN s
                   ELSE Hear(s, ConvertToHost2Bytes(mem, s.offset))
        after[k \in 0..Len(mem.data)] ==
            IF k = 0 THEN [offset |-> 2 + chain.size, topics |-> <<>>] ELSE Turn(after[k - 1])
    IN  [packet_id |-> ConvertToHost2Bytes(mem, 0), st |-> chain.st,
         topics |-> after[Len(mem.data)].topics]
HandleMqttSubscribeNoOptions(mem) == Topics(mem, Create(NoProperties, mem, 2), 0)
HandleMqttSubscribe(mem) == Topics(mem, Create(NoProperties, mem, 2), 1)
HandleMqttUnsubscribe(mem) == Topics(mem, Create(NoProperties, mem, 2), 0)

\* The will of CONNECT at offset o, and where it ends.
ReadWill(kept, mem, o) ==
    LET Whole(chain, topic, data) ==
            [st |-> "ok", value |-> <<chain.chain, topic, data>>,
             next |-> o + chain.size + 2 + Len(topic) + 2 + Len(data)]
        Message(chain, topic) ==
            Whole(chain, topic, ReadString(mem, o + chain.size + 2 + Len(topic)))
        Topic(chain) ==
            IF chain.st # "ok" THEN [st |-> chain.st, value |-> <<>>, next |-> o]
            ELSE Message(chain, ReadString(mem, o + chain.size))
    IN  Topic(Create(kept, mem, o))

\* User name and password at offset o; an empty one is refused.
NoLogin(st) == [st |-> st, name |-> <<>>, pwd |-> <<>>]
ReadLogin(flags, mem, o) ==
    LET Password(name, pwd) ==
            [st   |-> IF flags.pwd /\ pwd.value = <<>> THEN "auth_fail" ELSE "ok",
             name |-> name.value, pwd |-> IF flags.pwd THEN pwd.value ELSE <<>>]
        Name(name) ==
            IF name.value = <<>> THEN NoLogin("user_name_err")
            ELSE Password(name, CreateMqttStringEntity(mem, o + name.size))
    IN  IF flags.name THEN Name(CreateMqttStringEntity(mem, o)) ELSE NoLogin("ok")

\* CONNECT behind its ten fixed bytes: the properties (kept from an earlier
\* CONNECT when there are none), the client id, the will, user name and
\* password.  The first failure ends it; what was read before has been stored.
HandleMqttConnect(flags, kept, mem) ==
    LET Outcome(chain, id, will, login) ==
            [st |-> login.st, chain |-> chain.chain, id |-> id, will |-> will,
             name |-> login.name, pwd |-> login.pwd]
        Login(chain, id, will) ==
            Outcome(chain, id, will.value,
                    IF will.st = "ok" THEN ReadLogin(flags, mem, will.next) ELSE NoLogin(will.st))
        Will(chain, id, o) ==
            Login(chain, id.value,
                  IF flags.will THEN ReadWill(kept.will, mem, o)
                  ELSE [st |-> "ok", value |-> <<>>, next |-> o])
        Id(chain, id) == Will(chain, id, chain.size + (IF id.size # 0 THEN id.size ELSE 2))
        Chain(chain) ==
            IF chain.st # "ok" THEN Outcome(chain, <<>>, <<>>, NoLogin(chain.st))
            ELSE Id(chain, CreateMqttStringEntity(mem, chain.size))
    IN  Chain(Create(kept.conn, mem, 0))
=============================================================================
