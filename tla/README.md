# A TLA+ development of mqtt_broker

The broker is an MQTT 5 server in C++: one process, a main thread that accepts
connections, one ServerThread that polls and handles packets, two SenderThreads
that write, and a QoSThread meant for retransmission. This directory models it
in TLA+, checks the models with TLC on small instances, and proves the safety
properties of every part with TLAPS for all instances.

## Inventory

| Part | Source | State | Operations | What makes it correct |
|---|---|---|---|---|
| Packet handlers and tables | `mqtt_packet_handler.cpp`, `handlers.cpp`, `broker.cpp`, `client.cpp`, `mqtt_error_handler.cpp` | `clients`, `subscribed_clients`, per client id, will, subscriptions, `packet_id_gen`; `postponed_events` | one handler per packet type, `NotifyClients`, `NotifyClient`, `CloseConnection` | unique ids; the index of subscribers is exact; every publication reaches its subscribers once |
| Topic storage | `topic_storage.cpp`, `mqtt_topic.cpp` | `topics` (retained), `qos_2_topics` | store, match, QoS 2 add / get / delete | a stored QoS 2 message is forwarded once, by its own PUBREL |
| Topic filters | `client.cpp` (`checkWildCards`), `topic_storage.cpp` (`GetMatchedTopics`), `functions.cpp` (`tokenize`) | none | two matching loops | a filter accepts what it means; the loops agree; no read past the end |
| Input, keep-alive, wills | `broker.cpp`, `client.cpp`, `mqtt_protocol.cpp` (`ReadVariableInt`), `functions.cpp` (`ReadData`) | bytes in the socket, `time_last_packet`, `current_time` | blocking read of the header, non-waiting read of the rest, time-out, hang-up | an active client is kept, a dead one is closed, a will is published when it must be and only then |
| Encoding | `mqtt_protocol.cpp`, `mqtt_variable_header.cpp`, `mqtt_fixed_header.cpp`, `handlers.cpp` | none | variable-length integers, entities, property chains, headers | what is read is what was sent; sizes agree with what is written |
| Command queue | `command.cpp`, `functions.cpp` (`WriteData`) | `commands`, `com_mutex`, `cond` | `AddCommand`, `Notify`, `Execute` | nothing lost, duplicated or forgotten; a packet reaches its client |
| Accept loop and ServerThread | `main.cpp`, `broker.cpp` | `state`, `vec_fds`, control socket, `fd_to_delete`, the process's descriptors | `WaitForClient`, `AddClient`, `Start`, the started and wait states | one poller; table and sockets agree; every client is polled |
| Logging | `main.cpp`, `broker.cpp` (`InitLogger`), spdlog's rotating file sink | two sinks on one path: open file, buffer, size count | write, flush, rotate | bounded files; lines in order; lost by age only |
| QoS thread | `broker.cpp` | `postponed_events` (shared) | one send per second and client | (never finds anything to send) |
| Configuration, socket set-up, login | `functions.cpp`, `broker.cpp` | none after start | | not modelled |

How they interact. ServerThread reads packets and calls the handlers; the
handlers change the tables and call `AddCommand`; the senders take the commands
and write. main and ServerThread share `clients` (under `clients_mtx` for
changes, without it for reads), `state` (a plain int) and the descriptors, and
main speaks to ServerThread over the control socket. A stopping ServerThread
becomes, for one command, a third sender. All threads log.

What is hard: the races of main and ServerThread about `state`, the table and
reused descriptors; connections closed at the end of a pass or in the middle of
a handler, while commands for them are still queued; wake-ups that only come at
the end of a pass; two senders, and peers that do not read; reads that block in
the middle of a header while the clock runs; repeated QoS 2 packets on new
connections; sizes kept in a `uint8_t`; packet ids and option bytes at their
limits; two loggers that rotate one file. `PROJECT.json` lists each hazard at
its line.

## Modules

| Module | Models | State and actions |
|---|---|---|
| `TopicMatch` | tokenization and the two loops | operators; a name is a sequence of words and separators, as the regular expression `[\s\|\/]+` sees it |
| `MCTopicMatch` | all pairs of filter and topic | two variables that grow piece by piece |
| `Broker` | handlers, tables, storage | one action per packet and per way a connection ends; `cmds` and `notified` record what the last handler queued and forwarded |
| `BrokerProofs`, `TopicMatchProofs`, `QoS2FlowProofs`, `InputProofs`, `CodecProofs`, `CommandQueueProofs`, `ServerLoopProofs`, `LogRotationProofs` | theorems about the module each is named after | |
| `QoS2Flow` | `Broker` composed with a QoS 2 publisher and a stranger | the broker's steps are actions of `Broker`; the publisher's state machine, its connections and the answers on their way are external |
| `Input` | how ServerThread hears its clients | bytes, clocks, and one action per read that may wait |
| `Codec` | encoding and decoding | operators over bytes with 2 * Radix values |
| `MCCodec` | well-formed packets through `Codec` | the packet under way and the byte behind it in memory; the protocol's own encoding as reference |
| `CommandQueue` | `Commands`, the senders, the stopping ServerThread, the connections behind the descriptors | one action per critical section, per `write()` and per step of `Notify` |
| `Outbox` | what the queue promises | commands due and commands settled |
| `ServerLoop` | main and ServerThread | one action per step at which the other thread can interfere: accept, insert, test of `state`, ADD, start; count, fill, arm, poll, one slot, close, erase |
| `LogRotation` | the two loggers | a directory of names, files, and one action per system call of a rotation |
| `MCBroker`, `MCQoS2Flow`, `MCInput`, `MCCommandQueue`, `MCServerLoop`, `MCLogRotation` | instances | |

Some choices worth knowing:

- Broker: the handlers run in one thread, so a handler is one action. A handler
  that fails puts its descriptor on `fd_to_delete` (`doomed`), and `ClosePass`
  closes these connections later, after other handlers. The iteration order of
  an `unordered_map` is a choice. A read past the end of a token vector is
  undefined: `fault = "oob"`, or the comparison fails.
- `HeaderQoS`, `HeaderDup` and `HeaderType` say what `FHBuilder` does to a byte
  that is not a QoS; `SizeMatches` is the condition under which
  `assert(size == offset)` of `CreateMqttPacket` holds.
- RandomIds stands for what `GenRandom` returns in one run: no id twice. PriorIds
  are the ones an earlier run of the process generated; `rand()` is not seeded,
  so these are the same ids.
- QoS2Flow: a packet the broker has not read is one that was not yet sent, so
  sending and handling are one step; answers on their way are lost with the
  connection. `disturbed` collects the messages that shared client id and packet
  id with another stored copy: the publisher does not disturb itself on purpose,
  but a PUBLISH repeated after a lost PUBREC does, because the broker stores a
  second copy.
- Input: a client is orderly (its packets arrive whole) or ragged (they arrive
  byte by byte, or with too many length bytes). Time is kept as differences;
  `Tick` may come between any two steps, also while ServerThread waits in a read.
- Codec: the counters of the code that are a `uint8_t` or a `uint16_t` wrap at
  Byte and Word, which Radix scales down together with the 128 of a
  variable-length integer. Only one property identifier of each data type is
  kept, and those of CONNACK; `DataType` gives each its type. The loops of the
  code are recursive functions that run forward, as the loops do: `Walk` over the
  properties, `Topics` over the topics, `GetSize` over the identifiers.
- ServerLoop: `mem` is the memory of `vec_fds`, `size` the slots in use. When the
  pass counts more clients than slots, it reads what the memory holds: left-over
  slots, or, where nothing was ever written, a member of Garbage. `Poll` counts the
  clients and polls in one step: what main does in between it can as well do before.
  `BlockedBy` is a read of a header, or the CONNACK of an error handler, that does
  not return; ServerThread is then "stuck".
- CommandQueue: a wait on `cond` may end spuriously. `Notify` tests
  `commands.empty()` and signals in two steps, without the mutex. A connection
  has a number, a command the number of the connection it was made for (`dest`),
  which the code does not keep: `astray` compares the two. `ReadFixedHeader` and
  `HandleError` are the steps in which ServerThread waits for a client for ever.
- LogRotation: a sink's mutex makes its calls sequential, but the other sink has
  another mutex, so every system call is a step. A file without a name lives on
  while it is open. A file is its bytes; a line is a run of them of any length up to
  Longest, because the handlers log whole payloads and the sink writes a line that
  is longer than `max_size_` to the file it has just opened. Limit is the larger of
  `max_size_` and Longest. Old are the files earlier runs may have left, at the path
  and at the names behind it: none longer than twice Limit, which is what
  `FilesBounded` shows of those runs.

## Runs

Passing:

| Run | Shows | Bounds |
|---|---|---|
| `topic_match` | `LiveMatchExact`, `RetainedMatchExact`: what each loop accepts, compared with the meaning of a filter; `LiveOobExact`, `RetainedOobExact`: exactly when it reads past the end; `RetainedAgreesWithLive`: where the loops agree | two words, two separators, names of up to five pieces: up to three levels with a leading separator, or five separators in a row; both loops look at one level at a time and at the lengths |
| `sessions` | `UniqueClientId`, `SubscribedIndex`, `EverySubscriberNotified`, `NoPostponed` | two descriptors, one chosen and one generated id: enough for a takeover, a takeover of oneself and a reused descriptor; a topic of two levels, a filter that matches it with a wildcard and one that is a proper prefix and is read past its end; one stored QoS 2 copy; one PUBLISH with a generated packet id a connection (the counter starts at 1 and may come to 2), so that each of the two clients is notified, or is sent a retained message, once: the properties are about one handler's packets, which do not depend on the ids of earlier ones |
| `qos2_flow` | `Conserved`: every PUBLISH handled is forwarded or still stored; `OnceUndisturbed`: exactly once for a message nothing else collides with; `Completed`: every exchange ends | two messages of the publisher, one of the stranger, two packet ids, two connections lost, three stored copies: repetition of PUBLISH and of PUBREL, a reused packet id, refused CONNECTs |
| `input` | `OrderlyKept`, `NoWillAfterDisconnect`; and, unless the server waits for one client for ever, `OrderlyHeard`, `DeadDetected`, `WillKept` | one client of each kind; keep-alive and grace of one tick, so that the deadlines before and after CONNECT differ; two length bytes, so that one too many fits into the four bytes under way |
| `codec` | `IntegerExact`; `ConnectHeard`, `PublishRelayed`, `TopicsHeard`: fields arrive as sent, within the sizes the code can count; `CopyExact`: what copying a chain does; `AnswersFramed`: announced and written lengths agree | Radix 5: a byte counts to 10 and a word to 100, so that strings of 7 and 8 bytes and payloads of 99 to 102 lie around the limits; chains of up to two properties; CONNECT with every combination of will, user name and password; two values of the memory behind the packet; integers past the largest of four digits |
| `queue` | `ExactlyOnce`, `OnlyHeldOvertaken`, `NoLostWakeup`, `DeliveredOrEnded`, `ImplementsOutbox` | two senders, as in the code, one stopped ServerThread, three commands of up to two writes, two connections, one descriptor whose peer does not read, and any client may leave ServerThread in the middle of a header |
| `loop` | `OnePoller`, `TableMatchesSockets`, `NullExplained`, `AddHonoured`, with takeovers and arbitrary garbage | two descriptors, three connections: a descriptor is reused while the other is in use; any client may stop ServerThread |
| `log` | `SizeBounded`, `Ordered`; while no rotations have overlapped, `LostByAge` and `OnlyGrows` | two loggers of four bytes each, a limit of two bytes, lines of one byte and of three, which no file has room for, and two rotated files; a path that is fresh, filled by one logger of an earlier run or by both, or with all its rotated files: rotations that begin while the other logger's file is open, overlap, fail and drop the oldest file |

Runs that find what the code does against what its text says:

| Run | The code | The text |
|---|---|---|
| `packet_size` | the whole option byte is the QoS of a retained message, and the packet is built with a wrong size | the assertion at `mqtt_protocol.cpp:796` |
| `retained_wildcards` | a subscription with a wildcard is sent the retained messages it matches | the open point at `doc/to_do:1` |
| `misdelivered` | a packet is written to the next client on the descriptor | the log at `broker.cpp:173` |
| `lost_client` | a client that is never polled | the log at `main.cpp:54` |

`packet_size` contains a second way to the same assertion, a few steps longer than
the one TLC reports: `GenPacketID` returns 0 when its `uint16_t` wraps (here modulo
4), and a PUBLISH with a QoS above 0 then leaves out an id its size counts; with
`Options = {1}` in the cfg TLC reports that one. The theorem `RelayFramed` has the
exact condition. `AnswersFramed` is therefore about packet ids other than 0, and `RetainedMatchExact`
says which retained topics a filter with wildcards is sent.

Deadlock checking is off in the Broker, QoS2Flow and ServerLoop runs, where a
process that has crashed (`fault`) or used up its bound stops; in the queue
runs, where all writers may wait for peers that do not read; and in
`MCTopicMatch`, which enumerates. `input`, `codec` and `log` check it.

Fairness, and why the code justifies it:

- CommandQueue: poll returns after a second at the latest, and a pass comes to its
  end unless ServerThread waits in it for a client for ever, for the rest of a header
  or for a peer to read (`stuck`, from which it has no step); each thread that can
  run does, and a write to a peer that reads, or to
  a dead descriptor, returns. Nothing is assumed of peers in Slow, of new
  commands, or of clients coming and going. `Outbox` promises a command's end
  only while its peer reads, ServerThread is not stuck and somebody is left to write.
- ServerLoop: main and ServerThread go on; `accept` need not return, and neither need
  the read of a header or the write of an error handler (`BlockedBy`): `AddHonoured`
  and `EveryClientPolled` except a server that is stuck.
- Input: time passes, and ServerThread takes a step when it can. A read that
  waits is no step, so the liveness properties except behaviours in which the
  server waits for one client for ever (`<>[]Blocked`): the code has nothing
  that would end that.
- QoS2Flow: the broker ends its passes and notices dead connections, answers
  arrive, and the publisher connects again and goes on with each message. The
  first two are the broker's loop; the others are what MQTT asks of a publisher.
  Connections need not break, and the stranger need not do anything.

## Proofs

Every theorem holds for all values of the constants that satisfy the ASSUME of
its module, which TLC evaluates in the runs. Each inductive invariant was
checked by TLC on the instance of its run before it was proved, but for
CodecProofs's `PacketInv`, which quantifies over all sets.

Induction is done on sets of natural numbers: a non-empty set of them has a least
element (`LeastElement`, from the library's `WFMin`), so a set that has 0 and with
each number the next one is Nat (`SetInduction`). What a recursive function gives
is proved with it twice: its equation has a solution for every bound, and the
solution has the wanted value at every index.

`BrokerProofs`:

- `TypeCorrect` and `NothingEverPostponed`, from the inductive invariant
  `Typed == TypeOK /\ NoPostponed`. The two need each other: a packet is
  postponed only behind a postponed packet, and with nothing postponed the
  queued commands have simple types.
- `IndexExact`: `SubscribedIndex` is inductive over `TypeOK`. A close erases
  entry and client together; a new client on an old descriptor starts without
  subscriptions.
- `IdsUnique`, under `PriorIds = {}`: `UniqueClientId` is not inductive alone,
  because a generated id could already be somebody's. `IdInv` adds that a
  generated id a client has was handed out in this run. The hypothesis is needed: with a
  member of PriorIds, a client that presents it and one for which GenRandom
  returns it share the id, because the generated id is not looked up.
- `EverySubscriberReached`: the lemma `NotifyReaches` shows that one call of
  `NotifyClients` queues one PUBLISH for exactly the clients that want the
  topic, using that nothing is postponed (a postponed PUBLISH would not be
  queued) and that the index is exact.
- `NoAssertWhenTame`, under `Tame`: option bytes of subscriptions are 0 or have a
  QoS, and MaxGen leaves room below the modulus of `packet_id_gen`. Then no
  counter comes round (`Numbered`) and the assertion at `mqtt_protocol.cpp:796`
  never fails. Both hypotheses are needed: run `packet_size` breaks each of them.

`TopicMatchProofs` proves the five properties of `topic_match` for names of every
length over any words. The lemma `NamesTokenized`, by induction on the pieces of a
name, says what `tokenize` makes of it: no separator, of a topic no wildcard, of a
filter '#' as the last token only; `LiveMatchesMeaning`, `LiveOverrunsExactly`,
`RetainedMatchesMeaning`, `RetainedOverrunsExactly` and `LoopsAgree` rest on it. The
lemmas say that a walk passes exactly the levels the filter covers and where it
stops.

`QoS2FlowProofs`:

- `FlowRunsBroker`: every behaviour of the composition is one of `Broker`, so that
  the theorems about `Broker` hold in it, too.
- `MessagesConserved`, from `Counted`: each message was handled as often as it
  was forwarded and is stored; the lemmas count the copies that a PUBLISH adds and
  a PUBREL takes.
- `ForwardedOnce`, from `FlowTyped`, `Linked` (who is at the publisher's and the
  stranger's descriptors), `OwnStored` (what can be stored of the publisher's
  messages) and `Undisturbed`: an undisturbed
  message is stored once or was forwarded once, and while it is stored no other
  copy and no message in flight has its packet id.

`InputProofs` proves `OrderlyClientsKept` and `NoWillAfterFarewell`, from `Typed`,
`Slotted` (which slots a pass has still to visit) and `Kept`: what an orderly
client has in the socket, with the bytes ServerThread has taken of it already, is
whole packets, CONNECT first and DISCONNECT last; and the server's count of its
silence (`idle` and the time that has passed since the clock was read) never runs
ahead of the client's own as long as nothing of it waits to be read. The last is
where a keep-alive rule goes wrong: a pass takes the time once, and every packet
it reads is dated with that time, however long the pass has waited meanwhile.

`CodecProofs` proves the six properties of `codec`. `RadixAssumption` is all that is
assumed of a byte (Radix is at least 5, 128 in the code), and nothing of the memory
behind a packet.

- `IntegersCoded`: `CodeVarInt` digit by digit (`CodeVarIntStep`, `CodeVarIntForms`)
  against the protocol's bytes, `GetVarIntSize` as the count of these digits
  (`CountIs`), `DeCodeVarInt` up to the first byte without the continuation bit.
- `EveryAnswerFramed`: what is written has the size that is computed, entity by entity
  (`Serialized`), for a chain that a `uint16_t` counts (`ChainSerialized`), for each
  header (`HeaderSerialized`). `RelayFramed` says which relayed message is framed:
  one of QoS 0, or with a packet id other than 0.
- `MessageRelayed`, `ChainCopied`, `SubscriptionHeard` and `ConnectionHeard` are about
  every packet of a kind, not only those of the run: any number of properties, topics
  of any number and length, any payload (`IsPublish`, `IsSubscribe`, `IsConnect`). A
  predicate `Holds(mem, o, bytes)` says that bytes lie at an offset; `PropertyHeard`
  gives what `CreateProperty` makes of each type there, `Walked` that the loop of
  `Create` takes all of a chain (`ChainIsHeard`), `TopicsWalked` the same of the loop
  over the topics. The hypothesis `Counted`, that a `uint8_t` counts the bytes of each
  property, is the one under which the code reads its packets right: the size of a
  property is kept modulo Byte. So is `CountedString` for a client identifier or user
  name with another field behind it.
- `EveryMessageRelayed`, `EveryCopyExact`, `EveryTopicHeard` and `EveryConnectionHeard`
  follow with `PacketInv`: every packet under way is one of its kind.

`CommandQueueProofs`:

- `QueueTypeCorrect`, `CommandsExactlyOnce`, `OvertakingBounded`: `Places` says
  that the queue holds the newest commands in order, and that each one taken off
  it is held by exactly one thread or executed.
- `WakeupNotLost`, from `Awake`: at the end of a pass nobody waits on a queue that
  is not empty. It needs a sender that neither ends nor is one of the stopped
  ServerThreads (`QueueAssumption`): main starts two and never stops them.
- `QueuedPacketsDelivered`: what was executed was written whole to its own client
  unless that connection has ended, because a descriptor changes hands only by the
  end of the connection (`Addressed`).
- `QueueImplementsOutbox`: Init implies Outbox's, and every step is one of
  Outbox's or a stutter. Its fairness is left to the run.

`ServerLoopProofs`:

- `LoopTypeCorrect`, and `OneServerThread`, which is inductive over the types: the
  state is init exactly while no ServerThread is in its loop.
- `TableAgreesWithSockets`, from `Sockets`: the connection in main's hands is open
  and not in the table, the ones ServerThread has closed are in the table until
  it erases them.
- `NullOnlyAsExplained`, from `Filled`, `Doomed` and `Progress`: without a takeover
  the slots of `vec_fds` name clients, each once, with the control socket last,
  and only slots already visited are given up, so that a slot within the array is
  never without a client.

`LogRotationProofs`:

- `LinesInOrder`: names are ordered by age of the inodes (`DirOrdered`); the
  lines of a logger are in order across all inodes, named or not (`Sorted`); and
  what a sink has buffered comes after all of its lines, and goes to an inode that
  is no older than any of them (`Filed`, `Buffered`). Nothing is assumed about the
  rotations, which may overlap, fail and truncate.
- `FilesBounded`: no sink counts the other's bytes, so the invariant is a claim: what
  a sink has buffered for a file and what its own count still allows it. A claim is
  at most Limit, the larger of max_size_ and the longest line, because a line that
  is too long is only written to a file its sink has found or made empty
  (`Counted`); a file and the claims on it are at most twice that
  (`Claimed`); and a sink between its truncation and its opening of the file finds
  that the file and the other sink's claim take up no more than half (`Roomy`).
- `KeptByAge` and `NothingCut`, from `Unclashed`: while no rotations have overlapped,
  one sink rotates at most, none of its renames fails (`Alone`), and a file born a
  rotations ago has name a, or a - 1 if the rotation under way has not come to it
  (`Placed`). So the name 0 is free when reopen(true) truncates.

Only model-checked:

- liveness under fairness, which the prover does not do: `Completed`,
  `OrderlyHeard`, `DeadDetected`, `WillKept`, `AddHonoured`, and the fairness
  of `ImplementsOutbox` (`QueueImplementsOutbox` is about Outbox's steps);
- the findings, which are counterexamples.

## Not modelled

- Configuration and socket set-up happen once, before the first client, and keep
  no state. Login is declared and not implemented. The V3 headers, `isIdentifier`,
  `isProperties`, `GetStoredValue` and the like have no caller.
- QoSThread's iteration: `NothingEverPostponed` shows that it has nothing to do.
- The data races on `state`, `clients` and `commands.empty()` are interleavings
  of atomic reads and writes; a torn read is not considered.
- Failures of fopen and fwrite in the loggers, and of the control socket (`socket`,
  `connect` and `write` of `SendCommand`, `accept` and `read` of ServerThread); a
  `max_files_` of 0, for which a rotation truncates and renames nothing.
- The order of bytes that two senders write to one connection at once.
- MQTT reason codes, log texts and levels.
- The vendored libraries (spdlog but for the rotating file sink, fmt, libconfig)
  are about 26 400 of the 30 600 lines of C++ under `src/`: formatting, templates,
  sinks and platforms this program does not use. They have no state of the broker
  and are left out, which is why the share of all lines the map covers stays low
  although of the broker's own 4 300 lines more than half are mapped, and of
  its `.cpp` files two thirds.

## Plan

1. An abstract specification of the tables (a set of sessions with their
   filters) that Broker implements, with the proof of its steps.
