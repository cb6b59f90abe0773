# jkbms2mqtt: specifications and proofs

jkbms2mqtt is a bridge: it polls a JK battery management system (BMS) over a
serial line, publishes what it reads to an MQTT broker for Home Assistant, and
writes two switches (charging, balancing) back when Home Assistant asks. It is
one process of tokio tasks that own their state and talk through channels. What
is hard in it is mostly the control: commands an actor posts to itself, retries
that race new requests, sessions that come and go on both sides, bounded
channels that refuse, and a shutdown that has to get through all of it. What is
hard in its data is that lists written down in four places have to agree, and
that a snapshot is put together from polls made at different times.

## 1. The system

| Component | Code | State | Operations |
|---|---|---|---|
| BMS handle | `src/jkbms/connection.rs` | sender of a bounded command channel, task handle | `write` (try_send), `stop` (drop the sender) |
| BMS connection actor | `src/jkbms/connection_manager.rs` | the transport, `reconnect_attempt`, `consecutive_failures`, `pending_writes` with `queued_at`, two `_scheduled` flags, an internal channel, a `DelayQueue`, the last poll times | `connect`/`resync`, `run_data_polling`, `write_command`, `retry_writes`, `handle_disconnect` |
| Serial protocol | `src/jkbms/protocol.rs`, `transport.rs` | input buffer, `needs_drain` | request, read and validate a frame; write a register and read the ack |
| Frame decoders | `src/jkbms/types.rs`, `protocol.rs` | none | bytes to records |
| Coordinator | `src/coordinator/coordinator.rs` | flags, `next_seq`, reconnect counters | `handle_incoming`, `handle_jkbms_event`, `handle_broker_connected`, health query |
| Aggregator | `src/coordinator/aggregator.rs` | the last fragment of each kind | `set_*`, `snapshot` |
| Switch freeze | `src/coordinator/freeze.rs` | per switch an optional `(seq, value)` | `freeze`, `apply`, `clear`, `apply_to` |
| MQTT handle | `src/mqtt/connection.rs` | sender of a bounded command channel, task handle | four `try_send`s, `stop` |
| MQTT connection manager | `src/mqtt/connection_manager.rs` | the session's client and event loop, `backoff`, `connected_at` | `run`, `run_new_session`, `run_eventloop`, `dispatch` |
| Inbound parser, topics, formatter, discovery | `src/mqtt/inbound.rs`, `topics.rs`, `formatter.rs`, `discovery.rs` | none | which entities there are, where their states go, which commands there are |
| Supervisor | `src/supervisor.rs`, `src/coordinator/handle.rs` | the coordinator's `JoinHandle` and shutdown watch | `run`, `run_once`, `stop` |
| main | `src/main.rs` | the process shutdown watch | await a signal, await the supervisor |
| Healthcheck | `src/healthcheck/` | listener, connection tasks, a bounded query channel to the coordinator | accept, query, answer within a timeout; the client's `check` |
| Configuration | `src/config.rs` and others | none after start | parse the environment |

How they interact:

    Home Assistant <-> broker <-> event loop --MqttEvents--> coordinator --write--> BMS actor <-> serial line
                          ^          (unbounded)              |     ^               (bounded)
                          +-- manager <----MqttCommand--------+     +----JkBmsEvents---- (unbounded)
                                           (bounded, try_send)

    another process --socket--> healthcheck server --HealthQuery (bounded)--> coordinator

The coordinator owns both handles. Dropping a handle closes its command
channel, which is the only way either connection task is told to end. The
supervisor watches the coordinator's task and the shutdown signal.

The behaviours that are hard, by component, and what makes it correct:

- **BMS actor.** It lives on commands it posts to itself: a lost
  `RunDataPolling` or `Connect` stops it silently for ever, a doubled one
  multiplies. A write may be refused, sent at once, queued, retried, evicted by
  age, answered by a failure, or confirmed by a readback: exactly one of these,
  in the order of the requests. What it reports of the link has to be true.
- **Coordinator.** Between a request and its confirmation, polls return the old
  switch value and must not be shown. Requests, answers, polls and broker
  sessions interleave freely, and `seq`s are compared across both switches.
- **MQTT manager.** A session is two tasks; either may end it while the other
  waits, the dispatcher possibly in the middle of a command with the client's
  request channel full. Events of two sessions must alternate, commands must
  come whole and in order, and the task has to end when the handle is dropped.
- **The two together.** All calls are try_sends: with the channel full a
  publication is lost, and only later events make up for it.
- **Supervisor.** Task panics, task exits and the signal race each other, and
  everybody awaits somebody.
- **Healthcheck.** Three timeouts in two processes, late answers, a channel that
  fills with questions nobody waits for any more, and a server that is aborted
  or dies in the middle of all that. The exit status has to be true, and no
  task may hang.
- **Aggregator, discovery, formatter.** The number of cells is used in four
  places and may change while the bridge runs; every state needs its
  announcement, every switch a command topic that is subscribed to.

`PROJECT.json` lists each of these hazards at its line, with the properties
that cover it.

## 2. The modules

| Module | Models | Uses |
|---|---|---|
| `WriteService` | what the BMS side promises about writes | |
| `JkBmsManager` | the BMS actor and its handle | implements `WriteService` |
| `JkBmsProtocol` | requests, late answers and the drain on the serial line | |
| `Coordinator`, `MCCoordinator` | coordinator, aggregator, freeze | environment: what `WriteService` allows |
| `MqttService` | what the MQTT side does with commands | |
| `MqttManager` | the MQTT manager's two tasks and its handle | implements `MqttService` |
| `Bridge`, `MCBridge` | coordinator, MQTT side, broker, Home Assistant | `Coordinator`, built on `MqttService` |
| `Supervisor` | supervisor; the lives of coordinator, connection tasks and healthcheck server | |
| `Healthcheck`, `MCHealthcheck` | healthcheck server, its connections, the query channel, the clients | `Supervisor` |
| `StateAggregator` | the computations of the aggregator | |
| `Entities` | topics, discovery, formatter, inbound parser | |
| `Telemetry`, `MCTelemetry` | coordinator and aggregator with what the events carry | `Coordinator`, `StateAggregator`, `Entities` |
| `QueueLemmas` | facts about sequences used as queues, proved | |
| `JkBmsManagerProofs`, `JkBmsProtocolProofs`, `CoordinatorProofs`, `MqttManagerProofs`, `HealthcheckProofs` | the theorems about each module | the module, `QueueLemmas` |
| `BridgeProofs`, `TelemetryProofs` | the theorems about the compositions | `Bridge`, `Telemetry`; `CoordinatorProofs` |

The two abstract specifications are the seams: the actor on each side is
checked against its own (`RefinesWriteService`, `RefinesMqttService`), and what
composes them uses the abstract one.

### JkBmsManager

The actor's task runs a handler to completion between two turns of its
`select!`. An action is the code between two awaits and `pc` names the await:
`connect` (opener), `resync` and `polling` (a poll), `write` (the ack),
`readback` (the config poll of `do_write`), `idle` (the select!), `done`.
Variables carry the names of the fields. `internal` is the internal channel,
`delayed` counts what the `DelayQueue` holds of each command, `scheduled` is
the set of `_scheduled` flags. `Submit` and `Close` are the handle's `write`
and `stop`, `Open`, `ResyncPoll`, `Poll`, `WriteAck` and `Readback` the returns
of awaits, `Recv*` the branches of the select!, and the helpers
(`HandleDisconnect`, `ScheduleReconnect`, ...) are those of the code.

Abstracted: the outcome of an exchange is `ok`, `soft` or `hard`
(`is_hard_io`); time is the possibility that a delayed command is due and, for
the queue, how many of its heads are older than `WRITE_TTL` (entries are
appended with the current time, so they are a prefix); which polls are due is
any set the intervals allow. `reconnect_attempt` saturates one past the
schedule, beyond which the code tells no values apart. A write is its seq: the
value asked for is copied through.

### JkBmsProtocol

An answer is a sequence of units (stretches of bytes) tagged with their kind,
their place and whether they answer the request that runs; `coming` is what the
BMS has sent, `buffer` what has arrived. A read takes a number of units
whoever's they are, and a read that times out takes what there is. `DrainRead`
takes up to a buffer and looks at the cap only before it reads, so the last read
may go past it; a drain ends at the cap or when nothing comes (`DrainEnds`), and
also at a read error or a read of 0 bytes (`DrainFails`), after which the request
is sent all the same. `cut` is a history variable: a drain ended so, and since
then none found the line quiet nor was the transport given up. `Decoded` is what the decoders can
tell: `validate` sees a whole frame and not its type, `decode_alarm_response`
the whole of an answer, `decode_write_ack` the head of an ack. Assumed: a
checksum never passes by accident, and a piece of a frame is never taken for
the head of an ack. The kinds of frames are interchangeable, two are checked.

The caller is the actor: alarms are polled once in a cycle, and between two
alarm polls there is always a frame poll (`DuePlans` of `JkBmsManager`: what a
delayed cycle does not poll, a resync has polled). `OwnAnswer` depends on it,
since alarm polls do not drain. A line is `flaky` (it loses, adds and delays
bytes), `prompt` (it loses some, and is late, but not later than a drain
waits), or from some time on `good`.

### Coordinator

One event is handled at a time; its calls of the MQTT handle are try_sends on a
channel that another task drains meanwhile, so `outbox` holds the calls the
running handler has still to make and each is a step. `RecvBrokerConnected`,
`RecvIncoming`, `RecvData` etc. are the branches. Of a snapshot only the
switches are kept here; `Telemetry` has the rest of it and the two reconnect
counters, and `Healthcheck` the arm of the health queries, which only reads two
flags.

The BMS side is the most general environment that keeps `WriteService` (answers
in order, at most one each), the order of states that `schedule_reconnect` and
`connect` can emit (`LinkSteps`), and `resync`'s order of polls. A poll or a
readback shows any state of the switches, which may also be set at the BMS
itself, or by a write that is reported failed.

### MqttService, MqttManager

`MqttManager` has the manager's task (`pc`: `start`, `select`, `join`, `sleep`,
`done`) and the event loop's task (`loop`: `polling`, then its outcome). A
command is its number and the number of requests that `dispatch` makes of it;
`todo` is what `dispatch` has still to publish, `requests` the client's request
channel and `wire` what was written and not read. rumqttc is external and
modelled by its use: requests move only after ConnAck and are gone with the
event loop. What a broker still reads from a connection the client has given up
is counted as read before, which the manager cannot tell apart. `backoff` keeps
its doubling and its cap; whether a session was stable is open if it was
connected at all.

`MqttService` says what is left when the tasks are hidden: `Take`, `Receive`
and, at the end of a session or of an attempt at one, the loss of all that is
in flight. `IN_FLIGHT` is how much may be in flight when a further command is
taken: the request channel and the wire for the manager.

### Bridge

`Coordinator`, with `CallTaken` and `CallRefused` decided by the room in
`MqttService`'s channel, and the broker: retained availability and discovery,
the last state of each switch, the subscriptions of the session (clean
sessions), the last will. A snapshot becomes one publication per switch;
discovery and subscription are counted when they are through. `latest` and
`refused` record the coordinator's view and the publications that a full
channel refused and that were not made since.

### Supervisor

Who stops, awaits and outlives whom. A tokio `JoinHandle` yields its output
once and panics when polled again: `output` says whether it was taken. Left
out is the backoff of `run`, which cannot be reached (see Findings). `server`
is the life of the healthcheck server's task; what it does is in `Healthcheck`.

### Healthcheck

`Supervisor` with everything that a check meets. `conn` is where the task of a
client's connection is (`sending` its query, `waiting` for the answer, holding
it, `closed`), `queries` the channel with, of each query, whose oneshot it
holds; when that task gives up, its query stays there as `"Gone"`. `Accept`,
`SendQuery`, `Reply` and `NoAnswer` are the steps of `accept_loop` and
`handle_connection`, `AnswerQuery` is the coordinator's arm, `AcceptLoopFails`
and `StopServer` end the server and with it every connection. The client is
`StartCheck`, then one of `ReadStatus`, `ReadEof` and `ClientTimesOut`. Whoever
checks has parsed a configuration of its own, which may name another socket or
a password file that cannot be read. The timeouts may pass in any order. `seen`
is a history variable: what the health was at any moment of the check.

### StateAggregator, Entities, Telemetry

`StateAggregator` is the arithmetic: the cast of `cell_count`, the active
slots, the aggregates in one pass, the alarm list, the running time. `Entities`
is every topic and entity id, as the four source files list them; of a payload
it keeps what another part has to agree with. What is published per entity, and
the JSON of a snapshot, are sets of pairs of an entity (its topic) and a state:
that nothing is published twice is part of `EntitiesMatch`. Neither module has
a state.

`Telemetry` extends `Coordinator`: its steps are those of `Coordinator` with
what each does to the data that the events carry. `held` is what the aggregator
holds, `announced` the cell count of the last discovery, `shown` the snapshot
published last, and the history variable `recounted` whether the number of cells
held has changed since a discovery and the broker has not come back since: only
then may discovery announce another number (`EntitiesMatch`). The BMS (`pack`) may be set to another number of cells at any
time, and answers with its cells in the first slots (`ReadingsAssumption`).
What an event carries is read when it is handled and not when it was
polled, which nothing can tell apart, since nothing else looks at the BMS. A
measurement that is copied through stands for where it comes from; decimals,
names, units and device classes are left out. `SnapshotRight` compares with
definitions of its own (`AreAggregates`, `InUse`), not with the code's.

## 3. The runs

| Run | Checks | States | What it shows |
|---|---|---|---|
| `manager_safety` | `TypeOK`, `PollingArmed`, `RetryArmed`, `ReconnectArmed`, `LinkTruthful`, `WritesConserved`, `RefinesWriteService`, `WireInOrder`, `NoStaleWrite` | all interleavings of 4 requests | the actor never loses or doubles a command to itself, conserves and orders writes |
| `manager_progress` | `Recovers`, `OutageReported`, `WritesAnswered`, `StopHonoured` | an arbitrary past, then a line that stays good, silent or gone | what must eventually happen does |
| `manager_missing_data` | `MissingDataEscalates` | violated | finding 1 |
| `protocol_exchange` | `TypeOK`, `OwnAnswer`, `Resynchronises`, `CallsReturn` | every loss, delay and noise of up to an answer's length | what late bytes can be taken for, also behind a drain cut short, and that it heals |
| `protocol_late_answer` | `NeverDesynchronized` | violated | finding 2 |
| `coordinator_safety` | `TypeOK`, `FrozenUntilAnswered`, `SnapshotsShowRequested` | two switches, two requests, two events waiting | freezes end exactly with their request |
| `bridge_topics` | `BridgeTypeOK`, `HomeAssistantUpToDate` | every sequence of sessions | Home Assistant ends with the coordinator's view |
| `bridge_full_channel` | `ListensOnConnect` | violated | finding 3 |
| `mqtt_manager` | `TypeOK`, `EventsAlternate`, `NothingSkipped`, `RefinesMqttService`, `Reconnects`, `OutageReported`, `EverythingReceived`, `StopHonoured` | three commands of one or three requests | the two tasks of a session, in every order |
| `health_and_shutdown` | `NoTaskLeftBehind`, `VerdictTruthful`, `ShutdownHonoured`, `ConnectionsEnd` | two clients, a query channel of one, every panic, signal and timeout | shutdown gets through, exit statuses are true, no connection hangs |
| `telemetry` | `TelemetryTypeOK`, `EntitiesMatch`, `SwitchesCommandable`, `SnapshotRight`, `ShownIsHeld`, `CountersNeverFall` | every order of polls, sessions and changes of the number of cells | lists agree, snapshots show the BMS |
| `supervisor_restart` | `RestartsCoordinator` | violated | finding 4 |

The properties are stated and explained where they are defined. Deadlock is
checked in every passing run: a terminated task is an explicit stuttering step,
every other stop is an error.

### Bounds, and why they are enough

- `PENDING_WRITES_CAP = 2` (code: 5), command channel 2 (code: 32),
  `MaxSeq = 4`: the queue fills, a direct write is in hand, one waits in the
  channel, one is refused; several heads may have expired at once. The proofs
  remove these bounds.
- `RECONNECT_THRESHOLD = 2`, `BACKOFF_LEN = 1`: below, at and above each limit.
- Coordinator: two requests are what it takes for one to overtake, overwrite or
  outlive another, on one switch or on two; two waiting events are an answer
  behind a poll. Switches and values are interchangeable, hence symmetric.
- Bridge: a command channel of 1, smaller than what any handler publishes, so
  that every call of every handler is refused in some behaviour, and one that
  is never refused is among them too. `BridgeFull` has a channel of 4, all that
  `handle_broker_connected` publishes, and still finds its violation.
- MqttManager: a command of three requests through a request channel of two and
  a wire of one, so that `dispatch` waits in the middle of a command;
  `INITIAL_BACKOFF = 2`, `MAX_BACKOFF = 3` reach the cap.
- JkBmsProtocol: a frame of 3 units, an alarm answer of 2, an ack of 1, so that
  a piece of one fits a read of another; the drain's cap of 6 holds an answer
  of each, as the code's 4096 bytes do, and its buffer of 2 (code: 64 bytes) lets
  the last read go past the cap. `MaxUnits = 4` lets a flaky line leave
  a whole frame with its ack behind; with 5 units the same holds (990 thousand
  states, too slow for every run).
- Healthcheck: with a query channel of 1 (code: 4), one client fills it and the
  other waits for room; the next check of the first finds its old query still
  there. A client checks again only when its last connection's task is over:
  late answers to an earlier check are then those still in the channel.
- Telemetry: two cell slots (code: 16), so that there are fewer, as many and
  more cells than slots; `WORD = 4` for 2^32, where -1 becomes 3; equal
  voltages, for the order of ties; running times next to a minute, an hour and
  a day; an alarm bit with a description, one without, and both. Counters end
  at 1 (code: 2^32 - 1), which a second reconnect meets. One event waits, and no
  switch is requested: those orders are `coordinator_safety`'s, and what
  `ShownIsHeld` says of requested switches is proved (section 4). The command
  channel has room: refusals are `Bridge`'s.
- `MaxSeq`, `MaxEvents`, `MaxCommands`, `MaxUnits` are the only bounds that stand for
  nothing in the code: they limit how much the environment does.

### Fairness

Stated at each `Fairness` operator. Weak fairness of a task's own steps: reads
of the serial port, the connect and the keep-alive of rumqttc are under
timeouts, sleeps end, spawned tasks run. Strong fairness of the branches of a
`select!`: tokio polls them in random order, so one that is ready again and
again is taken. `SendQuery` is strongly fair too: tokio's bounded channel hands
free places to its waiting senders in their order, so that nobody is overtaken
for ever. Nothing is assumed of Home Assistant, of the clients of a check, of signals and panics, or
of when a link fails. "The line works" or "the broker is down" are not fairness
but a step of the environment (`LineSettles`, `BrokerSettles`), after which it
behaves the same way for ever: the progress properties say what follows from
any state the arbitrary past has left.

## 4. The proofs

Each theorem holds for every value of the constants: any capacities, lengths,
thresholds, switches, clients, and any number of requests, events and commands.

| Module | Theorem | States | By the invariant |
|---|---|---|---|
| `JkBmsManagerProofs` | `TypeCorrect` | `Spec => []TypeOK` | `TypeInv` |
| | `PollingNeverLost` | `Spec => []PollingArmed` | `SchedInv` |
| | `RetryNeverLost` | `Spec => []RetryArmed` | |
| | `ReconnectExactlyOnce` | `Spec => []ReconnectArmed` | |
| | `LinkStateTruthful` | `Spec => []LinkTruthful` | |
| | `NoWriteLost` | `Spec => []WritesConserved` | `WriteInv` |
| | `NoOvertaking` | `Spec => WireInOrder` | |
| | `StaleNeverWritten` | `Spec => NoStaleWrite` | |
| | `ImplementsWriteService` | `Spec => RefinesWriteService` | |
| `JkBmsProtocolProofs` | `TypeCorrect` | `Spec => []TypeOK` | `TypeInv` |
| | `NoStaleAnswer` | `Spec => []OwnAnswer` | `ProtocolInv` |
| `CoordinatorProofs` | `TypeCorrect` | `Spec => []TypeOK` | `TypeInv` |
| | `SwitchFrozenUntilAnswered` | `Spec => []FrozenUntilAnswered` | `AnswerInv`, `FreezeInv` |
| | `SnapshotsAsRequested` | `Spec => []SnapshotsShowRequested` | |
| | `KeepsWriteContract` | `Spec => Promise!Spec` (`WriteService`) | |
| | `PollsInOrder` | `Spec => [](TypeInv /\ OrderInv)` | `OrderInv` |
| `MqttManagerProofs` | `TypeCorrect` | `Spec => []TypeOK` | `TypeOK` |
| | `SessionsToldApart` | `Spec => []EventsAlternate` | `SessionInv` |
| | `BrokerMissesNothing` | `Spec => []NothingSkipped` | `LineOK` |
| | `ImplementsMqttService` | `Spec => RefinesMqttService` | |
| `HealthcheckProofs` | `SupervisorLeavesNothing` | `Spec => []NoTaskLeftBehind` | `SupervisorInv` |
| | `HealthcheckKeepsSupervisor` | `HealthSpec => Spec` | |
| | `HealthLeavesNothing` | `HealthSpec => []NoTaskLeftBehind` | |
| | `VerdictIsTrue` | `HealthSpec => []VerdictTruthful` | `HealthInv` |
| `BridgeProofs` | `BridgeKeepsCoordinator` | `BridgeSpec => Spec` | |
| | `BridgeShowsRequested` | `BridgeSpec => [](FrozenUntilAnswered /\ SnapshotsShowRequested)` | |
| | `BridgeIsBuiltOnMqttService` | `BridgeSpec => Mqtt!Spec` | |
| | `BridgeTypeCorrect` | `BridgeSpec => []BridgeTypeOK` | `BridgeTypes` |
| | `HomeAssistantSeesTheBms` | `BridgeSpec => []HomeAssistantUpToDate` | `HomeInv` |
| `TelemetryProofs` | `TelemetryKeepsCoordinator` | `TelemetrySpec => Spec` | |
| | `ShowsWhatItHolds` | `TelemetrySpec => []ShownIsHeld` | `DataInv` |
| | `CountersMonotone` | `TelemetrySpec => CountersNeverFall` | |
| | `TelemetryTyped` | `TelemetrySpec => []TelemetryTypeOK` | `HoldInv` |
| | `SnapshotsAreRight` | `TelemetrySpec => []SnapshotRight` | |
| | `SwitchesWork` | `TelemetrySpec => []SwitchesCommandable` | |
| | `EntitiesAgree` | `TelemetrySpec => []EntitiesMatch` | |

Every invariant and every action property that a passing run checks is the
subject of a theorem. Together they make one argument: the MQTT manager implements `MqttService`,
`Bridge` is built on `MqttService` and on the coordinator, and in `Bridge` Home
Assistant sees what the coordinator holds. On the other side the actor implements
`WriteService`, and the coordinator is a caller as `WriteService` has it
(`KeepsWriteContract`: the seqs it hands over only grow). That the BMS side in
`Coordinator` leaves out no answer that `WriteService` allows is seen from the
definitions and is no theorem: `EmitConfirmation` answers the oldest outstanding
write while the link is up, which `do_write` needs, and `EmitError` any, several
one after the other.

### What is assumed

Only the named assumptions on the constants, next to their declarations. Most
say that capacities are positive. The others:

- `BridgeAssumption`: `Switches` is finite. A snapshot becomes one publication
  per switch, in some order (`SetToSeq`), which needs one; the code has two.
- `HealthcheckAssumption`: `"Gone"` is no client. It marks the place of a query
  whose asker has given up.
- `ProtocolAssumption`: the kinds of frames are other than the model's names for
  alarm answers, writes, acks and noise, all lengths, the cap of the drain and its
  buffer are positive, and the cap holds an answer of
  each kind (code: 4096 bytes; a frame, an ack and an alarm answer have 317). Without the second
  `OwnAnswer` is false.
- `TelemetryAssumption`: the switches are those of the enum `SwitchField`, the
  counts are natural numbers, and there is at least one slot and one value of a
  word.
- `ReadingsAssumption`, of the BMS: its readings have an entry per slot, voltages
  and running times are natural numbers (they are unsigned in the frame), and
  the slots that do not read 0 are the first ones, as many as the cell count
  says, if there are that many. Only `SnapshotRight` rests on the last part: it
  counts the cells by their voltages, the code by the configuration.

### The arguments

**The BMS actor**, in three inductive invariants, each on top of the one before:

1. `TypeInv` is `TypeOK` and `HandOK`. The bound on the queue needs `HandOK`: a
   direct write is pushed without a check of the capacity, which is right only
   because one is made with the queue empty.
2. `SchedInv` is `PollingArmed`, `RetryArmed`, `ReconnectArmed` and
   `LinkTruthful` together: none is inductive alone, since what a handler arms
   depends on whether it disconnects, and that on whether a transport is held.
3. `WriteInv` adds to `WritesConserved` that every seq taken is below the
   caller's next, and that the seq last on the wire is at most every
   outstanding one. From it every step is a step of `WriteService` or leaves
   its variables unchanged, the wire only grows, and a write starts only with
   no expired head in the queue (`UnexpiredProperties`: eviction removes
   exactly the expired prefix).

**The serial protocol.** `OwnAnswer` speaks of what a call returned;
`ProtocolInv` says, for every point of a call on a prompt line, what may be
under way or in the buffer and how much of it: behind a frame poll no alarm
answers, while an alarm poll waits no alarm answers but its own, behind a drain
only the call's own answer. The amounts are needed because a drain stops at its
cap: it empties the line only since what can be left over is below the cap. A
drain that ends by an error leaves an unknown rest (`cut`), and all of this is
given up; it is re-established by the next drain that finds the line quiet, and
by a hard error, after which the transport is a new one (`PromptDrainEnds`,
`PromptHardError`).

**The coordinator.** `TypeInv` says of each call still to be made that its
snapshot shows the switches as they are now (`OutboxOK`). `AnswerInv` is the
order that `apply` relies on: an answer waits in the channel once, and the
confirmation of a seq is in front of every later answer and below everything
still outstanding. `FreezeInv` then is `FrozenUntilAnswered` with the fact that
the newest request exists. A confirmation clears every switch with an older seq;
by `AnswerInv` none of those is awaited any more.

`OrderInv` is about the polls. A lost link may cut a resync short, and the next
one begins again with what was read before still in the channel: no event waits
behind fewer fragments than the BMS side has read before it, held or in front of
it in the channel (`PollOrder`). So when the coordinator takes in operational
data it holds the device info and the configuration, the first discovery is
due with the last of its three parts, and no snapshot is due without the two
it is made of (`PublishOrder`).

**The MQTT manager.** `SessionInv` ties the events to where the two tasks are.
`NothingSkipped` speaks of everything from the request received last to the
command taken next as one line (`LineOK`): a step moves the boundaries between
the parts of the line, or cuts it at the end of a session. For the refinement
every step of the two tasks is mapped to a step of `MqttService` or to none.

**Supervisor and health check.** `SupervisorInv` orders the ends: handles are
dropped before the coordinator is over, tasks are over before it is done, and
the supervisor returns only behind both. `HealthInv` adds that a query in the
channel belongs to a client that waits in the one check it makes
(`QueriesOwned`), so that an answer reaches nobody else, and that an answer held
for a check, or received, was the health at a moment of that check.

**Bridge.** `HomeInv` follows each topic on its way: what Home Assistant sees of
it becomes `a` when all that is in flight has arrived, and `b` when the command
channel is empty as well; and when the topic is due, `b` is what the coordinator
means, or the handler that runs has still to say it. A topic is due while a
session is up that the coordinator has heard of, unless the full channel refused
it: nothing is due at the end of a session, and `handle_broker_connected` says
all of it again. Two more parts
keep it inductive: what a handler has still to say of a topic is what is meant
(`OutboxRight`), and before there is a snapshot nothing was said of a switch
(`SilentInv`). Facts about the coordinator come from `CoordinatorProofs` through
`BridgeKeepsCoordinator`.

**Telemetry.** `DataInv`: what was shown last was made of counts not above those
held now, and if no snapshot is still in the outbox, of exactly what is held.
`HoldInv` says what is held (operational data that the BMS answered under the
setting it is remembered by, a cell count within a word), that a discovery was
published or is due once all its parts are held, and that what was shown has no
more cells than slots. With `OrderInv` the four properties of what was published
last then follow from the definitions:

- *Aggregates.* The accumulator of `compute_cell_aggregates` holds after each
  cell the sum, and the first of the least and of the greatest voltages, of the
  cells so far (`SeenAll`); with all cells that is what `AreAggregates` says. The
  induction is over the cells, and the sum over a set needs another one, over
  its size, to show that the order does not matter. Both use `NatSet`: a set of
  naturals that has 0 and with `n` also `n + 1` is all of them, which follows
  from the well-foundedness of `<` and needs no operator as a parameter.
- *Running time.* Days, hours and minutes add up to the minutes (`ToTheMinute`).
- *Switches.* Topics are sequences of levels, so those of two entities differ
  under any name of the bridge, and exactly one switch parses.
- *Entities.* What is published per entity and the keys of the JSON are put
  together differently and are the same set of pairs (`JsonIsStates`), no entity
  has two (`StatesFunctional`), and its ids are those announced (`StateIds`) but
  for the numbers of cells and whether there are aggregates. What is left
  compares the cells announced with the cells shown (`TopicsMatch`), where the
  cast makes a negative count large and the snapshot is clamped. While
  `recounted` is "no", the discovery made last says the cells that are held, or
  one that will is among the calls the handler has still to make (`AnnouncedOK`).

Each step is proved one action at a time, and under it one conjunct at a time.
TLC found the invariants of the coordinator, the protocol, the health check,
`Bridge` and `Telemetry` to hold on small instances before they were proved.

### What the proofs changed

`ShownIsHeld` used to say that every switch is shown as it is held. That held
in `telemetry` only because no switch is requested there: a request freezes its
switch without a snapshot, and only the next one shows it. The property now
exempts the switches that were requested, for which `SnapshotsShowRequested`
says what a snapshot shows.

Two parts of the model were written in a form that can be reasoned about: the
loop of `compute_cell_aggregates` is a recursive function and not a fold, and
the states of a snapshot are sets of pairs and not functions put together by
`@@`, with which a second state of an entity would have gone unnoticed. What the
proof of `SnapshotRight` needs of the BMS was implicit in the readings that TLC
was given, and is `ReadingsAssumption` now.

### Only model-checked

Every progress property (`Recovers`, `WritesAnswered`, `Resynchronises`,
`CallsReturn`, `Reconnects`, `OutageReported`, `EverythingReceived`,
`StopHonoured`, `ShutdownHonoured`, `ConnectionsEnd`): fairness and `ENABLED` are
out of the prover's reach. They hold on the instances of section 3. The safety
that they rest on is proved: no command to itself is lost
(`PollingNeverLost`, `RetryNeverLost`, `ReconnectExactlyOnce`), no task is left
behind, no request skipped.

## 5. Findings

1. Any successful poll or readback clears the failure counter, so a BMS that
   answers everything but OperationalData stays Connected for ever;
   ARCHITECTURE.md says that only OperationalData clears it.
2. An answer later than the read timeout and the drain's 100 ms of silence is
   read as the answer of the next request: an old ack for a write, or a whole
   frame of another type, which `validate` does not notice. `Resynchronises`
   shows that this does not last: an alarm poll in the stream of frames fails,
   and the next frame poll drains. A read error or a read of 0 bytes during a
   drain ends it early (`protocol.rs:241`), which the comment above `drain_stale`
   does not name: then late bytes meet the next request although they came in
   time for a full drain. `OwnAnswer` excludes that by `cut`.
3. With the command channel full on BrokerConnected, `handle_broker_connected`
   gives up at its first call: the session is without subscriptions and what
   was to be re-shipped, with no retry before the next session.
4. The supervisor awaits a `JoinHandle` whose output its select! has taken,
   which panics: the restart that its comment promises never happens.
5. While a write is under way every snapshot shows the value that was asked
   for (`SnapshotsShowRequested`), before it is read back, and also when the
   write then fails. ARCHITECTURE.md:184 says that the state topic "only ever
   reflects a value read back from the BMS", REQUIREMENTS.md:27 that "optimistic
   UI state must not be published without confirmation"; ARCHITECTURE.md:167
   describes the freeze as the code has it. There is no violated run for this
   one: that the property holds in `coordinator_safety` is the divergence. What
   the code keeps of the two sentences is that a snapshot comes of a poll, an
   answer or a broker session and never of the request itself.

Not findings, but worth knowing:

- The freeze keeps one request per switch. When a second request for a switch
  is refused or fails while the first is on its round trip, the switch is no
  longer frozen; `FrozenUntilAnswered` says so by speaking of the newest
  request only.
- A queued write that outlives `WRITE_TTL` in an outage is answered only when
  the link is back: eviction needs a transport (`connection_manager.rs:430`).
- The number of cells in the payloads follows the last configuration, but
  discovery is repeated only when the broker comes back; until then
  (`recounted`) `EntitiesMatch` allows cells that were not announced and announced
  cells without a state. REQUIREMENTS.md:44 speaks of the count at startup.
- A snapshot may join a configuration and operational data that were polled
  under two numbers of cells. `SnapshotRight` says nothing of that snapshot; it
  speaks of every one made of polls under one setting, whatever came in between.
- A publication that the full channel refused is not made again before the next
  change of its topic or the next session. `HomeAssistantUpToDate` exempts the
  topics in `refused` until then, and no others.
- REQUIREMENTS.md:128 wants availability offline at once on a disconnect. The
  code keeps it online while Reconnecting, on purpose, as ARCHITECTURE.md:168
  says; `LinkTruthful` says when it becomes Disconnected.
- `TaskEnds` of `Supervisor` lets a connection task end by itself once its handle
  is dropped. That it does, from every state and without the coordinator, is
  `StopHonoured` of `JkBmsManager` and of `MqttManager`.
- `cell_count` is cast from an `i32` without a check: a negative one makes
  discovery announce up to 2^32 cells, while the snapshot is clamped.
- A described alarm bit hides those without a description
  (`aggregator.rs:134`): `SnapshotRight` says only that some alarm shows.
- `last_update_age` is set back by every fragment, alarms and configuration
  too (`aggregator.rs:28-44`); REQUIREMENTS.md:45 speaks of frame 0x02 only.
  Together with finding 1, a BMS without operational data looks fresh and
  Connected. Time is not modelled in `Telemetry`, so no run shows this one.
- The health server's loop is never started again after a failed accept:
  checks then fail until the process is restarted, whatever the health.
- A check parses the whole configuration, so it fails when the password file
  cannot be read, though it does not use the password.

## 6. Not modelled

- The layout of frames and of register writes, checksum and CRC: fixed offsets
  without conditions. `JkBmsProtocol` assumes that a checksum does not pass by
  accident.
- Text: number formats, names, units, device classes, logging.
- Configuration values that are only copied through, and the credentials in
  `build_mqtt_options` (set only if both user and password are).
- Opening the serial port (`transport.rs`) and the wrapper of the MQTT client
  (`mqttc_wrapper.rs`): pure I/O and forwarding, no decision of their own.
- Time as a number: `last_update_age` is a token.
- rumqttc, tokio and the serial driver: external, modelled by their use.
- The inter-frame gap: it decides nothing.

## 7. Plan

Done, in this order: `WriteService` and `JkBmsManager` with their proofs, since
everything else relies on the actor; `Coordinator`; `Supervisor`;
`MqttService`, `MqttManager`, and `Bridge` on top; `JkBmsProtocol` below the
actor; `Healthcheck` with the supervisor; `StateAggregator`, `Entities`, and
`Telemetry` on top of the coordinator.

Then the proofs, component by component, bottom up: the actor, the supervisor
and the health check, the MQTT manager and its refinement, the coordinator, the
serial protocol, `Bridge` with both of the parts it is made of, and `Telemetry`
with the order of the polls, the computations of the aggregator and the lists of
entities.

What is left is outside of what these tools do well:

1. The progress properties for every value of the constants, which needs a
   prover for fairness and `ENABLED`. By hand, each would be a measure that the
   steps of `Fairness` lower; the invariants of section 4 are what it would start
   from.
2. That the BMS side in `Coordinator` is no narrower than `WriteService`: a
   theorem about which steps are possible, hence about `ENABLED` too.
3. Time in `Telemetry`, to state what `last_update_age` promises.
