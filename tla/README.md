# Verification of the Apollo bridge of DTTF-Sim

`apollo_dttf` is an Apollo (Cyber RT) component that connects the DTTF-Sim
simulator to Apollo. The simulator runs as another process. For every
configured sensor the bridge opens a UNIX socket, and the simulator connects to
it and writes framed messages, which the bridge publishes. In the other
direction the bridge sends the vehicle's configuration over TCP once, and every
control command over a UNIX socket of the simulator.

The TLA+ modules here model the parts of the bridge that run concurrently or
can fail half-way, and what it makes of the data it passes on. Paths below are
relative to the repository root; `A/` stands for `src/apollo_dttf/`.

## 1. Inventory

| Component | Source | State | Operations | Interacts with | Modelled in |
|---|---|---|---|---|---|
| `UnixSocketServer` | `A/util/unix_socket_server.cc` | `running_`, `server_fd_`, `server_thread_`, the socket file; in the thread: the client, a 12800-byte buffer, `bytes_received`, `bytes_saved`, the message being assembled | `Init` (`Bind`), `Start`, `Stop` (also the destructor), `Run` | the simulator (byte stream), the driver (callback on the server's thread) | `StreamServer`, `Restart` |
| `TcpServer` | `A/util/tcp_server.cc` | the same, without a file | the same | no driver uses it today | `TcpServer` |
| `TcpClient`, `UnixSocketClient` | `A/util/*_client.cc` | a descriptor | `Init`/`Connect`, `Send` | the simulator's command port and control socket | `Restart`, `Bridge` |
| Drivers (camera, lidar, radar, gnss, imu, ground_true, localization, chassis) | `A/drivers/` | configuration, a server, writers, broadcasters | constructor, `Init`, the data callback, destructor | server thread, Cyber writers | `Drivers`, `Bridge`, `Conversions` |
| `ApolloDttfComponent` | `A/apollo_dttf_component.cc` | `drivers_`, the two clients, `control_connection_count` | `Init` and its four phases, `Proc`, destructor | all of the above | `Bridge`, `Restart`, `Conversions` |
| Message layouts, unit conversions | `A/common/message.h`, `src/proto/message-en.h` | none | callbacks and `Proc` convert fields | simulator, Apollo messages | `Messages`, `Conversions` |
| Geometry | `A/common/common.cc` | none | rotations, Euler angles to quaternions, latitude/longitude to UTM | localization driver, `SendTargetWaypoint` | `Geometry`, `Conversions` |
| Configuration | `A/proto/*.proto`, `A/conf/apollo_dttf.pb.txt` | none | read once by `Init`, serialised into the vehicle command | `ApolloDttfComponent`, simulator | `Configuration`, `ShippedConfig` |
| Build, dag, launch, map files | `A/BUILD`, `A/dag`, `A/launch`, `A/map` | none | none | none | not modelled |

What is hard, and what must hold:

* **Reassembly in `Run`.** A `read` returns any part of the stream; a message
  may be split, several may arrive together, a header may be split, and the
  simulator may die in a write and come back. The drivers must get whole
  messages, in order, at most once. The code has three surprising lines: the
  header is always read at `buffer[0]` (`unix_socket_server.cc:130`), the
  surplus of a completing read is computed after `msg_len` was overwritten
  (`:162`-`:163`), and a buffer without a valid header at its beginning is
  dropped (`:132`-`:137`).
* **Stopping.** `Stop` clears `running_` and joins a thread that may be in
  `accept`, in `read`, or in the callback. After `Stop` the driver is
  destroyed, so no callback may follow, and `Stop` should return.
* **Start-up with partial failure.** `Init` starts servers one by one, sends a
  command that makes the simulator connect to all of them, and retries the
  control connection. Each early return must leave nothing behind, and the
  command must come after every socket is listening.
* **Drivers and their threads.** A driver's server is started before some of
  the members its callback uses exist, and joined after some of them are
  destroyed.
* **Crashes and reconnection.** A crash leaves socket files behind, and the next
  bridge unlinks whatever stands at its path. Nothing the bridge holds as a
  client is ever connected again, a server's old client descriptor is never
  closed, and the vehicle's configuration is sent once.
* **Two conversions.** Units and signs of a control command are changed on the
  way to the simulator and again on the way back, and the simulator's own unit and
  sign decide whether the two cancel out. Axes are exchanged and turned round in
  poses and clouds.
* **Two descriptions of one thing.** The structs exist in a header of the bridge
  and in one of the simulator, the configuration in two schemas and a file.

`PROJECT.json` lists these as hazards with their lines, and the properties that
cover them.

## 2. Modules

```
MessageChannel                what a stream of messages promises
  StreamServer                the UNIX socket server; implements MessageChannel
    StreamServerInv           the invariants of its proofs; MCStreamServer for TLC
      StreamServerProofs      any lengths: types, callbacks, leaks, stretches
        ChannelProofs         any lengths, paced writes: the reliable channel
        UniformStreamProofs   one length: whole messages, in order
          TcpServerProofs     one length, over TCP (also EXTENDS TcpServer)
            LossyChannelProofs   the lossy channel (also EXTENDS ChannelProofs)
    TcpServer                 the TCP variant; MCTcpServer for TLC
  Restart                     processes that come and go; MCRestart for TLC;
                              its commands implement MessageChannel
    RestartProofs

Drivers                       the members and Init order of the eight drivers
  Bridge                      component, drivers' threads, simulator; MCBridge for TLC
    BridgeProofs              every list of drivers; distinct names and sockets

Geometry                      rotations, quaternions, UTM zones
  Conversions                 commands, reports, poses; MCConversions for TLC;
                              instantiates Messages and Configuration
    ConversionsProofs         layouts, schemas, poses, the way there and back
Messages                      both sides' structs
Configuration                 both sides' schemas
  ShippedConfig               the file in the repository, read with one of them
```

A module indented below another EXTENDS it; `MessageChannel` is instantiated.

### StreamServer

One action per step between two blocking points or shared accesses of
`UnixSocketServer`. Reading `running_` is a step of its own wherever the code
reads it, because `Stop` writes it from another thread.

| Code | Model |
|---|---|
| `Init`, `Bind` | `InitServer` (either outcome) |
| `Start` | `Start` |
| `Stop` | `StopRequest` (clears `running_`), then `StopJoin` (only when the thread has exited) |
| outer `while (running_)`, `accept` | `OuterLoop`, `AcceptClient`, `AcceptTimeout` |
| inner `while (running_)`, `read` | `ServeLoop`, `ReadChunk`, `ReadEof` |
| `while (bytes_saved >= sizeof(MessageHeader))` | `ParseDrop`, `ParseWhole`, `ParsePart` |
| `while (msg_len < header.msg_len && running_)` | `FillLoop`, `FillStopped`, `FillEof`, `FillMore`, `FillComplete` |
| `callback_(msg_buffer, msg_len)` | `delivered'` in `ParseWhole` and `FillComplete` |
| `bytes_received`, `bytes_saved`, `buffer + bytes_received - bytes_saved` | `received`, `saved`, `CopyFrom` |

A byte of the stream is a numbered cell, and a buffer an interval of cells
(`bufAt`, `received`). A frame is the sequence of cells that were copied into
`msg_buffer`, so a wrong copy, a repeated copy and a mixed copy are all visible.
A valid header stands at a cell exactly when a message begins there: payload
that spells `MAGIC_NO` and `VERSION` by chance is not modelled. When the fill
loop finds more than the message, `bytes_saved` grows by all of
`bytes_received`, as in the code (`Surplus`), not by the difference it looks
like.

The simulator connects, writes whole messages, and closes. It may die in its
last write, and then only a part of it is in the stream. It has one connection
at a time, as each sensor has one producer.

Descriptors, the backlog of `listen` and the socket file are `Restart`'s subject.

### TcpServer

`TcpServer::Run` is the same loop. What differs is the kernel: a socket
accepted from a TCP listener inherits `SO_RCVTIMEO`, so `read` returns -1
after 5 seconds of silence. `ReadTimeout` and `FillTimeout` are the two places
where it does. They may happen whatever is unread (`Silent`): the model puts a
written message into the stream at once, and a late part of it is a read that
does not return yet; only from a host that is gone nothing is late.
`PeerReconnect` is a client whose host dies without a word and which connects
anew: any rest of what it wrote and the server has not read is lost, several messages
of it perhaps, the kernel keeps the old connection open, and only the timeout
frees the server from it.

### Drivers, Bridge

`Drivers` has, for each driver, its members in declaration order, the order in
which `Init` makes them, and the members its callback uses. `Bridge` is the
component: `pc`, `at` and `step` say where `Init` stands, `held` is `drivers_`.

| Code | Model |
|---|---|
| `GetProtoConfig` | `LoadConfig` |
| one step of a driver's `Init` | `InitStep`; `InitStepFails` when it reports an error or throws: `socket` before the old file is unlinked, `bind` after it, `listen` with the new file in place |
| `drivers_.insert({name, com})` | `InsertDriver` (a name already taken destroys the new driver) |
| `SendGenerateAutonomousVehicleCommand` | `SendCommand`, `CommandFails` |
| `InitControl` | `ControlAttempt`, one per turn of the loop; `ControlThrows` |
| `SendTargetWaypoint` | `SendTargetWaypoint`, `WaypointThrows` |
| destructors: members from last to first, the server's `Stop` in between | `NextVictim`, `DestroyMember`, `StopServer`, `JoinServer` |
| a server's thread | `AcceptClient`, `AcceptTimeout`, `EnterCallback`, `LeaveCallback`, `ReadIncomplete`, `ReadEof` |

The server thread here is `StreamServer`'s reduced to where it blocks and
whether it is in the callback. The loop over a buffer does not look at `running_`, so several
callbacks may follow each other, also after `Stop` (`LeaveCallback`), and a closed
connection may still hold messages. A simulator connects anew when the server has seen the
end of its last connection; the backlog is `Restart`'s subject. The uses a callback makes of its driver's
members are checked when it returns, against the members made and still alive,
and recorded in `misuse`. A driver's configuration says which writers Cyber
refuses it (`refused`): `CreateWriter` then returns null, which no driver looks
at (`A/drivers/lidar_component.cc:26`), so `Init` goes on. `path` says which
driver's socket a socket file leads
to: `Bind` unlinks and takes it over, and `Stop` unlinks it whoever owns it. A
driver whose `listen()` failed was never started, so its `Stop` does nothing
(`A/util/unix_socket_server.cc:42`): its file stays, and so does `server_fd_`.

`EagerSim` says whether the simulator may connect before it was told to by the
command. The bridge sends the command last for this reason, so `FALSE` is the
intended use; `TRUE` covers a simulator that is still running from before.

### Restart

Several bridge processes, one after the other or overlapping, and several
simulators. Of each process `Restart` keeps the main thread (`pc`), the
server thread of one sensor (`thread`, `client`), the number of open descriptors
(`fds`) and the control connection (`link`, `tries`); of the kernel where the
socket's path leads (`file`), the backlog (`pending`) and what waits in the
control socket (`inbox`). The bytes of a stream are `StreamServer`'s business, and the other
drivers' starts and failures `Bridge`'s.

| Code | Model |
|---|---|
| `Bind`: `socket`, `unlink`; `bind`, `listen` | `BindUnlink`; `BindListen` (two steps: another process may act in between) |
| `Start` | `StartServer` |
| `TcpClient::Connect`, `Send` with a partial result | `TcpConnect`, `SendVehicleCommand` |
| `InitControl` with `UnixSocketClient::Connect` | `ConnectControl`, one per turn: each takes a new descriptor and closes none |
| `Proc`, `UnixSocketClient::Send` | `Proc`: waits for room in the socket, looks at no result |
| `Stop` | `StopServer`, `JoinAndUnlink` |
| `Run` | `AcceptClient`, `AcceptFails` (timeout, or no descriptor left), `ReadMessage`, `ReadEof` |
| the process ends | `Die`: at any point, the file stays |

`met` remembers which processes were alive together; the promises about the path
are for those that were not.

### Messages, Geometry, Configuration, Conversions

`Messages` has every struct of `common/message.h` and of `proto/message-en.h` as
a sequence of names and types, and places the fields as the compiler does:
`ReadAs(reader, writer)` is what the writer put where the reader looks.
`Configuration` does the same for the two protobuf schemas, where a field is its
number. `Geometry` translates `common.cc` into exact arithmetic: angles are
quarter turns, and a number of a quaternion is `a + b * sqrt(2)`. `Conversions`
is the state machine that uses them. `Proc` converts a command, the simulator
reads it with its layout and reports back in its unit (`PerUnit`) and with its
sign of the steering (`SteerSign`), and `ChassisDataCallback` converts the report.
`message-en.h` documents percentages and clockwise negative, so the runs take 100 and -1;
the proofs hold for every unit and both signs. `LocalizationDataCallback`
publishes a pose: the quaternion, the Euler angles under the names of their
axes, the vectors with their axes exchanged, the heading. The other callbacks
publish what they make of a cloud, an image or a list of objects.
`SendVehicleCommand` is read with the simulator's schema. `ShippedConfig` is
`GetProtoConfig` on the file in the repository, one message of it per step.

### MessageChannel

The abstract specification: numbered messages, handed over in order and at most
once. `LossySpec` may skip messages, `ReliableSpec` skips only those that
their sender's death cut off (`CutOff`). `StreamServer` maps its byte-level state to it
(`Channel`): a frame becomes the number of the message it equals, or 0, which
no channel hands over. In `Restart` the control commands of every bridge
process are such a channel (`Commands`), a reliable one until the simulator is
gone.

## 3. Runs

| Run | Shows | Bounds and why they suffice |
|---|---|---|
| `unix_uniform` | With one message length: `FramesAreMessages`, `DeliveredInOrder`, `LeakBound`, `NoCallbackAfterStop`, and the refinement of the lossy channel; also the inductive invariants of the proofs | header 2 cells, so a read can split it; message 3, so it has a payload; buffer 7, more than two messages and no multiple of one; reads of every size; 4 messages, 2 connections: a message cut by a death, then another connection |
| `unix_paced` | A simulator that writes when the previous message was read loses nothing it did not cut itself, and every message arrives (`ImplementsReliableChannel`, `EventuallyDelivered`); also the inductive invariant of the proof, `PacedInv` | lengths 2, 3, 5 against a buffer of 3: shorter than, equal to and longer than the buffer. Reads return at least a header (`MinChunk = 2`): smaller first reads cause the loss that `unix_uniform` allows |
| `unix_mixed` | With two lengths a frame is still one unbroken stretch of one connection (`FramesAreStreamSegments`); `Stop` returns when the simulator hangs up (`StopReturns`) | lengths 2 and 3, buffer 6: two or three messages in a read |
| `unix_mixed_length` | Violated: the second frame of a read has the length in the first one's header | see Findings |
| `unix_stop_silent` | Violated: `Stop` may wait for ever for a silent, connected simulator | see Findings |
| `tcp` | The TCP server: whole messages in order, the refinement of the lossy channel, `OneFatePerMessage`, `StopReturns` whatever the client does, and `ReconnectIsServed`: a client that comes back is served although its first connection never ended | as `unix_uniform`; 684,292 states |
| `bridge` | Three drivers of different kinds, `Init` with every failure, and teardown: `CommandMeansReachable`, `MisuseOnlyInLateTeardown`, `ResultMatchesControl`, `InitReturns` | one driver that makes its writer first, and is refused it, one that makes three members after the start, one that makes one; 2 retries instead of 10, so that the count is both below and at the limit. 680,632 states |
| `bridge_clash` | Drivers that share a name and drivers that share a socket, with an eager simulator: `NoOrphanThread`, `TeardownIsComplete`, `OnlyLateWritersAreNull` | two clashes among three drivers. 899,402 states |
| `restart` | `ReachableUnlessOverlap`, `BindFailsOnlyInOverlap`, `NoCommandLost`, `CommandsAreReliableUntilLost`, `ExhaustedForGood`, `RestartedSimulatorStaysLost`: what a crash leaves behind, and who takes notice of a restart | two bridges, so that one follows the other or overlaps with it; two simulators; 4 descriptors: the listening socket, the two clients' and one accepted connection use them up; one retry; a control buffer of 1, so that the second command waits. 1,030,592 states |
| `conversions` | `FeedbackMatchesCommand`, `OrientationMatchesAngles`, `ZoneCoversLongitude`, `FieldsReadAsWritten`, `CommandUnderstood` | every rotation by quarter turns (64), gimbal lock included; the longitudes around -180, 0 and 180, where a truncation and a rounding down differ; commands to both sides, forward and reverse, two at a time; the simulator of `message-en.h` |
| `chassis` | Violated: percentages leave their range, and left is published as right | the simulator of `message-en.h`, one command with a throttle and a side; see Findings |
| `shipped_config` | Violated: the shipped file cannot be loaded | the whole file; see Findings |

The runs of the servers, the component and the processes set `CHECK_DEADLOCK
FALSE`: those systems end (the server is stopped, the component is gone, every
process has died), and what the simulator and Apollo do is bounded (`MaxMsgs`, `MaxConns`,
`MaxSims`, `MaxCommands`). So does `shipped_config`: the end of the file is the end.

Each module also holds operators marked *Mutant*: variants of an action with a
plausible mistake in it. Put in the place of the action, each makes the property
named beside it in `PROJECT.json` fail, so no property holds by the shape of the
model. The modules use them nowhere else.

### Fairness

* `ThreadFairness`: weak fairness of the server thread as one process and of
  `StopJoin`. The operating system schedules the thread; `accept` returns
  within its 5-second timeout, and `join` returns once the thread has exited.
  Nothing makes a `read` on a UNIX socket return.
* `TcpFairSpec`: the same with the timeouts of the TCP reads, which do return.
* `HangUpSpec` adds weak fairness of `PeerClose`: a simulator that stays
  connected and silent is excluded. It is an assumption on the simulator, made
  only for `StopReturns` in `unix_mixed`; `unix_stop_silent` shows that the
  property needs it.
* `Bridge`'s `FairSpec`: the component's thread, and the steps of the servers' threads
  that need no bytes from the simulator (`Unprompted`). Nothing is assumed of the simulator: a
  `read` may wait for ever.
* `Restart`, `Conversions` and `ShippedConfig` need no fairness.

### Findings

* **Header of the second message** (`unix_mixed_length`): a message is as long as
  its own header says ("Message length", `src/proto/message-en.h:14`) only if it
  is the first of the buffer. Today every socket carries fixed-size structures or one
  kind of image, so lengths seldom differ within a socket; the lidar's may (`point_count`).
* **Stop and a silent simulator** (`unix_stop_silent`): the 5-second timeout
  (`A/util/unix_socket_server.cc:71`) is set on the listening socket, and sockets
  accepted from a UNIX listener do not inherit it.
* **Percentages** (`chassis`): the chassis driver multiplies by 100
  (`A/drivers/chassis_component.cc:66`) what both headers document as `[0-100]`
  (`src/proto/message-en.h:324`).
* **Side of the steering** (`chassis`): the chassis driver negates the steering
  (`A/drivers/chassis_component.cc:68`, `:75`), which both headers document as
  "Clockwise: negative, Counter-clockwise: positive"
  (`src/proto/message-en.h:328`, `:337`), the opposite of a `ControlMessage`'s
  (`:352`). `FeedbackMatchesCommand` says what comes out for any simulator: the
  command, too large by its unit and on the other side by its sign.
* **The shipped configuration** (`shipped_config`): the "Test configuration file"
  (`src/readme.md:75`) lacks required fields of `apollo_dttf.proto` and sets unknown
  ones, so `Init` returns false on it.

Behaviour the properties record without calling it wrong:

* Everything between a split header and the next read that begins at a header is
  lost (`ImplementsLossyChannel`); each message given up loses its `msg_buffer`
  (`LeakBound`).
* A camera, localization or chassis callback can meet a null writer if the
  simulator is early (`OnlyLateWritersAreNull`); a callback that runs during a
  teardown after the command can use a destroyed member (`MisuseOnlyInLateTeardown`).
* A connection made by the attempt after the tenth counted failure is refused
  (`ResultMatchesControl`).
* Of two bridges with one path, the `Stop` of the first unlinks the socket of the
  second, and two that start together may fail to bind (`ReachableUnlessOverlap`,
  `BindFailsOnlyInOverlap`: the exceptions are needed).
* A bridge out of descriptors accepts nobody again until it is stopped
  (`ExhaustedForGood`).
* A simulator that restarts is not told the configuration again and gets no
  more commands, while `Proc` goes on returning true
  (`RestartedSimulatorStaysLost`; `NoCommandLost` and `CommandsAreReliableUntilLost`
  say nothing about it).
* A driver whose `listen()` fails leaves its socket file and its descriptor
  behind (`TeardownIsComplete`: the exception is needed). A writer that Cyber
  refuses is used all the same (`MisuseOnlyInLateTeardown`).
* `ObjectMessage` has no `id`, the first field of the simulator's
  (`src/proto/message-en.h:263`-`:267`), so the driver prints the number of the
  first object as its type (`A/drivers/ground_true_component.cc:61`).
  `FieldsReadAsWritten` is about the struct a message begins with and the place of what
  follows it, not about these objects.
* Pitch is published as x of the Euler angles and roll as y
  (`A/drivers/localization_component.cc:99`-`:100`), while in the quaternion of
  the same pose roll turns about X and pitch about Y (`A/common/common.cc:92`-`:93`).
  `OrientationMatchesAngles` holds with the two exchanged. Which of them Apollo wants, this
  repository does not say.
* Speed and acceleration are turned a quarter left, while of the angular
  velocity x and y are only exchanged (`A/drivers/localization_component.cc:84`-`:94`).
  The heading is published in degrees (`src/proto/message-en.h:114`, callback `:97`)
  beside Euler angles in radians. What Apollo expects is not stated here either.
* Longitude 180 has a zone of its own, 61 (`ZoneCoversLongitude`). Beyond 180 the zone is no
  zone at all: the shipped configuration has -990 and 500 degrees in the places that
  `SendTargetWaypoint` projects (`A/apollo_dttf_component.cc:370`, `:387`).

## 4. Proofs

The proofs are for every value of the constants: all header, buffer, read and message
sizes, any number of messages and connections (`StreamServer`, `TcpServer`),
every list of configured drivers (`Bridge`), any number of bridge processes,
simulators, descriptors and commands (`Restart`), any number of control commands
and every longitude (`Conversions`). They assume what the modules state:
`StreamAssumption` (sizes are positive, the buffer takes a header, and
`msg_len` counts the header in, as in the messages the bridge itself sends),
`BridgeAssumption` and `RestartAssumption` (the types of the constants),
`CommandsAssumption` (percentages are whole, so that Apollo's percents and the
simulator's fractions are both whole hundredths; what floating point rounds is
not modelled), `LongitudesAssumption` (-180 to 180) and `ReportsAssumption` (a
positive unit, either sign).

| Theorem | Module | States |
|---|---|---|
| `TypeCorrect` | `StreamServerProofs` | `Spec => []TypeOK`; in particular `0 <= bytes_saved <= bytes_received <= 12800`, so every copy out of `buffer` stays inside it |
| `CallbackOnlyWhileOwned` | `StreamServerProofs` | `Spec => NoCallbackAfterStop` |
| `LeakAlways`, `AtMostOneLeakPerConnection` | `StreamServerProofs` | `Spec => []LeakInv`, `Spec => []LeakBound` |
| `UniformAlways`, `WholeMessagesOnly`, `InOrderOnce` | `UniformStreamProofs` | messages of one length: `Spec => []UniformInv`, `[]FramesAreMessages`, `[]DeliveredInOrder` |
| `SegmentsOnly` | `StreamServerProofs` | any lengths: `Spec => []FramesAreStreamSegments` |
| `PacedAlways`, `PacedIsReliableChannel` | `ChannelProofs` | any lengths, reads of at least a header: `PacedSpec => []PacedInv` and `PacedSpec => ImplementsReliableChannel`, the refinement of `MessageChannel`'s reliable form |
| `StreamIsLossyChannel`, `TcpIsLossyChannel` | `LossyChannelProofs` | messages of one length: `Spec => ImplementsLossyChannel` and `TcpSpec => ImplementsLossyChannel`, the refinements of `MessageChannel` |
| `TcpWholeMessagesOnly`, `TcpInOrderOnce`, `OneFateAlways` | `TcpServerProofs` | messages of one length: `TcpSpec => []FramesAreMessages`, `[]DeliveredInOrder`, `[]OneFatePerMessage` |
| `BridgeTypeCorrect`, `NoOrphanAlways`, `TeardownAlwaysComplete`, `NullOnlyFromLateWriters` | `BridgeProofs` | every list of drivers, clashes included: `Spec => []TypeOK`, `[]NoOrphanThread`, `[]TeardownIsComplete`, `[]OnlyLateWritersAreNull` |
| `CommandAlwaysMeansReachable`, `ResultAlwaysMatches` | `BridgeProofs` | distinct names and urls: `Spec => []CommandMeansReachable`, `[]ResultMatchesControl` |
| `MisuseAlwaysLate` | `BridgeProofs` | the same, with a simulator that waits for the command: `Spec => []MisuseOnlyInLateTeardown` |
| `TypesAlways`, `ReachableAlways`, `StaleFileNeverHurts`, `CommandsArrive` | `RestartProofs` | `Spec => []TypeOK`, `[]ReachableUnlessOverlap`, `[]BindFailsOnlyInOverlap`, `[]NoCommandLost` |
| `CommandsAreReliable` | `RestartProofs` | `Spec => CommandsAreReliableUntilLost`, the refinement of `MessageChannel` by the commands |
| `NoDescriptorComesBack`, `RestartIsNeverNoticed` | `RestartProofs` | `Spec => ExhaustedForGood`, `Spec => RestartedSimulatorStaysLost` |
| `FieldsFound`, `CommandAlwaysUnderstood`, `ZoneAlways` | `ConversionsProofs` | `Spec => []FieldsReadAsWritten`, `[]CommandUnderstood`, `[]ZoneCoversLongitude` |
| `OrientationAlways` | `ConversionsProofs` | `Spec => []OrientationMatchesAngles` |
| `RoundTripAlways`, `FeedbackAlways` | `ConversionsProofs` | any unit, either sign: `Spec => []RoundTripInv`, `[]FeedbackMatchesCommand` |

**The stream** (invariants in `StreamServerInv`):

* `BaseInv` (any lengths): the types, that the thread lives between `Start` and
  the join (`OwnerThread`), and that a message being filled is incomplete with
  nothing left to parse (`FillIsPartial`). The last is why the surplus, though
  wrong, stays within the buffer: `bytes_saved` is 0 when it is added.
* `LeakInv`: a connection that already cost a buffer is at its end, or the
  server is being stopped (`LeakedConnectionIsDone`), so it cannot cost another.
  It needs `BaseInv` and that an ended connection does not change (`EofIsStable`).
* `SegmentInv` (any lengths): a frame lies in what was read of one connection
  (`FramesReadFrom`), because the buffer and the frame being filled are what was
  read last of the connection served (`BufferReadFrom`). Giving a message up
  before the next `accept` is what the second part rests on.
* `UniformInv` (one length `L`): the messages tile the cells (`MessagesTile`),
  connections carry consecutive stretches (`ConnectionsInOrder`), and a parse
  that can find a header at `buffer[0]` stands at a message boundary with
  nothing delivered from there on (`ParseOnBoundary`). This is why both
  oddities are harmless with one length: the header at `buffer[0]` has the right
  length for all, and after a completing read `buffer[0]` is inside a message,
  holds no header (`StartsApart`), and the surplus is dropped instead of being
  delivered a second time. None of the frame properties is inductive without it.
* `FateInv` (TCP): besides, the messages counted as delivered or lost are those
  before the one in hand (`NoFateFrom`). `UniformInv` survives the three steps
  that TCP adds: a timeout between messages or inside one leaves the thread where no header can be
  found before the next message begins.
* `PacedInv` (any lengths, paced writes): connections carry consecutive stretches
  (`ConnectionsInOrder`, `OpenIsCurrent`), messages lie apart, and besides
  `SegmentInv`: what the thread has dealt with is exactly the messages before the one in hand
  (`DoneSoFar`), and what is unread is the rest of that one and, once it is read,
  nothing (`StillAhead`). So a buffer never holds two messages, a read never begins inside a message that is not
  being filled, and no header is dropped. It needs `MinChunk >= HeaderSize`: a read that returns less
  than a header drops it, and `PacedIsReliableChannel` is then false. The code cannot know what
  `read` returns; the hypothesis says which kernel behaviour the reliable channel rests on.
* The reliable refinement: what `PacedInv` says was not handed over was cut, so a
  message handed over skips only cut ones (`NothingIsSkipped`).
* The lossy refinement: a frame is the number of its message, and numbers are unique
  because messages lie apart (`UniformInv`). A parse or a completing read hands over
  one number greater than all before; the end of a connection, seen (`PeerClose`) or
  unseen (`PeerReconnect`), adds what it cut off to `cut`; every other
  step stutters. Under `LossySpec` a skipped message needs no step.

`Uniform` is needed: `unix_mixed_length` is the counterexample without it.

**The component** (`BridgeProofs`): `BridgeInv` is `TypeOK`, that the main thread's
phases and what it holds fit together (`TaskOrder`), that members live as long as
their driver (`MembersKept`), and that a thread and a socket file live between a
driver's start and its server's destruction (`ServersKept`). `NullInv` adds that a lidar-like
driver has its writer before its server runs. With distinct names and urls
`DistinctInv` follows the order of `Init`: the drivers in
`drivers_` are those before `at`, and each is reachable. `ResultInv` relates the result to the
control connection. `MisuseInv` says that before the command no thread is in a
callback (`QuietBeforeCommand`) and that the drivers of a finished `Init` have
all their members (`MembersMade`).

**Restarts** (`RestartProofs`): `RestartInv` is `TypeOK`, that the listening descriptor
is open (`DescriptorInv`), that a thread in `accept` or `read` has its socket
(`ThreadInv`), that a process that met no other is alone (`AloneInv`), so that the path is its own
(`PathInv`), and that the commands executed are a beginning of those sent
with the socket holding the rest while the link is up (`CommandInv`).

**Data** (`ConversionsProofs`): an offset is a fold over the fields before it, of
which the provers cannot do the induction; no struct has more than 18 fields, so it
is unrolled that far, field after field (`FieldEnd`), for both sides' structs of
each kind, and `FieldsFound` compares the results. The schemas are compared
name by name. `RoundTripInv` is inductive: the socket holds the
commands not yet read, converted and in order (`SocketInOrder`), the simulator
drives by the last it has read (`DrivesByLast`), and its report shows one that
was given (`ReportShowsOne`); `FeedbackMatchesCommand` follows when the callback
converts it back. Unit and sign are constants of the proof.
For the poses, a quaternion `Turns` vectors as `n` times a matrix does; whatever it is,
multiplying it by a quarter turn about X or Y multiplies the matrix by that rotation and `n`
by 4 (`TurnsAboutX`, `TurnsAboutY`: polynomial identities of its eight numbers, row by row),
so that the three factors of `eulerToQuaternion` make the three of `eulerToMatrixZXY`.

Only model-checked: liveness, which is outside the prover's reach (`StopReturns`,
`EventuallyDelivered`, `ReconnectIsServed`, `InitReturns`). Every other
property of a passing run is a theorem.

## 5. What is left to do

That `StreamServer`'s thread implements the thread of `Bridge` and of `Restart`.
Both are reductions made by hand: they keep where the thread blocks and
whether it is in the callback, and forget the bytes.

## 6. Not modelled, and why

* The list of static transforms: `InitDriverComponent` fills it and never writes it
  (`A/apollo_dttf_component.cc:275` is commented out).
* Pixels, which the camera's callback passes on as they are, and image encodings. Points and
  vectors are not: their callbacks turn axes and signs round and scale, which is in the model
  (`LidarDataCallback`, `QuarterLeft`, `Exchanged`).
* `carlaToApolloEuler`, `matrixToEuler` and `eulerToMatrixYZX` (`A/common/common.cc:42`-`:50`, `:64`-`:87`):
  nothing calls them. The comment at `:85` announces angles in the order Z, X, Y; the extraction
  at `:65`-`:67` is the usual one for Z, Y, X.
* `GnssDataCallback`, whose body is commented out, and with it the layout of its message.
* Whether a restarted bridge is served: that its path leads to it is `ReachableUnlessOverlap`,
  that a waiting connection is then accepted rests on the scheduling of its thread and on free
  descriptors alone.
* The floating-point UTM series (`A/common/common.cc:115` and following): real arithmetic,
  of which the model keeps the zone and the distance from its meridian. Angles
  between quarter turns, for the same reason.
* `src/proto/message-cn.h`: `message-en.h` with Chinese comments.
* `TcpClient::Read`, which nothing calls.
* `SO_REUSEPORT`: two processes that share a TCP port.
* Payload bytes that look like a header, `msg_len` below the size of a header or
  too large to allocate, and several producers on one socket: the simulator is
  trusted to speak the protocol.
* Reads of `bytes_saved`, `buffer` and the other locals of `Run` need no
  interleaving: only the server's thread has them.
* Build, dag, launch and map files: they have no behaviour.
* Cyber RT, the kernel and the simulator are external; they appear as the choices
  they offer (`Chunks`, timeouts, failures, `Simulator`).
