# LAME in TLA+

LAME drives a mining robot. `Robot/` is a C++ program on the robot, `BaseStation/` a C# program
for its operator; they talk over UDP (commands) and TCP (images) in the packets of
`Robot/include/Packet.h`. This directory models the parts of them whose correctness depends on
threads, clocks, datagrams and byte counts, checks the models with TLC and proves the most
important results for all values of the constants with TLAPS.

Paths below are relative to the repository.

## 1. Inventory

| Component | Source | State | Operations | Modelled in |
|---|---|---|---|---|
| Control core | `Robot/src/BLER.cpp` | drive mode, latest drive payload, two time stamps, base station address, `aiConnected` | UDP reader (one case per opcode), `Execute`, `QueryHeartbeatAI` | `Bler`, `FailSafe`, `StaleDrive`, `DeadMan` |
| Packet format | `Robot/include/Packet.h` | one buffer | Create, Parse, `encodeCOBS`, `decodeCOBS`, `ReadPacketHeader` | `PacketCodec`, `PacketFields` |
| Connection | `BaseStation/BaseStation/MainWindow.xaml.cs` | mode, `isConnected`, endpoint, heartbeat and acknowledgement flags, threads | Go, `ConnectingWorker`, `PacketReceiveCallback`, timer, camera requests, closing | `BaseStation`, `QuietConsole` |
| Both together | | datagrams under way | loss, repetition, reordering | `Lame` |
| Joystick values | `MainWindow.xaml.cs:343` | presets, divisor, toggle times, sliders | presets, dead zone, override closures | `Joystick` |
| Camera frames | `BLER.cpp:228`, `378`, `402` | latest frames, buffers of `cv::Mat` | capture, copy, encode | `CameraFrames` |
| Camera images | `BLER.cpp:254`, `TcpClient.cpp`, `MainWindow.xaml.cs:166` | TCP connections, image buffer, streams | send, receive, show | `CameraImage` |
| Packet handler | `BaseStationPacket/PacketHandler.cpp` | none | wraps Packet.h for C# | `PacketFields` |
| Start, UDP, serial | `main.cpp`, `BLER.cpp:14`, `412`, `UdpSocket.cpp`, `Serial.cpp` | handles, open flags, threads | Open, Close, Run | `RobotStart` |
| apriltags: pool | `apriltags/common/workerpool.c` | tasks, `taskspos`, `end_count` | add, run, destroy, workers | `WorkerPool`, `Batches`, `Chunks`, `Detector` |
| apriltags: image | `unionfind.h`, `apriltag_quad_thresh.c`, `apriltag.c` | thresholded image, union-find, clusters, candidate corners, table of codes, array of detections | threshold, connect, stitch, cluster, order borders, find corners, decode, reconcile | `Threshold`, `Segments`, `Corners`, `QuickDecode`, `Reconcile` |
| Logger | `Logger.cs`, `LoggerControl.xaml.cs` | log text | Write | not modelled: nothing depends on it |
| Locator | `AprilTagsLocator.cpp` | detector | find tags | not modelled: float geometry, and no thread calls it |

How they interact. On the robot, five threads share the control core's fields without a lock
(only the camera frames have a mutex). `Execute` turns mode and payload into a serial packet every
100 ms. The base station has a dispatcher thread, a worker per connection attempt, a joystick
thread, an image listener, a timer, and receive callbacks, again sharing plain fields. The two
programs meet in a small protocol: `QUERY_HEARTBEAT` until `REPORT_HEARTBEAT`, then a switch packet
until `SWITCH_MODE_ACK`; after that `DRIVE` every 100 ms from the joystick, and images over TCP.
`apriltags` is vendored and reached only through the locator, with threads of its own.

What makes this hard, and what would be correct:

- *Control core.* Reads of mode, payload and stamp are spread over several instructions, a second
  may pass between any two of them, and the reader can be stuck in an image. Correct means: a
  silent operator's robot stops and stays stopped, AI mode takes the motors from the loop, torn
  payloads do not last, a live operator is not cut off.
- *Packets.* In-place loops with `uint8_t` counters over a buffer that may hold old bytes; fields
  whose order and sign nothing on the wire tells. Correct means: one delimiter per frame, what is
  read is what was sent, no read outside the datagram.
- *Base station.* Presses, callbacks and the worker overlap. Correct means: nobody sends to a null
  endpoint, a console that was told to stop goes quiet, closing the window ends, messages shown to
  the operator are true.
- *Both.* "Connected" is a belief about the robot, formed over a lossy network from
  acknowledgements that do not say what they acknowledge.
- *Joystick.* Closures on another thread overwrite captured variables between the halves of an
  increment; the joystick may go at any moment. Correct means: what is sent was asked for, a press
  is heard, a joystick that is gone does not drive.
- *Images.* One stream for header and image, cut anywhere; two senders; a buffer, a stream and a
  listener that are used after someone else may have closed them. Correct means: what is shown is
  what was sent, the newest image survives, neither the robot's reader nor the closing window hangs.
- *apriltags.* A pool whose caller touches its fields without the mutex, tasks that write a shared
  forest without any lock, an array that is shuffled while it is walked, images that tiles do not
  divide, borders whose points come several times, rings that begin anywhere. Correct means: a run waits
  for its tasks, tasks stay apart, the result is that of one thread, and an edge, a border and its
  corners survive each stage of the pipeline.

`PROJECT.json` lists every hazard at its line, with the properties that cover it or the reason why
none does.

## 2. Modules

### Bler - the control core
One variable per shared field, one program counter per thread (`udp`, `exec`, `dog`); `motor` is
the last serial packet, `sent` what the last step gave to a socket. **A step makes at most one
access to data that another thread also touches.** The five-byte payload is copied in two pieces,
`wheels` (left, right) and `tools` (vibrator, actuator, scooper), on both sides: the timeout
touches just the first, and two pieces are enough for a torn copy. The stamps are kept as ages:
`difftime(time(nullptr), stamp) > 2` becomes `driveAge > DriveTimeout`, `Tick` is the clock's
second, and an age stops one past the limit it is compared to, because the code compares it to
nothing else. Datagrams come from any address, at any time, with any opcode; framing is
`PacketCodec`'s. Actions follow the code: `RemoteSwitchTime` then `RemoteSwitchMode` (BLER.cpp:176,
177), `DriveWheels`, `DriveTools`, `DriveTime` (206, 207), `ExecuteRemote`, `CopyWheels`,
`CopyTools`, `CheckTimeout`, `WriteSerial` (319-333). In Direct mode the sticks are any wheels, and
the tools, never assigned by the code, are any tools. `Started` says which threads run:
`RunThreads` are those `BLER::Run` starts, `AllThreads` adds `QueryHeartbeatAI`.

`DriveTimeout` and `AiTimeout` are constants; AI_TIMEOUT_INTERVAL is 5 in the code and smaller in
the runs, as only the comparison with the limit matters.

### FailSafe, StaleDrive, DeadMan
`FailSafe` adds counters that watch `Bler` and never restrict it: serial writes since the command
became too old, since the mode changed, since mode or payload changed. They count to two since one
write may be under way when counting starts. `DeadMan` is the abstract specification of the
timeout, a dead man's switch without threads or clock; `FailSafe!Switch` maps it to the threads
(`overdue` is the condition of BLER.cpp:324, `late` the counter, `moving` the wheels last written).
`StaleDrive` adds the age of the *payload*, where the code looks at a stamp: the payload is new from the moment the
reader stores it (206) until it has stamped it (207), while the stamp between those lines is still the old one, and
`REMOTE_SWITCH` renews the stamp without a payload. `freshWrites` counts the serial writes since the reader was done.

### PacketCodec
A packet is laid out (`Create`), stuffed (`EncodeByte`, one step per iteration of `encodeCOBS`),
received into a buffer that may hold `Stale` bytes, unstuffed (`DecodeInSection`,
`DecodeSectionEnd`), and checked (`CheckHeader`). `i` and `sec` wrap like `uint8_t`. A second way in,
`ReceiveNoise`, takes datagrams nobody made. It is checked as one of the components of `Parts`; `MCParts` has the
packets both programs really send. COBS itself is not taken on trust: it is what the loops do.

### PacketFields
What a Create function writes and a Parse function takes, as two tables: the fields in the order in
which they are written, and the byte that each is read from. Signs are two's complement
(`Low`, `High`, `Signed8`, `Signed16`), the clamps are those of `Packet.h` and `PacketHandler.cpp`
(`Prepared`, `Taken`). `WrapperSucceeds` is the handler's `== 1`.

### BaseStation, QuietConsole
`MainWindow.xaml.cs` with one program counter per thread: `gui` (the dispatcher), `worker`,
`joystick`, `timer`; callbacks are the set `handling` of opcodes received and not yet acted on,
because `BeginReceive` is posted before the packet is handled, so that several callbacks run at
once. `heard` stands for `lastHeartbeatReceived != DateTime.MinValue`, the only thing it is compared
to. The worker's record holds its two local flags and the mode it chose. `out` is what the last
step handed to `packetSocket`. A socket error is possible once something was sent (`spoken`).
Widgets, log lines and what packets carry besides the opcode are left out. `QuietConsole` counts
the DRIVE packets sent since mode or connection last changed while driving is not allowed.

### Lame
`Bler`'s reader and `BaseStation`'s connection protocol, composed with INSTANCE: each action of one
program leaves the other alone and moves opcodes through the sets `toRobot` and `toBase`. A datagram
may stay in its set after it was received (repetition), leave it (`Lose`), wait (delay), and be
overtaken (a set has no order). `Execute`, the clock, the camera threads, joystick, timer and the
closing window take no part in the protocol and rest. Left out are camera requests, which only delay
the reader (`Bler` has them), and socket errors, after which nothing is received (`BaseStation` has
them). `AsDatagram` is where the two programs'
opcodes meet: AI_INIT, which the worker sends, is none the robot has a case for.

### Joystick
`ReadJoystickValues` with one access to a shared variable per step, because the sliders' closures
write `scooper_speed` and `vibrator_speed` on the dispatcher: an increment is `Add` and `Store`, a toggle the
test of `Toggle` and the assignment of `StoreMin`, with room for an `Override` between them. The four values of a packet do not depend on each other, so a
behaviour follows one (`part`). Time is kept as far as the code uses it: `.Milliseconds` is the part of
the interval below a second, so `since` counts tenths modulo ten. If the joystick is unplugged after
the check, the getters leave their arguments alone (`Gone`).

### CameraFrames, CameraImage
`CameraFrames` has the buffers behind the `cv::Mat` objects: `camera >> img` writes a buffer nobody
refers to, assigning copies a reference. `CameraImage` follows the bytes. A connection carries the
sequence of positions `1 .. HeaderLen + ImageLen`, TCP hands them over in pieces of any length (`ReadHeader`,
`ReadBehind`), and `got` is what the listener's buffer holds, position by position, so that bytes of
an older image, of the header or of nothing can be told from the image's own. The robot's `send` blocks: it comes
back when all bytes are in the window (`Finish`) or the connection is reset, and until the listener reads it stays. A stream of the base station
is a token; `closed` are those closed so far that somebody may still meet. A full accept queue, a reset, an
unparsable image and a listener that stops with connections waiting are steps.

### RobotStart
`main`, the constructor, `Run` and the destructor with every exit: the handles that the members hold,
the flags, and what the system really has open. Any of the opens may fail; the socket may be
created and not bound.

### WorkerPool, Batches, Chunks, Detector
`WorkerPool` is the pool with one step per critical section and one per access made outside the mutex.
`zarray_clear` leaves the memory of the list alone, so the slot a worker points to keeps its task
until another is added. `workerpool_create` does not wait for its threads: they come to the wait as late as they like, take
tasks the caller has only just added, and may find the pool already being taken down. What then goes wrong is called a
*crossing*, and `crossed` remembers it: a thread reports between the reset of `end_count` (186) and the broadcast
(189), or its increment overwrites the reset (`BeginLost`: neither holds the mutex against the other), or `zarray_add`
moves the array, beyond its first eight places, while a thread has a pointer into it. After a crossing the wait promises nothing
(`pool_waits`); `RunWaitsUncrossed` is what it promises before one, and `Parts` follows the pool up to there. `Batches` is the abstract specification: a list of tasks is collected, each
is carried out once, perhaps before the list is complete, and the caller is let go when all are; there are no threads. `Parts!Batch` maps it to the pool: the caller's
place says whether a run is going on (the steps between `Begin` and the end of the wait), and the list
of exit tasks that takes the pool down counts as empty. `Chunks` is the arithmetic by which
`apriltag_detector_detect` and `apriltag_quad_thresh` cut work; `Detector` puts both together.

### Threshold, Segments, Corners, QuickDecode, Reconcile
The stages a picture goes through. `Threshold` has the four passes of `threshold()` over an image:
statistics per tile, their spread to the neighbouring tiles, the pixels of whole tiles, those past the
last whole tile. `Segments` has the union-find with its path collapsing (`Way` is what `unionfind_get_representative` walks,
`Root` where it ends), grown line by line from several tasks and stitched; a line is one step since `Detector` shows that no two tasks write the same. The points
between a black and a white segment are then collected (`Points`, `Cluster`: the links to the right and down, and those
down to the left and right, of every pixel inside the image) and brought into the order of a walk
around the segment (`FitQuads`: the angle about a centre with its noise, `PtSort` with its sorting
networks and merging, the removal of repeated points, `Deduped`). What loops there is a recursive function on a prefix. Coordinates are scaled to integers, and angles
are compared by quadrant and cross product where the code compares rounded `atan2f`.
`Corners` is `quad_segment_maxima`: local maxima of the error of a line fitted around each point, the
cut to `max_nmaxima`, and the four nested loops over what is left, each turn of the innermost that is reached a step: `Discard` where a side does not
fit or two sides make no corner, `Compare` where all do, `NextLoop` the loop that goes on. What the fits amount to is
data of the ring: the errors around its points (`errs`), the mean squared error of the line between two of them (`mse`),
the triples with no corner in the middle (`straight`). Of `fit_line` only the number of points between two ends, around
the end of the ring, is modelled (`Points`), with which the error is weighted; its eigenvalues are not. `QuickDecode` has
the open-addressed table of flipped codes, filled by one `quick_decode_add` per step in the order of the
code (`Before`), and the lookup in four turns. `Reconcile` has the two
loops over the array of detections, in any order the threads may have added them.

### Parts
The components that share no state - `RobotStart`, `CameraFrames`, `PacketCodec`, `PacketFields`, `Joystick`,
`Detector`, `Threshold`, `Segments`, `Corners`, `QuickDecode`, `Reconcile` - side by side: a behaviour of `Parts` is one of the
component that `which` names. `MCParts` gives them their values.

## 3. Runs

All bounds are in the cfg files and the MC modules. Nothing is symmetry-reduced; the sets are too
small for it to pay.

| Run | Shows |
|---|---|
| `fail_safe` | With the threads `Run` starts, a limit of 1 s, two wheel and two tool values, the wheels' guarantees (`StopsWhenSilent`, `AiModeIsQuiet`, `SettlesOnLastDrive`), the inductive invariant, that the threads implement `DeadMan`, and that the second write after a command was stamped carries all of it, until it is older than the limit (`FreshDrivePasses`). |
| `threads_live` | Liveness with all four threads: a silent operator's robot comes to a stop even while the reader hangs in an image, and even with the watchdog, which `Run` does not start, changing the mode. |
| `quiet_console` | Every interleaving of the base station's threads with any packets: types, sends with a real endpoint and a real packet, at most one stray DRIVE after a press that forbids driving, the window closes. |
| `connected` | Over the network: an attempt to connect in Remote mode succeeds, and a connected base station has a robot in Remote mode that answers to it. |
| `camera` | Two senders, two cameras, TCP cut anywhere, a dispatcher that is behind, a window that closes at any time: what is shown is the camera's image from its first byte on, the newest image is not lost to a closed stream, the sender comes back, the listener ends. |
| `parts` | Eleven components, each by itself: start, frames, framing, payloads, joystick, pool (which implements `Batches`) with chunks, thresholding, segments and borders, corners, decoding, reconciliation. For the framing about 400 packets (every opcode; drive with bytes 0, 1, 255; location reports with every pattern of zeros, encoder reports with two halves alike) over two kinds of left-over bytes, and all datagrams of up to four bytes over four values that matter: one delimiter, round trip, reads inside, the loop invariants. |

Why the bounds are enough. *Wheels, Tools*: two values each tell "moving" from "halted", and an old
payload from a new one; a torn payload needs two different values of either piece. *Stations*: one
base station, since no property compares two. *DriveTimeout* is 2 in the code and 1 or 0 in the
runs, as the code only asks whether the limit has passed; the proofs are for any limit. *Endpoints*: one address and `Nowhere`; a
second one would only be another value that the operator may type. *Packet sizes*: `BufferSize` 20
holds the longest frame, of 18 bytes; the proofs have no such bound. *Noise*: four bytes, the fewest that are decoded, reach every
branch of `decodeCOBS` with a section end before, at and behind the datagram's end. *Network*: sets
of opcodes keep at most one copy of each opcode in each direction, and a copy that may be received
again and again stands for any number. *Choices* of `Lame` are the modes the operator selects:
`connected` leaves out the AI, which together with fairness takes too long; `ConnectedObeys` (section
4) has it. *Lengths* of `camera`: a header of 2 and an image of 2 with a first read of 3 have every case of
16 bytes read for a header of 7 - less than the header, just the header, some of the image, all of it -
and a window of 2 makes the sender wait for the reader. `DefaultSize` is as long as the image
and `MaxConns`, `MaxQueue` 2 are one more than what a single image needs; the proofs have
no such bound. *Fields*: values on either side of every sign, byte and clamp. *Joystick*: positions around
the dead zone, a turn of 0.1 to 0.3 s, sliders that are off, at rest, between presets and at the end; `MaxPending` 2
closures, as a third does what the second did. *Pool*: three threads and three tasks, so that a
thread may find none, one or two; two and two are enough for the crossing of `pool_waits`. The eight places
of the first realloc are not reached. *Sizes* 1 to 9, and images of 6 x 6 with up to three threads: chunks that divide the size and
chunks that do not; white around four lines of three kinds gives clusters that are too small, ones of several
segments, and repeated points. `MinPoints` and `MinDiff` are 5 as in `apriltag_detector_create`; a cluster of 5 goes
through the largest sorting network, one of more through the merge. *Greys*: 9 x 13 with one pixel that differs,
anywhere: darker by just `MinDiff`, brighter by one less than that, or much brighter; tiles at a corner, an
edge and inside, and partial ones on either side. *Rings* of 24 points, the fewest that are not refused, with up to eight peaks of
two heights, so that ties at the cut happen, and one that is too short; lines of errors 0, 1 and 2 in no order of the geometry, or
as many as there are corners skipped, or too poor in sum, with corners that are too flat or none. `MaxMaxima`, 10 in the code, is 6, which
eight peaks exceed. *Side* 3: the smallest word that is changed by a quarter turn and has a middle. *Scenes*:
four detections with any of the 64 ways to overlap, ranked one after the other or with two alike.

`quiet_console` and the base station's counterexamples have `CHECK_DEADLOCK FALSE`: the program ends
after the window closes. So has `pool_waits`: after a crossing the pool may stop for good.

### Fairness
`Bler!Fairness`: each started thread keeps running (weak fairness per thread, because a thread is
never disabled for long by another: there are no locks) and the clock advances. Nothing promises
that a datagram arrives nor that TCP finishes with an image. `BaseStation!Fairness`: the joystick
thread runs, and a handler the dispatcher has entered runs to its end; nothing makes the operator
press a button. `Lame!Fairness`: reader, worker and callbacks keep running (each callback is a
thread pool thread of its own), and a datagram that is under way again and again is received
(`Received`), and on the base station's side handled (`Answered`), again and again. This is stated
directly and not as strong fairness of the receiving action: a datagram waits in the socket's
buffer while the reader is busy, but a model with one network set could lose each copy just before
the reader comes back. Without some such assumption no protocol over UDP does anything.
`CameraImage!Fairness`: both senders, the listener, the dispatcher and a closing window go on; nothing
makes a frame come or the window close. Only because the robot stays reachable does a
connection end; a robot switched off in the middle of an image would hold the listener's Read.
`Parts!Fairness`: the joystick thread and the dispatcher, the workers of the pool and its caller once it is
inside `workerpool_run` or `workerpool_destroy`.

### Disagreements found
Each has a run that TLC ends with a counterexample, and an entry in `PROJECT.json`.

- `dead_ai`: "AI is probably dead, revert to remote control", but `Run` never starts that thread.
- `drive_times_out`: "timeout: 2 seconds" is of a stamp that REMOTE_SWITCH renews; a payload whose time had passed
  is let through again after a reconnect.
- `update_is_tried`: "Updating drive mode" may disconnect and start nothing.
- `ai_connects`: the robot has no case for the worker's AI_INIT; a switch to AI is asked for for ever.
- `switched_successfully`: "Mode switched successfully" on a late acknowledgement of another switch.
- `pool_waits`: "waits for them to complete" (workerpool.c:182) fails when a thread reports between the reset of
  `end_count` (186) and the broadcast (189): it is woken, reports again, and the caller is let go while another
  still has a task. The detector's default of one thread (apriltag.c:352) uses no pool.

Further observations, which can be read off the models without a run of their own:

- A press reported as ignored (MainWindow.xaml.cs:563) has changed address and mode (545, 548) under the
  worker that is connecting (`BaseStation!GoButtonClicked`).
- AI_INIT, under the comment "begin mining cycle" (BLER.cpp:164), goes to whoever asked for the switch
  and not to `aiAddr` (`Bler!AiSwitch`).
- The camera thread sends to `baseStationAddr` before anything was received, when it is uninitialised
  (`Bler!CameraSend` with `Unset`).
- "Returns 1 on success" (Packet.h:151): `ReadPacketHeader` returns the decoded length, at least 4, and
  the parsers in PacketHandler.cpp (156, 183, 223) that compare it with 1 always fail
  (`PacketFields!ParseReport` always refuses).
- The README's packet structure is that of `PacketCodec!Layout`; what is sent is the stuffed frame.
- The encoder packets are passed on (BLER.cpp:212, 217) after they were unstuffed in place.
- "Connection closed" (MainWindow.xaml.cs:123) leaves `isConnected` set and ends the receiving for
  good, so that a later worker waits for answers nobody receives (`BaseStation!ReceiveError`).
- The worker can find both its flags clear, "Invalid connection state" (335), as it reads
  `isConnected` twice (`WorkerQueryFlag`, `WorkerSetFlag`).
- A socket that could not be bound is forgotten open (UdpSocket.cpp:46, `RobotStart!SocketFails`). The
  check of main.cpp:20 lets `--serialport` without a value through.
- Where the chunks come out even, the last line of the image is connected to the one before but not
  itself walked along (`Chunks!Forgotten`, apriltag_quad_thresh.c:1546 and 1559), other than with one thread.
- Pixels past the last whole tile never become 127, whatever their contrast (`Threshold!Binary`,
  apriltag_quad_thresh.c:1297-1322), and of an image smaller than a tile the code would read tile -1
  (`GreyAssumption`).
- At the cut to `max_nmaxima` all candidates that tie with the first one too many are dropped (`>`, apriltag_quad_thresh.c:488),
  so that fewer than `max_nmaxima` may be left, even none (`Corners!Select`).
- The noise added to a cluster's centre (apriltag_quad_thresh.c:707) matters to the result: without it
  points of one angle are left and those found several times may not come next to each other
  (`Segments!ExactCentre` violates `BordersOnce`).
- What is reported depends on the order in which the threads add their detections: of a chain A, B, C
  in which B overlaps both and A is best, C is kept or dropped according to whether it meets B before A does
  (`Reconcile`; the promise that holds is `TagsReportedOnce`).

## 4. Proofs

The proofs are in modules of their own. They assume the named assumptions of the model modules:
that `Halt` and `Idle` are payload values, that the addresses are distinct, that the limits are natural
numbers (any), that the packets fit the buffer and the `uint8_t` counters, and of `Parts` those gathered in
`PartsAssumption`.

- `FailSafeProofs!TypeCorrect`, `MonTypeCorrect`, `BaseStationProofs!TypeCorrect`, `CameraImageProofs!TypeCorrect`:
  type invariants, by one step per action. No run checks those of `FailSafe` and `CameraImage` on its own.
- `FailSafeProofs!Invariance`: `FailSafeInv` is inductive. `StopsWhenSilent` alone is not: the second
  late write holds the wheels only since the period that made it *began* when the command was
  already too old. `StopInv` says so for a write under way, `OrderInv` for each piece of the
  copy; `QuietInv` says that one write in AI mode leaves the loop asleep. From it follow
  `SilentRobotStops`, `AiModeQuiet`, `TornDriveHeals` and, step by step, `ImplementsDeadMan`. None of this depends on which threads are
  started: the guarantees would survive the watchdog, which no run of `FailSafe` includes.
  `FreshPasses` has the invariant `FreshInv`: outside lines 206 and 207 the stamp is no older than the payload, and a
  period of the loop that began after them has copied the payload whole, so that the check lets it through.
- `PacketCodecProofs`, and on it `PartsProofs!CodecInvariance`: the loop invariants. Byte `k` of a frame is the distance to the
  next zero of the packet when `k` begins a section and the packet's byte `k - 1` otherwise
  (`Stuffed`); `encodeCOBS` has made this true up to `sec`, `decodeCOBS` has undone it up to `i`. Hence
  `OneDelimiter`, `FramingLosesNothing` and `ReadsStayInside`, for every packet that fits, every
  buffer and every left-over byte.
- `BaseStationProofs!SendsReal`: whoever may send - the worker past its start, a connected base
  station, a timer that looked - implies an endpoint and a mode other than Direct; the invariant
  follows that through every thread's program counter.
- `BaseStationProofs!AtMostOneStray`: after a stray packet the joystick thread is back at the top of its
  loop, or has yet to fail the second check.
- `LameProofs!ConnectedObeys`: over the network and for every choice of modes. The robot leaves Remote
  mode for nothing that this base station sends, so an acknowledgement anywhere - under way, being
  handled, or turned into a flag - means that the robot is in Remote mode and has this address.
- `CameraImageProofs!ShownIsWhatWasSent`, `NewestOpen`: `ImageInv` says that a connection is not used again
  while listener or backlog hold it (`HeldInv`), that the buffer holds the last positions that were
  read, in their order, beginning with the image's first if the header was whole (`BufferInv`), and
  that what is parsed is that (`ParsedInv`). `TypeOK` needs
  `StreamInv`: there are more tokens than the dispatcher, `currentImgStream` and the closed streams can
  hold, so that a fresh one always exists.
- `PartsProofs`: a step of `Parts` is a step of one component (`StepOfOne`), and each theorem
  is that component's own. `StartWhole`: what each place of `Run` has behind it. `FramesWhole`: a
  buffer that is being written is referred to only by `img`. `FieldsArrive`: the bytes of every field are where it is
  looked for, for all integers. `SpeedAsked`: a speed is a preset, a slider's position, or one increment above
  either that `Cap` has yet to see. `PressHeard`, if a turn lasts at most 0.7 s (`MaxLag <= 7`; a
  longer one can step over the 0.7 s of each second in which the toggle listens): the number of ignored turns and
  `since` bound each other. `LostStops`: past the check, one packet. `TasksApart`: the chunks are intervals that do
  not touch, by the arithmetic of `Chunks`. `ReportedOnce`: the invariant splits the array at `i0` and `i1` - detections
  before `i0` overlap none of their tag, and whatever was dropped has a better or equal one that it overlapped.
  `EdgesAreSeen` is for images of any size: the extremes of a tile, once spread, bound every pixel within a tile's
  size of it (`GreyInv`, over `TilesOK`'s arithmetic of tiles), and between two levels apart the threshold lies
  at or above the dark and below the bright one (`HalfWay`). It
  needs that a finite set of numbers has a greatest element (`GreatestOf`).
- `PartsProofs!PartsTypes`: the values of every variable of the start, the frames, the packets and the joystick. That the
  payload has at most twelve bytes follows from the fields' order and widths.
- `PartsProofs!DecodedNearest`, for tags of any size and families whose codes and turns are more than twice
  `maxhamming` apart: the flipped words of different codes then differ, so at most one entry is right for a word
  in any of its turns (`TurnsOK`: a quarter turn is a permutation of the bits and keeps distances). That a lookup ends
  there needs the table: its entries are at most a third of its buckets (`ReckonedOK` counts the choices of up to
  three bits and compares them with the code's `capacity`), and on the way from an entry's own bucket to where it
  lies none is free (`TableOK`), which adding keeps. `DecodeInv` joins the two with what is still to add.
- `ImageProofs!SegmentsAreWhole`, for images of any size, any number of threads and any interleaving of their
  lines: some map from pixels to roots describes the forest (`Rooted`: parents lie in the pixel's own class, a root's
  size is that of its class, and sizes grow from child to parent, so that ways end) and joins what
  the edges connected so far join (`Joins`: ends of an edge have one root, and a set closed under the edges that holds a pixel
  holds its class). Collapsing a path keeps the map, grafting a root merges two classes, and a line adds the edges that
  its pixels try. `SegmentsInv` is that invariant with the edges of all lines done; the
  chunks and the stitching then leave out just `Forgotten`.
- `ImageProofs!BordersAreWalked`, for images of any size and any number of threads: a cluster that is kept has every
  point between its two segments and no other, no two neighbours of the walk are at one place, and no angle is
  lower than the one before (`BordersWalked`); if no two places of it lie at one angle, each place is there once, at
  a greater angle than the one before, which is `BordersOnce`. The links that `Points` gathers are the pairs on
  either side of a border (`LinkOK`, `PointsOK`), by
  `SegmentsInv` and because roots are components. The number that stands for a point's angle, how many of
  the points lie lower, orders them as `Lower` does (`RankOK`), which is an order
  because the centre's noise puts no point level with it (`OffSlanted`). The hand-written networks for two to five points
  sort by it (`NetworkedOK`), merging keeps the points and the order (`MergedOK`), so sorting does
  (`PtSortOK`, over the halvings of the list), and `Deduped` keeps every place and leaves no two alike beside each other (`DedupedOK`). `BorderInv` joins these.
- Recursive functions. What the proofs about decoding, segments and borders state is computed by recursive functions of
  the model (ways, reach, the value of a word, the lines of a task, what is left of a prefix, merging, sorting by halves), of
  which a proof first needs that the CHOOSE behind them finds something.
  `UpTo` is induction on an interval, from the least number that fails; `Recursion` gives the solution of a recursion
  over an interval, `KeptRecursion` the same for a list that grows, `RankRecursion` of one along a map whose ranks
  rise and `TreeRecursion` of one by halves. They are stated with sets and functions in
  place of operators, so that the provers can use them.
- `WorkerPoolProofs!PoolRunWaits`, and `PartsProofs!ImplementsBatches` and `TasksApart` on the same invariant, for threads
  that come as late as they like, up to a crossing. `Uncrossed` has a part for each stage of the caller: while tasks are added (`Taking`) a
  thread may have taken any of them, while a run goes on (`Running`) `end_count` is the number of threads that wait again, each slot up to
  `taskspos` is held by one worker or its task is done, and so `nthreads` reports leave nothing undone; the end of the pool
  (`Stopping`) has as many exit tasks as threads. That no step carries out a task twice, or
  one while the caller clears, is what `ImplementsBatches` says beyond `RunWaits`: a worker that still held a task
  after the wait would carry it out at a time when `Batches` allows nothing.

Only model-checked: liveness (`SilenceStops`, `WindowCloses`,
`RemoteConnects`, `SendReturns`, `ListenerEnds`, `OverrideWins`, `RunReturns`), since the prover has no fairness.
So is `BestQuadFound`, whose candidates a filter
of a sequence (`SelectSeq`) gathers and four nested loops go through. Every other property of the passing runs is stated by a
theorem; `BordersOnce` by one with a condition on the angles, since it is not true of every image: nothing keeps the repetitions of
two points of one angle from alternating. The run shows it without the condition for its images. `Parts` states its types for the start, the frames, the packets and
the joystick; the other parts' values are in the invariants above.

## 5. Not modelled

*apriltags' numbers.* The moments and fitted lines behind the errors of `Corners` (`fit_line`, apriltag_quad_thresh.c:232-356), the quad drawn from four lines,
the refinement of edges, homographies, `matd`, `svd`, `g2d` and the decision margins are floating point; what they
compute is a question of accuracy that a finite model cannot put. Where control depends on them the models take the
outcome exact or as given: `Segments` compares angles without `atan2f`'s rounding, so two points of nearly one angle that
round together are told apart; of the gradients it keeps the signs; `Reconcile` takes the outcome of the overlap test and the preferences as given,
and `QuickDecode` the word that was read. *apriltags' support code*: `zhash`, `getopt`,
`string_util`, `zmaxheap` (with `quad_segment_agg`, which nothing calls), `pjpeg` and the image files are containers and readers that no thread of the robot reaches;
of `zarray` only what `WorkerPool` and `Reconcile` rely on (clearing keeps the memory, removing with a
shuffle) is in the models. These files are most of the repository's lines.

The logger, the GUI's appearance and the locator are left out. An uncaught exception (a
`SocketException` of `Send` in the worker) ends the process and with it the model. Within `BLER` the
settings of the JPEG encoder (written by the reader while `imencode` may read them, an `int` in place) change
nothing but the quality of an image.

The memory model is sequentially consistent, one access at a time. The fields are plain in C++ and
C#; that a compiler may keep one in a register is not modelled. Loops sleep between turns, through
calls the compilers cannot see into. Condition variables of the pool wake nobody without a broadcast; a
spurious wake-up would let a worker report twice. What a thread of the pool writes is seen by the caller in the order it was written, and
an array that was moved under a thread (a crossing) is followed no further.

A `send` to a connection that was reset ends a model's image; on the robot the next one to the same connection would raise SIGPIPE and
end the process. The joystick thread of `BaseStation` hands the dispatcher no closures (those are in `Joystick`), so that a closing
window waiting for a thread that in turn waits for the dispatcher, as `Invoke` in place of `BeginInvoke` would make it, is not
represented. Turns of the joystick thread longer than 0.3 s in the run, and 0.7 s in the proof, are outside. In `Lame` this base
station alone sends, so that nobody else can take the robot's address over. A connection that never gives the listener the rest of an
image is outside `camera`.

## 6. Plan

The modules of section 2 are there. What would come next, in this order:

1. `Lame` with a robot that restarts, and with the watchdog started; `connected` with the AI among the
   choices.
2. A robot that vanishes in the middle of an image: a listener whose Read never ends, and what
   closing the window then does.
3. An abstract specification of a connection (idle, trying, connected) that `BaseStation` implements.
4. The watchdog of `threads_live` and the base station's end of AI mode together.
5. A proof of `BestQuadFound`, by induction over the turns of the four loops.
