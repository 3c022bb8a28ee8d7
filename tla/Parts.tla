--------------------------------- MODULE Parts --------------------------------
(***************************************************************************)
(* Components of their own, which share no state with each other: the      *)
(* start of the robot's program, the frames of its cameras, the framing    *)
(* and the payloads of the packets, the joystick thread of the base        *)
(* station, and what apriltags makes of an image: the thread pool, the     *)
(* threshold, the segments and their borders, the corners, the decoded     *)
(* tags and their reconciliation.  A behaviour is one of "which".          *)
(***************************************************************************)
EXTENDS Integers, FiniteSets, Sequences

CONSTANTS
    NoHandle,                                       \* RobotStart
    Buffers, NoFrame,                               \* CameraFrames
    ByteSize, BufferSize, HeaderByte, EndByte, Packets, Noise, Stale,   \* PacketCodec
    Int8s, Int16s, Settings,                        \* PacketFields
    Positions, Squeezes, Sliders, MaxLag, MaxPending,       \* Joystick
    MaxThreads, MaxTasks, Target, Sizes,                    \* Detector
    MinDiff, Greys,                                 \* Threshold
    Width, Height, Images, MinPoints,               \* Segments
    MaxMaxima, MaxErr, Rings,                       \* Corners
    Side, Families, Empty,                          \* QuickDecode
    Scenes                                          \* Reconcile

VARIABLES
    which,
    place, socketOpen, serialOpen, socketHandle, serialHandle, opened, cameras,
    isRunning, started,
    latest, img, turn, encoding,
    codecPc, codecPacket, codecBuf, codecLen, codecI, codecSec,
    step, kind, fields, payload, parsed,
    part, jsPc, enumerating, plugged, input, divisor, speed, sum, since, pending,
    slider, sent, ignored, blind,
    nthreads, caller, workerPc, slot, size, slots, taskspos, end_count, done,
    crossed,
    grey, pass, im_max, im_min, threshim,
    image, threads, lines, forest, clusters, stage,
    ring, found, maxima, tried, indices,
    family, entries, todo, rcode, entry,
    scene, phase, detections, i0, i1

Start == INSTANCE RobotStart
Frames == INSTANCE CameraFrames
Codec == INSTANCE PacketCodec WITH
    pc <- codecPc, packet <- codecPacket, buf <- codecBuf, len <- codecLen, i <- codecI,
    sec <- codecSec
Fields == INSTANCE PacketFields
Stick == INSTANCE Joystick WITH pc <- jsPc
Pool == INSTANCE Detector WITH pc <- workerPc
Grey == INSTANCE Threshold
Segs == INSTANCE Segments WITH im <- image, n <- threads, at <- lines, data <- forest
Ring == INSTANCE Corners WITH place <- found, at <- tried
Code == INSTANCE QuickDecode WITH D <- Side
Tags == INSTANCE Reconcile

startVars == <<place, socketOpen, serialOpen, socketHandle, serialHandle, opened,
               cameras, isRunning, started>>
framesVars == <<latest, img, turn, encoding>>
codecVars == <<codecPc, codecPacket, codecBuf, codecLen, codecI, codecSec>>
fieldsVars == <<step, kind, fields, payload, parsed>>
stickVars == <<part, jsPc, enumerating, plugged, input, divisor, speed, sum, since,
               pending, slider, sent, ignored, blind>>
poolVars == <<nthreads, caller, workerPc, slot, size, slots, taskspos, end_count, done,
              crossed>>
greyVars == <<grey, pass, im_max, im_min, threshim>>
segsVars == <<image, threads, lines, forest, clusters, stage>>
ringVars == <<ring, found, maxima, tried, indices>>
codeVars == <<family, entries, todo, rcode, entry>>
tagsVars == <<scene, phase, detections, i0, i1>>
imageVars == <<greyVars, segsVars, ringVars, codeVars, tagsVars>>

vars == <<which, startVars, framesVars, codecVars, fieldsVars, stickVars, poolVars, imageVars>>

ASSUME PartsAssumption ==
    /\ Codec!CodecAssumption /\ Fields!FieldAssumption /\ Stick!ControlAssumption
    /\ Pool!PoolAssumption /\ Pool!ChunkAssumption
    /\ Grey!GreyAssumption /\ Segs!ImageAssumption /\ Ring!RingAssumption
    /\ Code!FamilyAssumption /\ Tags!SceneAssumption

-----------------------------------------------------------------------------
Init ==
    /\ which \in {"start", "frames", "framing", "fields", "joystick", "pool",
                  "threshold", "segments", "corners", "decode", "reconcile"}
    /\ Start!Init /\ Frames!Init /\ Codec!Init /\ Fields!Init /\ Stick!Init /\ Pool!Init
    /\ Grey!Init /\ Segs!Init /\ Ring!Init /\ Code!Init /\ Tags!Init
    /\ which # "joystick" => part = "wheel"         \* part is Joystick's alone

packetVars == <<codecVars, fieldsVars>>

IsStart ==
    /\ which = "start"
    /\ UNCHANGED <<which, framesVars, packetVars, stickVars, poolVars, imageVars>>
IsFrames ==
    /\ which = "frames"
    /\ UNCHANGED <<which, startVars, packetVars, stickVars, poolVars, imageVars>>
IsCodec ==
    /\ which = "framing"
    /\ UNCHANGED <<which, startVars, framesVars, fieldsVars, stickVars, poolVars, imageVars>>
IsFields ==
    /\ which = "fields"
    /\ UNCHANGED <<which, startVars, framesVars, codecVars, stickVars, poolVars, imageVars>>
IsJoystick ==
    /\ which = "joystick"
    /\ UNCHANGED <<which, startVars, framesVars, packetVars, poolVars, imageVars>>
IsPool ==
    /\ which = "pool"
    /\ UNCHANGED <<which, startVars, framesVars, packetVars, stickVars, imageVars>>
IsImage(name) ==
    /\ which = name
    /\ UNCHANGED <<which, startVars, framesVars, packetVars, stickVars, poolVars>>

Next ==
    \/ IsStart /\ Start!Next
    \/ IsFrames /\ Frames!Next
    \/ IsCodec /\ Codec!Next
    \/ IsFields /\ Fields!Next
    \/ IsJoystick /\ Stick!Next
    \/ IsPool /\ ~crossed /\ Pool!Next             \* followed up to a crossing
    \/ IsPool /\ crossed /\ UNCHANGED poolVars
    \/ IsImage("threshold") /\ Grey!Next
       /\ UNCHANGED <<segsVars, ringVars, codeVars, tagsVars>>
    \/ IsImage("segments") /\ Segs!Next
       /\ UNCHANGED <<greyVars, ringVars, codeVars, tagsVars>>
    \/ IsImage("corners") /\ Ring!Next
       /\ UNCHANGED <<greyVars, segsVars, codeVars, tagsVars>>
    \/ IsImage("decode") /\ Code!Next
       /\ UNCHANGED <<greyVars, segsVars, ringVars, tagsVars>>
    \/ IsImage("reconcile") /\ Tags!Next
       /\ UNCHANGED <<greyVars, segsVars, ringVars, codeVars>>

\* The fairness of Joystick and of WorkerPool.
Fairness ==
    /\ WF_vars(IsJoystick /\ Stick!ReadJoystickValues)
    /\ WF_vars(IsJoystick /\ Stick!Override)
    /\ WF_vars(IsPool /\ Pool!Inside)
    /\ \A w \in 1 .. MaxThreads : WF_vars(IsPool /\ Pool!Worker(w))

Spec == Init /\ [][Next]_vars
FairSpec == Spec /\ Fairness

-----------------------------------------------------------------------------
\* Every variable stays within the values the code can give it.
PartsTypeOK == Start!TypeOK /\ Frames!TypeOK /\ Fields!TypeOK /\ Stick!TypeOK

\* No thread of the robot meets an endpoint that is not open (BLER.cpp:412-457).
StartedIsWhole == Start!StartedIsWhole

\* Nobody reads the frame that a camera writes (BLER.cpp:236, 383).
FramesUntorn == Frames!FramesUntorn

\* The only zero of a frame is its last byte (Packet.h:93).
FrameHasOneDelimiter == Codec!FrameHasOneDelimiter

\* What is sent is what is read, whatever the buffer held (Packet.h:117, 155).
RoundTrip == Codec!RoundTrip

\* Decoding stays within the datagram (Packet.h:165).
ReadsInside == Codec!ReadsInside

\* The loops of encodeCOBS and decodeCOBS keep their invariants (Packet.h:93, 117).
CodecInv == Codec!CodecInv

\* Every field of a packet arrives as the value it was given (Packet.h:244-398).
FieldsSurvive == Fields!FieldsSurvive

\* What is sent was asked for by preset, slider or stick (MainWindow.xaml.cs:406-512).
PresetOrSlider == Stick!PresetOrSlider

\* A held button is heard within four turns (MainWindow.xaml.cs:420, 436).
PressIsHeard == Stick!PressIsHeard

\* One packet at most repeats a joystick that is gone (MainWindow.xaml.cs:382-395).
LostJoystickStops == Stick!LostJoystickStops

\* A slider at rest wins over the presets (MainWindow.xaml.cs:476-486).
OverrideWins == Stick!OverrideWins

\* The pool carries out a list of tasks as Batches says, which knows no threads: each
\* task once, all of them before the caller is let go, and nothing while the list is
\* taken down (workerpool.c:67-101, 182-205), up to the step in which a thread crosses
\* the caller.  A pool that is being taken down has an empty list.
Batch == INSTANCE Batches WITH
    Tasks <- 1 .. MaxTasks,
    doing <- IF caller \in {"start", "asleep", "woken"} THEN "running"
             ELSE IF caller \in {"rewind", "clear"} THEN "over"
             ELSE "collecting",
    listed <- IF caller \in {"none", "stop", "join"} THEN 0 ELSE size,
    done <- done

RunsAreBatches == Batch!Init /\ [][~crossed' => Batch!Next]_(Batch!bvars)

\* Tasks that run at once write no row both, and leave nothing out
\* (apriltag_quad_thresh.c:1543).
TasksDoNotMeet == Pool!TasksDoNotMeet

\* No edge is taken for low contrast, wherever the tiles end
\* (apriltag_quad_thresh.c:1216-1322).
EdgesSurvive == Grey!EdgesSurvive

\* Two pixels have one representative just when they belong together
\* (unionfind.h:95-156, apriltag_quad_thresh.c:1095-1126).
SegmentsAreComponents == Segs!SegmentsAreComponents

\* A cluster has each point of a border once, in the order of a walk around it
\* (apriltag_quad_thresh.c:119-232, 690-777, 1572-1640).
BordersOnce == Segs!BordersOnce

\* The four peaks of a border that make the best quadrilateral are found
\* (apriltag_quad_thresh.c:480-563).
BestQuadFound == Ring!BestQuadFound

\* A word is decoded as the tag it is nearest to (apriltag.c:172-261, 289-314).
DecodesNearest == Code!DecodesNearest

\* No tag is reported twice, and the best of each is (apriltag.c:1280-1349).
TagsReportedOnce == Tags!TagsReportedOnce

\* A run ends, and so does the pool, unless a thread crosses the caller
\* (workerpool.c:136-145, 191-194).
RunReturns == Pool!RunReturns
=============================================================================
