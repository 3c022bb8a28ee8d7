----------------------------- MODULE CameraFrames -----------------------------
(***************************************************************************)
(* Frames on the robot: CameraReadThread takes them, SendCameraImage       *)
(* copies one out under cameraMutex and encodes it without the mutex.  A   *)
(* cv::Mat is a counted reference to a buffer of pixels: copying it copies *)
(* the reference, and reading a camera into it writes the buffer.          *)
(***************************************************************************)
EXTENDS Naturals

CONSTANTS
    Buffers,        \* where frames can be
    NoFrame         \* a cv::Mat without data

VARIABLES
    latest,         \* latestCameraFrame and latestCamera1Frame, by camera
    img,            \* CameraReadThread's img and img1
    turn,           \* where CameraReadThread is
    encoding        \* the frame that each thread in SendCameraImage holds

vars == <<latest, img, turn, encoding>>

-----------------------------------------------------------------------------
Cameras == {0, 1}
Threads == {"cameraSend", "udpRead"}
Frames == Buffers \cup {NoFrame}

Init ==
    /\ latest = [c \in Cameras |-> NoFrame]
    /\ img = [c \in Cameras |-> NoFrame]
    /\ turn = "camera"
    /\ encoding = [t \in Threads |-> NoFrame]

-----------------------------------------------------------------------------
(* CameraReadThread *)

Held == {latest[c] : c \in Cameras} \cup {img[c] : c \in Cameras} \cup
        {encoding[t] : t \in Threads}

Camera == IF turn \in {"camera", "write"} THEN 0 ELSE 1
Reads == [camera |-> "write", camera1 |-> "write1"]
Then == [camera |-> "camera1", write |-> "camera1", camera1 |-> "store",
         write1 |-> "store"]

\* Where camera >> img writes: img is a new object in each turn, without a
\* buffer, and gets one that nobody refers to.
OldOrNew == IF latest[Camera] = NoFrame THEN Buffers \ Held    \* mutant: img is
            ELSE {latest[Camera]}                           \* kept over turns
New == Buffers \ Held

BeginRead ==
    /\ turn \in {"camera", "camera1"}
    /\ \E b \in New : img' = [img EXCEPT ![Camera] = b]
    /\ turn' = Reads[turn]
    /\ UNCHANGED <<latest, encoding>>

EndRead ==
    /\ turn \in {"write", "write1"}
    /\ turn' = Then[turn]
    /\ UNCHANGED <<latest, img, encoding>>

\* Not opened, or it has nothing to give.
NoRead ==
    /\ turn \in {"camera", "camera1"}
    /\ turn' = Then[turn]
    /\ UNCHANGED <<latest, img, encoding>>

\* Under cameraMutex.  A camera that gave nothing leaves its last frame.
Store ==
    /\ turn = "store"
    /\ latest' = [c \in Cameras |-> IF img[c] = NoFrame THEN latest[c] ELSE img[c]]
    /\ img' = [c \in Cameras |-> NoFrame]
    /\ turn' = "camera"
    /\ UNCHANGED encoding

-----------------------------------------------------------------------------
(* SendCameraImage *)

\* Under cameraMutex.  CameraSendThread sends camera 1, the UDP reader the one it
\* is asked for; without a frame there is nothing to send.
Copy(t, c) ==
    /\ encoding[t] = NoFrame
    /\ t = "cameraSend" => c = 1
    /\ encoding' = [encoding EXCEPT ![t] = latest[c]]
    /\ UNCHANGED <<latest, img, turn>>

\* The copy lives until SendCameraImage returns (CameraImage).
Release(t) ==
    /\ encoding[t] # NoFrame
    /\ encoding' = [encoding EXCEPT ![t] = NoFrame]
    /\ UNCHANGED <<latest, img, turn>>

Next ==
    \/ BeginRead \/ EndRead \/ NoRead \/ Store
    \/ \E t \in Threads : Release(t) \/ \E c \in Cameras : Copy(t, c)

Spec == Init /\ [][Next]_vars

-----------------------------------------------------------------------------
\* Every variable stays within the values the code can give it.
TypeOK ==
    /\ latest \in [Cameras -> Frames]
    /\ img \in [Cameras -> Frames]
    /\ turn \in {"camera", "write", "camera1", "write1", "store"}
    /\ encoding \in [Threads -> Frames]

\* While a camera writes a frame nobody reads the buffer it is written to, neither
\* through latestCameraFrame nor in a thread that encodes the frame it copied
\* out of there (BLER.cpp:236, 383): the mutex need not cover reading a camera.
FramesUntorn ==
    turn \in {"write", "write1"} =>
        /\ \A c \in Cameras : img[Camera] # latest[c] /\ (c # Camera => img[c] # img[Camera])
        /\ \A t \in Threads : encoding[t] # img[Camera]
=============================================================================
